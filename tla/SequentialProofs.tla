--------------------------- MODULE SequentialProofs ---------------------------
(* Proofs about the components that one thread uses at a time: the statements and the numbers *)
(* of the MySQL driver, the hash map, the tree of commands, the configuration and the         *)
(* context. Each is proved about as the component alone; AllSafe puts them together.          *)
EXTENDS MCSequential, FiniteSetTheorems, SequenceTheorems, WellFoundedInduction, TLAPS

-----------------------------------------------------------------------------
(* The statements of the MySQL driver and the memory behind them, for any statements and      *)
(* numbers of parameters and columns.                                                         *)

Struct == [handle : Pointer, type : [Param -> Types], buffer : [Param -> Pointer],
           str : [Param -> Pointer], data : Pointer, field : [Field -> Pointer], bound : Pointer]

Caller == [at : {"idle", "set", "rows", "next"}, s : Stmt \cup {NoStmt}, given : SUBSET Param,
           result : Pointer, many : BOOLEAN, row : BOOLEAN, column : 0 .. FieldCount,
           held : SUBSET Block]

Typed ==
    /\ stmt \in [Stmt -> Struct] /\ user \in Caller
    /\ heap \subseteq Block /\ used \in 0 .. MaxBlocks /\ lost \subseteq Block
    /\ unread \in Stmt \cup {NoStmt}

\* The pointers of a statement are to different blocks.
Apart(r) ==
    /\ r.handle # Null => /\ r.handle # r.data
                          /\ \A i \in Param : r.str[i] # r.handle
                          /\ \A i \in Field : r.field[i] # r.handle
    /\ r.data # Null => /\ \A i \in Param : r.str[i] # r.data
                        /\ \A i \in Field : r.field[i] # r.data
    /\ \A i, j \in Param : r.str[i] # Null /\ r.str[i] = r.str[j] => i = j
    /\ \A i, j \in Field : r.field[i] # Null /\ r.field[i] = r.field[j] => i = j
    /\ \A i \in Param, j \in Field : r.str[i] # Null => r.str[i] # r.field[j]

\* What a statement owns, what every statement owns, and what the result owns.
Own(r, b) ==
    /\ b # Null
    /\ \/ b = r.handle \/ b = r.data
       \/ \E i \in Param : b = r.str[i]
       \/ \E i \in Field : b = r.field[i]
Owned == [s \in Stmt |-> Reachable(s)]
OfResult == {user.result} \ {Null}

\* Every live block has exactly one owner: a statement, the result, or nobody (it is lost).
OneOwner(own, live, gone, res, last) ==
    /\ live \subseteq 1 .. last
    /\ gone \subseteq live /\ res \subseteq live /\ gone \cap res = {}
    /\ \A s \in Stmt : own[s] \subseteq live /\ own[s] \cap gone = {} /\ own[s] \cap res = {}
    /\ \A s, t \in Stmt : s # t => own[s] \cap own[t] = {}
    /\ \A b \in live : b \in gone \cup res \/ \E s \in Stmt : b \in own[s]

\* What the caller may be in the middle of.
Operation ==
    /\ user.at # "idle" => user.s \in Stmt
    /\ user.at # "rows" => user.result = Null /\ user.held = {} /\ unread = NoStmt
    /\ \A b \in user.held : \E i \in Field : i <= user.column /\ b = stmt[user.s].field[i]
    /\ RowsWhereRead

Buffers == \A s \in Stmt, i \in Param :
    stmt[s].type[i] = "string" => stmt[s].buffer[i] = stmt[s].str[i]

Memory ==
    /\ Typed
    /\ \A s \in Stmt : Apart(stmt[s])
    /\ OneOwner(Owned, heap, lost, OfResult, used)

\* The inductive invariant.
IInv == Memory /\ Operation /\ FreshParameters /\ Buffers

-----------------------------------------------------------------------------
(* Ownership                                                                *)

Reach(r) == ({r.handle, r.data} \cup Values(r.str) \cup Values(r.field)) \ {Null}

LEMMA ReachIsOwn ==
    ASSUME NEW r \in Struct, NEW b
    PROVE  b \in Reach(r) <=> Own(r, b)
<1>1. DOMAIN r.str = Param /\ DOMAIN r.field = Field
  BY DEF Struct
<1> QED
  BY <1>1 DEF Reach, Own, Values

\* A statement s gives up, frees and gets blocks: each block it had, or has allocated, has one
\* owner afterwards, or is free.
LEMMA Transfer ==
    ASSUME NEW own, NEW own2, NEW live, NEW gone, NEW res, NEW last \in Nat,
           OneOwner(own, live, gone, res, last),
           NEW s \in Stmt, NEW G, NEW L, NEW res2, NEW last2 \in Nat, last <= last2,
           \A t \in Stmt : t # s => own2[t] = own[t],
           \A b \in G : b = Null \/ b \in own[s] \cup res,
           \A b : b \in own2[s] \cup L \cup res2
                    <=> (b \in own[s] \cup res /\ b \notin G) \/ b \in last + 1 .. last2,
           own2[s] \cap L = {}, own2[s] \cap res2 = {}, L \cap res2 = {}
    PROVE  OneOwner(own2, (live \ G) \cup (last + 1 .. last2), gone \cup L, res2, last2)
<1> DEFINE Fresh == last + 1 .. last2
<1>1. /\ \A b \in live : b \in 1 .. last2 /\ b \notin Fresh /\ b # Null
      /\ \A b \in Fresh : b \in 1 .. last2
  <2>1. \A b \in 1 .. last : b \in 1 .. last2 /\ b \notin Fresh /\ b # Null
    BY DEF Null
  <2>2. \A b \in Fresh : b \in 1 .. last2
    OBVIOUS
  <2>3. live \subseteq 1 .. last
    BY DEF OneOwner
  <2> QED
    BY <2>1, <2>2, <2>3, Zenon
<1> DEFINE live2 == (live \ G) \cup Fresh
<1>2. live2 \subseteq 1 .. last2
  BY <1>1
<1> USE <1>1
<1> HIDE DEF Fresh
<1>3. \A b : b \in own2[s] \cup L \cup res2 <=> (b \in own[s] \cup res /\ b \notin G) \/ b \in Fresh
  BY DEF Fresh
<1>4. own2[s] \subseteq live2 /\ L \subseteq live2 /\ res2 \subseteq live2
  BY <1>3, Zenon DEF OneOwner
<1>5. gone \subseteq live2
  <2>1. \A b \in gone : b \in live /\ b \notin own[s] \cup res
    BY Zenon DEF OneOwner
  <2> QED
    BY <2>1, Zenon
<1>6. gone \cap own2[s] = {} /\ gone \cap res2 = {}
  BY <1>3, Zenon DEF OneOwner
<1>7. ASSUME NEW t \in Stmt, t # s
      PROVE  /\ own2[t] \subseteq live2 /\ own2[t] \cap gone = {} /\ own2[t] \cap own2[s] = {}
             /\ own2[t] \cap L = {} /\ own2[t] \cap res2 = {}
  <2>1. /\ own2[t] = own[t] /\ own[t] \subseteq live /\ own[t] \cap gone = {}
        /\ own[t] \cap res = {} /\ own[t] \cap own[s] = {}
    BY <1>7, Zenon DEF OneOwner
  <2> QED
    BY <1>3, <2>1, Zenon
<1>8. ASSUME NEW b \in live2
      PROVE  b \in (gone \cup L) \cup res2 \/ \E t \in Stmt : b \in own2[t]
  <2>1. CASE b \in Fresh
    BY <1>3, <2>1, Zenon
  <2>2. CASE b \in live /\ b \notin G
    <3>1. b \in gone \cup res \/ \E t \in Stmt : b \in own[t]
      BY <2>2, Zenon DEF OneOwner
    <3>2. CASE b \in gone
      BY <3>2
    <3>3. CASE b \in own[s] \cup res
      BY <1>3, <2>2, <3>3, Zenon
    <3>4. CASE \E t \in Stmt : t # s /\ b \in own[t]
      BY <3>4, Zenon
    <3> QED
      BY <3>1, <3>2, <3>3, <3>4, Zenon
  <2> QED
    BY <2>1, <2>2
<1>9. \A t, u \in Stmt : t # u => own2[t] \cap own2[u] = {}
  <2> SUFFICES ASSUME NEW t \in Stmt, NEW u \in Stmt, t # u PROVE own2[t] \cap own2[u] = {}
    OBVIOUS
  <2>1. CASE t # s /\ u # s
    BY <2>1, Zenon DEF OneOwner
  <2>2. CASE t = s
    BY <1>7, <2>2
  <2>3. CASE u = s
    BY <1>7, <2>3
  <2> QED
    BY <2>1, <2>2, <2>3
<1>10. \A t \in Stmt : /\ own2[t] \subseteq live2 /\ own2[t] \cap (gone \cup L) = {}
                        /\ own2[t] \cap res2 = {}
  <2> SUFFICES ASSUME NEW t \in Stmt
               PROVE  /\ own2[t] \subseteq live2 /\ own2[t] \cap (gone \cup L) = {}
                      /\ own2[t] \cap res2 = {}
    OBVIOUS
  <2>1. CASE t = s
    BY <1>4, <1>6, <2>1
  <2>2. CASE t # s
    BY <1>7, <2>2
  <2> QED
    BY <2>1, <2>2
<1>11. gone \cup L \subseteq live2 /\ res2 \subseteq live2 /\ (gone \cup L) \cap res2 = {}
  BY <1>4, <1>5, <1>6
<1>12. OneOwner(own2, live2, gone \cup L, res2, last2)
  <2> HIDE DEF live2
  <2> QED
    BY <1>2, <1>8, <1>9, <1>10, <1>11, Zenon DEF OneOwner
<1> QED
  BY <1>12 DEF Fresh

\* A block of a statement is live; the next one to be allocated belongs to nobody.
LEMMA OwnIsLive ==
    ASSUME IInv, NEW s \in Stmt, NEW b, Own(stmt[s], b)
    PROVE  b \in heap /\ b \in 1 .. used
<1>1. stmt[s] \in Struct
  BY DEF IInv, Memory, Typed
<1>2. b \in Reachable(s)
  BY <1>1, ReachIsOwn DEF Reach, Reachable, ParamStrings, FieldStrings
<1>3. b \in Owned[s]
  BY <1>2 DEF Owned
<1> QED
  BY <1>3, Zenon DEF IInv, Memory, OneOwner

LEMMA Pointers ==
    ASSUME CountAssumption, IInv, NEW s \in Stmt
    PROVE  /\ stmt[s] \in Struct /\ Apart(stmt[s]) /\ used \in Nat
           /\ stmt[s].handle \in 0 .. used /\ stmt[s].data \in 0 .. used
           /\ \A i \in Param : stmt[s].str[i] \in 0 .. used
           /\ \A i \in Field : stmt[s].field[i] \in 0 .. used
           /\ user.result \in 0 .. used
<1>1. stmt[s] \in Struct /\ used \in Nat /\ Apart(stmt[s]) /\ used \in 0 .. used
  BY DEF IInv, Memory, Typed, CountAssumption
<1>2. \A b : b # Null /\ (\/ b = stmt[s].handle \/ b = stmt[s].data
                          \/ \E i \in Param : b = stmt[s].str[i]
                          \/ \E i \in Field : b = stmt[s].field[i]) => b \in 1 .. used
  BY OwnIsLive DEF Own
<1>3. \A b : (b # Null => b \in 1 .. used) => b \in 0 .. used
  BY <1>1 DEF Null
<1>4. user.result # Null => user.result \in 1 .. used
  BY DEF IInv, Memory, OneOwner, OfResult
<1> QED
  BY <1>1, <1>2, <1>3, <1>4

\* A step that changes one statement: its new structure r, the blocks G it frees and L it loses.
Turn(s, r, G, L) ==
    /\ r \in Struct /\ Apart(r) /\ stmt' = [stmt EXCEPT ![s] = r]
    /\ used' \in 0 .. MaxBlocks /\ used <= used'
    /\ heap' = (heap \ G) \cup (used + 1 .. used') /\ lost' = lost \cup L
    /\ user' \in Caller /\ unread' \in Stmt \cup {NoStmt}
    /\ \A b \in G : b = Null \/ Own(stmt[s], b) \/ b \in OfResult
    /\ \A b : Own(r, b) \/ b \in L \/ b \in OfResult'
                <=> ((Own(stmt[s], b) \/ b \in OfResult) /\ b \notin G) \/ b \in used + 1 .. used'
    /\ \A b : /\ ~(Own(r, b) /\ b \in L) /\ ~(Own(r, b) /\ b \in OfResult')
              /\ ~(b \in L /\ b \in OfResult')

LEMMA Step ==
    ASSUME CountAssumption, IInv, NEW s \in Stmt, NEW r, NEW G, NEW L, Turn(s, r, G, L)
    PROVE  Memory'
<1> USE DEF Turn
<1>1. stmt' \in [Stmt -> Struct] /\ stmt'[s] = r /\ \A t \in Stmt : t # s => stmt'[t] = stmt[t]
  BY DEF IInv, Memory, Typed
<1>2. used \in Nat /\ used' \in Nat
  BY DEF IInv, Memory, Typed, CountAssumption
<1>3. OneOwner(Owned, heap, lost, OfResult, used)
  BY DEF IInv, Memory
<1>4. /\ Owned[s] = Reach(stmt[s]) /\ Owned'[s] = Reach(r)
      /\ \A t \in Stmt : t # s => Owned'[t] = Owned[t]
  BY <1>1 DEF Owned, Reach, Reachable, ParamStrings, FieldStrings
<1>5. \A b : (b \in Reach(stmt[s]) <=> Own(stmt[s], b)) /\ (b \in Reach(r) <=> Own(r, b))
  BY ReachIsOwn DEF IInv, Memory, Typed
<1>6. \A b \in G : b = Null \/ b \in Owned[s] \cup OfResult
  BY <1>4, <1>5, Zenon
<1>7. \A b : b \in Owned'[s] \cup L \cup OfResult'
              <=> (b \in Owned[s] \cup OfResult /\ b \notin G) \/ b \in used + 1 .. used'
  BY <1>4, <1>5
<1>8. Owned'[s] \cap L = {} /\ Owned'[s] \cap OfResult' = {} /\ L \cap OfResult' = {}
  BY <1>4, <1>5
<1>9. OneOwner(Owned', heap', lost', OfResult', used')
  BY <1>2, <1>3, <1>4, <1>6, <1>7, <1>8, Transfer, Zenon
<1>10. heap' \subseteq Block /\ lost' \subseteq Block
  <2>1. 1 .. used' \subseteq Block
    BY <1>2 DEF Block, CountAssumption
  <2> QED
    BY <1>9, <2>1, Zenon DEF OneOwner
<1>11. \A t \in Stmt : Apart(stmt'[t])
  BY <1>1 DEF IInv, Memory
<1> QED
  BY <1>1, <1>9, <1>10, <1>11 DEF Typed, Memory

-----------------------------------------------------------------------------
(* Statements                                                               *)

LEMMA IdleIsCaller == ASSUME CountAssumption PROVE Idle \in Caller
BY DEF CountAssumption, Idle, Caller, Pointer, Null

LEMMA InitInv == ASSUME CountAssumption, Init PROVE IInv
<1>1. Closed \in Struct /\ Idle \in Caller /\ Apart(Closed) /\ \A b : ~Own(Closed, b)
  BY DEF CountAssumption, Closed, Idle, Struct, Caller, Apart, Own, Pointer, Null, Types
<1>2. \A s \in Stmt : stmt[s] = Closed
  BY DEF Init
<1>3. Typed
  BY <1>1 DEF Init, Typed, CountAssumption
<1>4. \A s \in Stmt : Owned[s] = {}
  BY <1>1, <1>2, ReachIsOwn DEF Owned, Reach, Reachable, ParamStrings, FieldStrings
<1>5. OneOwner(Owned, heap, lost, OfResult, used)
  <2>1. OfResult = {} /\ heap = {} /\ lost = {}
    BY DEF Init, OfResult, Idle
  <2> QED
    BY <1>4, <2>1 DEF OneOwner
<1>6. Operation /\ FreshParameters /\ Buffers
  BY <1>2 DEF Init, Operation, FreshParameters, Buffers, Idle, RowsWhereRead, Closed
<1> QED
  BY <1>1, <1>2, <1>3, <1>5, <1>6 DEF IInv, Memory

\* The caller is at rest, and the connection with it.
LEMMA AtRest ==
    ASSUME CountAssumption, user' = Idle, unread' = NoStmt
    PROVE  user' \in Caller /\ Operation' /\ FreshParameters' /\ OfResult' = {}
BY DEF CountAssumption, Idle, Caller, Operation, FreshParameters, OfResult, RowsWhereRead,
       Pointer, Null

LEMMA CreateInv == ASSUME CountAssumption, IInv, NEW s \in Stmt, CreateStatement(s) PROVE IInv'
<1>1. user = Idle /\ unread = NoStmt /\ user' = Idle /\ unread' = NoStmt /\ OfResult = {}
  BY DEF CreateStatement, IInv, Operation, Idle, OfResult
<1>2. user' \in Caller /\ Operation' /\ FreshParameters' /\ OfResult' = {}
  BY <1>1, AtRest
<1>3. /\ stmt[s] \in Struct /\ Apart(stmt[s]) /\ stmt[s].handle = Null
      /\ used \in Nat /\ used + 1 \in Block /\ used' = used + 1 /\ used' \in 0 .. MaxBlocks
      /\ heap' = (heap \ {}) \cup (used + 1 .. used') /\ stmt \in [Stmt -> Struct]
      /\ used + 1 .. used' = {used + 1}
  BY Pointers DEF CreateStatement, Allocate, CountAssumption, Block, IInv, Memory, Typed
<1>4. \A b : Own(stmt[s], b) => b # used + 1
  BY <1>3, OwnIsLive
<1>5. CASE stmt' = [stmt EXCEPT ![s].handle = used + 1] /\ UNCHANGED lost
  <2> DEFINE r == [stmt[s] EXCEPT !.handle = used + 1]
  <2>1. stmt' = [stmt EXCEPT ![s] = r] /\ lost' = lost \cup {}
    BY <1>5, <1>3 DEF Struct
  <2>2. r \in Struct
    BY <1>3 DEF Struct, Pointer
  <2>3. Apart(r)
    BY <1>3, Pointers DEF Apart, Struct
  <2>4. \A b : Own(r, b) <=> Own(stmt[s], b) \/ b = used + 1
    BY <1>3 DEF Own, Struct, Null
  <2>5. Buffers'
    BY <2>1, <1>3 DEF IInv, Buffers, Struct
  <2> HIDE DEF r
  <2>6. Turn(s, r, {}, {})
    BY <1>1, <1>2, <1>3, <1>4, <2>1, <2>2, <2>3, <2>4 DEF Turn
  <2>7. Memory'
    BY <2>6, Step
  <2> QED
    BY <2>5, <2>7, <1>2 DEF IInv
<1>6. CASE lost' = lost \cup {used + 1} /\ UNCHANGED stmt
  <2>1. stmt' = [stmt EXCEPT ![s] = stmt[s]]
    BY <1>6, <1>3
  <2>2. PICK r : r = stmt[s]
    OBVIOUS
  <2>3. lost' = lost \cup {used + 1} /\ stmt' = [stmt EXCEPT ![s] = r] /\ r \in Struct /\ Apart(r)
    BY <1>6, <1>3, <2>1, <2>2
  <2>4. \A b : Own(stmt[s], b) <=> Own(r, b)
    BY <2>2
  <2>5. Turn(s, r, {}, {used + 1})
    BY <1>1, <1>2, <1>3, <1>4, <2>3, <2>4 DEF Turn
  <2>6. Memory'
    BY <2>5, Step
  <2>7. Buffers'
    BY <1>6 DEF IInv, Buffers
  <2> QED
    BY <2>6, <2>7, <1>2 DEF IInv
<1> QED
  BY <1>5, <1>6 DEF CreateStatement

LEMMA CloseInv == ASSUME CountAssumption, IInv, NEW s \in Stmt, StmtClose(s) PROVE IInv'
<1>1. user = Idle /\ unread = NoStmt /\ user' = Idle /\ unread' = NoStmt /\ OfResult = {}
  BY DEF StmtClose, IInv, Operation, Idle, OfResult
<1>2. user' \in Caller /\ Operation' /\ FreshParameters' /\ OfResult' = {}
  BY <1>1, AtRest
<1>3. Closed \in Struct /\ Apart(Closed) /\ \A b : ~Own(Closed, b)
  BY DEF CountAssumption, Closed, Struct, Apart, Own, Pointer, Null, Types
<1> DEFINE G == {stmt[s].handle, stmt[s].data} \cup ParamStrings(s) \cup FieldStrings(s)
<1>4. /\ stmt[s] \in Struct /\ stmt \in [Stmt -> Struct]
      /\ used \in Nat /\ used' = used /\ used' \in 0 .. MaxBlocks
      /\ used + 1 .. used' = {} /\ heap' = heap \ G
  BY Pointers DEF StmtClose, IInv, Memory, Typed
<1>5. heap' = (heap \ G) \cup (used + 1 .. used')
  BY <1>4
<1>6. stmt' = [stmt EXCEPT ![s] = Closed] /\ lost' = lost \cup {}
  BY DEF StmtClose
<1>7. G \ {Null} = Reach(stmt[s])
  BY DEF Reach, ParamStrings, FieldStrings
<1>8. \A b : b # Null => (b \in G <=> Own(stmt[s], b))
  BY <1>4, <1>7, ReachIsOwn
<1>9. \A b : Own(stmt[s], b) => b # Null
  BY DEF Own
<1> HIDE DEF G
<1>10. Turn(s, Closed, G, {})
  BY <1>1, <1>2, <1>3, <1>4, <1>5, <1>6, <1>8, <1>9 DEF Turn
<1>11. Buffers'
  BY <1>4, <1>6 DEF IInv, Buffers, Closed
<1> QED
  BY <1>10, <1>11, <1>2, Step DEF IInv

-----------------------------------------------------------------------------
(* Parameters                                                               *)

LEMMA RetrieveInv == ASSUME CountAssumption, IInv, NEW s \in Stmt, Retrieve(s) PROVE IInv'
<1>1. /\ user' = [Idle EXCEPT !.at = "set", !.s = s] /\ unread = NoStmt /\ unread' = NoStmt
      /\ OfResult = {} /\ OfResult' = {}
  BY DEF Retrieve, IInv, Operation, Idle, OfResult
<1>2. user' \in Caller
  BY <1>1, IdleIsCaller DEF Caller
<1> DEFINE r == [stmt[s] EXCEPT !.type = Closed.type, !.buffer = Closed.buffer, !.str = Closed.str]
           G == ParamStrings(s)
<1>3. /\ stmt[s] \in Struct /\ Apart(stmt[s]) /\ stmt \in [Stmt -> Struct] /\ used \in Nat
      /\ used' = used /\ used' \in 0 .. MaxBlocks /\ used + 1 .. used' = {} /\ lost' = lost \cup {}
  BY Pointers DEF Retrieve, IInv, Memory, Typed
<1>4. heap' = (heap \ G) \cup (used + 1 .. used')
  BY <1>3 DEF Retrieve, ClearParameters
<1>5. stmt' = [stmt EXCEPT ![s] = r]
  BY <1>3 DEF Retrieve, ClearParameters, Struct
<1>6. r \in Struct
  BY <1>3 DEF Struct, Closed, Pointer, Types
<1>7. /\ r.handle = stmt[s].handle /\ r.data = stmt[s].data /\ r.field = stmt[s].field
      /\ \A i \in Param : r.str[i] = Null /\ r.type[i] = "null"
  BY <1>3 DEF Struct, Closed
<1>8. Apart(r)
  BY <1>3, <1>7 DEF Apart
<1>9. \A b : b \in G <=> b # Null /\ \E i \in Param : b = stmt[s].str[i]
  BY <1>3 DEF ParamStrings, Values, Struct
<1> HIDE DEF r, G
<1>10. \A b : Own(r, b) <=> Own(stmt[s], b) /\ b \notin G
  BY <1>3, <1>7, <1>9 DEF Own, Apart
<1>11. \A b \in G : Own(stmt[s], b)
  BY <1>9 DEF Own
<1>12. Turn(s, r, G, {})
  BY <1>1, <1>2, <1>3, <1>4, <1>5, <1>6, <1>8, <1>10, <1>11 DEF Turn
<1>13. Operation'
  BY <1>1 DEF Operation, Idle, RowsWhereRead
<1>14. stmt'[s] = r /\ \A t \in Stmt : t # s => stmt'[t] = stmt[t]
  BY <1>3, <1>5
<1>15. FreshParameters'
  BY <1>1, <1>7, <1>14 DEF FreshParameters, Idle
<1>16. Buffers'
  BY <1>7, <1>14 DEF IInv, Buffers
<1> QED
  BY <1>12, <1>13, <1>15, <1>16, Step DEF IInv

\* While parameters are set.
LEMMA Setting ==
    ASSUME CountAssumption, IInv, user.at = "set", unread' = unread,
           NEW i \in Param, user' = [user EXCEPT !.given = @ \cup {i}]
    PROVE  /\ user.s \in Stmt /\ user' \in Caller /\ unread = NoStmt /\ OfResult = {}
           /\ OfResult' = {} /\ Operation' /\ user'.at = "set" /\ user'.s = user.s
           /\ user'.given = user.given \cup {i}
<1>1. user \in Caller
  BY DEF IInv, Memory, Typed
<1>2. /\ user.s \in Stmt /\ unread = NoStmt /\ user.result = Null /\ user.held = {}
  BY DEF IInv, Operation
<1>3. /\ user' \in Caller /\ user'.at = "set" /\ user'.s = user.s /\ user'.result = Null
      /\ user'.held = {} /\ user'.given = user.given \cup {i}
  BY <1>1, <1>2 DEF Caller
<1> QED
  BY <1>2, <1>3 DEF OfResult, Operation, RowsWhereRead

LEMMA SetValueInv ==
    ASSUME CountAssumption, IInv, NEW i \in 0 .. ParamCount + 1, NEW kind \in {"number", "null"},
           SetValue(i, kind)
    PROVE  IInv'
<1>1. CASE ~InRange(i)
  <2>1. UNCHANGED vars
    BY <1>1 DEF SetValue, Given, vars
  <2> QED
    BY <2>1 DEF vars, IInv, Memory, Typed, Owned, Reachable, ParamStrings, FieldStrings, OfResult,
                Operation, FreshParameters, Buffers, RowsWhereRead
<1>2. CASE InRange(i)
  <2>1. i \in Param
    BY <1>2 DEF InRange, Param, CountAssumption
  <2>2. user.at = "set" /\ user' = [user EXCEPT !.given = @ \cup {i}] /\ unread' = unread
    BY <1>2 DEF SetValue, Given
  <2>3. /\ user.s \in Stmt /\ user' \in Caller /\ unread = NoStmt /\ OfResult = {}
        /\ OfResult' = {} /\ Operation' /\ user'.at = "set" /\ user'.s = user.s
        /\ user'.given = user.given \cup {i}
    BY <2>1, <2>2, Setting
  <2>4. PICK s \in Stmt : s = user.s
    BY <2>3
  <2>5. /\ stmt[s] \in Struct /\ Apart(stmt[s]) /\ stmt \in [Stmt -> Struct] /\ used \in Nat
        /\ used' = used /\ used' \in 0 .. MaxBlocks /\ used + 1 .. used' = {}
        /\ lost' = lost \cup {} /\ heap' = (heap \ {}) \cup (used + 1 .. used')
    BY Pointers DEF SetValue, IInv, Memory, Typed
  <2> DEFINE r == [stmt[s] EXCEPT !.type[i] = kind, !.buffer[i] = Null]
  <2>6. stmt' = [stmt EXCEPT ![s] = r]
    BY <1>2, <2>4, <2>5 DEF SetValue, Struct
  <2>7. r \in Struct
    BY <2>1, <2>5 DEF Struct, Pointer, Types
  <2>8. /\ r.handle = stmt[s].handle /\ r.data = stmt[s].data /\ r.field = stmt[s].field
        /\ r.str = stmt[s].str /\ r.type[i] # "string"
        /\ \A j \in Param : j # i => r.type[j] = stmt[s].type[j] /\ r.buffer[j] = stmt[s].buffer[j]
    BY <2>1, <2>5 DEF Struct
  <2> HIDE DEF r
  <2>9. Apart(r) /\ \A b : Own(r, b) <=> Own(stmt[s], b)
    BY <2>5, <2>8 DEF Apart, Own
  <2>10. Turn(s, r, {}, {})
    BY <2>2, <2>3, <2>5, <2>6, <2>7, <2>9 DEF Turn
  <2>11. stmt'[s] = r /\ \A t \in Stmt : t # s => stmt'[t] = stmt[t]
    BY <2>5, <2>6
  <2>12. FreshParameters'
    BY <2>2, <2>3, <2>4, <2>8, <2>11 DEF IInv, FreshParameters
  <2>13. Buffers'
    BY <2>8, <2>11 DEF IInv, Buffers
  <2> QED
    BY <2>3, <2>10, <2>12, <2>13, Step DEF IInv
<1> QED
  BY <1>1, <1>2

LEMMA SetStringInv ==
    ASSUME CountAssumption, IInv, NEW i \in 0 .. ParamCount + 1, SetString(i)
    PROVE  IInv'
<1>1. i \in Param
  BY DEF SetString, InRange, Param, CountAssumption
<1>2. user.at = "set" /\ user' = [user EXCEPT !.given = @ \cup {i}] /\ unread' = unread
  BY DEF SetString, Given
<1>3. /\ user.s \in Stmt /\ user' \in Caller /\ unread = NoStmt /\ OfResult = {}
      /\ OfResult' = {} /\ Operation' /\ user'.at = "set" /\ user'.s = user.s
      /\ user'.given = user.given \cup {i}
  BY <1>1, <1>2, Setting
<1>4. PICK s \in Stmt : s = user.s
  BY <1>3
<1>5. PICK old : old = stmt[s].str[i]
  OBVIOUS
<1>6. /\ stmt[s] \in Struct /\ Apart(stmt[s]) /\ stmt \in [Stmt -> Struct] /\ used \in Nat
      /\ used' = used + 1 /\ used' \in 0 .. MaxBlocks /\ used + 1 .. used' = {used + 1}
      /\ used + 1 \in Block /\ used + 1 # Null
      /\ lost' = lost \cup {} /\ heap' = (heap \ {old}) \cup (used + 1 .. used')
  BY <1>4, <1>5, Pointers DEF SetString, Allocate, Block, CountAssumption, IInv, Memory, Typed, Null
<1> DEFINE r == [stmt[s] EXCEPT !.str[i] = used + 1, !.type[i] = "string", !.buffer[i] = used + 1]
<1>7. stmt' = [stmt EXCEPT ![s] = r]
  BY <1>4, <1>6 DEF SetString, Struct
<1>8. r \in Struct
  BY <1>1, <1>6 DEF Struct, Pointer, Types
<1>9. /\ r.handle = stmt[s].handle /\ r.data = stmt[s].data /\ r.field = stmt[s].field
      /\ r.str[i] = used + 1 /\ r.type[i] = "string" /\ r.buffer[i] = used + 1
      /\ \A j \in Param : j # i => /\ r.type[j] = stmt[s].type[j] /\ r.buffer[j] = stmt[s].buffer[j]
                                   /\ r.str[j] = stmt[s].str[j]
  BY <1>1, <1>6 DEF Struct
<1> HIDE DEF r
<1>10. PICK new : new = used + 1
  OBVIOUS
<1>11. \A b : Own(stmt[s], b) => b # new
  BY <1>6, <1>10, OwnIsLive
<1>12. Apart(r)
  BY <1>1, <1>6, <1>9, <1>10, <1>11 DEF Apart, Own
<1>13. \A b : Own(r, b) <=> (Own(stmt[s], b) /\ b # old) \/ b = new
  BY <1>1, <1>5, <1>6, <1>9, <1>10, <1>11 DEF Apart, Own
<1>14. old = Null \/ Own(stmt[s], old)
  BY <1>1, <1>5 DEF Own
<1>15. Turn(s, r, {old}, {})
  BY <1>2, <1>3, <1>6, <1>7, <1>8, <1>10, <1>11, <1>12, <1>13, <1>14 DEF Turn
<1>16. stmt'[s] = r /\ \A t \in Stmt : t # s => stmt'[t] = stmt[t]
  BY <1>6, <1>7
<1>17. FreshParameters'
  BY <1>2, <1>3, <1>4, <1>9, <1>16 DEF IInv, FreshParameters
<1>18. Buffers'
  BY <1>9, <1>16 DEF IInv, Buffers
<1> QED
  BY <1>3, <1>15, <1>17, <1>18, Step DEF IInv

-----------------------------------------------------------------------------
(* Execution                                                                *)

\* A step that leaves the statements and the memory alone.
LEMMA Still ==
    ASSUME IInv, UNCHANGED <<stmt, heap, used, lost>>, user' \in Caller, user'.result = user.result,
           unread' \in Stmt \cup {NoStmt}
    PROVE  Memory' /\ Buffers'
BY DEF IInv, Memory, Typed, Owned, Reachable, ParamStrings, FieldStrings, OfResult, Buffers

\* An operation ends: it failed, it was an update, or there is no result, or no other one.
LEMMA EndInv ==
    ASSUME CountAssumption, IInv, user.at \in {"set", "next"}, user' = Idle,
           unread' \in {unread, NoStmt}, UNCHANGED <<stmt, heap, used, lost>>
    PROVE  IInv'
<1>1. unread' = NoStmt /\ user.result = Null
  BY DEF IInv, Operation
<1>2. user' \in Caller /\ Operation' /\ FreshParameters'
  BY <1>1, AtRest
<1>3. user'.result = user.result
  BY <1>1 DEF Idle
<1> QED
  BY <1>1, <1>2, <1>3, Still DEF IInv

LEMMA FetchInv ==
    ASSUME CountAssumption, IInv, user.at \in {"set", "next"}, Fetch(user.s),
           NEW many \in BOOLEAN, user' = Result(user.s, many)
    PROVE  IInv'
<1>1. user.s \in Stmt /\ OfResult = {}
  BY DEF IInv, Operation, OfResult
<1>2. PICK s \in Stmt : s = user.s
  BY <1>1
<1>3. /\ stmt[s] \in Struct /\ Apart(stmt[s]) /\ stmt \in [Stmt -> Struct] /\ used \in Nat
      /\ used' = used + 2 /\ used' \in 0 .. MaxBlocks /\ used <= used'
      /\ used + 1 .. used' = {used + 1, used + 2}
      /\ used + 1 \in Block /\ used + 2 \in Block /\ used + 1 # Null /\ used + 2 # Null
      /\ heap' = (heap \ {}) \cup (used + 1 .. used')
  BY Pointers DEF Fetch, Allocate, Block, CountAssumption, IInv, Memory, Typed, Null
<1>4. PICK one, two : one = used + 1 /\ two = used + 2 /\ one # two
  BY <1>3
<1>5. /\ user'.at = "rows" /\ user'.s = s /\ user'.result = one /\ user'.held = {}
      /\ unread' = s
  BY <1>2, <1>4 DEF Result, Idle, Fetch
<1>6. user' \in Caller
  <2>1. user' = [Idle EXCEPT !.at = "rows", !.s = s, !.result = one, !.many = many]
    BY <1>2, <1>4 DEF Result
  <2>2. one \in Pointer
    BY <1>3, <1>4 DEF Pointer
  <2> QED
    BY <2>1, <2>2, IdleIsCaller DEF Caller
<1>7. OfResult' = {one}
  BY <1>3, <1>4, <1>5 DEF OfResult
<1> DEFINE r == [stmt[s] EXCEPT !.data = two, !.field = Closed.field, !.bound = two]
           L == ({stmt[s].data} \cup FieldStrings(s)) \ {Null}
<1>8. stmt' = [stmt EXCEPT ![s] = r] /\ lost' = lost \cup L
  BY <1>2, <1>3, <1>4 DEF Fetch, Struct
<1>9. r \in Struct
  BY <1>3, <1>4 DEF Struct, Closed, Pointer
<1>10. /\ r.handle = stmt[s].handle /\ r.str = stmt[s].str /\ r.data = two /\ r.bound = two
       /\ r.type = stmt[s].type /\ r.buffer = stmt[s].buffer
       /\ \A i \in Field : r.field[i] = Null
  BY <1>3 DEF Struct, Closed
<1>11. \A b : b \in L <=> b # Null /\ (b = stmt[s].data \/ \E i \in Field : b = stmt[s].field[i])
  BY <1>3 DEF FieldStrings, Values, Struct
<1> HIDE DEF r, L
<1>12. \A b : Own(stmt[s], b) => b # one /\ b # two
  BY <1>3, <1>4, OwnIsLive
<1>13. Apart(r)
  BY <1>3, <1>4, <1>10, <1>12 DEF Apart, Own
<1>14. \A b : Own(r, b) <=> (Own(stmt[s], b) /\ b \notin L) \/ b = two
  BY <1>3, <1>4, <1>10, <1>11, <1>12 DEF Apart, Own
<1>15. \A b \in L : Own(stmt[s], b)
  BY <1>11 DEF Own
<1>16. Turn(s, r, {}, L)
  BY <1>1, <1>3, <1>4, <1>5, <1>6, <1>7, <1>8, <1>9, <1>12, <1>13, <1>14, <1>15 DEF Turn
<1>17. stmt'[s] = r /\ \A t \in Stmt : t # s => stmt'[t] = stmt[t]
  BY <1>3, <1>8
<1>18. Operation' /\ FreshParameters'
  BY <1>5, <1>10, <1>17 DEF Operation, RowsWhereRead, FreshParameters
<1>19. Buffers'
  BY <1>10, <1>17 DEF IInv, Buffers
<1> QED
  BY <1>16, <1>18, <1>19, Step DEF IInv

-----------------------------------------------------------------------------
(* Results                                                                  *)

LEMMA ResultNextInv == ASSUME CountAssumption, IInv, ResultNext PROVE IInv'
<1>1. user \in Caller /\ unread \in Stmt \cup {NoStmt} /\ user.s \in Stmt /\ user.at = "rows"
  BY DEF ResultNext, IInv, Memory, Typed, Operation
<1>2. /\ user' \in Caller /\ user'.at = user.at /\ user'.s = user.s /\ user'.result = user.result
      /\ user'.held = {} /\ unread' \in Stmt \cup {NoStmt}
  <2>1. 0 \in 0 .. FieldCount /\ {} \in SUBSET Block
    BY DEF CountAssumption
  <2>2. CASE user' = [user EXCEPT !.row = TRUE, !.column = 0, !.held = {}] /\ UNCHANGED unread
    BY <1>1, <2>1, <2>2 DEF Caller
  <2>3. CASE user' = [user EXCEPT !.row = FALSE, !.held = {}] /\ unread' = NoStmt
    BY <1>1, <2>1, <2>3 DEF Caller
  <2> QED
    BY <2>2, <2>3 DEF ResultNext
<1>3. stmt' = stmt
  BY DEF ResultNext
<1>4. Operation' /\ FreshParameters'
  BY <1>1, <1>2, <1>3 DEF IInv, Operation, FreshParameters, RowsWhereRead
<1> QED
  BY <1>2, <1>4, Still DEF IInv, ResultNext

LEMMA GetStringInv == ASSUME CountAssumption, IInv, NEW i \in Field, GetString(i) PROVE IInv'
<1>1. /\ user \in Caller /\ unread \in Stmt \cup {NoStmt} /\ unread' = unread /\ user.s \in Stmt
      /\ user.at = "rows" /\ lost' = lost \cup {}
  BY DEF GetString, Reading, IInv, Memory, Typed, Operation
<1>2. PICK s \in Stmt : s = user.s
  BY <1>1
<1>3. PICK old : old = stmt[s].field[i]
  OBVIOUS
<1>4. /\ stmt[s] \in Struct /\ Apart(stmt[s]) /\ stmt \in [Stmt -> Struct] /\ used \in Nat
      /\ used \in 0 .. MaxBlocks /\ stmt[s].bound = stmt[s].data
  BY <1>1, <1>2, Pointers DEF IInv, Memory, Typed, Operation, RowsWhereRead
<1>5. \A b \in user.held : \E j \in Field : j # i /\ j <= i /\ b = stmt[s].field[j]
  <2>1. \A j \in Field : j <= user.column => j # i /\ j <= i
    BY <1>1 DEF GetString, Reading, Caller, Field, CountAssumption
  <2> QED
    BY <1>2, <2>1 DEF IInv, Operation
<1>6. \A b : b \in OfResult => ~Own(stmt[s], b) /\ b # used + 1
  <2>1. OneOwner(Owned, heap, lost, OfResult, used)
    BY DEF IInv, Memory
  <2>2. \A b : Own(stmt[s], b) => b \in Owned[s]
    BY <1>4, ReachIsOwn DEF Owned, Reach, Reachable, ParamStrings, FieldStrings
  <2>3. \A b \in OfResult : b \notin Owned[s] /\ b \in 1 .. used
    BY <2>1, Zenon DEF OneOwner
  <2>4. used + 1 \notin 1 .. used
    BY <1>4
  <2> QED
    BY <2>2, <2>3, <2>4, Zenon
<1>7. old = Null \/ Own(stmt[s], old)
  BY <1>3 DEF Own
<1>8. CASE UNCHANGED <<stmt, used, heap>> /\ user' = [user EXCEPT !.column = i]
  <2>1. /\ user' \in Caller /\ user'.at = "rows" /\ user'.s = s /\ user'.result = user.result
        /\ user'.held = user.held /\ user'.column = i
    BY <1>1, <1>2, <1>8 DEF Caller, Field, CountAssumption
  <2>2. Operation' /\ FreshParameters'
    BY <1>4, <1>5, <1>8, <2>1 DEF Operation, FreshParameters, RowsWhereRead
  <2> QED
    BY <1>1, <1>8, <2>1, <2>2, Still DEF IInv
<1>9. ASSUME NEW new \in Pointer, NEW n \in 0 .. 1, used' = used + n, used' \in 0 .. MaxBlocks,
             used + 1 .. used' = {new} \ {Null}, new # Null => new = used + 1,
             heap' = (heap \ {old}) \cup (used + 1 .. used'),
             stmt' = [stmt EXCEPT ![s].field[i] = new],
             user' = [user EXCEPT !.column = i, !.held = @ \cup ({new} \ {Null})]
      PROVE  IInv'
  <2> DEFINE r == [stmt[s] EXCEPT !.field[i] = new]
  <2>1. stmt' = [stmt EXCEPT ![s] = r]
    BY <1>4, <1>9 DEF Struct
  <2>2. r \in Struct
    BY <1>4, <1>9 DEF Struct
  <2>3. /\ r.handle = stmt[s].handle /\ r.data = stmt[s].data /\ r.str = stmt[s].str
        /\ r.type = stmt[s].type /\ r.buffer = stmt[s].buffer /\ r.bound = stmt[s].bound
        /\ r.field[i] = new /\ \A j \in Field : j # i => r.field[j] = stmt[s].field[j]
    BY <1>4, <1>9 DEF Struct
  <2> HIDE DEF r
  <2>4. \A b : Own(stmt[s], b) => b # new
    BY <1>4, <1>9, OwnIsLive DEF Own
  <2>5. Apart(r)
    BY <1>4, <2>3, <2>4 DEF Apart, Own
  <2>6. \A b : Own(r, b) <=> (Own(stmt[s], b) /\ b # old) \/ b \in {new} \ {Null}
    BY <1>3, <1>4, <2>3, <2>4 DEF Apart, Own
  <2>7. /\ user' \in Caller /\ user'.at = "rows" /\ user'.s = s /\ user'.result = user.result
        /\ user'.held = user.held \cup ({new} \ {Null}) /\ user'.column = i
    <3>1. PICK held : held = user.held \cup ({new} \ {Null})
      OBVIOUS
    <3>2. i \in 0 .. FieldCount /\ held \in SUBSET Block
      BY <1>1, <1>9, <3>1 DEF Caller, Field, CountAssumption, Pointer
    <3>3. user' = [user EXCEPT !.column = i, !.held = held]
      BY <1>9, <3>1
    <3> QED
      BY <1>1, <1>2, <3>1, <3>2, <3>3 DEF Caller
  <2>8. OfResult' = OfResult
    BY <2>7 DEF OfResult
  <2>9. \A b \in OfResult : b # new /\ b # old
    <3>1. \A b \in OfResult : b # Null
      BY DEF OfResult
    <3> QED
      BY <1>6, <1>7, <1>9, <3>1
  <2>10. Turn(s, r, {old}, {})
    <3>1. PICK Fresh : Fresh = used + 1 .. used'
      OBVIOUS
    <3>2. /\ used' \in 0 .. MaxBlocks /\ used <= used' /\ heap' = (heap \ {old}) \cup Fresh
          /\ \A b : b \in Fresh <=> b = new /\ b # Null
      BY <1>4, <1>9, <3>1
    <3>3. \A b : Own(r, b) \/ b \in {} \/ b \in OfResult'
                   <=> ((Own(stmt[s], b) \/ b \in OfResult) /\ b \notin {old}) \/ b \in Fresh
      BY <2>6, <2>8, <2>9, <3>2
    <3>4. \A b : ~(Own(r, b) /\ b \in OfResult')
      BY <1>6, <2>6, <2>8, <2>9
    <3> QED
      BY <1>1, <1>7, <2>1, <2>2, <2>5, <2>7, <3>1, <3>2, <3>3, <3>4 DEF Turn
  <2>11. stmt'[s] = r /\ \A t \in Stmt : t # s => stmt'[t] = stmt[t]
    BY <1>4, <2>1
  <2>12. \A b \in user'.held : \E j \in Field : j <= i /\ b = r.field[j]
    <3>1. i <= i
      BY DEF Field, CountAssumption
    <3> QED
      BY <1>5, <2>3, <2>7, <3>1, SMTT(30)
  <2>13. Operation' /\ FreshParameters'
    BY <1>4, <2>3, <2>7, <2>11, <2>12 DEF Operation, FreshParameters, RowsWhereRead
  <2>14. Buffers'
    BY <2>3, <2>11 DEF IInv, Buffers
  <2> QED
    BY <2>10, <2>13, <2>14, Step DEF IInv
<1>10. CASE /\ Allocate(1, {old}) /\ stmt' = [stmt EXCEPT ![s].field[i] = used + 1]
            /\ user' = [user EXCEPT !.column = i, !.held = @ \cup {used + 1}]
  <2>1. /\ used + 1 \in Pointer /\ 1 \in 0 .. 1 /\ used' = used + 1 /\ used' \in 0 .. MaxBlocks
        /\ used + 1 .. used' = {used + 1} \ {Null} /\ {used + 1} = {used + 1} \ {Null}
        /\ heap' = (heap \ {old}) \cup (used + 1 .. used')
    BY <1>4, <1>10 DEF Allocate, Pointer, Block, Null, CountAssumption
  <2>2. user' = [user EXCEPT !.column = i, !.held = @ \cup ({used + 1} \ {Null})]
    BY <1>10, <2>1
  <2> QED
    BY <1>9, <1>10, <2>1, <2>2
<1>11. CASE /\ heap' = heap \ {old} /\ stmt' = [stmt EXCEPT ![s].field[i] = Null]
            /\ user' = [user EXCEPT !.column = i] /\ UNCHANGED used
  <2>1. /\ Null \in Pointer /\ 0 \in 0 .. 1 /\ used' = used + 0 /\ used' \in 0 .. MaxBlocks
        /\ used + 1 .. used' = {Null} \ {Null} /\ user.held \cup ({Null} \ {Null}) = user.held
        /\ heap' = (heap \ {old}) \cup (used + 1 .. used')
    BY <1>4, <1>11 DEF Pointer, Null
  <2>2. user' = [user EXCEPT !.column = i, !.held = @ \cup ({Null} \ {Null})]
    BY <1>1, <1>11, <2>1 DEF Caller
  <2> QED
    BY <1>9, <1>11, <2>1, <2>2
<1> QED
  BY <1>2, <1>3, <1>8, <1>10, <1>11 DEF GetString

LEMMA ResultCloseInv == ASSUME CountAssumption, IInv, ResultClose PROVE IInv'
<1>1. /\ user \in Caller /\ user.s \in Stmt /\ unread' = NoStmt /\ stmt' = stmt /\ used' = used
      /\ lost' = lost \cup {} /\ user.at = "rows" /\ heap' = heap \ {user.result}
  BY DEF ResultClose, IInv, Memory, Typed, Operation
<1>2. PICK s \in Stmt : s = user.s
  BY <1>1
<1>3. PICK r : r = stmt[s]
  OBVIOUS
<1>4. /\ r \in Struct /\ Apart(r) /\ stmt \in [Stmt -> Struct] /\ used \in Nat
      /\ used \in 0 .. MaxBlocks /\ used + 1 .. used' = {}
  BY <1>1, <1>3, Pointers DEF IInv, Memory, Typed
<1>5. \A b : b \in OfResult => ~Own(r, b)
  <2>1. OneOwner(Owned, heap, lost, OfResult, used)
    BY DEF IInv, Memory
  <2>2. \A b : Own(r, b) => b \in Owned[s]
    BY <1>3, <1>4, ReachIsOwn DEF Owned, Reach, Reachable, ParamStrings, FieldStrings
  <2>3. \A b \in OfResult : b \notin Owned[s]
    BY <2>1, Zenon DEF OneOwner
  <2> QED
    BY <2>2, <2>3, Zenon
<1>6. user' \in Caller /\ user'.at # "rows" /\ user'.at # "set" /\ user'.result = Null /\ user'.held = {}
      /\ (user'.at # "idle" => user'.s \in Stmt)
  <2>1. Closing \in Caller
    BY <1>1, IdleIsCaller DEF Closing, Caller
  <2> QED
    BY <1>1, <2>1, IdleIsCaller DEF ResultClose, Closing, Idle
<1>7. OfResult' = {} /\ Operation' /\ FreshParameters'
  BY <1>1, <1>6 DEF OfResult, Operation, FreshParameters, RowsWhereRead
<1>8. stmt' = [stmt EXCEPT ![s] = r] /\ heap' = (heap \ {user.result}) \cup (used + 1 .. used')
  BY <1>1, <1>3, <1>4
<1>9. \A b : b \in OfResult <=> b = user.result /\ b # Null
  BY DEF OfResult
<1>10. \A b : Own(r, b) <=> Own(stmt[s], b)
  BY <1>3
<1>11. \A b : Own(r, b) => b # Null
  BY DEF Own
<1>12. Turn(s, r, {user.result}, {})
  <2>1. used' \in 0 .. MaxBlocks /\ used <= used' /\ lost' = lost \cup {} /\ unread' = NoStmt
    BY <1>1, <1>4
  <2> QED
    BY <1>4, <1>5, <1>6, <1>7, <1>8, <1>9, <1>10, <1>11, <2>1 DEF Turn
<1>13. Buffers'
  BY <1>1 DEF IInv, Buffers
<1> QED
  BY <1>7, <1>12, <1>13, Step DEF IInv

-----------------------------------------------------------------------------
(* The theorem                                                              *)

LEMMA NextInv == ASSUME CountAssumption, IInv, [Next]_vars PROVE IInv'
<1>1. CASE UNCHANGED vars
  BY <1>1 DEF vars, IInv, Memory, Typed, Owned, Reachable, ParamStrings, FieldStrings, OfResult,
              Operation, FreshParameters, Buffers, RowsWhereRead
<1>2. ASSUME NEW s \in Stmt, CreateStatement(s) \/ StmtClose(s) \/ Retrieve(s) PROVE IInv'
  BY <1>2, CreateInv, CloseInv, RetrieveInv
<1>3. ASSUME NEW i \in 0 .. ParamCount + 1, SetNumber(i) \/ SetNull(i) \/ SetString(i) PROVE IInv'
  BY <1>3, SetValueInv, SetStringInv DEF SetNumber, SetNull
<1>4. CASE ExecuteUpdate \/ NoMetadata \/ ExecuteFails
  BY <1>4, EndInv DEF ExecuteUpdate, NoMetadata, ExecuteFails, LocalExecute
<1>5. CASE ExecuteQuery \/ ExecuteMultipleQuery
  BY <1>5, FetchInv DEF ExecuteQuery, ExecuteMultipleQuery, LocalExecute
<1>6. CASE NextResult
  BY <1>6, FetchInv, EndInv DEF NextResult
<1>7. CASE ResultNext \/ ResultClose
  BY <1>7, ResultNextInv, ResultCloseInv
<1>8. ASSUME NEW i \in Field, GetString(i) PROVE IInv'
  BY <1>8, GetStringInv
<1> QED
  BY <1>1, <1>2, <1>3, <1>4, <1>5, <1>6, <1>7, <1>8 DEF Next

\* One owner for every block is what the checked properties say of the memory.
LEMMA Implies == ASSUME CountAssumption, IInv PROVE StatementsSafe
<1>1. TypeOK
  BY DEF IInv, Memory, Typed, TypeOK, Struct, Caller
<1>2. \A s \in Stmt : Reachable(s) = Owned[s]
  BY DEF Owned
<1>3. OneOwner(Owned, heap, lost, OfResult, used)
  BY DEF IInv, Memory
<1>4. \A s \in Stmt : Reachable(s) \subseteq heap /\ Reachable(s) \cap lost = {}
  BY <1>2, <1>3, SMTT(30) DEF OneOwner
<1>5. user.held \subseteq heap
  <2>1. CASE user.at = "rows"
    <3>1. user.s \in Stmt /\ user.held \subseteq Block
      BY <2>1 DEF IInv, Memory, Typed, Operation, Caller
    <3>2. \A b \in user.held : Own(stmt[user.s], b)
      BY <3>1 DEF IInv, Operation, Own, Block, Null, CountAssumption
    <3> QED
      BY <3>1, <3>2, OwnIsLive
  <2>2. CASE user.at # "rows"
    BY <2>2 DEF IInv, Operation
  <2> QED
    BY <2>1, <2>2
<1>6. NoDangling
  BY <1>4, <1>5 DEF NoDangling, IInv, Buffers
<1>7. HeapAccounted
  <2>1. \A b \in heap : b \in lost \cup OfResult \/ \E s \in Stmt : b \in Owned[s]
    BY <1>3, Zenon DEF OneOwner
  <2>2. lost \subseteq heap /\ OfResult \subseteq heap
    BY <1>3, Zenon DEF OneOwner
  <2>3. PICK reachable : reachable = UNION {Reachable(s) : s \in Stmt}
    OBVIOUS
  <2>4. \A b : b \in reachable <=> \E s \in Stmt : b \in Reachable(s)
    BY <2>3, Zenon
  <2>5. heap = reachable \cup lost \cup OfResult
    BY <1>2, <1>4, <2>1, <2>2, <2>4
  <2>6. heap = (UNION {Reachable(s) : s \in Stmt}) \cup lost \cup ({user.result} \ {Null})
    BY <2>3, <2>5 DEF OfResult
  <2> QED
    BY <1>4, <2>6 DEF HeapAccounted
<1>8. InSync
  BY DEF IInv, Operation, InSync
<1> QED
  BY <1>1, <1>6, <1>7, <1>8 DEF StatementsSafe, IInv, Operation

\* However parameters are set, statements executed, results read and closed: the driver follows no
\* pointer to freed memory, loses no block but the two it is known to lose, sends no parameter of
\* an earlier operation, and leaves no rows behind that would make the next statement fail.
THEOREM Safe == ASSUME CountAssumption PROVE Spec => []StatementsSafe
<1>1. Init => IInv
  BY InitInv
<1>2. IInv /\ [Next]_vars => IInv'
  BY NextInv
<1>3. IInv => StatementsSafe
  BY Implies
<1> QED
  BY <1>1, <1>2, <1>3, PTL DEF Spec

-----------------------------------------------------------------------------
(* Least elements.                                                                             *)

LEMMA Least ==
    ASSUME NEW S \in SUBSET Nat, S # {}
    PROVE  \E x \in S : \A y \in S : x <= y
<1>1. PICK R : R = OpToRel(<, Nat)
  OBVIOUS
<1>2. \A x, y \in Nat : <<x, y>> \in R <=> x < y
  BY <1>1 DEF OpToRel
<1>3. IsWellFoundedOn(R, Nat)
  BY <1>1, NatLessThanWellFounded
<1>4. PICK x \in S : \A y \in S : ~ (<<y, x>> \in R)
  BY <1>3, WFMin, Zenon
<1>5. \A y \in S : ~(y < x)
  BY <1>2, <1>4
<1> QED
  BY <1>5

LEMMA NatSet ==
    ASSUME NEW G \in SUBSET Nat, 0 \in G, \A n \in G : n + 1 \in G
    PROVE  \A n \in Nat : n \in G
<1> SUFFICES ASSUME Nat \ G # {} PROVE FALSE
  OBVIOUS
<1>1. PICK m \in Nat \ G : \A n \in Nat \ G : m <= n
  BY Least
<1>2. m - 1 \in Nat /\ m - 1 \in G
  BY <1>1
<1> QED
  BY <1>1, <1>2

-----------------------------------------------------------------------------
(* The numbers of columns and parameters, for any width of an int.                            *)

LEMMA PowersExist ==
    ASSUME NEW top \in Nat
    PROVE  \E f : f = [n \in 0 .. top |-> IF n = 0 THEN 1 ELSE 2 * f[n - 1]]
<1> DEFINE G == {m \in Nat : \E f : f = [n \in 0 .. m |-> IF n = 0 THEN 1 ELSE 2 * f[n - 1]]}
<1>1. 0 \in G
  <2>1. PICK f : f = [n \in 0 .. 0 |-> 1]
    OBVIOUS
  <2>2. f = [n \in 0 .. 0 |-> IF n = 0 THEN 1 ELSE 2 * f[n - 1]]
    BY <2>1
  <2> QED
    BY <2>2
<1>2. ASSUME NEW m \in G PROVE m + 1 \in G
  <2>1. m \in Nat
    OBVIOUS
  <2>2. PICK f : f = [n \in 0 .. m |-> IF n = 0 THEN 1 ELSE 2 * f[n - 1]]
    OBVIOUS
  <2>3. PICK g : g = [n \in 0 .. m + 1 |-> IF n = m + 1 THEN 2 * f[m] ELSE f[n]]
    OBVIOUS
  <2>4. \A n \in 0 .. m + 1 : g[n] = IF n = 0 THEN 1 ELSE 2 * g[n - 1]
    <3> SUFFICES ASSUME NEW n \in 0 .. m + 1 PROVE g[n] = IF n = 0 THEN 1 ELSE 2 * g[n - 1]
      OBVIOUS
    <3>1. CASE n = m + 1
      <4>1. n - 1 = m /\ g[n - 1] = f[m] /\ n # 0
        BY <2>1, <2>3, <3>1
      <4> QED
        BY <2>3, <3>1, <4>1
    <3>2. CASE n # m + 1 /\ n # 0
      <4>1. n \in 0 .. m /\ n - 1 \in 0 .. m /\ g[n] = f[n] /\ g[n - 1] = f[n - 1]
        BY <2>1, <2>3, <3>2
      <4> QED
        BY <2>2, <3>2, <4>1
    <3>3. CASE n = 0
      BY <2>1, <2>2, <2>3, <3>3
    <3> QED
      BY <3>1, <3>2, <3>3
  <2>5. g = [n \in 0 .. m + 1 |-> IF n = 0 THEN 1 ELSE 2 * g[n - 1]]
    BY <2>3, <2>4
  <2>6. \E f2 : f2 = [n \in 0 .. m + 1 |-> IF n = 0 THEN 1 ELSE 2 * f2[n - 1]]
    BY <2>5, Zenon
  <2>7. m + 1 \in Nat
    BY <2>1
  <2> QED
    BY <2>6, <2>7, Zenon
<1>3. G \in SUBSET Nat
  OBVIOUS
<1>4. top \in G
  <2> HIDE DEF G
  <2> QED
    BY <1>1, <1>2, <1>3, NatSet
<1> QED
  BY <1>4

LEMMA Powers ==
    ASSUME N!WidthAssumption
    PROVE  /\ N!Pow2[0] = 1
           /\ \A n \in 1 .. N!Big : N!Pow2[n] = 2 * N!Pow2[n - 1]
           /\ \A n \in 0 .. N!Big : N!Pow2[n] \in Nat \ {0}
<1>1. N!Big \in Nat
  BY DEF N!Big, N!WidthAssumption
<1>2. N!Pow2 = [n \in 0 .. N!Big |-> IF n = 0 THEN 1 ELSE 2 * N!Pow2[n - 1]]
  <2> DEFINE f == CHOOSE f : f = [n \in 0 .. N!Big |-> IF n = 0 THEN 1 ELSE 2 * f[n - 1]]
  <2>1. f = [n \in 0 .. N!Big |-> IF n = 0 THEN 1 ELSE 2 * f[n - 1]]
    BY <1>1, PowersExist
  <2>2. N!Pow2 = f
    BY DEF N!Pow2
  <2> QED
    BY <2>1, <2>2
<1>3. N!Pow2[0] = 1 /\ \A n \in 1 .. N!Big : N!Pow2[n] = 2 * N!Pow2[n - 1]
  BY <1>1, <1>2
<1>4. PICK G : G = {n \in Nat : n <= N!Big => N!Pow2[n] \in Nat \ {0}}
  OBVIOUS
<1>5. G \in SUBSET Nat /\ 0 \in G
  BY <1>3, <1>4
<1>6. ASSUME NEW n \in G PROVE n + 1 \in G
  <2>1. CASE n + 1 <= N!Big
    <3>1. n \in Nat /\ n + 1 \in 1 .. N!Big /\ (n + 1) - 1 = n /\ N!Pow2[n] \in Nat \ {0}
      BY <1>1, <1>4, <2>1
    <3>2. N!Pow2[n + 1] = 2 * N!Pow2[n]
      BY <1>3, <3>1
    <3> QED
      BY <1>4, <3>1, <3>2
  <2>2. CASE ~(n + 1 <= N!Big)
    BY <1>4, <2>2
  <2> QED
    BY <2>1, <2>2
<1>7. \A n \in Nat : n \in G
  BY <1>5, <1>6, NatSet
<1> QED
  BY <1>1, <1>3, <1>4, <1>7

\* The smaller one of two powers divides the larger one.
LEMMA PowerDivides ==
    ASSUME N!WidthAssumption, NEW m \in 0 .. N!Big, NEW n \in m .. N!Big
    PROVE  \E k \in Nat \ {0} : N!Pow2[n] = k * N!Pow2[m]
<1>1. N!Big \in Nat
  BY DEF N!Big, N!WidthAssumption
<1>2. PICK G : G = {i \in Nat : m + i <= N!Big => \E k \in Nat \ {0} : N!Pow2[m + i] = k * N!Pow2[m]}
  OBVIOUS
<1>3. G \in SUBSET Nat /\ 0 \in G
  <2>1. m + 0 = m /\ N!Pow2[m] = 1 * N!Pow2[m]
    BY <1>1, Powers
  <2> QED
    BY <1>2, <2>1
<1>4. ASSUME NEW i \in G PROVE i + 1 \in G
  <2>1. CASE m + (i + 1) <= N!Big
    <3>1. i \in Nat /\ m + i <= N!Big
      BY <1>1, <1>2, <2>1
    <3>2. PICK k \in Nat \ {0} : N!Pow2[m + i] = k * N!Pow2[m]
      BY <1>2, <3>1
    <3>3. m + (i + 1) \in 1 .. N!Big /\ (m + (i + 1)) - 1 = m + i
      BY <1>1, <2>1, <3>1
    <3>4. N!Pow2[m + (i + 1)] = 2 * N!Pow2[m + i]
      BY <3>3, Powers
    <3>5. N!Pow2[m] \in Nat /\ 2 * k \in Nat \ {0}
      BY Powers
    <3>6. N!Pow2[m + (i + 1)] = (2 * k) * N!Pow2[m]
      BY <3>2, <3>4, <3>5
    <3> QED
      BY <1>2, <3>1, <3>5, <3>6
  <2>2. CASE ~(m + (i + 1) <= N!Big)
    BY <1>2, <2>2
  <2> QED
    BY <2>1, <2>2
<1>5. \A i \in Nat : i \in G
  BY <1>3, <1>4, NatSet
<1>6. n - m \in Nat /\ m + (n - m) = n /\ n <= N!Big
  BY <1>1
<1> QED
  BY <1>2, <1>5, <1>6

-----------------------------------------------------------------------------
(* Remainders.                                                                                *)

LEMMA Remainder == ASSUME NEW x \in Int, NEW p \in Nat \ {0} PROVE x % p \in 0 .. p - 1
OBVIOUS

LEMMA SmallRemainder == ASSUME NEW p \in Nat \ {0}, NEW x \in 0 .. p - 1 PROVE x % p = x
OBVIOUS

LEMMA RemainderOfRemainder ==
    ASSUME NEW x \in Int, NEW p \in Nat \ {0}, NEW q \in Nat \ {0}, NEW k \in Nat \ {0}, q = k * p
    PROVE  (x % q) % p = x % p
<1>1. PICK d \in Int : x = q * d + (x % q)
  <2>1. x = q * (x \div q) + (x % q) /\ x \div q \in Int
    OBVIOUS
  <2> QED
    BY <2>1
<1>2. PICK r \in Int : r = x % q
  OBVIOUS
<1>3. PICK e \in Int : r = p * e + (r % p)
  <2>1. r = p * (r \div p) + (r % p) /\ r \div p \in Int
    OBVIOUS
  <2> QED
    BY <2>1
<1>4. PICK s \in 0 .. p - 1 : s = r % p
  BY Remainder
<1>5. q * d = (k * d) * p /\ k * d \in Int
  OBVIOUS
<1>6. x = (k * d + e) * p + s /\ k * d + e \in Int
  BY <1>1, <1>2, <1>3, <1>4, <1>5
<1>7. \A a \in Int : (a * p + s) % p = s
  OBVIOUS
<1> QED
  BY <1>2, <1>4, <1>6, <1>7

\* A width of the C types: its power is twice the one before.
LEMMA Widths ==
    ASSUME N!WidthAssumption, NEW w \in {N!Half, Width, N!Big}
    PROVE  /\ w \in 1 .. N!Big /\ w - 1 \in 0 .. N!Big
           /\ N!Pow2[w] \in Nat \ {0} /\ N!Pow2[w - 1] \in Nat \ {0} /\ N!Pow2[w] = 2 * N!Pow2[w - 1]
<1>1. Width \in Nat /\ Width >= 2 /\ N!Big = 2 * Width /\ N!Half \in 1 .. Width
  BY DEF N!WidthAssumption, N!Half, N!Big
<1>2. w \in 1 .. N!Big /\ w - 1 \in 0 .. N!Big /\ w \in 0 .. N!Big
  BY <1>1
<1> QED
  BY <1>2, Powers

\* A conversion to a signed type gives a number of it, keeps those, and looks at the low bits only.
LEMMA SignedIs ==
    ASSUME N!WidthAssumption, NEW w \in {N!Half, Width, N!Big}, NEW x \in Int
    PROVE  /\ N!Signed(x, w) \in N!Ints(w)
           /\ x \in N!Ints(w) => N!Signed(x, w) = x
           /\ \A y \in Int : x % N!Pow2[w] = y % N!Pow2[w] => N!Signed(x, w) = N!Signed(y, w)
<1>1. PICK p \in Nat \ {0}, h \in Nat \ {0} : p = N!Pow2[w] /\ h = N!Pow2[w - 1] /\ p = 2 * h
  BY Widths
<1>2. N!Ints(w) = -h .. h - 1
  BY <1>1 DEF N!Ints
<1>3. \A y : N!Signed(y, w) = IF (y % p) < h THEN y % p ELSE (y % p) - p
  BY <1>1 DEF N!Signed
<1>4. N!Signed(x, w) \in N!Ints(w)
  <2>1. PICK u \in 0 .. p - 1 : u = x % p
    BY Remainder
  <2>2. N!Signed(x, w) = IF u < h THEN u ELSE u - p
    BY <1>3, <2>1
  <2>3. CASE u < h
    BY <1>1, <1>2, <2>2, <2>3, SMTT(30)
  <2>4. CASE ~(u < h)
    <3>1. u - p \in -h .. h - 1
      BY <1>1, <2>1, <2>4
    <3> QED
      BY <1>2, <2>2, <2>4, <3>1
  <2> QED
    BY <2>3, <2>4
<1>5. ASSUME x \in N!Ints(w) PROVE N!Signed(x, w) = x
  <2>1. CASE x >= 0
    <3>1. x \in 0 .. p - 1 /\ x < h
      BY <1>1, <1>2, <1>5, <2>1
    <3>2. x % p = x
      BY <3>1, SmallRemainder
    <3> QED
      BY <1>3, <3>1, <3>2
  <2>2. CASE x < 0
    <3>1. x + p \in 0 .. p - 1 /\ x + p >= h /\ x = (-1) * p + (x + p)
      BY <1>1, <1>2, <1>5, <2>2, SMTT(30)
    <3>2. \A r \in 0 .. p - 1 : ((-1) * p + r) % p = r
      OBVIOUS
    <3>3. x % p = x + p
      BY <3>1, <3>2
    <3> QED
      BY <1>1, <1>3, <3>1, <3>3
  <2> QED
    BY <1>1, <1>2, <1>5, <2>1, <2>2
<1>6. ASSUME NEW y \in Int, x % N!Pow2[w] = y % N!Pow2[w] PROVE N!Signed(x, w) = N!Signed(y, w)
  BY <1>1, <1>3, <1>6
<1> QED
  BY <1>4, <1>5, <1>6

-----------------------------------------------------------------------------
\* The union of the column holds the number of the present row, at the width it was bound with;
\* an int leaves the upper half zero, as it was allocated.
NumInv ==
    /\ N!TypeOK
    /\ data.null = (value = N!NullValue)
    /\ type = "long" => data.bits \in 0 .. N!Pow2[Width] - 1
    /\ value # N!NullValue /\ type = "long" => data.bits = value % N!Pow2[Width]
    /\ value # N!NullValue /\ type = "longlong" => data.bits = value % N!Pow2[N!Big]

\* The numbers of the three widths are in each other, the unsigned int is in the bigint.
LEMMA Nested ==
    ASSUME N!WidthAssumption
    PROVE  /\ \E k \in Nat \ {0} : N!Pow2[N!Big] = k * N!Pow2[Width]
           /\ \E k \in Nat \ {0} : N!Pow2[Width] = k * N!Pow2[N!Half]
           /\ \E k \in Nat \ {0} : N!Pow2[N!Big] = k * N!Pow2[N!Half]
           /\ N!Pow2[Width] <= N!Pow2[N!Big - 1]
           /\ N!Pow2[Width] <= N!Pow2[N!Big]
<1>1. Width \in Nat /\ Width >= 2 /\ N!Big = 2 * Width /\ N!Half \in 1 .. Width
  BY DEF N!WidthAssumption, N!Half, N!Big
<1>2. /\ Width \in 0 .. N!Big /\ N!Half \in 0 .. N!Big /\ N!Big - 1 \in 0 .. N!Big
      /\ N!Big \in Width .. N!Big /\ Width \in N!Half .. N!Big /\ N!Big \in N!Half .. N!Big
      /\ N!Big - 1 \in Width .. N!Big
  BY <1>1
<1>3. PICK k \in Nat \ {0} : N!Pow2[N!Big - 1] = k * N!Pow2[Width]
  BY <1>2, PowerDivides
<1>4. PICK p \in Nat \ {0}, b \in Nat \ {0} : p = N!Pow2[Width] /\ b = N!Pow2[N!Big - 1] /\ N!Pow2[N!Big] = 2 * b
  BY Widths
<1>5. p <= b
  BY <1>3, <1>4
<1>6. N!Pow2[Width] <= N!Pow2[N!Big - 1] /\ N!Pow2[Width] <= N!Pow2[N!Big]
  BY <1>4, <1>5
<1> QED
  BY <1>2, <1>6, PowerDivides

LEMMA NumInit == ASSUME N!WidthAssumption, N!Init PROVE NumInv
<1>1. PICK p \in Nat \ {0}, b \in Nat \ {0} : p = N!Pow2[Width] /\ b = N!Pow2[N!Big]
  BY Widths
<1>2. /\ type \in {"long", "longlong", "string"} /\ value = N!NullValue
      /\ data = [null |-> TRUE, bits |-> 0] /\ bytes = 0
  BY DEF N!Init
<1>3. data \in [null : BOOLEAN, bits : N!uInts(N!Big)] /\ bytes \in 0 .. N!MaxBytes
  BY <1>1, <1>2 DEF N!uInts, N!MaxBytes
<1>4. data.null = TRUE /\ data.bits = 0 /\ data.bits \in 0 .. p - 1 /\ (value = N!NullValue) = TRUE
  BY <1>1, <1>2
<1>5. data.null = (value = N!NullValue)
  BY <1>4, Zenon
<1>6. N!TypeOK
  BY <1>2, <1>3 DEF N!TypeOK
<1> QED
  BY <1>1, <1>2, <1>4, <1>5, <1>6, Zenon DEF NumInv

LEMMA NumRow ==
    ASSUME N!WidthAssumption, NumInv, NEW v \in N!Ints(N!Big) \cup {N!NullValue}, N!ResultNext(v)
    PROVE  NumInv'
<1>1. PICK p \in Nat \ {0}, b \in Nat \ {0}, h \in Nat \ {0} :
         p = N!Pow2[Width] /\ b = N!Pow2[N!Big] /\ h = N!Pow2[N!Big - 1] /\ b = 2 * h /\ p <= b
  BY Widths, Nested
<1>2. N!uInts(N!Big) = 0 .. b - 1 /\ N!Ints(N!Big) = -h .. h - 1 /\ N!NullValue = b
  BY <1>1 DEF N!uInts, N!Ints, N!NullValue
<1>3. v \in Int /\ v % p \in 0 .. p - 1 /\ v % b \in 0 .. b - 1
  <2>1. v \in Int
    BY <1>1, <1>2
  <2> QED
    BY <2>1, Remainder
<1>4. /\ type \in {"long", "longlong", "string"} /\ data \in [null : BOOLEAN, bits : 0 .. b - 1]
      /\ bytes \in 0 .. N!MaxBytes
  BY <1>2 DEF NumInv, N!TypeOK
<1>5. value' = v /\ data' = N!Stored(v) /\ type' = type /\ bytes' = bytes
  BY DEF N!ResultNext
<1>6. CASE v = N!NullValue
  <2>1. data' = [data EXCEPT !.null = TRUE]
    <3>1. N!Stored(v) = [data EXCEPT !.null = TRUE]
      BY <1>6 DEF N!Stored
    <3> QED
      BY <1>5, <3>1
  <2>2. data'.null = TRUE /\ data'.bits = data.bits /\ data' \in [null : BOOLEAN, bits : 0 .. b - 1]
    BY <1>4, <2>1
  <2>3. N!TypeOK'
    BY <1>2, <1>4, <1>5, <2>2 DEF N!TypeOK, N!uInts, N!MaxBytes, N!NullValue, N!Ints
  <2> QED
    BY <1>1, <1>5, <1>6, <2>2, <2>3 DEF NumInv, N!NullValue
<1>7. CASE v # N!NullValue /\ type = "long"
  <2>1. data' = [null |-> FALSE, bits |-> data.bits - (data.bits % p) + (v % p)]
    BY <1>1, <1>5, <1>7 DEF N!Stored
  <2>2. data.bits \in 0 .. p - 1
    BY <1>1, <1>7 DEF NumInv
  <2>3. data.bits % p = data.bits
    BY <2>2, SmallRemainder
  <2>4. data' = [null |-> FALSE, bits |-> v % p]
    <3>1. PICK r \in Int : r = v % p
      BY <1>3
    <3>2. PICK d \in Int : d = data.bits
      BY <2>2
    <3>3. d - d + r = r
      OBVIOUS
    <3> QED
      BY <2>1, <2>3, <3>1, <3>2, <3>3, Zenon
  <2>5. v % p \in 0 .. b - 1
    BY <1>1, <1>3
  <2>6. data'.null = FALSE /\ data'.bits = v % p /\ data' \in [null : BOOLEAN, bits : 0 .. b - 1]
    BY <2>4, <2>5
  <2>7. N!TypeOK'
    BY <1>2, <1>4, <1>5, <2>6 DEF N!TypeOK, N!uInts, N!MaxBytes, N!NullValue, N!Ints
  <2> QED
    BY <1>1, <1>3, <1>5, <1>7, <2>6, <2>7 DEF NumInv, N!NullValue
<1>8. CASE v # N!NullValue /\ type = "longlong"
  <2>1. data' = [null |-> FALSE, bits |-> v % b]
    BY <1>1, <1>5, <1>8 DEF N!Stored
  <2>2. data'.null = FALSE /\ data'.bits = v % b /\ data' \in [null : BOOLEAN, bits : 0 .. b - 1]
    BY <1>3, <2>1
  <2>3. N!TypeOK'
    BY <1>2, <1>4, <1>5, <2>2 DEF N!TypeOK, N!uInts, N!MaxBytes, N!NullValue, N!Ints
  <2> QED
    BY <1>1, <1>5, <1>8, <2>2, <2>3 DEF NumInv, N!NullValue
<1>9. CASE v # N!NullValue /\ type = "string"
  <2>1. data' = [data EXCEPT !.null = FALSE]
    BY <1>5, <1>9 DEF N!Stored
  <2>2. data'.null = FALSE /\ data'.bits = data.bits /\ data' \in [null : BOOLEAN, bits : 0 .. b - 1]
    BY <1>4, <2>1
  <2>3. N!TypeOK'
    BY <1>2, <1>4, <1>5, <2>2 DEF N!TypeOK, N!uInts, N!MaxBytes, N!NullValue, N!Ints
  <2> QED
    BY <1>5, <1>9, <2>2, <2>3 DEF NumInv, N!NullValue
<1> QED
  BY <1>4, <1>6, <1>7, <1>8, <1>9

LEMMA NumReceive ==
    ASSUME N!WidthAssumption, NumInv, NEW n \in 1 .. 3, N!Receive(n)
    PROVE  NumInv'
<1>1. type' = type /\ value' = value /\ data' = data /\ bytes' = bytes + n /\ bytes + n <= N!MaxBytes
  BY DEF N!Receive
<1>2. N!MaxBytes \in Nat
  BY Widths DEF N!MaxBytes
<1>3. bytes' \in 0 .. N!MaxBytes
  BY <1>1, <1>2 DEF NumInv, N!TypeOK
<1> QED
  BY <1>1, <1>3 DEF NumInv, N!TypeOK, N!Ints, N!uInts, N!NullValue, N!MaxBytes

\* What the getters return for a number of the column.
LEMMA NumGets ==
    ASSUME N!WidthAssumption, NumInv, N!Number
    PROVE  /\ N!GetInt \in N!Ints(Width)
           /\ value \in N!Ints(Width)  => N!GetInt = value
           /\ value \in N!Ints(N!Half) => N!GetShort = value
           /\ value \in N!uInts(Width) => N!GetuInt = value
           /\ value >= 0 => N!GetuBigint = value
           /\ N!GetBigint = IF type = "long" THEN value % N!Pow2[Width] ELSE value
<1>1. PICK p \in Nat \ {0}, b \in Nat \ {0}, h \in Nat \ {0}, q \in Nat \ {0}, s \in Nat \ {0} :
         /\ p = N!Pow2[Width] /\ b = N!Pow2[N!Big] /\ h = N!Pow2[N!Big - 1] /\ s = N!Pow2[N!Half]
         /\ q = N!Pow2[Width - 1] /\ p = 2 * q /\ b = 2 * h /\ p <= b /\ p <= h
  BY Widths, Nested
<1>2. /\ N!Ints(N!Big) = -h .. h - 1 /\ N!Ints(Width) = -q .. q - 1 /\ N!uInts(Width) = 0 .. p - 1
      /\ N!uInts(N!Big) = 0 .. b - 1
  BY <1>1 DEF N!uInts, N!Ints
<1>3. value \in N!Ints(N!Big) /\ value \in Int
  BY <1>1, <1>2 DEF NumInv, N!TypeOK, N!Number
<1>4. data.null = FALSE
  <2>1. (value = N!NullValue) = FALSE
    BY DEF N!Number
  <2> QED
    BY <2>1, Zenon DEF NumInv
<1>5. data.bits \in 0 .. b - 1
  BY <1>2 DEF NumInv, N!TypeOK
<1>6. /\ N!GetInt = N!Signed(data.bits, Width) /\ N!GetShort = N!Signed(data.bits, N!Half)
      /\ N!GetuInt = data.bits % p /\ N!GetuBigint = data.bits /\ N!GetBigint = N!Signed(data.bits, N!Big)
  BY <1>1, <1>4 DEF N!GetInt, N!GetShort, N!GetuInt, N!GetuBigint, N!GetBigint
<1>7. \/ type = "long" /\ value \in N!Ints(Width) /\ data.bits = value % p
      \/ type = "longlong" /\ data.bits = value % b
  BY <1>1 DEF NumInv, N!Number
\* The low bits are those of the number.
<1>8. data.bits % p = value % p /\ data.bits % s = value % s
  <2>1. PICK k \in Nat \ {0} : b = k * p
    BY <1>1, Nested
  <2>2. PICK k2 \in Nat \ {0} : p = k2 * s
    BY <1>1, Nested
  <2>3. PICK k3 \in Nat \ {0} : b = k3 * s
    BY <1>1, Nested
  <2>4. (value % b) % p = value % p
    BY <1>3, <2>1, RemainderOfRemainder
  <2>5. (value % p) % s = value % s
    BY <1>3, <2>2, RemainderOfRemainder
  <2>6. (value % b) % s = value % s
    BY <1>3, <2>3, RemainderOfRemainder
  <2>7. (value % p) % p = value % p
    BY <1>3, Remainder, SmallRemainder
  <2> QED
    BY <1>7, <2>4, <2>5, <2>6, <2>7
<1>9. data.bits \in Int
  BY <1>5
<1>10. N!Signed(data.bits, Width) = N!Signed(value, Width) /\ N!Signed(data.bits, N!Half) = N!Signed(value, N!Half)
  <2>1. /\ \A x, y \in Int : x % p = y % p => N!Signed(x, Width) = N!Signed(y, Width)
        /\ \A x, y \in Int : x % s = y % s => N!Signed(x, N!Half) = N!Signed(y, N!Half)
    <3>1. \A w \in {N!Half, Width, N!Big} : \A x \in Int : \A y \in Int :
             x % N!Pow2[w] = y % N!Pow2[w] => N!Signed(x, w) = N!Signed(y, w)
      <4> TAKE w \in {N!Half, Width, N!Big}
      <4> TAKE x \in Int
      <4> QED
        BY SignedIs
    <3> QED
      BY <1>1, <3>1, Zenon
  <2> QED
    BY <1>3, <1>8, <1>9, <2>1
<1>11. N!GetInt \in N!Ints(Width)
  BY <1>6, <1>9, SignedIs
<1>12. value \in N!Ints(Width) => N!GetInt = value
  BY <1>3, <1>6, <1>10, SignedIs
<1>13. value \in N!Ints(N!Half) => N!GetShort = value
  BY <1>3, <1>6, <1>10, SignedIs
<1>14. value \in N!uInts(Width) => N!GetuInt = value
  BY <1>2, <1>6, <1>8, SmallRemainder
<1>15. value >= 0 => N!GetuBigint = value
  <2>1. ASSUME value >= 0, type = "long", value \in N!Ints(Width), data.bits = value % p PROVE N!GetuBigint = value
    <3>1. value \in 0 .. p - 1
      BY <1>1, <1>2, <1>3, <2>1
    <3> QED
      BY <1>6, <2>1, <3>1, SmallRemainder
  <2>2. ASSUME value >= 0, data.bits = value % b PROVE N!GetuBigint = value
    <3>1. value \in 0 .. b - 1
      BY <1>1, <1>2, <1>3, <2>2
    <3> QED
      BY <1>6, <2>2, <3>1, SmallRemainder
  <2> QED
    BY <1>7, <2>1, <2>2
<1>16. N!GetBigint = IF type = "long" THEN value % p ELSE value
  <2>1. ASSUME type = "long", data.bits = value % p PROVE N!GetBigint = value % p
    <3>1. PICK r \in 0 .. p - 1 : r = value % p
      BY <1>3, Remainder
    <3>2. r \in N!Ints(N!Big) /\ r \in Int
      <4>1. r \in Int /\ 0 <= r /\ r <= p - 1 /\ p - 1 <= h - 1
        BY <1>1
      <4>2. r \in -h .. h - 1
        BY <4>1
      <4> QED
        BY <1>2, <4>1, <4>2
    <3>3. N!Signed(r, N!Big) = r
      BY <3>2, SignedIs
    <3> QED
      BY <1>6, <2>1, <3>1, <3>3
  <2>2. ASSUME type = "longlong", data.bits = value % b PROVE N!GetBigint = value
    <3>1. data.bits % b = value % b
      BY <1>3, <2>2, Remainder, SmallRemainder
    <3>2. N!Signed(data.bits, N!Big) = N!Signed(value, N!Big)
      BY <1>1, <1>3, <1>9, <3>1, SignedIs
    <3> QED
      BY <1>3, <1>6, <3>2, SignedIs
  <2> QED
    BY <1>7, <2>1, <2>2
<1> QED
  BY <1>1, <1>11, <1>12, <1>13, <1>14, <1>15, <1>16

LEMMA NumSafe == ASSUME N!WidthAssumption, NumInv PROVE NumbersExact
<1>1. N!NullReadsZero
  <2> SUFFICES ASSUME value = N!NullValue PROVE {N!GetInt, N!GetShort, N!GetuInt, N!GetBigint, N!GetuBigint} = {0}
    BY DEF N!NullReadsZero
  <2>1. data.null = TRUE
    <3>1. (value = N!NullValue) = TRUE
      OBVIOUS
    <3> QED
      BY <3>1, Zenon DEF NumInv
  <2>2. N!GetInt = 0 /\ N!GetShort = 0 /\ N!GetuInt = 0 /\ N!GetBigint = 0 /\ N!GetuBigint = 0
    BY <2>1 DEF N!GetInt, N!GetShort, N!GetuInt, N!GetBigint, N!GetuBigint
  <2> QED
    BY <2>2
<1>2. N!GettersExact
  BY NumGets DEF N!GettersExact
<1>3. (N!BytesSent = bytes) <=> (bytes \in N!Ints(Width))
  <2>1. bytes \in Int
    <3>1. N!MaxBytes \in Nat
      BY Widths DEF N!MaxBytes
    <3> QED
      BY <3>1 DEF NumInv, N!TypeOK
  <2> QED
    BY <2>1, SignedIs DEF N!BytesSent, N!SetInt
<1>4. ASSUME N!Number
      PROVE  /\ value \in N!Ints(N!Half) => N!SetShort(value) = value
             /\ (N!IdSentBack = value) <=> (value \in N!Ints(Width))
             /\ value \in N!uInts(Width) => N!SetuInt(value) = value
             /\ N!SetBigint(value) = value
             /\ value >= 0 => N!SetuBigint(value) = value
  <2>1. PICK p \in Nat \ {0}, b \in Nat \ {0}, h \in Nat \ {0}, q \in Nat \ {0} :
           /\ p = N!Pow2[Width] /\ b = N!Pow2[N!Big] /\ h = N!Pow2[N!Big - 1] /\ b = 2 * h
           /\ q = N!Pow2[Width - 1]
    BY Widths
  <2>2. /\ N!Ints(N!Big) = -h .. h - 1 /\ N!uInts(Width) = 0 .. p - 1 /\ N!Ints(Width) = -q .. q - 1
    BY <2>1 DEF N!uInts, N!Ints
  <2>3. value \in N!Ints(N!Big)
    BY <1>4 DEF NumInv, N!TypeOK, N!Number
  <2>4. value \in Int
    BY <2>1, <2>2, <2>3
  <2>5. value \in N!Ints(N!Half) => N!SetShort(value) = value
    BY <2>4, SignedIs DEF N!SetShort
  <2>6. N!SetBigint(value) = value
    BY <2>3, <2>4, SignedIs DEF N!SetBigint
  <2>7. value \in N!uInts(Width) => N!SetuInt(value) = value
    BY <2>1, <2>2, SmallRemainder DEF N!SetuInt
  <2>8. ASSUME value >= 0 PROVE N!SetuBigint(value) = value
    <3>1. value \in 0 .. b - 1
      BY <2>1, <2>2, <2>3, <2>8
    <3> QED
      BY <2>1, <3>1, SmallRemainder DEF N!SetuBigint
  <2>9. N!IdSentBack = N!GetInt
    <3>1. N!GetInt \in N!Ints(Width) /\ N!GetInt \in Int
      <4>1. N!GetInt \in N!Ints(Width)
        BY <1>4, NumGets
      <4> QED
        BY <2>1, <2>2, <4>1
    <3> QED
      BY <3>1, SignedIs DEF N!IdSentBack, N!SetInt
  <2>10. (N!IdSentBack = value) <=> (value \in N!Ints(Width))
    BY <1>4, <2>9, NumGets
  <2> QED
    BY <2>5, <2>6, <2>7, <2>8, <2>10
<1>5. N!SettersExact
  BY <1>3, <1>4 DEF N!SettersExact
<1> QED
  BY <1>1, <1>2, <1>5 DEF NumbersExact, NumInv

\* For every width of an int, and whatever rows are fetched one after another into the same union:
\* the getters return the number of the column if their C type can hold it, and 0 for NULL; the
\* setters send the number they are given; an id that an int cannot hold comes back as another one.
THEOREM NumbersSafe == ASSUME N!WidthAssumption PROVE N!Spec => []NumbersExact
<1>1. N!Init => NumInv
  BY NumInit
<1>2. NumInv /\ [N!Next]_N!vars => NumInv'
  <2>1. ASSUME NumInv, UNCHANGED N!vars PROVE NumInv'
    BY <2>1 DEF NumInv, N!vars, N!TypeOK, N!Ints, N!uInts, N!NullValue, N!MaxBytes
  <2> QED
    BY <2>1, NumRow, NumReceive DEF N!Next
<1>3. NumInv => NumbersExact
  BY NumSafe
<1> QED
  BY <1>1, <1>2, <1>3, PTL DEF N!Spec

-----------------------------------------------------------------------------
(* The map of product names, for any texts, addresses and number of buckets.                   *)

MapNode == [key: Location, value: Location]
MapBucket == 0 .. Size - 1

MapTyped ==
    /\ buckets \in [MapBucket -> Seq(MapNode)]
    /\ strings \in [Location -> Text \cup Product \cup {None}]
    /\ names \in [Text -> Product \cup {None}]

\* The strings of a node are allocated: a text of its bucket, and a product.
MapAllocated ==
    \A b \in MapBucket : \A i \in DOMAIN buckets[b] :
        /\ strings[buckets[b][i].key] \in Text /\ M!FindHead(strings[buckets[b][i].key]) = b
        /\ strings[buckets[b][i].value] \in Product

\* No two nodes share a string, nor does a node use one twice.
MapApart ==
    \A b, c \in MapBucket : \A i \in DOMAIN buckets[b], j \in DOMAIN buckets[c] :
        /\ buckets[b][i].key # buckets[c][j].value
        /\ buckets[b][i].key = buckets[c][j].key => b = c /\ i = j
        /\ buckets[b][i].value = buckets[c][j].value => b = c /\ i = j

\* A text is the key of at most one node.
MapOnce ==
    \A b \in MapBucket : \A i, j \in DOMAIN buckets[b] :
        strings[buckets[b][i].key] = strings[buckets[b][j].key] => i = j

MapHeld ==
    \A x \in Location : strings[x] # None =>
        \E b \in MapBucket : \E i \in DOMAIN buckets[b] : x \in {buckets[b][i].key, buckets[b][i].value}

MapFinds ==
    \A t \in Text :
        \/ names[t] = None /\ \A i \in DOMAIN buckets[M!FindHead(t)] :
                                 strings[buckets[M!FindHead(t)][i].key] # t
        \/ \E i \in DOMAIN buckets[M!FindHead(t)] :
              /\ strings[buckets[M!FindHead(t)][i].key] = t
              /\ strings[buckets[M!FindHead(t)][i].value] = names[t]

MapInv == MapTyped /\ MapAllocated /\ MapApart /\ MapOnce /\ MapHeld /\ MapFinds

LEMMA MapHead ==
    ASSUME M!MapAssumption, NEW t \in Text
    PROVE  M!FindHead(t) \in MapBucket
BY DEF M!MapAssumption, M!FindHead, MapBucket

LEMMA MapNodes ==
    ASSUME MapTyped, NEW b \in MapBucket
    PROVE  /\ buckets[b] \in Seq(MapNode) /\ DOMAIN buckets[b] = 1 .. Len(buckets[b])
           /\ \A i \in DOMAIN buckets[b] :
                 buckets[b][i] \in MapNode /\ buckets[b][i].key \in Location /\ buckets[b][i].value \in Location
<1>1. buckets[b] \in Seq(MapNode)
  BY DEF MapTyped
<1>2. DOMAIN buckets[b] = 1 .. Len(buckets[b]) /\ \A i \in DOMAIN buckets[b] : buckets[b][i] \in MapNode
  BY <1>1
<1> QED
  BY <1>1, <1>2 DEF MapNode

\* find_data() finds the node of a text, of which there is only one.
LEMMA MapFound ==
    ASSUME M!MapAssumption, MapInv, NEW t \in Text,
           NEW i \in DOMAIN buckets[M!FindHead(t)], strings[buckets[M!FindHead(t)][i].key] = t
    PROVE  /\ M!Exists(t) /\ M!FindData(t) = i /\ M!GetByKey(t) = buckets[M!FindHead(t)][i].value
           /\ M!Matching(t) = {i}
<1>1. M!FindHead(t) \in MapBucket
  BY MapHead
<1>2. M!Matching(t) = {i}
  BY <1>1 DEF M!Matching, MapInv, MapOnce
<1>3. i \in Nat
  BY <1>1, MapNodes DEF MapInv
<1>4. M!FindData(t) = i
  BY <1>2, <1>3 DEF M!FindData, M!Min
<1> QED
  BY <1>2, <1>4 DEF M!Exists, M!GetByKey

LEMMA MapInit == ASSUME M!MapAssumption, M!Init PROVE MapInv
<1>1. MapTyped
  BY DEF M!Init, MapTyped, MapBucket
<1>2. \A b \in MapBucket : DOMAIN buckets[b] = {}
  BY DEF M!Init, MapBucket
<1>3. MapAllocated /\ MapApart /\ MapOnce
  BY <1>2 DEF MapAllocated, MapApart, MapOnce
<1>4. MapHeld
  BY DEF M!Init, MapHeld
<1>5. MapFinds
  BY <1>2, MapHead DEF M!Init, MapFinds
<1> QED
  BY <1>1, <1>3, <1>4, <1>5 DEF MapInv

LEMMA MapSafe == ASSUME M!MapAssumption, MapInv PROVE NamesFound
<1>1. M!TypeOK
  BY DEF MapInv, MapTyped, MapBucket, MapNode, M!TypeOK
<1>2. ASSUME NEW t \in Text PROVE M!ProductName(t) = names[t]
  <2>1. M!FindHead(t) \in MapBucket
    BY MapHead
  <2>2. CASE names[t] = None /\ \A i \in DOMAIN buckets[M!FindHead(t)] :
                 strings[buckets[M!FindHead(t)][i].key] # t
    BY <2>2 DEF M!ProductName, M!GetByKey, M!Exists, M!Matching
  <2>3. ASSUME NEW i \in DOMAIN buckets[M!FindHead(t)],
               strings[buckets[M!FindHead(t)][i].key] = t,
               strings[buckets[M!FindHead(t)][i].value] = names[t]
        PROVE  M!ProductName(t) = names[t]
    <3>1. M!GetByKey(t) = buckets[M!FindHead(t)][i].value
      BY <2>3, MapFound
    <3>2. M!GetByKey(t) # None
      BY <2>1, <3>1, MapNodes DEF MapInv, M!MapAssumption
    <3> QED
      BY <2>3, <3>1, <3>2 DEF M!ProductName
  <2> QED
    BY <2>2, <2>3 DEF MapInv, MapFinds
<1>3. M!StringsAccounted
  <2>1. ASSUME NEW x \in M!Held PROVE x \in Location /\ strings[x] # None
    <3>1. PICK b \in MapBucket : \E i \in DOMAIN buckets[b] : x \in {buckets[b][i].key, buckets[b][i].value}
      BY <2>1 DEF M!Held, MapBucket
    <3>2. PICK i \in DOMAIN buckets[b] : x \in {buckets[b][i].key, buckets[b][i].value}
      BY <3>1
    <3>3. strings[buckets[b][i].key] \in Nat /\ strings[buckets[b][i].value] \in Nat
      BY DEF MapInv, MapAllocated, M!MapAssumption
    <3> QED
      BY <3>2, <3>3, MapNodes DEF MapInv, M!MapAssumption
  <2>2. ASSUME NEW x \in Location, strings[x] # None PROVE x \in M!Held
    BY <2>2 DEF MapInv, MapHeld, M!Held, MapBucket
  <2> QED
    BY <2>1, <2>2 DEF M!StringsAccounted
<1> QED
  BY <1>1, <1>2, <1>3 DEF NamesFound, M!FindsLast

\* A name that is found: its node gets the new value, the old one and the new key are freed.
LEMMA MapOverwrite ==
    ASSUME M!MapAssumption, MapInv, NEW t \in Text, NEW p \in Product,
           NEW key \in M!Free, NEW val \in M!Free, key # val, M!OverwritePut(t, key, val),
           strings' = [x \in Location |->
                          IF x \in M!GivenBack(t, key) THEN None
                          ELSE IF x = key THEN t ELSE IF x = val THEN p ELSE strings[x]],
           names' = [names EXCEPT ![t] = p], M!Exists(t)
    PROVE  MapInv'
<1>1. PICK h \in MapBucket : h = M!FindHead(t)
  BY MapHead
<1>2. PICK i \in DOMAIN buckets[h] : strings[buckets[h][i].key] = t
  BY <1>1 DEF M!Exists, M!Matching
<1>3. PICK old : old = buckets[h][i].value
  OBVIOUS
<1>4. M!FindData(t) = i /\ M!GetByKey(t) = old
  BY <1>1, <1>2, <1>3, MapFound
<1>5. key \in Location /\ val \in Location /\ strings[key] = None /\ strings[val] = None
  BY DEF M!Free
<1>6. /\ \A b \in MapBucket : b # h => buckets'[b] = buckets[b]
      /\ buckets'[h] = [buckets[h] EXCEPT ![i].value = val]
      /\ buckets' \in [MapBucket -> Seq(MapNode)]
  <2>1. buckets' = [buckets EXCEPT ![h] = [buckets[h] EXCEPT ![i].value = val]]
    BY <1>1, <1>4 DEF M!OverwritePut, MapInv, MapTyped
  <2>2. [buckets[h] EXCEPT ![i].value = val] \in Seq(MapNode)
    <3>1. [buckets[h][i] EXCEPT !.value = val] \in MapNode
      BY <1>5, MapNodes DEF MapInv, MapNode
    <3> QED
      BY <3>1, MapNodes DEF MapInv
  <2> QED
    BY <2>1, <2>2 DEF MapInv, MapTyped
<1>7. /\ \A b \in MapBucket : DOMAIN buckets'[b] = DOMAIN buckets[b]
      /\ \A b \in MapBucket : \A j \in DOMAIN buckets[b] :
            /\ buckets'[b][j].key = buckets[b][j].key
            /\ buckets'[b][j].value = IF b = h /\ j = i THEN val ELSE buckets[b][j].value
  <2>1. /\ DOMAIN buckets'[h] = DOMAIN buckets[h]
        /\ \A j \in DOMAIN buckets[h] :
              buckets'[h][j] = IF j = i THEN [buckets[h][i] EXCEPT !.value = val] ELSE buckets[h][j]
    BY <1>6
  <2>2. buckets[h][i] \in MapNode
    BY MapNodes DEF MapInv
  <2>3. /\ [buckets[h][i] EXCEPT !.value = val].key = buckets[h][i].key
        /\ [buckets[h][i] EXCEPT !.value = val].value = val
    BY <2>2 DEF MapNode
  <2> QED
    BY <1>6, <2>1, <2>3
<1>8. old \in Location /\ strings[old] # None
  BY <1>3, MapNodes DEF MapInv, MapAllocated, M!MapAssumption
<1>9. \A x \in Location :
          strings'[x] = IF x \in {key, old} THEN None ELSE IF x = val THEN p ELSE strings[x]
  BY <1>4 DEF M!GivenBack
<1>10. \A b \in MapBucket : \A j \in DOMAIN buckets[b] :
          /\ buckets[b][j].key \in Location /\ buckets[b][j].value \in Location
          /\ buckets[b][j].key \notin {key, val, old}
          /\ buckets[b][j].value \notin {key, val}
          /\ buckets[b][j].value = old => b = h /\ j = i
  <2> SUFFICES ASSUME NEW b \in MapBucket, NEW j \in DOMAIN buckets[b]
               PROVE  /\ buckets[b][j].key \in Location /\ buckets[b][j].value \in Location
                      /\ buckets[b][j].key \notin {key, val, old}
                      /\ buckets[b][j].value \notin {key, val}
                      /\ buckets[b][j].value = old => b = h /\ j = i
    OBVIOUS
  <2>1. strings[buckets[b][j].key] # None /\ strings[buckets[b][j].value] # None
    BY DEF MapInv, MapAllocated, M!MapAssumption
  <2>2. buckets[b][j].key # old /\ (buckets[b][j].value = old => b = h /\ j = i)
    BY <1>3 DEF MapInv, MapApart
  <2> QED
    BY <1>5, <2>1, <2>2, MapNodes DEF MapInv
<1>11. \A b \in MapBucket : \A j \in DOMAIN buckets[b] :
          /\ strings'[buckets'[b][j].key] = strings[buckets[b][j].key]
          /\ strings'[buckets'[b][j].value] = IF b = h /\ j = i THEN p ELSE strings[buckets[b][j].value]
  BY <1>5, <1>7, <1>8, <1>9, <1>10
<1>12. MapTyped'
  BY <1>6 DEF MapInv, MapTyped
<1>13. MapAllocated'
  BY <1>7, <1>11 DEF MapInv, MapAllocated, M!FindHead
<1>14. MapApart'
  BY <1>7, <1>10 DEF MapInv, MapApart
<1>15. MapOnce'
  BY <1>7, <1>11 DEF MapInv, MapOnce
<1>16. MapHeld'
  <2> SUFFICES ASSUME NEW x \in Location, strings'[x] # None
               PROVE  \E b \in MapBucket : \E j \in DOMAIN buckets'[b] :
                         x \in {buckets'[b][j].key, buckets'[b][j].value}
    BY DEF MapHeld
  <2>1. CASE x = val
    BY <1>7, <2>1
  <2>2. CASE x # val
    <3>1. strings[x] # None /\ x # old
      BY <1>9, <2>2
    <3>2. PICK b \in MapBucket : \E j \in DOMAIN buckets[b] : x \in {buckets[b][j].key, buckets[b][j].value}
      BY <3>1 DEF MapInv, MapHeld
    <3>3. PICK j \in DOMAIN buckets[b] : x \in {buckets[b][j].key, buckets[b][j].value}
      BY <3>2
    <3>4. x \in {buckets'[b][j].key, buckets'[b][j].value}
      BY <1>3, <1>7, <3>1, <3>3
    <3> QED
      BY <1>7, <3>3, <3>4
  <2> QED
    BY <2>1, <2>2
<1>17. MapFinds'
  <2> SUFFICES ASSUME NEW u \in Text
               PROVE  \/ names'[u] = None /\ \A j \in DOMAIN buckets'[M!FindHead(u)] :
                                               strings'[buckets'[M!FindHead(u)][j].key] # u
                      \/ \E j \in DOMAIN buckets'[M!FindHead(u)] :
                            /\ strings'[buckets'[M!FindHead(u)][j].key] = u
                            /\ strings'[buckets'[M!FindHead(u)][j].value] = names'[u]
    BY DEF MapFinds, M!FindHead
  <2>1. names'[u] = IF u = t THEN p ELSE names[u]
    BY DEF MapInv, MapTyped
  <2>2. CASE u = t
    <3>1. /\ i \in DOMAIN buckets'[h] /\ strings'[buckets'[h][i].key] = u
          /\ strings'[buckets'[h][i].value] = names'[u]
      BY <1>2, <1>7, <1>11, <2>1, <2>2
    <3> QED
      BY <1>1, <2>2, <3>1
  <2>3. CASE u # t
    <3>1. PICK b \in MapBucket : b = M!FindHead(u)
      BY MapHead
    <3>2. \/ names[u] = None /\ \A j \in DOMAIN buckets[b] : strings[buckets[b][j].key] # u
          \/ \E j \in DOMAIN buckets[b] :
                strings[buckets[b][j].key] = u /\ strings[buckets[b][j].value] = names[u]
      BY <3>1 DEF MapInv, MapFinds
    <3>3. \/ names'[u] = None /\ \A j \in DOMAIN buckets'[b] : strings'[buckets'[b][j].key] # u
          \/ \E j \in DOMAIN buckets'[b] :
                strings'[buckets'[b][j].key] = u /\ strings'[buckets'[b][j].value] = names'[u]
      <4>0. /\ names'[u] = names[u] /\ DOMAIN buckets'[b] = DOMAIN buckets[b]
            /\ \A j \in DOMAIN buckets[b] : strings'[buckets'[b][j].key] = strings[buckets[b][j].key]
        BY <1>7, <1>11, <2>1, <2>3
      <4>1. CASE names[u] = None /\ \A j \in DOMAIN buckets[b] : strings[buckets[b][j].key] # u
        BY <4>0, <4>1
      <4>2. ASSUME NEW j \in DOMAIN buckets[b], strings[buckets[b][j].key] = u,
                   strings[buckets[b][j].value] = names[u]
            PROVE  /\ j \in DOMAIN buckets'[b] /\ strings'[buckets'[b][j].key] = u
                   /\ strings'[buckets'[b][j].value] = names'[u]
        <5>1. ~(b = h /\ j = i)
          BY <1>2, <2>3, <4>2
        <5> QED
          BY <1>11, <4>0, <4>2, <5>1
      <4> QED
        BY <3>2, <4>1, <4>2
    <3> QED
      BY <3>1, <3>3
  <2> QED
    BY <2>2, <2>3
<1> QED
  BY <1>12, <1>13, <1>14, <1>15, <1>16, <1>17 DEF MapInv

\* A new name: a node in front of the chain, with the two strings.
LEMMA MapInsert ==
    ASSUME M!MapAssumption, MapInv, NEW t \in Text, NEW p \in Product,
           NEW key \in M!Free, NEW val \in M!Free, key # val, M!OverwritePut(t, key, val),
           strings' = [x \in Location |->
                          IF x \in M!GivenBack(t, key) THEN None
                          ELSE IF x = key THEN t ELSE IF x = val THEN p ELSE strings[x]],
           names' = [names EXCEPT ![t] = p], ~M!Exists(t)
    PROVE  MapInv'
<1>1. PICK h \in MapBucket : h = M!FindHead(t)
  BY MapHead
<1>2. \A i \in DOMAIN buckets[h] : strings[buckets[h][i].key] # t
  BY <1>1 DEF M!Exists, M!Matching
<1>3. PICK node \in MapNode : node = [key |-> key, value |-> val]
  BY DEF M!Free, MapNode
<1>4. key \in Location /\ val \in Location /\ strings[key] = None /\ strings[val] = None
  BY DEF M!Free
<1>5. /\ buckets' = [buckets EXCEPT ![h] = <<node>> \o buckets[h]]
      /\ <<node>> \o buckets[h] \in Seq(MapNode)
  <2>1. buckets' = [buckets EXCEPT ![h] = <<node>> \o buckets[h]]
    BY <1>1, <1>3 DEF M!OverwritePut, MapInv, MapTyped
  <2>2. buckets[h] \in Seq(MapNode)
    BY MapNodes DEF MapInv
  <2> QED
    BY <2>1, <2>2
<1>6. /\ \A b \in MapBucket : b # h => buckets'[b] = buckets[b]
      /\ buckets'[h] = <<node>> \o buckets[h]
      /\ buckets' \in [MapBucket -> Seq(MapNode)]
  BY <1>5 DEF MapInv, MapTyped
<1>7. /\ DOMAIN buckets'[h] = 1 .. Len(buckets[h]) + 1 /\ buckets'[h][1] = node
      /\ \A j \in 2 .. Len(buckets[h]) + 1 : buckets'[h][j] = buckets[h][j - 1]
      /\ DOMAIN buckets[h] = 1 .. Len(buckets[h]) /\ Len(buckets[h]) \in Nat
  <2>1. buckets[h] \in Seq(MapNode)
    BY MapNodes DEF MapInv
  <2> QED
    BY <1>6, <2>1
<1>8. \A x \in Location :
          strings'[x] = IF x = key THEN t ELSE IF x = val THEN p ELSE strings[x]
  BY DEF M!GivenBack
\* Where a node of the new chains was before, and where one of the old chains is now.
<1> DEFINE Old(b, j) == IF b = h THEN j - 1 ELSE j
           New(b, j) == IF b = h THEN j + 1 ELSE j
<1>9. \A b \in MapBucket : \A j \in DOMAIN buckets'[b] :
         \/ b = h /\ j = 1 /\ buckets'[b][j] = node
         \/ ~(b = h /\ j = 1) /\ Old(b, j) \in DOMAIN buckets[b] /\ buckets'[b][j] = buckets[b][Old(b, j)]
  BY <1>6, <1>7
<1>10. \A b \in MapBucket : \A j \in DOMAIN buckets[b] :
         /\ New(b, j) \in DOMAIN buckets'[b] /\ buckets'[b][New(b, j)] = buckets[b][j]
         /\ ~(b = h /\ New(b, j) = 1)
  BY <1>6, <1>7
<1>11. \A b \in MapBucket : \A i, j \in DOMAIN buckets'[b] : Old(b, i) = Old(b, j) => i = j
  BY <1>6, <1>7, MapNodes DEF MapInv
<1>12. \A b \in MapBucket : \A j \in DOMAIN buckets[b] :
          /\ buckets[b][j].key \in Location /\ buckets[b][j].value \in Location
          /\ buckets[b][j].key \notin {key, val} /\ buckets[b][j].value \notin {key, val}
  <2> SUFFICES ASSUME NEW b \in MapBucket, NEW j \in DOMAIN buckets[b]
               PROVE  /\ buckets[b][j].key \in Location /\ buckets[b][j].value \in Location
                      /\ buckets[b][j].key \notin {key, val} /\ buckets[b][j].value \notin {key, val}
    OBVIOUS
  <2>1. strings[buckets[b][j].key] # None /\ strings[buckets[b][j].value] # None
    BY DEF MapInv, MapAllocated, M!MapAssumption
  <2> QED
    BY <1>4, <2>1, MapNodes DEF MapInv
<1>13. \A b \in MapBucket : \A j \in DOMAIN buckets[b] :
          /\ strings'[buckets[b][j].key] = strings[buckets[b][j].key]
          /\ strings'[buckets[b][j].value] = strings[buckets[b][j].value]
  BY <1>8, <1>12
<1>14. /\ node.key = key /\ node.value = val /\ strings'[key] = t /\ strings'[val] = p
       /\ buckets'[h][1] = node /\ 1 \in DOMAIN buckets'[h]
  BY <1>3, <1>4, <1>7, <1>8
<1> HIDE DEF Old, New
<1>15. MapTyped'
  BY <1>6 DEF MapInv, MapTyped
<1>16. MapAllocated'
  <2> SUFFICES ASSUME NEW b \in MapBucket, NEW j \in DOMAIN buckets'[b]
               PROVE  /\ strings'[buckets'[b][j].key] \in Text
                      /\ M!FindHead(strings'[buckets'[b][j].key]) = b
                      /\ strings'[buckets'[b][j].value] \in Product
    BY DEF MapAllocated, M!FindHead
  <2>1. CASE b = h /\ j = 1 /\ buckets'[b][j] = node
    BY <1>1, <1>14, <2>1
  <2>2. CASE Old(b, j) \in DOMAIN buckets[b] /\ buckets'[b][j] = buckets[b][Old(b, j)]
    BY <1>13, <2>2 DEF MapInv, MapAllocated
  <2> QED
    BY <1>9, <2>1, <2>2
<1>17. MapApart'
  <2> SUFFICES ASSUME NEW b \in MapBucket, NEW c \in MapBucket,
                      NEW i \in DOMAIN buckets'[b], NEW j \in DOMAIN buckets'[c]
               PROVE  /\ buckets'[b][i].key # buckets'[c][j].value
                      /\ buckets'[b][i].key = buckets'[c][j].key => b = c /\ i = j
                      /\ buckets'[b][i].value = buckets'[c][j].value => b = c /\ i = j
    BY DEF MapApart
  <2>1. CASE b = h /\ i = 1 /\ c = h /\ j = 1
    BY <1>14, <2>1
  <2>2. CASE b = h /\ i = 1 /\ ~(c = h /\ j = 1)
    BY <1>9, <1>12, <1>14, <2>2
  <2>3. CASE ~(b = h /\ i = 1) /\ c = h /\ j = 1
    BY <1>9, <1>12, <1>14, <2>3
  <2>4. CASE ~(b = h /\ i = 1) /\ ~(c = h /\ j = 1)
    <3>1. /\ Old(b, i) \in DOMAIN buckets[b] /\ buckets'[b][i] = buckets[b][Old(b, i)]
          /\ Old(c, j) \in DOMAIN buckets[c] /\ buckets'[c][j] = buckets[c][Old(c, j)]
      BY <1>9, <2>4
    <3>2. /\ buckets'[b][i].key # buckets'[c][j].value
          /\ buckets'[b][i].key = buckets'[c][j].key => b = c /\ Old(b, i) = Old(c, j)
          /\ buckets'[b][i].value = buckets'[c][j].value => b = c /\ Old(b, i) = Old(c, j)
      BY <3>1 DEF MapInv, MapApart
    <3> QED
      BY <1>11, <3>2
  <2> QED
    BY <2>1, <2>2, <2>3, <2>4
<1>18. MapOnce'
  <2> SUFFICES ASSUME NEW b \in MapBucket, NEW i \in DOMAIN buckets'[b], NEW j \in DOMAIN buckets'[b],
                      strings'[buckets'[b][i].key] = strings'[buckets'[b][j].key]
               PROVE  i = j
    BY DEF MapOnce
  <2>1. CASE b = h /\ i = 1 /\ j # 1
    <3>1. Old(b, j) \in DOMAIN buckets[b] /\ buckets'[b][j] = buckets[b][Old(b, j)]
      BY <1>9, <2>1
    <3> QED
      BY <1>2, <1>13, <1>14, <2>1, <3>1
  <2>2. CASE b = h /\ j = 1 /\ i # 1
    <3>1. Old(b, i) \in DOMAIN buckets[b] /\ buckets'[b][i] = buckets[b][Old(b, i)]
      BY <1>9, <2>2
    <3> QED
      BY <1>2, <1>13, <1>14, <2>2, <3>1
  <2>3. CASE ~(b = h /\ i = 1) /\ ~(b = h /\ j = 1)
    <3>1. /\ Old(b, i) \in DOMAIN buckets[b] /\ buckets'[b][i] = buckets[b][Old(b, i)]
          /\ Old(b, j) \in DOMAIN buckets[b] /\ buckets'[b][j] = buckets[b][Old(b, j)]
      BY <1>9, <2>3
    <3>2. Old(b, i) = Old(b, j)
      BY <1>13, <3>1, SMTT(30) DEF MapInv, MapOnce
    <3> QED
      BY <1>11, <3>2
  <2> QED
    BY <2>1, <2>2, <2>3
<1>19. MapHeld'
  <2> SUFFICES ASSUME NEW x \in Location, strings'[x] # None
               PROVE  \E b \in MapBucket : \E j \in DOMAIN buckets'[b] :
                         x \in {buckets'[b][j].key, buckets'[b][j].value}
    BY DEF MapHeld
  <2>1. CASE x \in {key, val}
    BY <1>14, <2>1
  <2>2. CASE x \notin {key, val}
    <3>1. strings[x] # None
      BY <1>8, <2>2
    <3>2. PICK b \in MapBucket : \E j \in DOMAIN buckets[b] : x \in {buckets[b][j].key, buckets[b][j].value}
      BY <3>1 DEF MapInv, MapHeld
    <3> QED
      BY <1>10, <3>2
  <2> QED
    BY <2>1, <2>2
<1>20. MapFinds'
  <2> SUFFICES ASSUME NEW u \in Text
               PROVE  \/ names'[u] = None /\ \A j \in DOMAIN buckets'[M!FindHead(u)] :
                                               strings'[buckets'[M!FindHead(u)][j].key] # u
                      \/ \E j \in DOMAIN buckets'[M!FindHead(u)] :
                            /\ strings'[buckets'[M!FindHead(u)][j].key] = u
                            /\ strings'[buckets'[M!FindHead(u)][j].value] = names'[u]
    BY DEF MapFinds, M!FindHead
  <2>1. names'[u] = IF u = t THEN p ELSE names[u]
    BY DEF MapInv, MapTyped
  <2>2. CASE u = t
    BY <1>1, <1>14, <2>1, <2>2
  <2>3. CASE u # t
    <3>1. PICK b \in MapBucket : b = M!FindHead(u)
      BY MapHead
    <3>2. \/ names[u] = None /\ \A j \in DOMAIN buckets[b] : strings[buckets[b][j].key] # u
          \/ \E j \in DOMAIN buckets[b] :
                strings[buckets[b][j].key] = u /\ strings[buckets[b][j].value] = names[u]
      BY <3>1 DEF MapInv, MapFinds
    <3>3. names'[u] = names[u]
      BY <2>1, <2>3
    <3>4. CASE names[u] = None /\ \A j \in DOMAIN buckets[b] : strings[buckets[b][j].key] # u
      <4>1. ASSUME NEW j \in DOMAIN buckets'[b] PROVE strings'[buckets'[b][j].key] # u
        <5>1. CASE b = h /\ j = 1
          BY <1>14, <2>3, <5>1
        <5>2. CASE ~(b = h /\ j = 1)
          BY <1>9, <1>13, <3>4, <5>2
        <5> QED
          BY <5>1, <5>2
      <4> QED
        BY <3>1, <3>3, <3>4, <4>1
    <3>5. ASSUME NEW j \in DOMAIN buckets[b], strings[buckets[b][j].key] = u,
                 strings[buckets[b][j].value] = names[u]
          PROVE  /\ New(b, j) \in DOMAIN buckets'[b] /\ strings'[buckets'[b][New(b, j)].key] = u
                 /\ strings'[buckets'[b][New(b, j)].value] = names'[u]
      BY <1>10, <1>13, <3>3, <3>5
    <3>6. CASE \E j \in DOMAIN buckets[b] :
                 strings[buckets[b][j].key] = u /\ strings[buckets[b][j].value] = names[u]
      <4>1. PICK j \in DOMAIN buckets[b] :
                 strings[buckets[b][j].key] = u /\ strings[buckets[b][j].value] = names[u]
        BY <3>6
      <4>2. /\ New(b, j) \in DOMAIN buckets'[b] /\ strings'[buckets'[b][New(b, j)].key] = u
            /\ strings'[buckets'[b][New(b, j)].value] = names'[u]
        BY <3>5, <4>1, Zenon
      <4> HIDE DEF New
      <4> QED
        BY <3>1, <4>2, Zenon
    <3> QED
      BY <3>2, <3>4, <3>6
  <2> QED
    BY <2>2, <2>3
<1> QED
  BY <1>15, <1>16, <1>17, <1>18, <1>19, <1>20 DEF MapInv

\* Whatever rows reload_product_names() reads, and however the texts share the buckets: a key
\* finds the product put last under it, and the map holds exactly the strings that are allocated.
THEOREM NamesSafe ==
    ASSUME M!MapAssumption
    PROVE  M!Spec => []NamesFound
<1>1. M!Init => MapInv
  BY MapInit
<1>2. MapInv /\ [M!Next]_(M!vars) => MapInv'
  <2> SUFFICES ASSUME MapInv, [M!Next]_(M!vars) PROVE MapInv'
    OBVIOUS
  <2>1. CASE UNCHANGED M!vars
    BY <2>1 DEF M!vars, MapInv, MapTyped, MapAllocated, MapApart, MapOnce, MapHeld, MapFinds, M!FindHead
  <2>2. ASSUME NEW t \in Text, NEW p \in Product, M!ProductNamesCallback(t, p) PROVE MapInv'
    <3>1. PICK key \in M!Free, val \in M!Free :
             /\ key # val
             /\ M!OverwritePut(t, key, val)
             /\ strings' = [x \in Location |->
                               IF x \in M!GivenBack(t, key) THEN None
                               ELSE IF x = key THEN t ELSE IF x = val THEN p ELSE strings[x]]
             /\ names' = [names EXCEPT ![t] = p]
      BY <2>2 DEF M!ProductNamesCallback
    <3> QED
      BY <3>1, MapOverwrite, MapInsert
  <2> QED
    BY <2>1, <2>2 DEF M!Next
<1> QED
  BY <1>1, <1>2, MapSafe, PTL DEF M!Spec

-----------------------------------------------------------------------------
(* The tree of commands, for any words and numbers of words and commands.                     *)

Accepted == [words: T!Commands, rmt: BOOLEAN]

\* The nodes are the beginnings of the accepted commands, and the node at the end of one has it.
TreeInv ==
    /\ accepted \subseteq Accepted
    /\ T!Nodes \subseteq T!Commands \cup {<<>>}
    /\ <<>> \in T!Nodes /\ tree[<<>>] = T!NoFunc
    /\ \A n \in T!Nodes : tree[n] = T!NoFunc \/ (tree[n] \in accepted /\ tree[n].words = n)
    /\ \A c \in accepted : c.words \in T!Nodes /\ tree[c.words] = c
    /\ \A n \in T!Nodes : \A k \in 0 .. Len(n) : T!First(n, k) \in T!Nodes
    /\ \A n \in T!Nodes : n # <<>> => \E c \in accepted : T!IsPrefix(n, c.words)

LEMMA CommandWords ==
    ASSUME T!BoundAssumption, NEW cmd \in T!Commands
    PROVE  cmd \in Seq(Words) /\ Len(cmd) \in Nat \ {0} /\ cmd # <<>>
<1>1. PICK n \in 1 .. MaxWords : cmd \in [1 .. n -> Words]
  BY DEF T!Commands
<1>2. cmd \in Seq(Words) /\ Len(cmd) = n /\ n \in Nat \ {0}
  BY <1>1 DEF T!BoundAssumption
<1> QED
  BY <1>2

LEMMA LineWords ==
    ASSUME T!BoundAssumption, NEW words \in T!Lines
    PROVE  words \in Seq(Words) /\ Len(words) \in Nat
<1>1. PICK n \in 0 .. MaxWords + 1 : words \in [1 .. n -> Words]
  BY DEF T!Lines
<1>2. n \in Nat
  BY DEF T!BoundAssumption
<1> QED
  BY <1>1, <1>2

LEMMA Firsts ==
    ASSUME NEW s \in Seq(Words), NEW k \in 0 .. Len(s)
    PROVE  /\ T!First(s, k) \in Seq(Words) /\ Len(T!First(s, k)) = k
           /\ \A i \in 1 .. k : T!First(s, k)[i] = s[i]
           /\ T!First(s, Len(s)) = s /\ T!First(s, 0) = <<>>
           /\ k > 0 => /\ s[k] \in Words /\ k - 1 \in 0 .. Len(s)
                       /\ Append(T!First(s, k - 1), s[k]) = T!First(s, k)
BY DEF T!First

LEMMA FirstOfFirst ==
    ASSUME NEW s \in Seq(Words), NEW k \in 0 .. Len(s), NEW j \in 0 .. k
    PROVE  T!First(T!First(s, k), j) = T!First(s, j)
<1>1. PICK f \in Seq(Words) : f = T!First(s, k) /\ Len(f) = k /\ \A i \in 1 .. k : f[i] = s[i]
  BY Firsts
<1>2. SubSeq(f, 1, j) = SubSeq(s, 1, j)
  BY <1>1
<1> QED
  BY <1>1, <1>2 DEF T!First

LEMMA Prefixes ==
    ASSUME NEW s \in Seq(Words), NEW t \in Seq(Words)
    PROVE  T!IsPrefix(s, t) <=> Len(s) <= Len(t) /\ T!First(t, Len(s)) = s
<1>1. SubSeq(s, 1, Len(s)) = s
  OBVIOUS
<1> QED
  BY <1>1 DEF T!IsPrefix, T!First

LEMMA NodeWords ==
    ASSUME T!BoundAssumption, TreeInv, NEW n \in T!Nodes
    PROVE  n \in Seq(Words) /\ Len(n) \in Nat
<1>1. n \in T!Commands \/ n = <<>>
  BY DEF TreeInv
<1>2. CASE n \in T!Commands
  BY <1>2, CommandWords
<1>3. CASE n = <<>>
  BY <1>3
<1> QED
  BY <1>1, <1>2, <1>3

LEMMA AcceptedWords ==
    ASSUME T!BoundAssumption, TreeInv, NEW c \in accepted
    PROVE  /\ c \in Accepted /\ c.words \in Seq(Words) /\ Len(c.words) \in Nat \ {0} /\ c.words # <<>>
           /\ c # T!NoFunc
<1>1. c \in Accepted
  BY DEF TreeInv
<1>2. c.words \in T!Commands
  BY <1>1 DEF Accepted
<1>3. c.words \in Seq(Words) /\ Len(c.words) \in Nat \ {0} /\ c.words # <<>>
  BY <1>2, CommandWords
<1> QED
  BY <1>1, <1>3 DEF T!NoFunc

\* A sequence of words is a node just if it begins an accepted command.
LEMMA NodesBegin ==
    ASSUME T!BoundAssumption, TreeInv, NEW s \in Seq(Words), s # <<>>
    PROVE  s \in T!Nodes <=> \E c \in accepted : T!IsPrefix(s, c.words)
<1>1. ASSUME NEW c \in accepted, T!IsPrefix(s, c.words) PROVE s \in T!Nodes
  <2>1. c.words \in Seq(Words) /\ c.words \in T!Nodes
    BY AcceptedWords DEF TreeInv
  <2>2. Len(s) <= Len(c.words) /\ T!First(c.words, Len(s)) = s
    BY <1>1, <2>1, Prefixes
  <2>3. Len(s) \in 0 .. Len(c.words)
    BY <2>1, <2>2
  <2> QED
    BY <2>1, <2>2, <2>3 DEF TreeInv
<1> QED
  BY <1>1 DEF TreeInv

LEMMA TreeInit == ASSUME T!Init PROVE TreeInv
<1>1. DOMAIN tree = {<<>>} /\ tree[<<>>] = T!NoFunc /\ accepted = {}
  BY DEF T!Init
<1>2. \A k \in 0 .. Len(<<>>) : T!First(<<>>, k) = <<>>
  BY DEF T!First
<1> QED
  BY <1>1, <1>2 DEF TreeInv, T!Nodes

LEMMA TreeAdd ==
    ASSUME T!BoundAssumption, TreeInv, NEW cmd \in T!Commands, NEW rmt \in BOOLEAN, T!AddCommand(cmd, rmt)
    PROVE  TreeInv'
<1>1. CASE T!Duplicate(cmd)
  BY <1>1 DEF T!AddCommand, TreeInv, T!Nodes
<1>2. CASE ~T!Duplicate(cmd)
  <2>1. PICK new : new = [words |-> cmd, rmt |-> rmt]
    OBVIOUS
  <2>2. /\ cmd \notin T!Nodes
        /\ tree' = [n \in T!Nodes \cup T!NewNodes(cmd) |->
                       IF n = cmd THEN new ELSE IF n \in T!Nodes THEN tree[n] ELSE T!NoFunc]
        /\ accepted' = accepted \cup {new}
    BY <1>2, <2>1 DEF T!AddCommand, T!Duplicate
  <2>3. cmd \in Seq(Words) /\ Len(cmd) \in Nat \ {0} /\ cmd # <<>>
    BY CommandWords
  <2>4. new \in Accepted /\ new.words = cmd
    BY <2>1 DEF Accepted
  <2>5. T!Nodes' = T!Nodes \cup T!NewNodes(cmd)
    BY <2>2 DEF T!Nodes
  <2>6. \A n \in T!NewNodes(cmd) : n \notin T!Nodes /\ \E k \in 1 .. Len(cmd) : n = T!First(cmd, k)
    BY DEF T!NewNodes
  <2>7. /\ \A n \in T!Nodes : tree'[n] = tree[n]
        /\ \A n \in T!NewNodes(cmd) : tree'[n] = IF n = cmd THEN new ELSE T!NoFunc
    BY <2>2, <2>6
  <2>8. cmd \in T!NewNodes(cmd)
    <3>1. T!First(cmd, Len(cmd)) = cmd /\ Len(cmd) \in 1 .. Len(cmd)
      BY <2>3, Firsts
    <3> QED
      BY <2>2, <3>1 DEF T!NewNodes
  <2>9. \A k \in 0 .. Len(cmd) : T!First(cmd, k) \in T!Nodes \cup T!NewNodes(cmd)
    <3>1. T!First(cmd, 0) \in T!Nodes
      BY <2>3, Firsts DEF TreeInv
    <3>2. \A k \in 1 .. Len(cmd) : T!First(cmd, k) \in T!Nodes \cup T!NewNodes(cmd)
      BY DEF T!NewNodes
    <3> QED
      BY <2>3, <3>1, <3>2
  <2>10. \A n \in T!NewNodes(cmd) : n \in T!Commands
    <3> SUFFICES ASSUME NEW k \in 1 .. Len(cmd) PROVE T!First(cmd, k) \in T!Commands
      BY <2>6
    <3>1. PICK m \in 1 .. MaxWords : cmd \in [1 .. m -> Words]
      BY DEF T!Commands
    <3>2. Len(cmd) = m /\ MaxWords \in Nat
      BY <2>3, <3>1 DEF T!BoundAssumption
    <3>3. T!First(cmd, k) \in Seq(Words) /\ Len(T!First(cmd, k)) = k
      BY <2>3, Firsts
    <3>4. T!First(cmd, k) \in [1 .. k -> Words] /\ k \in 1 .. MaxWords
      BY <3>2, <3>3
    <3> QED
      BY <3>4 DEF T!Commands
  <2>11. accepted' \subseteq Accepted
    BY <2>2, <2>4 DEF TreeInv
  <2>12. T!Nodes' \subseteq T!Commands \cup {<<>>} /\ <<>> \in T!Nodes' /\ tree'[<<>>] = T!NoFunc
    BY <2>5, <2>7, <2>10 DEF TreeInv
  <2>13. \A n \in T!Nodes' : tree'[n] = T!NoFunc \/ (tree'[n] \in accepted' /\ tree'[n].words = n)
    BY <2>2, <2>4, <2>5, <2>7 DEF TreeInv
  <2>14. \A c \in accepted' : c.words \in T!Nodes' /\ tree'[c.words] = c
    BY <2>2, <2>4, <2>5, <2>7, <2>8 DEF TreeInv
  <2>15. ASSUME NEW n \in T!Nodes', NEW k \in 0 .. Len(n) PROVE T!First(n, k) \in T!Nodes'
    <3>1. CASE n \in T!Nodes
      BY <2>5, <3>1 DEF TreeInv
    <3>2. CASE n \in T!NewNodes(cmd)
      <4>1. PICK m \in 1 .. Len(cmd) : n = T!First(cmd, m)
        BY <2>6, <3>2
      <4>2. Len(n) = m /\ m \in 0 .. Len(cmd) /\ k \in 0 .. m
        BY <2>3, <4>1, Firsts
      <4>3. T!First(n, k) = T!First(cmd, k) /\ k \in 0 .. Len(cmd)
        BY <2>3, <4>1, <4>2, FirstOfFirst
      <4> QED
        BY <2>5, <2>9, <4>3
    <3> QED
      BY <2>5, <3>1, <3>2
  <2>16. ASSUME NEW n \in T!Nodes', n # <<>> PROVE \E c \in accepted' : T!IsPrefix(n, c.words)
    <3>1. CASE n \in T!Nodes
      BY <2>2, <2>16, <3>1 DEF TreeInv
    <3>2. CASE n \in T!NewNodes(cmd)
      <4>1. PICK m \in 1 .. Len(cmd) : n = T!First(cmd, m)
        BY <2>6, <3>2
      <4>2. Len(n) = m /\ n \in Seq(Words) /\ m <= Len(cmd)
        BY <2>3, <4>1, Firsts
      <4>3. T!IsPrefix(n, new.words)
        BY <2>3, <2>4, <4>1, <4>2, Prefixes
      <4> QED
        BY <2>2, <4>3
    <3> QED
      BY <2>5, <3>1, <3>2
  <2> QED
    BY <2>11, <2>12, <2>13, <2>14, <2>15, <2>16 DEF TreeInv, T!First, T!IsPrefix
<1> QED
  BY <1>1, <1>2

\* The words of a line that are in the tree are its first ones, up to the length of the match.
LEMMA Matched ==
    ASSUME T!BoundAssumption, TreeInv, NEW words \in T!Lines
    PROVE  /\ T!MatchLength(words) \in 0 .. Len(words)
           /\ \A n \in 0 .. Len(words) : T!First(words, n) \in T!Nodes <=> n <= T!MatchLength(words)
<1> DEFINE Found(n) == words[n] \in T!Subcmd(T!First(words, n - 1))
           Match(n) == (\A k \in 1 .. n : Found(k)) /\ (n = Len(words) \/ ~Found(n + 1))
<1>1. words \in Seq(Words) /\ Len(words) \in Nat
  BY LineWords
<1>2. \A n \in 1 .. Len(words) : Found(n) <=> T!First(words, n) \in T!Nodes
  <2> SUFFICES ASSUME NEW n \in 1 .. Len(words) PROVE Found(n) <=> T!First(words, n) \in T!Nodes
    OBVIOUS
  <2>1. words[n] \in Words /\ Append(T!First(words, n - 1), words[n]) = T!First(words, n)
    BY <1>1, Firsts
  <2> QED
    BY <2>1 DEF T!Subcmd
<1>3. \A n \in 0 .. Len(words), k \in Nat : k <= n /\ T!First(words, n) \in T!Nodes => T!First(words, k) \in T!Nodes
  <2> SUFFICES ASSUME NEW n \in 0 .. Len(words), NEW k \in 0 .. n, T!First(words, n) \in T!Nodes
               PROVE  T!First(words, k) \in T!Nodes
    OBVIOUS
  <2>1. Len(T!First(words, n)) = n
    BY <1>1, Firsts
  <2>2. T!First(T!First(words, n), k) \in T!Nodes
    BY <2>1 DEF TreeInv
  <2> QED
    BY <1>1, <2>2, FirstOfFirst
<1>4. \E n \in 0 .. Len(words) : Match(n)
  <2>1. PICK out : out = {n \in 1 .. Len(words) : ~Found(n)}
    OBVIOUS
  <2>2. CASE out = {}
    BY <1>1, <2>1, <2>2, SMTT(30)
  <2>3. CASE out # {}
    <3>1. out \in SUBSET Nat
      BY <2>1
    <3>2. PICK x \in out : \A y \in out : x <= y
      BY <2>3, <3>1, Least
    <3>3. x \in 1 .. Len(words) /\ ~Found(x)
      BY <2>1, <3>2
    <3>4. \A k \in 1 .. x - 1 : Found(k)
      BY <1>1, <2>1, <3>2, <3>3
    <3>5. x - 1 \in 0 .. Len(words) /\ ~Found((x - 1) + 1)
      BY <1>1, <3>3
    <3> QED
      BY <3>4, <3>5
  <2> QED
    BY <2>2, <2>3
<1>5. PICK i : i = T!MatchLength(words)
  OBVIOUS
<1>6. i \in 0 .. Len(words) /\ Match(i)
  <2>1. i = CHOOSE n \in 0 .. Len(words) : Match(n)
    BY <1>5, Zenon DEF T!MatchLength
  <2> HIDE DEF Match
  <2> QED
    BY <1>4, <2>1
<1>7. T!First(words, 0) \in T!Nodes
  BY <1>1, Firsts DEF TreeInv
<1>8. T!First(words, i) \in T!Nodes
  <2>1. CASE i = 0
    BY <1>7, <2>1
  <2>2. CASE i # 0
    <3>1. i \in 1 .. Len(words) /\ i \in 1 .. i
      BY <1>1, <1>6, <2>2
    <3>2. Found(i)
      BY <1>6, <3>1
    <3> QED
      BY <1>2, <3>1, <3>2
  <2> QED
    BY <2>1, <2>2
<1>9. \A n \in 0 .. Len(words) : T!First(words, n) \in T!Nodes <=> n <= i
  <2> SUFFICES ASSUME NEW n \in 0 .. Len(words), T!First(words, n) \in T!Nodes PROVE n <= i
    BY <1>3, <1>6, <1>8
  <2>1. SUFFICES ASSUME i + 1 <= n PROVE FALSE
    BY <1>1, <1>6
  <2>2. i + 1 \in 1 .. Len(words) /\ i # Len(words) /\ i + 1 \in Nat
    BY <1>1, <1>6, <2>1
  <2>3. T!First(words, i + 1) \in T!Nodes
    BY <1>3, <2>1, <2>2
  <2>4. Found(i + 1)
    BY <1>2, <2>2, <2>3
  <2> QED
    BY <1>6, <2>2, <2>4
<1> QED
  BY <1>5, <1>6, <1>9

\* The beginning of the line that counts is the part that is in the tree.
LEMMA LongestIsMatch ==
    ASSUME T!BoundAssumption, TreeInv, accepted # {}, NEW words \in T!Lines
    PROVE  T!Longest(words) = T!First(words, T!MatchLength(words))
<1>1. words \in Seq(Words) /\ Len(words) \in Nat
  BY LineWords
<1>2. PICK i : i = T!MatchLength(words)
  OBVIOUS
<1>3. i \in 0 .. Len(words) /\ \A n \in 0 .. Len(words) : T!First(words, n) \in T!Nodes <=> n <= i
  BY <1>2, Matched
<1>4. ASSUME NEW n \in 0 .. Len(words)
      PROVE  (\E c \in accepted : T!IsPrefix(T!First(words, n), c.words)) <=> T!First(words, n) \in T!Nodes
  <2>1. T!First(words, n) \in Seq(Words)
    BY <1>1, Firsts
  <2>2. CASE T!First(words, n) # <<>>
    BY <2>1, <2>2, NodesBegin
  <2>3. CASE T!First(words, n) = <<>>
    <3>1. PICK c \in accepted : TRUE
      OBVIOUS
    <3>2. c.words \in Seq(Words) /\ Len(c.words) \in Nat
      BY AcceptedWords
    <3>3. T!First(c.words, 0) = <<>> /\ Len(<<>>) = 0 /\ <<>> \in Seq(Words)
      BY <3>2, Firsts
    <3>4. T!IsPrefix(<<>>, c.words)
      <4>1. PICK e \in Seq(Words) : e = <<>>
        BY <3>3
      <4>2. Len(e) <= Len(c.words) /\ T!First(c.words, Len(e)) = e
        BY <3>2, <3>3, <4>1
      <4> QED
        BY <3>2, <4>1, <4>2, Prefixes
    <3>5. <<>> \in T!Nodes
      BY DEF TreeInv
    <3> QED
      BY <2>3, <3>4, <3>5
  <2> QED
    BY <2>2, <2>3
<1>5. PICK begins : begins = {n \in 0 .. Len(words) : \E c \in accepted : T!IsPrefix(T!First(words, n), c.words)}
  OBVIOUS
<1>6. begins = 0 .. i
  <2>1. \A n \in 0 .. Len(words) : n \in begins <=> n <= i
    BY <1>3, <1>4, <1>5
  <2>2. \A n \in begins : n \in 0 .. Len(words)
    BY <1>5
  <2>3. \A n \in 0 .. i : n \in 0 .. Len(words) /\ n <= i
    BY <1>1, <1>3
  <2>4. \A n \in 0 .. Len(words) : n <= i => n \in 0 .. i
    BY <1>1, <1>3
  <2> QED
    BY <2>1, <2>2, <2>3, <2>4
<1>7. T!Max(begins) = i
  <2>1. i \in begins /\ \A y \in begins : i >= y
    BY <1>3, <1>6
  <2>2. \A x \in begins : (\A y \in begins : x >= y) => x = i
    BY <1>3, <1>6
  <2> QED
    BY <2>1, <2>2 DEF T!Max
<1> QED
  BY <1>2, <1>5, <1>7 DEF T!Longest

LEMMA TreeTyped == ASSUME T!BoundAssumption, TreeInv PROVE T!TypeOK
<1>1. ASSUME NEW n \in T!Nodes, n # <<>> PROVE T!Front(n) \in T!Nodes
  <2>1. n \in Seq(Words) /\ Len(n) \in Nat
    BY NodeWords
  <2>2. Len(n) - 1 \in 0 .. Len(n)
    BY <1>1, <2>1
  <2>3. T!First(n, Len(n) - 1) \in T!Nodes
    BY <2>2 DEF TreeInv
  <2> QED
    BY <2>3 DEF T!Front, T!First
<1> QED
  BY <1>1 DEF TreeInv, T!TypeOK

\* What the node of a line says of the commands.
LEMMA NodeCommand ==
    ASSUME T!BoundAssumption, TreeInv, NEW n \in T!Nodes
    PROVE  /\ tree[n] # T!NoFunc => tree[n] \in accepted /\ tree[n].words = n
           /\ (tree[n] # T!NoFunc) <=> \E c \in accepted : c.words = n
<1>1. tree[n] # T!NoFunc => tree[n] \in accepted /\ tree[n].words = n
  BY DEF TreeInv
<1>2. ASSUME NEW c \in accepted, c.words = n PROVE tree[n] # T!NoFunc
  <2>1. tree[n] = c
    BY <1>2 DEF TreeInv
  <2> QED
    BY <2>1, AcceptedWords
<1> QED
  BY <1>1, <1>2

LEMMA TreeRuns == ASSUME T!BoundAssumption, TreeInv PROVE T!RunsAccepted
<1> DEFINE Right(best, outcome, words, connected) ==
             /\ (outcome.what = "run") <=> (\E c \in accepted : c.words = best)
             /\ outcome.what = "run" =>
                  /\ outcome.words \o outcome.args = words
                  /\ [words |-> best, rmt |-> (outcome.where = "server")] \in accepted
                       \/ (~connected /\ outcome.where = "here")
             /\ (outcome.what = "no such command") <=> (best = <<>>)
<1> SUFFICES ASSUME NEW words \in T!Lines, NEW connected \in BOOLEAN, accepted # {}
             PROVE  Right(T!Longest(words), T!Execute(words, connected), words, connected)
  BY DEF T!RunsAccepted
<1>1. PICK best, outcome : best = T!Longest(words) /\ outcome = T!Execute(words, connected)
  OBVIOUS
<1> SUFFICES Right(best, outcome, words, connected)
  BY <1>1
<1>2. words \in Seq(Words) /\ Len(words) \in Nat
  BY LineWords
<1>3. PICK i : i = T!MatchLength(words)
  OBVIOUS
<1>4. i \in 0 .. Len(words) /\ \A n \in 0 .. Len(words) : T!First(words, n) \in T!Nodes <=> n <= i
  BY <1>3, Matched
<1>5. best = T!First(words, i) /\ best \in T!Nodes
  BY <1>1, <1>3, <1>4, LongestIsMatch
<1>6. best \in Seq(Words) /\ Len(best) = i
  BY <1>2, <1>4, <1>5, Firsts
<1>7. PICK command : command = tree[best]
  OBVIOUS
<1>8. /\ command # T!NoFunc => command \in accepted /\ command.words = best
      /\ (command # T!NoFunc) <=> \E c \in accepted : c.words = best
  BY <1>5, <1>7, NodeCommand
<1>9. PICK place, rest : /\ place = IF command.rmt /\ connected THEN "server" ELSE "here"
                         /\ rest = SubSeq(words, i + 1, Len(words))
  OBVIOUS
<1>10. PICK none, partial, run : /\ none = T!Outcome("no such command", <<>>, <<>>, "here")
                                 /\ partial = T!Outcome("incomplete", <<>>, <<>>, "here")
                                 /\ run = T!Outcome("run", command.words, rest, place)
  OBVIOUS
<1>11. outcome = CASE i = 0 -> none
                   [] i > 0 /\ command = T!NoFunc -> partial
                   [] i > 0 /\ command # T!NoFunc -> run
  BY <1>1, <1>3, <1>5, <1>7, <1>9, <1>10, Zenon DEF T!Execute
<1>12. /\ i = 0 => outcome = none
       /\ i > 0 /\ command = T!NoFunc => outcome = partial
       /\ i > 0 /\ command # T!NoFunc => outcome = run
  <2>1. PICK b : b = (command = T!NoFunc)
    OBVIOUS
  <2>2. outcome = CASE i = 0 -> none [] i > 0 /\ b -> partial [] i > 0 /\ ~b -> run
    BY <1>11, <2>1, Zenon
  <2>3. /\ i = 0 => outcome = none
        /\ i > 0 /\ b => outcome = partial
        /\ i > 0 /\ ~b => outcome = run
    BY <1>4, <2>1, <2>2
  <2> QED
    BY <2>1, <2>3, Zenon
<1>13. CASE i = 0
  <2>1. best = <<>>
    BY <1>2, <1>5, <1>13, Firsts
  <2>2. outcome.what = "no such command"
    <3>1. \A what, words2, args, where : T!Outcome(what, words2, args, where).what = what
      BY DEF T!Outcome
    <3>2. outcome = T!Outcome("no such command", <<>>, <<>>, "here")
      BY <1>10, <1>12, <1>13, Zenon
    <3> QED
      BY <3>1, <3>2, Zenon
  <2>3. command = T!NoFunc
    BY <1>7, <2>1 DEF TreeInv
  <2> QED
    BY <1>8, <2>1, <2>2, <2>3
<1>14. CASE i > 0 /\ command = T!NoFunc
  <2>1. outcome.what = "incomplete"
    <3>1. \A what, words2, args, where : T!Outcome(what, words2, args, where).what = what
      BY DEF T!Outcome
    <3>2. outcome = T!Outcome("incomplete", <<>>, <<>>, "here")
      BY <1>10, <1>12, <1>14, Zenon
    <3> QED
      BY <3>1, <3>2, Zenon
  <2>2. best # <<>>
    BY <1>6, <1>14
  <2> QED
    BY <1>8, <1>14, <2>1, <2>2
<1>15. CASE i > 0 /\ command # T!NoFunc
  <2>1. place = IF command.rmt /\ connected THEN "server" ELSE "here"
    BY <1>9
  <2>2. rest = SubSeq(words, i + 1, Len(words))
    BY <1>9
  <2>3. outcome = T!Outcome("run", command.words, rest, place)
    BY <1>12, <1>15, <1>10
  <2>4. outcome.what = "run" /\ outcome.words = best /\ outcome.args = rest /\ outcome.where = place
    BY <1>8, <1>15, <2>3 DEF T!Outcome
  <2>5. best # <<>>
    BY <1>6, <1>15
  <2>6. best \o rest = words
    <3>1. best = SubSeq(words, 1, i)
      BY <1>5 DEF T!First
    <3>2. 1 \in 1 .. Len(words) + 1 /\ i \in 1 - 1 .. Len(words) /\ Len(words) \in i .. Len(words)
      BY <1>2, <1>4
    <3>3. SubSeq(words, 1, i) \o SubSeq(words, i + 1, Len(words)) = SubSeq(words, 1, Len(words))
      BY <1>2, <3>2, ConcatAdjacentSubSeq
    <3>4. SubSeq(words, 1, Len(words)) = words
      BY <1>2
    <3> QED
      BY <2>2, <3>1, <3>3, <3>4
  <2>7. command \in Accepted /\ command.words = best
    BY <1>8, <1>15, AcceptedWords
  <2>8. command = [words |-> best, rmt |-> command.rmt] /\ command.rmt \in BOOLEAN
    BY <2>7 DEF Accepted
  <2>9. [words |-> best, rmt |-> (outcome.where = "server")] \in accepted
          \/ (~connected /\ outcome.where = "here")
    <3>1. CASE connected
      <4>1. (outcome.where = "server") = command.rmt
        <5>1. CASE command.rmt = TRUE
          BY <2>1, <2>4, <3>1, <5>1
        <5>2. CASE command.rmt = FALSE
          BY <2>1, <2>4, <3>1, <5>2
        <5> QED
          BY <2>8, <5>1, <5>2
      <4>2. [words |-> best, rmt |-> (outcome.where = "server")] = command
        BY <2>8, <4>1, Zenon
      <4> QED
        BY <1>8, <1>15, <4>2, Zenon
    <3>2. CASE ~connected
      BY <2>1, <2>4, <3>2
    <3> QED
      BY <3>1, <3>2
  <2> QED
    BY <1>8, <1>15, <2>4, <2>5, <2>6, <2>9
<1>16. i = 0 \/ i > 0
  BY <1>2, <1>4
<1> QED
  BY <1>13, <1>14, <1>15, <1>16, Zenon

LEMMA TreeHelps == ASSUME T!BoundAssumption, TreeInv PROVE T!HelpLeadsOn
<1> SUFFICES ASSUME NEW words \in T!Lines
             PROVE  /\ \A w \in T!Help(words) : \E c \in accepted : T!IsPrefix(Append(words, w), c.words)
                    /\ (\A c \in accepted : c.words # words) =>
                         T!Help(words) = {w \in Words : \E c \in accepted : T!IsPrefix(Append(words, w), c.words)}
  BY DEF T!HelpLeadsOn
<1>1. words \in Seq(Words) /\ Len(words) \in Nat
  BY LineWords
<1>2. PICK i : i = T!MatchLength(words)
  OBVIOUS
<1>3. i \in 0 .. Len(words) /\ \A n \in 0 .. Len(words) : T!First(words, n) \in T!Nodes <=> n <= i
  BY <1>2, Matched
<1>4. T!First(words, Len(words)) = words
  BY <1>1, Firsts
<1>5. T!Help(words) = IF tree[T!First(words, i)] = T!NoFunc /\ i = Len(words) THEN T!Subcmd(words) ELSE {}
  BY <1>2 DEF T!Help
<1>6. \A w \in Words : Append(words, w) \in T!Nodes <=> \E c \in accepted : T!IsPrefix(Append(words, w), c.words)
  <2> SUFFICES ASSUME NEW w \in Words
               PROVE  Append(words, w) \in T!Nodes <=> \E c \in accepted : T!IsPrefix(Append(words, w), c.words)
    OBVIOUS
  <2>1. Append(words, w) \in Seq(Words) /\ Append(words, w) # <<>>
    BY <1>1
  <2> QED
    BY <2>1, NodesBegin
<1>7. \A w \in T!Help(words) : w \in Words /\ Append(words, w) \in T!Nodes
  BY <1>5 DEF T!Subcmd
<1>8. ASSUME \A c \in accepted : c.words # words, NEW w \in Words, Append(words, w) \in T!Nodes
      PROVE  w \in T!Help(words)
  <2>1. PICK n : n = Append(words, w)
    OBVIOUS
  <2>2. n \in T!Nodes /\ Len(n) = Len(words) + 1 /\ T!First(n, Len(words)) = words
    BY <1>1, <1>8, <2>1 DEF T!First
  <2>3. words \in T!Nodes
    <3>1. Len(words) \in 0 .. Len(n)
      BY <1>1, <2>2
    <3>2. T!First(n, Len(words)) \in T!Nodes
      BY <2>2, <3>1 DEF TreeInv
    <3> QED
      BY <2>2, <3>2
  <2>4. i = Len(words)
    <3>1. Len(words) \in 0 .. Len(words)
      BY <1>1
    <3> QED
      BY <1>1, <1>3, <1>4, <2>3, <3>1
  <2>5. tree[words] = T!NoFunc
    BY <1>8, <2>3, NodeCommand
  <2> QED
    BY <1>4, <1>5, <1>8, <2>4, <2>5 DEF T!Subcmd
<1> QED
  BY <1>6, <1>7, <1>8

\* Whatever commands are added and in whichever order: a line runs the accepted command that is
\* its longest known beginning, with the rest as arguments and in the process the command was
\* registered for, and the help lists exactly the words that lead on to a command.
THEOREM CommandsSafe == ASSUME T!BoundAssumption PROVE T!Spec => []CommandsFound
<1>1. T!Init => TreeInv
  BY TreeInit
<1>2. TreeInv /\ [T!Next]_T!vars => TreeInv'
  <2>1. ASSUME TreeInv, UNCHANGED T!vars PROVE TreeInv'
    BY <2>1 DEF TreeInv, T!vars, T!Nodes
  <2> QED
    BY <2>1, TreeAdd DEF T!Next
<1>3. TreeInv => CommandsFound
  BY TreeTyped, TreeRuns, TreeHelps DEF CommandsFound
<1> QED
  BY <1>1, <1>2, <1>3, PTL DEF T!Spec

-----------------------------------------------------------------------------
(* The configuration file, for any tokens, length of the stack, of a list and of the file.     *)

ListType == {"IntegerList", "StringList"}

\* The place where the part of a list begins that fits on the stack.
FirstKept(tokens) == IF Len(tokens) > MaxStack THEN Len(tokens) - MaxStack + 1 ELSE 1

\* The entry that a definition makes.
ConfEntry(e, d) ==
    /\ e.name = d.name /\ e.type = d.type
    /\ d.type = "Integer" => e.ivalue = d.tokens[1]
    /\ d.type = "String" => e.value = d.tokens[1] /\ e.ivalue = -1
    /\ d.type = "Boolean" => e.value = d.tokens[1] /\ e.ivalue = (IF d.tokens[1] = "on" THEN 1 ELSE 0)
    /\ d.type \in ListType => e.list = SubSeq(d.tokens, FirstKept(d.tokens), Len(d.tokens))

ConfEntries ==
    /\ defs \in Seq(F!Definition) /\ (\E Any : root \in Seq(Any)) /\ Len(root) = Len(defs)
    /\ \A i \in 1 .. Len(defs) : ConfEntry(root[Len(defs) + 1 - i], defs[i])

\* The elements of a list that are reduced are on the stack, the last one of the file first, as
\* many as there is room for; between two lists the stack is empty.
Reduced(d, n) ==
    /\ parsing = <<[d |-> d, left |-> SubSeq(d.tokens, 1, n)]>>
    /\ Len(stk) = IF Len(d.tokens) - n < MaxStack THEN Len(d.tokens) - n ELSE MaxStack
    /\ \A j \in 1 .. Len(stk) : stk[j] = d.tokens[Len(d.tokens) - j + 1]

ConfStack ==
    /\ \E Any : stk \in Seq(Any)
    /\ \/ parsing = <<>> /\ stk = <<>>
       \/ \E d \in F!Definition : d.type \in ListType /\ \E n \in 0 .. Len(d.tokens) : Reduced(d, n)

ConfProxy ==
    /\ file \in {"reading", "ok", "error"} /\ proxy \in {"start", "returned", "listening"}
    /\ process \in {"running", "failed", "crashed"}
    /\ proxy # "start" => file = "ok" /\ servers = F!StringList("servers")
    /\ proxy = "listening" => F!Range(servers) \subseteq Address
    /\ proxy = "returned" => ~(F!Range(servers) \subseteq Address)
    /\ process = "crashed" => proxy # "start" /\ servers = <<>>

ConfInv == ConfEntries /\ ConfStack /\ ConfProxy

LEMMA ListDefinition ==
    ASSUME F!FileAssumption, NEW d \in F!Definition, d.type \in ListType
    PROVE  (\E Any : d.tokens \in Seq(Any)) /\ Len(d.tokens) \in Nat \ {0}
<1>1. PICK Any \in {Numbers, F!String} : d.tokens \in F!Lists(Any)
  BY DEF F!Definition, ListType
<1>2. PICK n \in 1 .. MaxList : d.tokens \in [1 .. n -> Any]
  BY <1>1 DEF F!Lists
<1>3. MaxList \in Nat
  BY DEF F!FileAssumption
<1>4. d.tokens \in Seq(Any) /\ Len(d.tokens) = n
  BY <1>2, <1>3
<1> QED
  BY <1>2, <1>3, <1>4

LEMMA Definitions ==
    ASSUME NEW d \in F!Definition
    PROVE  d.name \in F!Name /\ d.type \in {"Integer", "String", "Boolean", "IntegerList", "StringList"}
BY DEF F!Definition

\* sysconf_ptr() finds the entry of the last definition, as the newest entry comes first.
LEMMA Lookup ==
    ASSUME F!FileAssumption, ConfEntries, NEW k
    PROVE  /\ (F!Having(k) = {}) <=> (F!Given(k) = {})
           /\ F!Given(k) # {} =>
                 /\ F!Max(F!Given(k)) \in 1 .. Len(defs)
                 /\ F!LastGiven(k) \in F!Definition /\ ConfEntry(F!SysconfPtr(k), F!LastGiven(k))
<1>1. PICK Any : root \in Seq(Any)
  BY DEF ConfEntries
<1>2. /\ DOMAIN root = 1 .. Len(defs) /\ DOMAIN defs = 1 .. Len(defs) /\ Len(defs) \in Nat
      /\ \A i \in 1 .. Len(defs) : defs[i] \in F!Definition
  BY <1>1 DEF ConfEntries
<1>3. \A i \in 1 .. Len(defs) : /\ Len(defs) + 1 - i \in 1 .. Len(defs)
                                /\ root[Len(defs) + 1 - i].name = defs[i].name
  BY <1>2 DEF ConfEntries, ConfEntry
<1>4. \A i \in 1 .. Len(defs) : i \in F!Given(k) <=> Len(defs) + 1 - i \in F!Having(k)
  BY <1>2, <1>3 DEF F!Given, F!Having
<1>5. F!Having(k) \subseteq 1 .. Len(defs) /\ F!Given(k) \subseteq 1 .. Len(defs)
  BY <1>2 DEF F!Given, F!Having
<1>6. \A i \in F!Having(k) : Len(defs) + 1 - i \in F!Given(k)
  <2> SUFFICES ASSUME NEW i \in F!Having(k) PROVE Len(defs) + 1 - i \in F!Given(k)
    OBVIOUS
  <2>1. PICK j : j = Len(defs) + 1 - i
    OBVIOUS
  <2>2. j \in 1 .. Len(defs) /\ Len(defs) + 1 - j = i
    BY <1>2, <1>5, <2>1
  <2> QED
    BY <1>4, <2>1, <2>2
<1>7. (F!Having(k) = {}) <=> (F!Given(k) = {})
  BY <1>4, <1>5, <1>6
<1>8. ASSUME F!Given(k) # {}
      PROVE  /\ F!Max(F!Given(k)) \in 1 .. Len(defs)
             /\ F!LastGiven(k) \in F!Definition /\ ConfEntry(F!SysconfPtr(k), F!LastGiven(k))
  <2>1. PICK m \in F!Having(k) : \A y \in F!Having(k) : m <= y
    <3>1. F!Having(k) \in SUBSET Nat /\ F!Having(k) # {}
      BY <1>2, <1>5, <1>7, <1>8
    <3> QED
      BY <3>1, Least
  <2>2. F!Min(F!Having(k)) = m
    BY <1>2, <1>5, <2>1 DEF F!Min
  <2>3. PICK i : i = Len(defs) + 1 - m
    OBVIOUS
  <2>4. i \in F!Given(k) /\ i \in 1 .. Len(defs) /\ Len(defs) + 1 - i = m
    BY <1>2, <1>5, <1>6, <2>1, <2>3
  <2>5. \A y \in F!Given(k) : i >= y
    BY <1>2, <1>4, <1>5, <2>1, <2>3
  <2>6. F!Max(F!Given(k)) = i
    BY <1>2, <1>5, <2>4, <2>5 DEF F!Max
  <2>7. F!LastGiven(k) = defs[i] /\ F!SysconfPtr(k) = root[m]
    BY <2>2, <2>6 DEF F!LastGiven, F!SysconfPtr
  <2> QED
    BY <1>2, <2>4, <2>6, <2>7 DEF ConfEntries
<1> QED
  BY <1>7, <1>8

\* What string_list() returns for the servers.
LEMMA ServersOfFile ==
    ASSUME F!FileAssumption, ConfEntries
    PROVE  /\ F!Range(F!StringList("servers")) \subseteq F!Range(F!Listed)
           /\ F!StringList("servers") = <<>> => F!Listed = <<>>
<1>1. CASE F!Given("servers") = {} \/ F!LastGiven("servers").type # "StringList"
  <2>1. F!StringList("servers") = <<>> /\ F!Listed = <<>>
    BY <1>1, Lookup DEF F!StringList, F!Listed, ConfEntry
  <2> QED
    BY <2>1
<1>2. CASE F!Given("servers") # {} /\ F!LastGiven("servers").type = "StringList"
  <2>1. PICK d \in F!Definition : d = F!LastGiven("servers")
    BY <1>2, Lookup
  <2>2. F!Listed = d.tokens /\ F!StringList("servers") = SubSeq(d.tokens, FirstKept(d.tokens), Len(d.tokens))
    BY <1>2, <2>1, Lookup DEF F!StringList, F!Listed, ConfEntry, ListType
  <2>3. PICK Any : d.tokens \in Seq(Any) /\ Len(d.tokens) \in Nat \ {0}
    BY <1>2, <2>1, ListDefinition DEF ListType
  <2>4. FirstKept(d.tokens) \in 1 .. Len(d.tokens)
    BY <2>3 DEF FirstKept, F!FileAssumption
  <2>5. PICK kept : kept = SubSeq(d.tokens, FirstKept(d.tokens), Len(d.tokens))
    OBVIOUS
  <2>6. /\ Len(kept) = Len(d.tokens) - FirstKept(d.tokens) + 1 /\ DOMAIN kept = 1 .. Len(kept)
        /\ \A j \in 1 .. Len(kept) : kept[j] = d.tokens[FirstKept(d.tokens) + j - 1]
    BY <2>3, <2>4, <2>5
  <2>7. kept # <<>>
    BY <2>3, <2>4, <2>6
  <2>8. ASSUME NEW j \in DOMAIN kept PROVE \E i \in DOMAIN d.tokens : kept[j] = d.tokens[i]
    BY <2>3, <2>4, <2>6
  <2>9. F!Range(kept) \subseteq F!Range(d.tokens)
    BY <2>8 DEF F!Range
  <2> QED
    BY <2>2, <2>5, <2>7, <2>9
<1> QED
  BY <1>1, <1>2

LEMMA ConfSafe == ASSUME F!FileAssumption, ConfInv PROVE FileUnderstood
<1>1. Len(stk) <= MaxStack
  <2>1. CASE stk = <<>>
    BY <2>1 DEF F!FileAssumption
  <2>2. ASSUME NEW d \in F!Definition, d.type \in ListType, NEW n \in 0 .. Len(d.tokens), Reduced(d, n)
        PROVE  Len(stk) <= MaxStack
    BY <2>2, ListDefinition DEF Reduced, F!FileAssumption
  <2> QED
    BY <2>1, <2>2 DEF ConfInv, ConfStack
<1>2. F!TypeOK
  BY <1>1 DEF ConfInv, ConfEntries, ConfProxy, F!TypeOK
<1>3. F!LastDefinitionCounts
  <2> SUFFICES ASSUME NEW k \in F!Key
               PROVE  IF F!Given(k) = {}
                      THEN F!SysconfStr(k) = "NULL" /\ F!IntOrDefault(k, -7) = -7 /\ F!StringList(k) = <<>>
                      ELSE LET d == F!LastGiven(k) IN
                           /\ F!SysconfPtr(k).type = d.type
                           /\ d.type = "Integer" => F!IntOrDefault(k, -7) = d.tokens[1]
                           /\ d.type = "String" => F!SysconfStr(k) = d.tokens[1] /\ F!IntOrDefault(k, -7) = -1
                           /\ d.type = "Boolean" =>
                                 /\ F!SysconfStr(k) = d.tokens[1]
                                 /\ F!IntOrDefault(k, -7) = IF d.tokens[1] = "on" THEN 1 ELSE 0
    BY DEF F!LastDefinitionCounts
  <2>1. CASE F!Given(k) = {}
    BY <2>1, Lookup DEF ConfInv, F!SysconfStr, F!IntOrDefault, F!StringList
  <2>2. CASE F!Given(k) # {}
    <3>1. F!Having(k) # {} /\ ConfEntry(F!SysconfPtr(k), F!LastGiven(k))
      BY <2>2, Lookup DEF ConfInv
    <3> QED
      BY <2>2, <3>1 DEF ConfEntry, F!SysconfStr, F!IntOrDefault
  <2> QED
    BY <2>1, <2>2
<1>4. F!ListsInOrder
  BY Lookup DEF ConfInv, F!ListsInOrder, ConfEntry, ListType, FirstKept
<1>5. F!ListensIfServersParse
  BY ServersOfFile DEF ConfInv, ConfProxy, F!ListensIfServersParse
<1> QED
  BY <1>2, <1>3, <1>4, <1>5 DEF FileUnderstood

LEMMA ConfInit == ASSUME F!FileAssumption, F!Init PROVE ConfInv
<1>1. root = <<>> /\ defs = <<>> /\ stk = <<>> /\ parsing = <<>>
  BY DEF F!Init
<1>2. <<>> \in Seq({}) /\ <<>> \in Seq(F!Definition) /\ Len(<<>>) = 0
  OBVIOUS
<1>3. ConfEntries
  BY <1>1, <1>2 DEF ConfEntries
<1>4. ConfStack
  BY <1>1, <1>2 DEF ConfStack
<1>5. ConfProxy
  BY DEF F!Init, ConfProxy
<1> QED
  BY <1>3, <1>4, <1>5 DEF ConfInv

\* A definition that is complete: its entry is the first one now.
LEMMA Defined ==
    ASSUME ConfEntries, NEW d \in F!Definition, NEW e, ConfEntry(e, d),
           F!AddEntry(e), defs' = Append(defs, d)
    PROVE  ConfEntries'
<1>1. PICK Any : root \in Seq(Any)
  BY DEF ConfEntries
<1>2. root' = <<e>> \o root /\ root \in Seq(Any \cup {e}) /\ <<e>> \in Seq(Any \cup {e})
  BY <1>1 DEF F!AddEntry
<1>3. /\ root' \in Seq(Any \cup {e}) /\ Len(root') = Len(root) + 1 /\ root'[1] = e
      /\ \A i \in 2 .. Len(root) + 1 : root'[i] = root[i - 1]
  BY <1>2
<1>4. /\ defs \in Seq(F!Definition) /\ defs' \in Seq(F!Definition) /\ Len(defs') = Len(defs) + 1
      /\ defs'[Len(defs) + 1] = d /\ \A i \in 1 .. Len(defs) : defs'[i] = defs[i]
  BY DEF ConfEntries
<1>5. Len(root) = Len(defs) /\ Len(defs) \in Nat
  BY <1>4 DEF ConfEntries
<1>6. ASSUME NEW i \in 1 .. Len(defs') PROVE ConfEntry(root'[Len(defs') + 1 - i], defs'[i])
  <2>1. CASE i = Len(defs) + 1
    <3>1. Len(defs') + 1 - i = 1
      BY <1>4, <1>5, <2>1
    <3> QED
      BY <1>3, <1>4, <2>1, <3>1
  <2>2. CASE i \in 1 .. Len(defs)
    <3>1. /\ Len(defs') + 1 - i \in 2 .. Len(root) + 1
          /\ (Len(defs') + 1 - i) - 1 = Len(defs) + 1 - i
      BY <1>4, <1>5, <2>2
    <3>2. root'[Len(defs') + 1 - i] = root[Len(defs) + 1 - i]
      BY <1>3, <3>1
    <3>3. ConfEntry(root[Len(defs) + 1 - i], defs[i])
      BY <2>2 DEF ConfEntries
    <3> QED
      BY <1>4, <2>2, <3>2, <3>3
  <2> QED
    BY <1>4, <1>5, <2>1, <2>2
<1>7. \E Y : root' \in Seq(Y)
  BY <1>3
<1> QED
  BY <1>3, <1>4, <1>5, <1>6, <1>7 DEF ConfEntries, ConfEntry

\* While the file is read, the proxy has not started.
LEMMA StillReading ==
    ASSUME ConfProxy, file = "reading", UNCHANGED <<file, proxy, servers, process>>
    PROVE  ConfProxy'
<1>1. proxy = "start" /\ process # "crashed"
  BY DEF ConfProxy
<1> QED
  BY <1>1 DEF ConfProxy

LEMMA ConfScalar ==
    ASSUME F!FileAssumption, ConfInv, NEW d \in F!Definition, F!DefineScalar(d)
    PROVE  ConfInv'
<1>1. /\ file = "reading" /\ d.type \in {"Integer", "String", "Boolean"}
      /\ F!AddEntry(F!Entry(d)) /\ defs' = Append(defs, d)
      /\ UNCHANGED <<stk, parsing, file, proxy, servers, process>>
  BY DEF F!DefineScalar
<1>2. PICK e : e = F!Entry(d)
  OBVIOUS
<1>3. ConfEntry(e, d)
  BY <1>1, <1>2 DEF F!Entry, ConfEntry, ListType
<1>4. ConfEntries'
  BY <1>1, <1>2, <1>3, Defined DEF ConfInv
<1>5. ConfStack'
  BY <1>1 DEF ConfInv, ConfStack, Reduced
<1> QED
  BY <1>1, <1>4, <1>5, StillReading DEF ConfInv

LEMMA ConfBegin ==
    ASSUME F!FileAssumption, ConfInv, NEW d \in F!Definition, F!BeginList(d)
    PROVE  ConfInv'
<1>1. /\ file = "reading" /\ parsing = <<>> /\ d.type \in ListType
      /\ parsing' = <<[d |-> d, left |-> d.tokens]>>
      /\ UNCHANGED <<root, stk, file, defs, proxy, servers, process>>
  BY DEF F!BeginList, ListType
<1>2. PICK Any : d.tokens \in Seq(Any) /\ Len(d.tokens) \in Nat \ {0}
  BY <1>1, ListDefinition
<1>3. SubSeq(d.tokens, 1, Len(d.tokens)) = d.tokens
  BY <1>2
<1>4. stk = <<>> /\ Len(stk) = 0
  BY <1>1 DEF ConfInv, ConfStack, Reduced
<1>5. Reduced(d, Len(d.tokens))'
  BY <1>1, <1>2, <1>3, <1>4 DEF Reduced, F!FileAssumption
<1>6. ConfStack'
  BY <1>1, <1>2, <1>5 DEF ConfInv, ConfStack
<1>7. ConfEntries'
  BY <1>1 DEF ConfInv, ConfEntries
<1> QED
  BY <1>1, <1>6, <1>7, StillReading DEF ConfInv

\* The list that is reduced.
LEMMA Parsed ==
    ASSUME F!FileAssumption, ConfStack, parsing # <<>>
    PROVE  \E d \in F!Definition : \E n \in Nat :
              /\ d.type \in ListType /\ n <= Len(d.tokens) /\ Reduced(d, n)
              /\ parsing[1].d = d /\ parsing[1].left = SubSeq(d.tokens, 1, n)
              /\ (parsing[1].left = <<>>) <=> (n = 0)
              /\ parsing[1] = [d |-> d, left |-> SubSeq(d.tokens, 1, n)]
<1>1. PICK d \in F!Definition : d.type \in ListType /\ \E n \in 0 .. Len(d.tokens) : Reduced(d, n)
  BY DEF ConfStack
<1>2. PICK n \in 0 .. Len(d.tokens) : Reduced(d, n)
  BY <1>1
<1>3. PICK Any : d.tokens \in Seq(Any) /\ Len(d.tokens) \in Nat \ {0}
  BY <1>1, ListDefinition
<1>4. Len(SubSeq(d.tokens, 1, n)) = n
  BY <1>3
<1>5. parsing[1] = [d |-> d, left |-> SubSeq(d.tokens, 1, n)]
  BY <1>2 DEF Reduced
<1>6. (SubSeq(d.tokens, 1, n) = <<>>) <=> (n = 0)
  BY <1>3, <1>4
<1>7. parsing[1].d = d /\ parsing[1].left = SubSeq(d.tokens, 1, n) /\ n \in Nat /\ n <= Len(d.tokens)
  BY <1>3, <1>5
<1> QED
  BY <1>1, <1>2, <1>5, <1>6, <1>7

LEMMA ConfReduce == ASSUME F!FileAssumption, ConfInv, F!ReduceElement PROVE ConfInv'
<1>1. /\ file = "reading" /\ parsing # <<>> /\ parsing[1].left # <<>>
      /\ F!ListAppend(F!Last(parsing[1].left))
      /\ parsing' = <<[parsing[1] EXCEPT !.left = F!Front(parsing[1].left)]>>
      /\ UNCHANGED <<root, file, defs, proxy, servers, process>>
  BY DEF F!ReduceElement
<1>2. PICK d \in F!Definition : \E n \in Nat :
              /\ d.type \in ListType /\ n <= Len(d.tokens) /\ Reduced(d, n)
              /\ parsing[1].d = d /\ parsing[1].left = SubSeq(d.tokens, 1, n)
              /\ (parsing[1].left = <<>>) <=> (n = 0)
              /\ parsing[1] = [d |-> d, left |-> SubSeq(d.tokens, 1, n)]
  BY <1>1, Parsed DEF ConfInv
<1>3. PICK n \in Nat :
              /\ d.type \in ListType /\ n <= Len(d.tokens) /\ Reduced(d, n)
              /\ parsing[1].d = d /\ parsing[1].left = SubSeq(d.tokens, 1, n)
              /\ (parsing[1].left = <<>>) <=> (n = 0)
              /\ parsing[1] = [d |-> d, left |-> SubSeq(d.tokens, 1, n)]
  BY <1>2
<1>4. PICK Any : d.tokens \in Seq(Any) /\ Len(d.tokens) \in Nat \ {0}
  BY <1>3, ListDefinition
<1>5. n \in 1 .. Len(d.tokens) /\ n - 1 \in 0 .. Len(d.tokens)
  BY <1>1, <1>3, <1>4
<1>6. F!Last(parsing[1].left) = d.tokens[n] /\ F!Front(parsing[1].left) = SubSeq(d.tokens, 1, n - 1)
  <2>0. PICK s : s = SubSeq(d.tokens, 1, n)
    OBVIOUS
  <2>1. s \in Seq(Any) /\ Len(s) = n /\ \A i \in 1 .. n : s[i] = d.tokens[i]
    BY <1>4, <1>5, <2>0
  <2>2. SubSeq(s, 1, n - 1) = SubSeq(d.tokens, 1, n - 1)
    BY <1>4, <1>5, <2>1
  <2> QED
    BY <1>3, <1>5, <2>0, <2>1, <2>2 DEF F!Last, F!Front
<1>7. parsing' = <<[d |-> d, left |-> SubSeq(d.tokens, 1, n - 1)]>>
  <2>1. PICK s : s = SubSeq(d.tokens, 1, n)
    OBVIOUS
  <2>2. PICK t : t = SubSeq(d.tokens, 1, n - 1)
    OBVIOUS
  <2>3. [[d |-> d, left |-> s] EXCEPT !.left = t] = [d |-> d, left |-> t]
    OBVIOUS
  <2> QED
    BY <1>1, <1>3, <1>6, <2>1, <2>2, <2>3
<1>8. PICK Y : stk \in Seq(Y)
  BY DEF ConfInv, ConfStack
<1>9. MaxStack \in Nat \ {0}
  BY DEF F!FileAssumption
<1>10. /\ Len(stk) = IF Len(d.tokens) - n < MaxStack THEN Len(d.tokens) - n ELSE MaxStack
       /\ \A j \in 1 .. Len(stk) : stk[j] = d.tokens[Len(d.tokens) - j + 1]
  BY <1>3 DEF Reduced
<1>11. Reduced(d, n - 1)' /\ \E Z : stk' \in Seq(Z)
  <2>1. CASE Len(stk) < MaxStack
    <3>1. stk' = Append(stk, d.tokens[n])
      BY <1>1, <1>6, <2>1 DEF F!ListAppend
    <3>2. Len(stk) = Len(d.tokens) - n
      BY <1>4, <1>5, <1>9, <1>10, <2>1
    <3>3. /\ stk' \in Seq(Y \cup {d.tokens[n]}) /\ Len(stk') = Len(stk) + 1
          /\ stk'[Len(stk) + 1] = d.tokens[n] /\ \A j \in 1 .. Len(stk) : stk'[j] = stk[j]
      BY <1>8, <3>1
    <3>0. PICK len \in Nat : len = Len(d.tokens)
      BY <1>4
    <3>4. Len(stk') = IF Len(d.tokens) - (n - 1) < MaxStack THEN Len(d.tokens) - (n - 1) ELSE MaxStack
      <4>1. Len(stk') = len - (n - 1) /\ len - (n - 1) <= MaxStack
        BY <1>5, <1>9, <2>1, <3>0, <3>2, <3>3
      <4> QED
        BY <1>5, <1>9, <3>0, <4>1
    <3>5. \A j \in 1 .. Len(stk') : stk'[j] = d.tokens[Len(d.tokens) - j + 1]
      <4> SUFFICES ASSUME NEW j \in 1 .. Len(stk') PROVE stk'[j] = d.tokens[Len(d.tokens) - j + 1]
        OBVIOUS
      <4>1. CASE j = Len(stk) + 1
        <5>1. Len(d.tokens) - j + 1 = n
          BY <1>5, <3>0, <3>2, <4>1
        <5> QED
          BY <3>3, <4>1, <5>1
      <4>2. CASE j # Len(stk) + 1
        <5>1. j \in 1 .. Len(stk)
          BY <1>8, <3>3, <4>2
        <5> QED
          BY <1>10, <3>3, <5>1
      <4> QED
        BY <4>1, <4>2
    <3> QED
      BY <1>7, <3>3, <3>4, <3>5 DEF Reduced
  <2>2. CASE ~(Len(stk) < MaxStack)
    <3>1. stk' = stk
      BY <1>1, <2>2 DEF F!ListAppend
    <3>2. Len(stk) = IF Len(d.tokens) - (n - 1) < MaxStack THEN Len(d.tokens) - (n - 1) ELSE MaxStack
      BY <1>4, <1>5, <1>9, <1>10, <2>2
    <3> QED
      BY <1>7, <1>8, <1>10, <3>1, <3>2 DEF Reduced
  <2> QED
    BY <2>1, <2>2
<1>12. ConfStack'
  BY <1>3, <1>5, <1>11 DEF ConfStack
<1>13. ConfEntries'
  BY <1>1 DEF ConfInv, ConfEntries
<1> QED
  BY <1>1, <1>12, <1>13, StillReading DEF ConfInv

\* A list that is reduced completely: read back from the top of the stack it has its order again.
LEMMA ConfList == ASSUME F!FileAssumption, ConfInv, F!AddPreparedList PROVE ConfInv'
<1>1. /\ file = "reading" /\ parsing # <<>> /\ parsing[1].left = <<>>
      /\ F!AddEntry([name |-> parsing[1].d.name, type |-> parsing[1].d.type, list |-> F!PreparedList,
                     ivalue |-> Len(stk), value |-> F!Uninitialised])
      /\ defs' = Append(defs, parsing[1].d)
      /\ stk' = <<>> /\ parsing' = <<>>
      /\ UNCHANGED <<file, proxy, servers, process>>
  BY DEF F!AddPreparedList, F!EmptyStack
<1>2. PICK d \in F!Definition : d.type \in ListType /\ parsing[1].d = d /\ Reduced(d, 0)
  BY <1>1, Parsed DEF ConfInv
<1>3. PICK Any : d.tokens \in Seq(Any) /\ Len(d.tokens) \in Nat \ {0}
  BY <1>2, ListDefinition
<1>4. PICK Y : stk \in Seq(Y)
  BY DEF ConfInv, ConfStack
<1>5. /\ Len(stk) = IF Len(d.tokens) < MaxStack THEN Len(d.tokens) ELSE MaxStack
      /\ \A j \in 1 .. Len(stk) : stk[j] = d.tokens[Len(d.tokens) - j + 1]
  BY <1>2, <1>3 DEF Reduced
<1>6. MaxStack \in Nat \ {0}
  BY DEF F!FileAssumption
<1>7. Len(stk) = Len(d.tokens) - FirstKept(d.tokens) + 1 /\ FirstKept(d.tokens) \in 1 .. Len(d.tokens)
  BY <1>3, <1>5, <1>6 DEF FirstKept
<1>8. F!PreparedList = SubSeq(d.tokens, FirstKept(d.tokens), Len(d.tokens))
  <2>1. PICK f \in Nat : f = FirstKept(d.tokens)
    BY <1>7
  <2>2. F!PreparedList = [i \in 1 .. Len(stk) |-> stk[(Len(stk) - i) + 1]]
    BY DEF F!PreparedList, F!Reverse
  <2>3. SubSeq(d.tokens, f, Len(d.tokens)) = [i \in 1 .. Len(stk) |-> d.tokens[f + i - 1]]
    BY <1>3, <1>7, <2>1
  <2>4. \A i \in 1 .. Len(stk) : stk[(Len(stk) - i) + 1] = d.tokens[f + i - 1]
    <3> SUFFICES ASSUME NEW i \in 1 .. Len(stk) PROVE stk[(Len(stk) - i) + 1] = d.tokens[f + i - 1]
      OBVIOUS
    <3>1. PICK j : j = (Len(stk) - i) + 1
      OBVIOUS
    <3>2. j \in 1 .. Len(stk) /\ Len(d.tokens) - j + 1 = f + i - 1
      BY <1>3, <1>4, <1>7, <2>1, <3>1, SMTT(30)
    <3> QED
      BY <1>5, <3>1, <3>2
  <2> QED
    BY <2>1, <2>2, <2>3, <2>4
<1>9. PICK e : e = [name |-> d.name, type |-> d.type, list |-> F!PreparedList,
                    ivalue |-> Len(stk), value |-> F!Uninitialised]
  OBVIOUS
<1>10. ConfEntry(e, d)
  BY <1>2, <1>8, <1>9 DEF ConfEntry, ListType
<1>11. F!AddEntry(e) /\ defs' = Append(defs, d)
  BY <1>1, <1>2, <1>9
<1>12. ConfEntries'
  BY <1>10, <1>11, Defined DEF ConfInv
<1>13. ConfStack'
  <2>1. <<>> \in Seq({})
    OBVIOUS
  <2> QED
    BY <1>1, <2>1 DEF ConfStack
<1> QED
  BY <1>1, <1>12, <1>13, StillReading DEF ConfInv

LEMMA ConfEnd ==
    ASSUME F!FileAssumption, ConfInv, F!ReadFile \/ F!ReadError \/ F!ProxyMain \/ F!Admit
    PROVE  ConfInv'
<1>1. UNCHANGED <<root, stk, parsing, defs>>
  BY DEF F!ReadFile, F!ReadError, F!ProxyMain, F!Admit, F!confVars
<1>2. ConfEntries' /\ ConfStack'
  BY <1>1 DEF ConfInv, ConfEntries, ConfStack, Reduced
<1>3. F!StringList("servers")' = F!StringList("servers")
  BY <1>1 DEF F!StringList, F!Having, F!SysconfPtr
<1>4. CASE F!ReadFile \/ F!ReadError
  <2>1. /\ file = "reading" /\ file' \in {"ok", "error"} /\ process' \in {process, "failed"}
        /\ UNCHANGED <<proxy, servers>>
    BY <1>4 DEF F!ReadFile, F!ReadError
  <2>2. proxy = "start" /\ process \in {"running", "failed"}
    BY <2>1 DEF ConfInv, ConfProxy
  <2>3. ConfProxy'
    BY <2>1, <2>2 DEF ConfProxy
  <2> QED
    BY <1>2, <2>3 DEF ConfInv
<1>5. CASE F!ProxyMain
  <2>1. /\ file = "ok" /\ proxy = "start" /\ servers' = F!StringList("servers")
        /\ proxy' = IF F!Range(servers') \subseteq Address THEN "listening" ELSE "returned"
        /\ UNCHANGED <<file, process>>
    BY <1>5 DEF F!ProxyMain, F!confVars
  <2>2. ConfProxy'
    BY <1>3, <2>1 DEF ConfInv, ConfProxy, F!Range
  <2> QED
    BY <1>2, <2>2 DEF ConfInv
<1>6. CASE F!Admit
  <2>1. /\ proxy = "listening" /\ process' \in {process, "crashed"}
        /\ process' = "crashed" => process = "crashed" \/ servers = <<>>
        /\ UNCHANGED <<file, proxy, servers>>
    BY <1>6 DEF F!Admit, F!confVars
  <2>2. ConfProxy'
    BY <1>3, <2>1 DEF ConfInv, ConfProxy, F!Range
  <2> QED
    BY <1>2, <2>2 DEF ConfInv
<1> QED
  BY <1>2, <1>4, <1>5, <1>6 DEF ConfInv

\* Whatever definitions a file has, in whichever order and case: a key has the value of its last
\* one, a list has its order and loses only what does not fit on the stack, and the proxy listens
\* with the servers of the file.
THEOREM FileSafe ==
    ASSUME F!FileAssumption
    PROVE  F!Spec => []FileUnderstood
<1>1. F!Init => ConfInv
  BY ConfInit
<1>2. ConfInv /\ [F!Next]_(F!vars) => ConfInv'
  <2> SUFFICES ASSUME ConfInv, [F!Next]_(F!vars) PROVE ConfInv'
    OBVIOUS
  <2>1. CASE UNCHANGED F!vars
    BY <2>1 DEF F!vars, F!confVars, ConfInv, ConfEntries, ConfStack, Reduced, ConfProxy,
                F!StringList, F!Having, F!SysconfPtr, F!Range
  <2>2. ASSUME NEW d \in F!Definition, F!DefineScalar(d) \/ F!BeginList(d) PROVE ConfInv'
    BY <2>2, ConfScalar, ConfBegin
  <2> QED
    BY <2>1, <2>2, ConfReduce, ConfList, ConfEnd DEF F!Next
<1> QED
  BY <1>1, <1>2, ConfSafe, PTL DEF F!Spec

-----------------------------------------------------------------------------
(* The application context, for any names and number of registrations.                        *)

Registration == [name: Beans, deps: SUBSET Beans]

\* Every component is constructed when it is registered, before it can be found: so what the next
\* one depends on is always done.
CtxInv ==
    /\ entries \in Seq(Registration) /\ Len(entries) <= MaxEntries
    /\ initialized = 1 .. Len(entries)
    /\ \E Any : constructed \in Seq(Any)
    /\ \A i, j \in DOMAIN constructed : constructed[i] = constructed[j] => i = j
    /\ X!Range(constructed) = initialized
    /\ hashMap \in [Beans -> initialized \cup {None}]
    /\ \A n \in Beans : hashMap[n] # None => entries[hashMap[n]].name = n
    /\ \A i \in 1 .. Len(entries) : hashMap[entries[i].name] \in 1 .. i
    /\ answer \in {"none", "ok", "exists", "version", "magic", "failed"}
    /\ wired \in BOOLEAN

\* The walk of wiring() is a function.
LEMMA WalkExists ==
    ASSUME NEW list, Len(list) \in Nat
    PROVE  \E walk : walk = [n \in 0 .. Len(list) |->
                                IF n = 0 THEN [done |-> initialized, order |-> <<>>]
                                ELSE X!WireEntry(list, walk[n - 1], Len(list) + 1 - n)]
<1> DEFINE S(n, w) == X!WireEntry(list, w, Len(list) + 1 - n)
           start == [done |-> initialized, order |-> <<>>]
           G == {m \in Nat : \E walk : walk = [n \in 0 .. m |-> IF n = 0 THEN start ELSE S(n, walk[n - 1])]}
<1>1. 0 \in G
  <2>1. PICK walk : walk = [n \in 0 .. 0 |-> start]
    OBVIOUS
  <2>2. walk = [n \in 0 .. 0 |-> IF n = 0 THEN start ELSE S(n, walk[n - 1])]
    BY <2>1
  <2> QED
    BY <2>2
<1>2. ASSUME NEW m \in G PROVE m + 1 \in G
  <2>1. m \in Nat
    OBVIOUS
  <2>2. PICK walk : walk = [n \in 0 .. m |-> IF n = 0 THEN start ELSE S(n, walk[n - 1])]
    OBVIOUS
  <2>3. PICK more : more = [n \in 0 .. m + 1 |-> IF n = m + 1 THEN S(n, walk[m]) ELSE walk[n]]
    OBVIOUS
  <2> HIDE DEF S, start
  <2>4. \A n \in 0 .. m + 1 : more[n] = IF n = 0 THEN start ELSE S(n, more[n - 1])
    <3> SUFFICES ASSUME NEW n \in 0 .. m + 1 PROVE more[n] = IF n = 0 THEN start ELSE S(n, more[n - 1])
      OBVIOUS
    <3>1. CASE n = m + 1
      <4>1. n - 1 = m /\ more[n - 1] = walk[m] /\ n # 0
        BY <2>1, <2>3, <3>1
      <4> QED
        BY <2>3, <3>1, <4>1
    <3>2. CASE n # m + 1 /\ n # 0
      <4>1. n \in 0 .. m /\ n - 1 \in 0 .. m /\ more[n] = walk[n] /\ more[n - 1] = walk[n - 1]
        BY <2>1, <2>3, <3>2
      <4> QED
        BY <2>2, <3>2, <4>1
    <3>3. CASE n = 0
      BY <2>1, <2>2, <2>3, <3>3
    <3> QED
      BY <3>1, <3>2, <3>3
  <2>5. more = [n \in 0 .. m + 1 |-> IF n = 0 THEN start ELSE S(n, more[n - 1])]
    BY <2>3, <2>4
  <2>6. \E w : w = [n \in 0 .. m + 1 |-> IF n = 0 THEN start ELSE S(n, w[n - 1])]
    BY <2>5, Zenon
  <2>7. m + 1 \in Nat
    BY <2>1
  <2> QED
    BY <2>6, <2>7, Zenon
<1>3. Len(list) \in G
  <2>1. G \in SUBSET Nat
    OBVIOUS
  <2> HIDE DEF G
  <2> QED
    BY <1>1, <1>2, <2>1, NatSet
<1> QED
  BY <1>3

LEMMA Walked ==
    ASSUME NEW list, Len(list) \in Nat
    PROVE  \E walk : /\ X!Wiring(list) = walk[Len(list)]
                     /\ walk[0] = [done |-> initialized, order |-> <<>>]
                     /\ \A n \in 1 .. Len(list) : walk[n] = X!WireEntry(list, walk[n - 1], Len(list) + 1 - n)
<1> DEFINE walk == CHOOSE walk : walk = [n \in 0 .. Len(list) |->
                                IF n = 0 THEN [done |-> initialized, order |-> <<>>]
                                ELSE X!WireEntry(list, walk[n - 1], Len(list) + 1 - n)]
<1>1. walk = [n \in 0 .. Len(list) |->
                                IF n = 0 THEN [done |-> initialized, order |-> <<>>]
                                ELSE X!WireEntry(list, walk[n - 1], Len(list) + 1 - n)]
  BY WalkExists
<1>2. X!Wiring(list) = walk[Len(list)]
  BY DEF X!Wiring
<1> HIDE DEF walk
<1>3. walk[0] = [done |-> initialized, order |-> <<>>]
  BY <1>1
<1>4. \A n \in 1 .. Len(list) : walk[n] = X!WireEntry(list, walk[n - 1], Len(list) + 1 - n)
  BY <1>1
<1> QED
  BY <1>2, <1>3, <1>4

\* The registration of a component: wiring() constructs it, and no other one.
LEMMA NewWired ==
    ASSUME X!ContextAssumption, CtxInv, NEW e \in Registration
    PROVE  X!Wiring(Append(entries, e)) = [done |-> 1 .. Len(entries) + 1, order |-> <<Len(entries) + 1>>]
<1>1. PICK list : list = Append(entries, e)
  OBVIOUS
<1>2. PICK last \in Nat \ {0} : last = Len(entries) + 1 /\ Len(list) = last /\ list[last] = e
  BY <1>1 DEF CtxInv
<1>3. PICK walk : /\ X!Wiring(list) = walk[Len(list)]
                  /\ walk[0] = [done |-> initialized, order |-> <<>>]
                  /\ \A n \in 1 .. Len(list) : walk[n] = X!WireEntry(list, walk[n - 1], Len(list) + 1 - n)
  BY <1>2, Walked
<1>4. PICK done : done = [done |-> 1 .. last, order |-> <<last>>]
  OBVIOUS
<1>5. walk[1] = done
  <2>1. walk[1] = X!WireEntry(list, walk[0], last)
    BY <1>2, <1>3
  <2>2. PICK w : w = [done |-> initialized, order |-> <<>>]
    OBVIOUS
  <2>3. last \notin w.done
    BY <1>2, <2>2 DEF CtxInv
  <2>4. X!CheckEntry(list, last, w.done)
    BY <1>2, <2>2 DEF X!CheckEntry, CtxInv, Registration
  <2>0. Append(<<>>, last) = <<last>>
    OBVIOUS
  <2>5. [w EXCEPT !.order = Append(w.order, last), !.done = w.done \cup {last}]
           = [done |-> initialized \cup {last}, order |-> <<last>>]
    <3>1. w.order = <<>> /\ w.done = initialized
      BY <2>2
    <3>2. ASSUME NEW a, NEW b PROVE [w EXCEPT !.order = a, !.done = b] = [done |-> b, order |-> a]
      <4>1. PICK v : v = [w EXCEPT !.order = a]
        OBVIOUS
      <4>2. v = [done |-> initialized, order |-> a]
        BY <2>2, <4>1
      <4>3. [v EXCEPT !.done = b] = [done |-> b, order |-> a]
        BY <4>2
      <4>4. [w EXCEPT !.order = a, !.done = b] = [v EXCEPT !.done = b]
        BY <4>1
      <4> QED
        BY <4>3, <4>4
    <3> QED
      BY <2>0, <3>1, <3>2
  <2>6. initialized \cup {last} = 1 .. last
    BY <1>2 DEF CtxInv
  <2> QED
    BY <1>3, <1>4, <2>1, <2>2, <2>3, <2>4, <2>5, <2>6 DEF X!WireEntry, X!Construct
<1> DEFINE G == {m \in Nat : m < last => walk[m + 1] = done}
<1>6. 0 \in G
  BY <1>5
<1>7. ASSUME NEW m \in G PROVE m + 1 \in G
  <2> SUFFICES ASSUME m + 1 < last PROVE walk[m + 2] = done
    OBVIOUS
  <2>1. m \in Nat /\ m + 2 \in 1 .. last /\ walk[m + 1] = done
    BY <1>2
  <2>2. walk[m + 2] = X!WireEntry(list, done, last + 1 - (m + 2))
    BY <1>2, <1>3, <2>1
  <2>3. last + 1 - (m + 2) \in done.done
    BY <1>2, <1>4, <2>1
  <2> QED
    BY <2>2, <2>3 DEF X!WireEntry
<1>8. last - 1 \in G
  <2>1. G \in SUBSET Nat /\ last - 1 \in Nat
    BY <1>2
  <2> HIDE DEF G
  <2> QED
    BY <1>6, <1>7, <2>1, NatSet
<1>9. walk[last] = done
  BY <1>2, <1>8
<1> QED
  BY <1>1, <1>2, <1>3, <1>4, <1>9

\* Once more, when everything is constructed: nothing is left to do.
LEMMA NothingWired ==
    ASSUME CtxInv
    PROVE  X!Wiring(entries) = [done |-> initialized, order |-> <<>>]
<1>1. PICK last \in Nat : last = Len(entries)
  BY DEF CtxInv
<1>2. PICK walk : /\ X!Wiring(entries) = walk[Len(entries)]
                  /\ walk[0] = [done |-> initialized, order |-> <<>>]
                  /\ \A n \in 1 .. Len(entries) : walk[n] = X!WireEntry(entries, walk[n - 1], Len(entries) + 1 - n)
  BY <1>1, Walked
<1>3. PICK done : done = [done |-> initialized, order |-> <<>>]
  OBVIOUS
<1> DEFINE G == {m \in Nat : m <= last => walk[m] = done}
<1>4. 0 \in G
  BY <1>2, <1>3
<1>5. ASSUME NEW m \in G PROVE m + 1 \in G
  <2> SUFFICES ASSUME m + 1 <= last PROVE walk[m + 1] = done
    OBVIOUS
  <2>1. m \in Nat /\ m + 1 \in 1 .. last /\ walk[m] = done
    BY <1>1
  <2>2. walk[m + 1] = X!WireEntry(entries, done, last + 1 - (m + 1))
    BY <1>1, <1>2, <2>1
  <2>3. last + 1 - (m + 1) \in done.done
    BY <1>1, <1>3, <2>1 DEF CtxInv
  <2> QED
    BY <2>2, <2>3 DEF X!WireEntry
<1>6. last \in G
  <2>1. G \in SUBSET Nat
    OBVIOUS
  <2> HIDE DEF G
  <2> QED
    BY <1>4, <1>5, <2>1, NatSet
<1> QED
  BY <1>1, <1>2, <1>3, <1>6

LEMMA CtxInit == ASSUME X!ContextAssumption, X!Init PROVE CtxInv
<1>1. entries = <<>> /\ initialized = {} /\ constructed = <<>> /\ Len(entries) = 0
  BY DEF X!Init
<1>2. <<>> \in Seq({}) /\ DOMAIN <<>> = {} /\ 1 .. 0 = {}
  OBVIOUS
<1>3. X!Range(constructed) = {}
  BY <1>1, <1>2 DEF X!Range
<1>4. wired \in BOOLEAN
  BY DEF X!Init
<1>5. \E Any : constructed \in Seq(Any)
  BY <1>1, <1>2
<1> QED
  BY <1>1, <1>2, <1>3, <1>4, <1>5 DEF X!Init, CtxInv, X!ContextAssumption

LEMMA CtxPopulate ==
    ASSUME X!ContextAssumption, CtxInv, NEW h \in X!Header, NEW e \in Registration, X!Populate(h, e)
    PROVE  CtxInv'
<1>1. wired' = wired
  BY DEF X!Populate
<1>2. CASE X!Refused(h)
  <2>1. UNCHANGED <<entries, initialized, hashMap, constructed>> /\ answer' \in {"version", "magic"}
    BY <1>2 DEF X!Populate
  <2> QED
    BY <1>1, <2>1 DEF CtxInv, X!Range
<1>3. CASE ~X!Refused(h)
  <2>1. PICK last \in Nat \ {0} : last = Len(entries) + 1
    BY DEF CtxInv
  <2>2. /\ entries' = Append(entries, e) /\ X!Wired(X!Wiring(entries')) /\ answer' \in {"ok", "exists"}
        /\ X!PutIfAbsent(e.name, Len(entries')) /\ Len(entries) < MaxEntries
    BY <1>3 DEF X!Populate
  <2>3. /\ entries \in Seq(Registration) /\ entries' \in Seq(Registration) /\ Len(entries') = last
        /\ entries'[last] = e /\ \A i \in 1 .. last - 1 : entries'[i] = entries[i]
    BY <2>1, <2>2 DEF CtxInv
  <2>4. initialized' = 1 .. last /\ constructed' = constructed \o <<last>>
    <3>1. X!Wiring(Append(entries, e)) = [done |-> 1 .. last, order |-> <<last>>]
      BY <2>1, NewWired
    <3>2. PICK w : w = [done |-> 1 .. last, order |-> <<last>>]
      OBVIOUS
    <3>3. X!Wired(w)
      BY <2>2, <3>1, <3>2
    <3> QED
      BY <3>2, <3>3 DEF X!Wired
  <2>5. PICK Y : constructed \in Seq(Y)
    BY DEF CtxInv
  <2>6. /\ constructed' \in Seq(Y \cup {last}) /\ Len(constructed') = Len(constructed) + 1
        /\ constructed'[Len(constructed) + 1] = last
        /\ \A i \in 1 .. Len(constructed) : constructed'[i] = constructed[i]
        /\ DOMAIN constructed = 1 .. Len(constructed) /\ Len(constructed) \in Nat
        /\ DOMAIN constructed' = 1 .. Len(constructed) + 1
    BY <2>4, <2>5
  <2>7. \A i \in 1 .. Len(constructed) : constructed[i] \in 1 .. last - 1
    <3>1. \A i \in DOMAIN constructed : constructed[i] \in X!Range(constructed)
      BY DEF X!Range
    <3>2. X!Range(constructed) = 1 .. last - 1
      BY <2>1 DEF CtxInv
    <3> QED
      BY <2>6, <3>1, <3>2
  <2>8. \A i, j \in DOMAIN constructed' : constructed'[i] = constructed'[j] => i = j
    BY <2>1, <2>6, <2>7, SMTT(30) DEF CtxInv
  <2>9. X!Range(constructed') = initialized'
    <3>1. ASSUME NEW i \in DOMAIN constructed' PROVE constructed'[i] \in 1 .. last
      BY <2>1, <2>6, <2>7
    <3>2. ASSUME NEW x \in 1 .. last PROVE \E i \in DOMAIN constructed' : constructed'[i] = x
      <4>1. CASE x = last
        BY <2>6, <4>1
      <4>2. CASE x # last
        <5>1. x \in X!Range(constructed)
          BY <2>1, <4>2 DEF CtxInv
        <5> QED
          BY <2>6, <5>1 DEF X!Range
      <4> QED
        BY <4>1, <4>2
    <3> QED
      BY <2>4, <3>1, <3>2 DEF X!Range
  <2>10. e.name \in Beans
    BY DEF Registration
  <2>11. /\ hashMap \in [Beans -> initialized \cup {None}] /\ initialized = 1 .. last - 1
         /\ hashMap' = [hashMap EXCEPT ![e.name] = IF hashMap[e.name] = None THEN last ELSE hashMap[e.name]]
    BY <2>1, <2>2, <2>3 DEF CtxInv, X!PutIfAbsent
  <2>12. hashMap' \in [Beans -> initialized' \cup {None}]
    BY <2>1, <2>4, <2>10, <2>11
  <2>13. None \notin 1 .. last
    BY <2>1, <2>2 DEF X!ContextAssumption
  <2>14. ASSUME NEW n \in Beans, hashMap[n] # None
         PROVE  hashMap[n] \in 1 .. last - 1 /\ entries[hashMap[n]].name = n
    BY <2>11, <2>14 DEF CtxInv
  <2>15. ASSUME NEW n \in Beans, hashMap'[n] # None PROVE entries'[hashMap'[n]].name = n
    <3>1. CASE hashMap[n] # None
      <4>1. hashMap'[n] = hashMap[n]
        BY <2>10, <2>11, <3>1
      <4> QED
        BY <2>3, <2>14, <3>1, <4>1
    <3>2. CASE hashMap[n] = None
      <4>1. n = e.name /\ hashMap'[n] = last
        BY <2>10, <2>11, <2>15, <3>2
      <4> QED
        BY <2>3, <4>1
    <3> QED
      BY <3>1, <3>2
  <2>16. ASSUME NEW i \in 1 .. last PROVE hashMap'[entries'[i].name] \in 1 .. i
    <3>1. CASE i = last
      BY <2>1, <2>3, <2>10, <2>11, <2>14, <3>1
    <3>2. CASE i # last
      <4>1. i \in 1 .. last - 1 /\ entries'[i] = entries[i] /\ entries[i] \in Registration
        BY <2>1, <2>3, <3>2
      <4>2. hashMap[entries[i].name] \in 1 .. i /\ entries[i].name \in Beans
        BY <2>1, <4>1 DEF CtxInv, Registration
      <4>3. hashMap[entries[i].name] # None
        BY <2>13, <4>1, <4>2, <2>1
      <4>4. hashMap'[entries[i].name] = hashMap[entries[i].name]
        BY <2>10, <2>11, <4>2, <4>3
      <4> QED
        BY <4>1, <4>2, <4>4
    <3> QED
      BY <3>1, <3>2
  <2>17. Len(entries') <= MaxEntries /\ initialized' = 1 .. Len(entries') /\ \E Z : constructed' \in Seq(Z)
    BY <2>1, <2>2, <2>3, <2>4, <2>6 DEF X!ContextAssumption
  <2>18. wired' \in BOOLEAN
    BY <1>1 DEF CtxInv
  <2> QED
    BY <2>2, <2>3, <2>8, <2>9, <2>12, <2>15, <2>16, <2>17, <2>18 DEF CtxInv
<1> QED
  BY <1>2, <1>3

LEMMA CtxAuto == ASSUME CtxInv, X!AutoWiring PROVE CtxInv'
<1>1. /\ X!Wired(X!Wiring(entries)) /\ answer' \in {"ok", "failed"}
      /\ UNCHANGED <<entries, hashMap>>
  BY DEF X!AutoWiring
<1>2. initialized' = initialized /\ constructed' = constructed \o <<>>
  <2>1. PICK w : w = [done |-> initialized, order |-> <<>>]
    OBVIOUS
  <2>2. X!Wired(w)
    BY <1>1, <2>1, NothingWired
  <2> QED
    BY <2>1, <2>2 DEF X!Wired
<1>3. constructed' = constructed
  <2>1. PICK Y : constructed \in Seq(Y)
    BY DEF CtxInv
  <2> QED
    BY <1>2, <2>1
<1>4. wired' = TRUE
  BY DEF X!AutoWiring
<1> QED
  BY <1>1, <1>2, <1>3, <1>4 DEF CtxInv, X!Range

LEMMA CtxSafe == ASSUME X!ContextAssumption, CtxInv PROVE BeansWired
<1>1. X!TypeOK
  <2>1. wired \in BOOLEAN
    BY DEF CtxInv
  <2> QED
    BY <2>1 DEF CtxInv, Registration, X!TypeOK, X!Id
<1>2. X!ConstructedOnce
  BY DEF CtxInv, X!ConstructedOnce
<1>3. X!FoundAtOnce
  <2> SUFFICES ASSUME NEW i \in X!Id
               PROVE  X!GetBean(entries[i].name)
                        = X!Min({j \in X!Id : entries[j].name = entries[i].name})
    BY DEF X!FoundAtOnce
  <2>1. PICK last \in Nat : last = Len(entries) /\ X!Id = 1 .. last
    BY DEF CtxInv, X!Id
  <2>2. entries[i].name \in Beans
    <3>1. entries[i] \in Registration
      BY <2>1 DEF CtxInv
    <3> QED
      BY <3>1 DEF Registration
  <2>3. PICK m : m = hashMap[entries[i].name]
    OBVIOUS
  <2>4. m \in 1 .. last /\ entries[m].name = entries[i].name
    <3>1. m \in 1 .. i /\ i \in 1 .. last /\ last <= MaxEntries
      BY <2>1, <2>3 DEF CtxInv
    <3>2. m # None
      BY <2>1, <3>1 DEF X!ContextAssumption
    <3> QED
      BY <2>1, <2>2, <2>3, <3>1, <3>2 DEF CtxInv
  <2>5. \A j \in 1 .. last : entries[j].name = entries[i].name => m <= j
    BY <2>1, <2>3 DEF CtxInv
  <2>6. X!GetBean(entries[i].name) = m
    BY <2>1, <2>3, <2>4 DEF X!GetBean, CtxInv, X!ContextAssumption
  <2>7. PICK same : same = {j \in X!Id : entries[j].name = entries[i].name}
    OBVIOUS
  <2>8. m \in same /\ \A j \in same : m <= j /\ j \in Nat
    BY <2>1, <2>4, <2>5, <2>7
  <2>9. X!Min(same) = m
    BY <2>8 DEF X!Min
  <2> QED
    BY <2>6, <2>7, <2>9
<1> QED
  BY <1>1, <1>2, <1>3 DEF BeansWired

\* In whichever order components are registered and whatever they depend on: post_construct() is
\* called once for each, at its registration, and a name finds the first one registered under it.
THEOREM BeansSafe ==
    ASSUME X!ContextAssumption
    PROVE  X!Spec => []BeansWired
<1>1. X!Init => CtxInv
  BY CtxInit
<1>2. CtxInv /\ [X!Next]_(X!vars) => CtxInv'
  <2> SUFFICES ASSUME CtxInv, [X!Next]_(X!vars) PROVE CtxInv'
    OBVIOUS
  <2>1. CASE UNCHANGED X!vars
    <3>1. UNCHANGED <<entries, initialized, hashMap, constructed, answer>>
      BY <2>1 DEF X!vars
    <3>2. UNCHANGED wired
      BY <2>1 DEF X!vars
    <3> QED
      BY <3>1, <3>2 DEF CtxInv, X!Range
  <2>2. ASSUME NEW h \in X!Header, NEW e \in Registration, X!Populate(h, e) PROVE CtxInv'
    BY <2>2, CtxPopulate
  <2> QED
    BY <2>1, <2>2, CtxAuto DEF X!Next, Registration
<1> QED
  BY <1>1, <1>2, CtxSafe, PTL DEF X!Spec

-----------------------------------------------------------------------------
(* The components together.                                                                   *)

\* Each component behaves in AllSpec as it does alone, and so each keeps its promise.
THEOREM AllSafe ==
    AllSpec => [](StatementsSafe /\ NumbersExact /\ NamesFound /\ CommandsFound /\ FileUnderstood /\ BeansWired)
<1>1. /\ CountAssumption /\ N!WidthAssumption /\ M!MapAssumption
      /\ T!BoundAssumption /\ F!FileAssumption /\ X!ContextAssumption
  BY SequentialAssumption
<1>2. AllInit => Init /\ N!Init /\ M!Init /\ T!Init /\ F!Init /\ X!Init
  BY DEF AllInit
<1>3. [AllNext]_all => [Next]_vars
  BY DEF AllNext, all
<1>4. [AllNext]_all => [N!Next]_N!vars
  BY DEF AllNext, all, numbers, N!vars
<1>5. [AllNext]_all => [M!Next]_M!vars
  BY DEF AllNext, all, map, M!vars
<1>6. [AllNext]_all => [T!Next]_T!vars
  BY DEF AllNext, all, commands, T!vars
<1>7. [AllNext]_all => [F!Next]_F!vars
  BY DEF AllNext, all, configuration, F!vars, F!confVars
<1>8. [AllNext]_all => [X!Next]_X!vars
  BY DEF AllNext, all, context, X!vars
<1>9. /\ Spec => []StatementsSafe
      /\ N!Spec => []NumbersExact
      /\ M!Spec => []NamesFound
      /\ T!Spec => []CommandsFound
      /\ F!Spec => []FileUnderstood
      /\ X!Spec => []BeansWired
  BY <1>1, Safe, NumbersSafe, NamesSafe, CommandsSafe, FileSafe, BeansSafe
<1> QED
  BY <1>2, <1>3, <1>4, <1>5, <1>6, <1>7, <1>8, <1>9, PTL
     DEF AllSpec, Spec, N!Spec, M!Spec, T!Spec, F!Spec, X!Spec

==============================================================================
