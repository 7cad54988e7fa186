--------------------------- MODULE ProxyingProofs ---------------------------
(* Proofs about the connection table, for any number of connections,         *)
(* descriptors and event handles and any request limit.                      *)
EXTENDS Proxying, FiniteSetTheorems, TLAPS

LEMMA ConstantFacts ==
    /\ None \notin Entry /\ None \notin Fd /\ None \notin Handle
    /\ None # "proxy" /\ None # "timer" /\ None \notin Event
BY ConstantsAssumption DEF Thread

LEMMA CountOfChain ==
    ASSUME TypeOK
    PROVE  Cardinality(infos) \in Nat /\ Cardinality(infos) <= Cardinality(Entry)
<1>1. infos \subseteq Entry
  BY DEF TypeOK
<1>2. IsFiniteSet(infos) /\ Cardinality(infos) <= Cardinality(Entry)
  BY <1>1, ConstantsAssumption, FS_Subset
<1> QED
  BY <1>2, FS_CardinalityType

(***************************************************************************)
(* The place of the proxy thread.                                          *)
(***************************************************************************)
LEMMA ControlStep ==
    ASSUME TypeOK, ProxyControl, RelayedIsLive, [Next]_vars
    PROVE  ProxyControl' /\ RelayedIsLive'
<1> USE ConstantFacts DEF TypeOK, ProxyControl, RelayedIsLive, Thread
<1>1. CASE Accept
  BY <1>1 DEF Accept, Lowest, fields, table, sweep
<1>2. CASE PeerGone
  BY <1>2 DEF PeerGone, fields, table, sweep
<1>3. CASE AcceptLock
  BY <1>3 DEF AcceptLock, fields, table, kernel, sweep
<1>4. CASE Drop
  BY <1>4 DEF Drop, fields, table, sweep
<1>5. CASE Admit
  BY <1>5 DEF Admit, sweep
<1>6. CASE Dispatch
  BY <1>6 DEF Dispatch, fields, table, kernel, sweep
<1>7. CASE RelaySkip
  BY <1>7 DEF RelaySkip, fields, table, kernel, sweep
<1>8. CASE RelayBegin
  BY <1>8 DEF RelayBegin, fields, table, kernel, sweep
<1>9. CASE RelayForward \/ RelayClose
  BY <1>9 DEF RelayForward, RelayClose, RelayEnd, sweep
<1>10. CASE Tick
  BY <1>10 DEF Tick, fields, table, kernel, sweep
<1>11. CASE Stop
  BY <1>11 DEF Stop, fields, table, kernel, sweep
<1>12. ASSUME NEW t \in Thread, SweepStep(t)
       PROVE  ProxyControl' /\ RelayedIsLive'
  <2>1. CASE Snapshot(t)
    BY <2>1 DEF Snapshot, fields, table, kernel
  <2>2. CASE SweepKeep(t) \/ SweepDue(t) \/ SweepEnd(t)
    BY <2>2 DEF SweepKeep, SweepDue, SweepEnd, fields, table, kernel, sweep
  <2>3. CASE SweepExpire(t)
    BY <2>3 DEF SweepExpire, Detach, CloseEvent, FreeConnectionInfo, fields, table
  <2> QED
    BY <1>12, <2>1, <2>2, <2>3 DEF SweepStep
<1>13. CASE TimePasses \/ Terminate
  BY <1>13 DEF TimePasses, Terminate, fields, table, kernel, sweep
<1>14. CASE Undefined \/ UNCHANGED vars
  BY <1>14 DEF Undefined, vars, fields, table, kernel, sweep
<1> QED
  BY <1>1, <1>2, <1>3, <1>4, <1>5, <1>6, <1>7, <1>8, <1>9, <1>10, <1>11, <1>12,
     <1>13, <1>14 DEF Next, AcceptStep, RelayStep

(***************************************************************************)
(* Types.  An entry is pushed on the free list only from the chain.         *)
(***************************************************************************)
LEMMA PushTyped ==
    ASSUME NEW S, NEW s \in Seq(S), NEW e \in S
    PROVE  <<e>> \o s \in Seq(S)
OBVIOUS

LEMMA PopTyped ==
    ASSUME NEW S, NEW s \in Seq(S), s # <<>>
    PROVE  Head(s) \in S /\ Tail(s) \in Seq(S)
OBVIOUS

LEMMA CountTyped ==
    ASSUME NEW S, NEW f \in [S -> Nat], NEW e \in S
    PROVE  [f EXCEPT ![e] = @ + 1] \in [S -> Nat]
OBVIOUS

LEMMA CloseTyped ==
    ASSUME TypeOK, NEW e \in infos, Detach(e), CloseEvent(e), FreeConnectionInfo(e),
           allocated' = allocated
    PROVE  /\ infos' \subseteq allocated'
           /\ pool' \in Seq(allocated')
           /\ registered' \in [Handle -> Event \cup {None}]
           /\ open' \subseteq Fd
           /\ rows' \subseteq Entry
           /\ request_in_db' \in [Entry -> BOOLEAN]
<1>1. e \in allocated /\ e \in Entry
  BY DEF TypeOK
<1>2. pool' \in Seq(allocated')
  BY <1>1, PushTyped DEF TypeOK, FreeConnectionInfo
<1>3. registered' \in [Handle -> Event \cup {None}]
  BY DEF TypeOK, CloseEvent
<1> QED
  BY <1>1, <1>2, <1>3 DEF TypeOK, Detach, CloseEvent

LEMMA TypeStep ==
    ASSUME TypeOK, ProxyControl, RelayedIsLive, [Next]_vars
    PROVE  TypeOK'
<1> USE ConstantFacts
<1>1. CASE Accept
  BY <1>1 DEF Accept, Lowest, TypeOK, Thread, fields, table, sweep
<1>2. CASE PeerGone
  BY <1>2 DEF PeerGone, TypeOK, Thread, fields, table, sweep
<1>3. CASE AcceptLock
  BY <1>3 DEF AcceptLock, TypeOK, Thread, fields, table, kernel, sweep
<1>4. CASE Drop
  BY <1>4 DEF Drop, Lowest, TypeOK, Thread, fields, table, sweep
<1>5. CASE Admit
  <2>1. fdc \in Fd
    BY <1>5 DEF Admit, ProxyControl
  <2>2. PICK e \in Entry, s \in Lowest(Fd \ open), r \in BOOLEAN :
        \E ch \in AddEvent({}) : \E sh \in AddEvent({ch}) :
          AllocateConnectionInfo(e) /\ Establish(e, s, r, ch, sh)
    BY <1>5 DEF Admit
  <2>3. s \in Fd
    BY DEF Lowest
  <2>4. /\ e \in allocated' /\ allocated \subseteq allocated' /\ allocated' \subseteq Entry
        /\ pool' \in Seq(allocated')
    <3>1. CASE pool # <<>>
      <4>1. e = Head(pool) /\ pool' = Tail(pool) /\ allocated' = allocated
        BY <2>2, <3>1 DEF AllocateConnectionInfo
      <4>2. Head(pool) \in allocated /\ Tail(pool) \in Seq(allocated)
        BY <3>1, PopTyped DEF TypeOK
      <4> QED
        BY <4>1, <4>2 DEF TypeOK
    <3>2. CASE pool = <<>>
      BY <2>2, <3>2 DEF AllocateConnectionInfo, TypeOK
    <3> QED
      BY <3>1, <3>2
  <2>5. registered' \in [Handle -> Event \cup {None}]
    BY <2>2 DEF Establish, TypeOK, Event, Side
  <2>6. /\ client_handle' \in [Entry -> Handle \cup {None}]
        /\ server_handle' \in [Entry -> Handle \cup {None}]
    BY <2>2 DEF Establish, TypeOK, AddEvent, Lowest
  <2>7. pc' \in [Thread -> {"loop", "accepted", "admitting", "dispatched", "relaying",
                   "sleep", "snapshot", "scan", "due", "stopped", "undefined"}]
    BY <1>5 DEF Admit, TypeOK
  <2> QED
    BY <1>5, <2>1, <2>2, <2>3, <2>4, <2>5, <2>6, <2>7 DEF Admit, Establish, TypeOK, Touch, sweep
<1>6. CASE Dispatch
  BY <1>6 DEF Dispatch, TypeOK, Thread, fields, table, kernel, sweep
<1>7. CASE RelaySkip
  BY <1>7 DEF RelaySkip, TypeOK, Thread, fields, table, kernel, sweep
<1>8. CASE RelayBegin
  BY <1>8 DEF RelayBegin, Touch, TypeOK, Thread, fields, table, kernel, sweep
<1>9. ASSUME RelayForward \/ RelayClose
      PROVE  requestCount' \in [Entry -> Nat]
  <2>1. cur \in Event
    BY <1>9 DEF RelayForward, RelayClose, ProxyControl
  <2>2. cur.info \in Entry
    BY <2>1 DEF Event
  <2>3. requestCount' = requestCount \/ CountRequest
    BY <1>9 DEF RelayForward, RelayClose
  <2>4. requestCount \in [Entry -> Nat]
    BY DEF TypeOK
  <2>5. [requestCount EXCEPT ![cur.info] = @ + 1] \in [Entry -> Nat]
    BY <2>2, <2>4, CountTyped
  <2> QED
    BY <2>3, <2>4, <2>5, Zenon DEF CountRequest
<1>10. CASE RelayForward
  BY <1>9, <1>10 DEF RelayForward, RelayEnd, TypeOK, Thread, sweep
<1>11. CASE RelayClose
  <2>1. cur.info \in infos /\ allocated' = allocated
    BY <1>11 DEF RelayClose, RelayEnd, RelayedIsLive
  <2>2. /\ infos' \subseteq allocated'
        /\ pool' \in Seq(allocated')
        /\ registered' \in [Handle -> Event \cup {None}]
        /\ open' \subseteq Fd
        /\ rows' \subseteq Entry
        /\ request_in_db' \in [Entry -> BOOLEAN]
    BY <1>11, <2>1, CloseTyped DEF RelayClose
  <2> QED
    BY <1>9, <1>11, <2>2 DEF RelayClose, RelayEnd, TypeOK, Thread, sweep
<1>12. CASE Tick \/ Stop
  BY <1>12 DEF Tick, Stop, TypeOK, Thread, fields, table, kernel, sweep
<1>13. ASSUME NEW t \in Thread, SweepStep(t)
       PROVE  TypeOK'
  <2>1. CASE Snapshot(t)
    <3>1. Cardinality(infos) \in Nat
      BY CountOfChain
    <3>2. n' \in [Thread -> Nat] /\ i' \in [Thread -> Nat]
      BY <2>1, <3>1 DEF Snapshot, TypeOK
    <3>3. expiring_holder' \in [Slots -> Entry \cup {None}]
      BY <2>1, <3>1 DEF Snapshot, Orders, Slots, TypeOK
    <3> QED
      BY <2>1, <3>2, <3>3 DEF Snapshot, TypeOK, Thread, fields, table, kernel
  <2>2. CASE SweepKeep(t) \/ SweepDue(t) \/ SweepEnd(t)
    BY <2>2 DEF SweepKeep, SweepDue, SweepEnd, TypeOK, Thread, fields, table,
                kernel, sweep
  <2>3. CASE SweepExpire(t)
    <3> DEFINE e == expiring_holder[i[t]]
    <3>1. CASE e \in infos
      <4>1. /\ Detach(e) /\ CloseEvent(e) /\ FreeConnectionInfo(e)
            /\ allocated' = allocated
        BY <2>3, <3>1 DEF SweepExpire
      <4> HIDE DEF e
      <4>2. /\ infos' \subseteq allocated'
            /\ pool' \in Seq(allocated')
            /\ registered' \in [Handle -> Event \cup {None}]
            /\ open' \subseteq Fd
            /\ rows' \subseteq Entry
            /\ request_in_db' \in [Entry -> BOOLEAN]
        BY <3>1, <4>1, CloseTyped
      <4> QED
        BY <2>3, <3>1, <4>2 DEF e, SweepExpire, TypeOK, Thread, fields, sweep
    <3>2. CASE e \notin infos
      BY <2>3, <3>2 DEF SweepExpire, TypeOK, Thread, fields, table, sweep
    <3> QED
      BY <3>1, <3>2
  <2> QED
    BY <1>13, <2>1, <2>2, <2>3 DEF SweepStep
<1>14. CASE TimePasses \/ Terminate
  BY <1>14 DEF TimePasses, Terminate, TypeOK, fields, table, kernel, sweep
<1>15. CASE Undefined \/ UNCHANGED vars
  BY <1>15 DEF Undefined, TypeOK, vars, fields, table, kernel, sweep
<1> QED
  BY <1>1, <1>2, <1>3, <1>4, <1>5, <1>6, <1>7, <1>8, <1>10, <1>11, <1>12, <1>13,
     <1>14, <1>15 DEF Next, AcceptStep, RelayStep

(***************************************************************************)
(* Closing a connection of the chain, whoever does it.                     *)
(***************************************************************************)
LEMMA PushIndex ==
    ASSUME NEW S, NEW s \in Seq(S), NEW e \in S
    PROVE  /\ Len(<<e>> \o s) = Len(s) + 1
           /\ (<<e>> \o s)[1] = e
           /\ \A k \in 2 .. Len(s) + 1 : (<<e>> \o s)[k] = s[k - 1]
OBVIOUS

LEMMA PopIndex ==
    ASSUME NEW S, NEW s \in Seq(S), s # <<>>
    PROVE  /\ Len(s) \in Nat /\ Len(s) >= 1
           /\ Len(Tail(s)) = Len(s) - 1
           /\ Head(s) = s[1]
           /\ \A k \in 1 .. Len(s) - 1 : Tail(s)[k] = s[k + 1]
OBVIOUS

Closing(e) ==
    /\ Detach(e) /\ CloseEvent(e) /\ FreeConnectionInfo(e)
    /\ UNCHANGED <<allocated, client_fd, server_fd, client_handle, server_handle,
                   leaked, fdc>>

LEMMA CloseLists ==
    ASSUME TypeOK, ~ub, EntryInOnePlace, NEW e \in infos, Closing(e)
    PROVE  EntryInOnePlace'
<1>1. /\ pool \in Seq(allocated) /\ e \in allocated
      /\ pool' = <<e>> \o pool /\ infos' = infos \ {e} /\ allocated' = allocated
  BY DEF TypeOK, Closing, FreeConnectionInfo, Detach
<1>2. /\ \A j, k \in 1 .. Len(pool) : pool[j] = pool[k] => j = k
      /\ \A k \in 1 .. Len(pool) : pool[k] \notin infos
      /\ \A d \in allocated : d \in infos \/ \E k \in 1 .. Len(pool) : d = pool[k]
      /\ \A k \in 1 .. Len(pool) : pool[k] \in allocated
      /\ infos \subseteq allocated
  BY DEF EntryInOnePlace, PoolEntries
<1>3. /\ Len(pool) \in Nat
      /\ Len(pool') = Len(pool) + 1
      /\ pool'[1] = e
      /\ \A k \in 2 .. Len(pool) + 1 : pool'[k] = pool[k - 1]
  BY <1>1, PushIndex
<1>4. ASSUME NEW j \in 1 .. Len(pool'), NEW k \in 1 .. Len(pool'), pool'[j] = pool'[k]
      PROVE  j = k
  <2>1. \A m \in 2 .. Len(pool) + 1 : pool'[m] # e
    <3>1. TAKE m \in 2 .. Len(pool) + 1
    <3>2. m - 1 \in 1 .. Len(pool) /\ pool'[m] = pool[m - 1]
      BY <1>3
    <3> QED
      BY <1>2, <3>2
  <2>2. CASE j = 1 \/ k = 1
    BY <1>3, <1>4, <2>1, <2>2
  <2>3. CASE j # 1 /\ k # 1
    <3>1. /\ j - 1 \in 1 .. Len(pool) /\ k - 1 \in 1 .. Len(pool)
          /\ pool'[j] = pool[j - 1] /\ pool'[k] = pool[k - 1]
      BY <1>3, <2>3
    <3>2. j - 1 = k - 1
      BY <1>2, <1>4, <3>1
    <3> QED
      BY <1>3, <3>2
  <2> QED
    BY <2>2, <2>3
<1>5. \A k \in 1 .. Len(pool') : pool'[k] \notin infos'
  BY <1>1, <1>2, <1>3
<1>6. \A k \in 1 .. Len(pool') : pool'[k] \in allocated
  BY <1>1, <1>2, <1>3
<1>7. ASSUME NEW d \in allocated, d \notin infos'
      PROVE  \E k \in 1 .. Len(pool') : d = pool'[k]
  <2>1. CASE d = e
    BY <1>3, <2>1
  <2>2. CASE d # e
    <3>1. PICK k \in 1 .. Len(pool) : d = pool[k]
      BY <1>1, <1>2, <1>7, <2>2
    <3>2. k + 1 \in 1 .. Len(pool') /\ d = pool'[k + 1]
      BY <1>3, <3>1
    <3> QED
      BY <3>2
  <2> QED
    BY <2>1, <2>2
<1>8. infos' \cap PoolEntries' = {}
  BY <1>5 DEF PoolEntries
<1>9. infos' \cup PoolEntries' \subseteq allocated'
  BY <1>1, <1>2, <1>6 DEF PoolEntries
<1>10. allocated' \subseteq infos' \cup PoolEntries'
  BY <1>1, <1>7 DEF PoolEntries
<1>11. allocated' = infos' \cup PoolEntries'
  BY <1>9, <1>10
<1> QED
  BY <1>4, <1>8, <1>11 DEF EntryInOnePlace

LEMMA CloseDescriptors ==
    ASSUME TypeOK, ~ub, DescriptorsOwned, NEW e \in infos, Closing(e)
    PROVE  DescriptorsOwned'
<1>1. /\ infos' = infos \ {e}
      /\ open' = open \ {client_fd[e], server_fd[e]}
      /\ client_fd' = client_fd /\ server_fd' = server_fd
      /\ leaked' = leaked /\ fdc' = fdc
  BY DEF Closing, Detach, CloseEvent
<1>2. \A d \in infos' : {client_fd[d], server_fd[d]} \cap {client_fd[e], server_fd[e]} = {}
  BY <1>1 DEF DescriptorsOwned
<1>3. {client_fd[e], server_fd[e]} \cap (leaked \cup {fdc, None}) = {}
  BY DEF DescriptorsOwned
<1>4. open' = leaked' \cup ({fdc'} \ {None})
                \cup {client_fd'[d] : d \in infos'} \cup {server_fd'[d] : d \in infos'}
  <2>1. open = leaked \cup ({fdc} \ {None})
                \cup {client_fd[d] : d \in infos} \cup {server_fd[d] : d \in infos}
    BY DEF DescriptorsOwned
  <2> QED
    BY <1>1, <1>2, <1>3, <2>1
<1> QED
  BY <1>1, <1>4 DEF DescriptorsOwned

LEMMA CloseEvents ==
    ASSUME TypeOK, ~ub, EventsOwned, NEW e \in infos, Closing(e)
    PROVE  EventsOwned'
<1>1. /\ infos' = infos \ {e}
      /\ client_handle' = client_handle /\ server_handle' = server_handle
      /\ registered' = [h \in Handle |->
                          IF h \in {client_handle[e], server_handle[e]}
                          THEN None ELSE registered[h]]
  BY DEF Closing, Detach, CloseEvent
<1>2. SUFFICES ASSUME NEW h \in Handle, NEW d \in Entry, NEW side \in Side
      PROVE registered'[h] = [info |-> d, side |-> side]
              <=> d \in infos' /\ Owns(d, h, side)'
  BY DEF EventsOwned
<1>3. [info |-> d, side |-> side] # None
  BY ConstantFacts DEF Event
<1>4. Owns(d, h, side)' <=> Owns(d, h, side)
  BY <1>1 DEF Owns
<1>5. registered[h] = [info |-> d, side |-> side] <=> d \in infos /\ Owns(d, h, side)
  BY DEF EventsOwned
<1>6. e \in Entry
  BY DEF TypeOK
<1>7. CASE h \in {client_handle[e], server_handle[e]}
  <2>1. registered'[h] = None
    BY <1>1, <1>7
  <2>2. PICK s \in Side : Owns(e, h, s)
    BY <1>7 DEF Owns, Side
  <2>3. registered[h] = [info |-> e, side |-> s]
    BY <1>6, <2>2 DEF EventsOwned
  <2>4. d \in infos /\ Owns(d, h, side) => d = e
    BY <1>5, <2>3
  <2> QED
    BY <1>1, <1>3, <1>4, <2>1, <2>4
<1>8. CASE h \notin {client_handle[e], server_handle[e]}
  <2>1. registered'[h] = registered[h]
    BY <1>1, <1>8
  <2>2. d = e => ~Owns(d, h, side)
    BY <1>8 DEF Owns
  <2> QED
    BY <1>1, <1>4, <1>5, <2>1, <2>2
<1> QED
  BY <1>7, <1>8

LEMMA CloseRows ==
    ASSUME TypeOK, ~ub, RowsOfConnections, NEW e \in infos, Closing(e)
    PROVE  RowsOfConnections'
BY DEF TypeOK, RowsOfConnections, Closing, Detach, CloseEvent

(***************************************************************************)
(* Admitting a connection: the entry, its server descriptor and its handles *)
(* come from what nobody owns.                                              *)
(***************************************************************************)
Admitting(e, s, r, ch, sh) ==
    /\ AllocateConnectionInfo(e) /\ Establish(e, s, r, ch, sh)
    /\ leaked' = leaked /\ fdc' = None

LEMMA AdmitLists ==
    ASSUME TypeOK, ~ub, EntryInOnePlace, NEW e \in Entry, AllocateConnectionInfo(e),
           infos' = infos \cup {e}
    PROVE  EntryInOnePlace' /\ e \notin infos
<1>1. /\ \A j, k \in 1 .. Len(pool) : pool[j] = pool[k] => j = k
      /\ \A k \in 1 .. Len(pool) : pool[k] \notin infos
      /\ \A d \in allocated : d \in infos \/ \E k \in 1 .. Len(pool) : d = pool[k]
      /\ \A k \in 1 .. Len(pool) : pool[k] \in allocated
      /\ infos \subseteq allocated
  BY DEF EntryInOnePlace, PoolEntries
<1>2. CASE pool # <<>>
  <2>1. e = Head(pool) /\ pool' = Tail(pool) /\ allocated' = allocated
    BY <1>2 DEF AllocateConnectionInfo
  <2>2. /\ Len(pool) \in Nat /\ Len(pool) >= 1
        /\ Len(pool') = Len(pool) - 1
        /\ e = pool[1]
        /\ \A k \in 1 .. Len(pool) - 1 : pool'[k] = pool[k + 1]
    BY <1>2, <2>1, PopIndex DEF TypeOK
  <2>3. e \notin infos /\ e \in allocated
    BY <1>1, <2>2
  <2>4. ASSUME NEW j \in 1 .. Len(pool'), NEW k \in 1 .. Len(pool'), pool'[j] = pool'[k]
        PROVE  j = k
    <3>1. /\ j + 1 \in 1 .. Len(pool) /\ k + 1 \in 1 .. Len(pool)
          /\ pool'[j] = pool[j + 1] /\ pool'[k] = pool[k + 1]
      BY <2>2
    <3>2. j + 1 = k + 1
      BY <1>1, <2>4, <3>1
    <3> QED
      BY <2>2, <3>2
  <2>5. ASSUME NEW k \in 1 .. Len(pool')
        PROVE  pool'[k] \in allocated /\ pool'[k] \notin infos'
    <3>1. k + 1 \in 1 .. Len(pool) /\ pool'[k] = pool[k + 1] /\ k + 1 # 1
      BY <2>2
    <3>2. 1 \in 1 .. Len(pool)
      BY <2>2
    <3>3. pool[k + 1] # pool[1]
      BY <1>1, <3>1, <3>2
    <3> QED
      BY <1>1, <2>2, <3>1, <3>3
  <2>6. ASSUME NEW d \in allocated, d \notin infos'
        PROVE  \E k \in 1 .. Len(pool') : d = pool'[k]
    <3>1. PICK k \in 1 .. Len(pool) : d = pool[k]
      BY <1>1, <2>6
    <3>2. k # 1
      BY <2>2, <2>6, <3>1
    <3>3. k - 1 \in 1 .. Len(pool') /\ d = pool'[k - 1]
      BY <2>2, <3>1, <3>2
    <3> QED
      BY <3>3
  <2>7. infos' \cap PoolEntries' = {}
    BY <2>5 DEF PoolEntries
  <2>8. infos' \cup PoolEntries' \subseteq allocated'
    BY <1>1, <2>1, <2>3, <2>5 DEF PoolEntries
  <2>9. allocated' \subseteq infos' \cup PoolEntries'
    BY <2>1, <2>6 DEF PoolEntries
  <2>10. allocated' = infos' \cup PoolEntries'
    BY <2>8, <2>9
  <2> QED
    BY <2>3, <2>4, <2>7, <2>10 DEF EntryInOnePlace
<1>3. CASE pool = <<>>
  <2>1. /\ e \in Entry \ allocated
        /\ allocated' = allocated \cup {e} /\ pool' = pool
    BY <1>3 DEF AllocateConnectionInfo
  <2> QED
    BY <1>1, <2>1, <1>3 DEF EntryInOnePlace, PoolEntries
<1> QED
  BY <1>2, <1>3

LEMMA AdmitDescriptors ==
    ASSUME TypeOK, ~ub, DescriptorsOwned, NEW e \in Entry, e \notin infos,
           NEW s \in Fd \ open, NEW r, NEW ch, NEW sh, Admitting(e, s, r, ch, sh),
           fdc \in Fd
    PROVE  DescriptorsOwned'
<1>1. /\ infos' = infos \cup {e} /\ open' = open \cup {s}
      /\ leaked' = leaked /\ fdc' = None
      /\ client_fd'[e] = fdc /\ server_fd'[e] = s
      /\ \A d \in infos : client_fd'[d] = client_fd[d] /\ server_fd'[d] = server_fd[d]
  BY DEF TypeOK, Admitting, Establish
<1>2. /\ open = leaked \cup {fdc}
                  \cup {client_fd[d] : d \in infos} \cup {server_fd[d] : d \in infos}
      /\ fdc \notin leaked /\ fdc # None /\ s # None /\ None \notin leaked
  <2>1. fdc # None /\ s # None /\ None \notin leaked
    BY ConstantFacts DEF TypeOK
  <2>2. {fdc} \ {None} = {fdc}
    BY <2>1
  <2>3. /\ open = leaked \cup ({fdc} \ {None})
                    \cup {client_fd[d] : d \in infos} \cup {server_fd[d] : d \in infos}
        /\ fdc \notin leaked
    BY DEF DescriptorsOwned
  <2> QED
    BY <2>1, <2>2, <2>3
<1>3. \A d \in infos : {client_fd[d], server_fd[d]} \cap (leaked \cup {fdc, None, s}) = {}
  BY <1>2 DEF DescriptorsOwned
<1>4. open' = leaked' \cup ({fdc'} \ {None})
                \cup {client_fd'[d] : d \in infos'} \cup {server_fd'[d] : d \in infos'}
  BY <1>1, <1>2
<1>5. ASSUME NEW d \in infos'
      PROVE  /\ client_fd'[d] # server_fd'[d]
             /\ {client_fd'[d], server_fd'[d]} \cap (leaked' \cup {fdc', None}) = {}
  <2>1. CASE d = e
    BY <1>1, <1>2, <2>1
  <2>2. CASE d # e
    BY <1>1, <1>3, <2>2 DEF DescriptorsOwned
  <2> QED
    BY <2>1, <2>2
<1>6. ASSUME NEW d \in infos', NEW c \in infos' \ {d}
      PROVE  {client_fd'[d], server_fd'[d]} \cap {client_fd'[c], server_fd'[c]} = {}
  <2>1. CASE d = e
    BY <1>1, <1>3, <2>1
  <2>2. CASE c = e
    BY <1>1, <1>3, <2>2
  <2>3. CASE d # e /\ c # e
    BY <1>1, <2>3 DEF DescriptorsOwned
  <2> QED
    BY <2>1, <2>2, <2>3
<1> QED
  BY <1>1, <1>2, <1>4, <1>5, <1>6 DEF DescriptorsOwned

LEMMA AdmitEvents ==
    ASSUME TypeOK, ~ub, EventsOwned, NEW e \in Entry, e \notin infos, NEW s, NEW r,
           NEW ch \in AddEvent({}), NEW sh \in AddEvent({ch}),
           Admitting(e, s, r, ch, sh)
    PROVE  EventsOwned'
<1>1. /\ infos' = infos \cup {e}
      /\ client_handle'[e] = ch /\ server_handle'[e] = sh
      /\ \A d \in Entry \ {e} : /\ client_handle'[d] = client_handle[d]
                                /\ server_handle'[d] = server_handle[d]
      /\ \A h \in Handle : registered'[h] =
            IF h = ch THEN [info |-> e, side |-> "client"]
            ELSE IF h = sh THEN [info |-> e, side |-> "server"]
            ELSE registered[h]
  BY DEF TypeOK, Admitting, Establish
<1>2. /\ ch \in Handle => registered[ch] = None
      /\ sh \in Handle => registered[sh] = None /\ sh # ch
  BY ConstantFacts DEF AddEvent, Lowest
<1>3. SUFFICES ASSUME NEW h \in Handle, NEW d \in Entry, NEW side \in Side
      PROVE registered'[h] = [info |-> d, side |-> side]
              <=> d \in infos' /\ Owns(d, h, side)'
  BY DEF EventsOwned
<1>4. [info |-> d, side |-> side] # None
  BY ConstantFacts DEF Event
<1>5. registered[h] = [info |-> d, side |-> side] <=> d \in infos /\ Owns(d, h, side)
  BY DEF EventsOwned
<1>6. CASE d = e
  <2>1. registered[h] # [info |-> d, side |-> side]
    BY <1>5, <1>6
  <2>2. CASE h = ch
    BY <1>1, <1>2, <1>6, <2>2 DEF Owns, Side
  <2>3. CASE h = sh /\ h # ch
    BY <1>1, <1>2, <1>6, <2>3 DEF Owns, Side
  <2>4. CASE h # sh /\ h # ch
    BY <1>1, <1>6, <2>1, <2>4 DEF Owns, Side
  <2> QED
    BY <2>2, <2>3, <2>4
<1>7. CASE d # e
  <2>1. Owns(d, h, side)' <=> Owns(d, h, side)
    BY <1>1, <1>7 DEF Owns
  <2>2. CASE h = ch \/ h = sh
    <3>1. registered[h] = None
      BY <1>2, <2>2
    <3>2. registered'[h] # [info |-> d, side |-> side]
      BY <1>1, <1>7, <2>2
    <3> QED
      BY <1>1, <1>4, <1>5, <1>7, <2>1, <3>1, <3>2
  <2>3. CASE h # ch /\ h # sh
    BY <1>1, <1>5, <1>7, <2>1, <2>3
  <2> QED
    BY <2>2, <2>3
<1> QED
  BY <1>6, <1>7

LEMMA AdmitRows ==
    ASSUME TypeOK, ~ub, RowsOfConnections, NEW e \in Entry, e \notin infos, NEW s,
           NEW r \in BOOLEAN, NEW ch, NEW sh, Admitting(e, s, r, ch, sh)
    PROVE  RowsOfConnections'
BY DEF TypeOK, RowsOfConnections, Admitting, Establish

(***************************************************************************)
(* The inductive invariant.                                                *)
(***************************************************************************)
TableInv ==
    /\ EntryInOnePlace
    /\ DescriptorsOwned
    /\ EventsOwned
    /\ RowsOfConnections

LEMMA ClosingKeepsTable ==
    ASSUME TypeOK, ~ub, TableInv, NEW e \in infos, Closing(e)
    PROVE  TableInv'
BY CloseLists, CloseDescriptors, CloseEvents, CloseRows DEF TableInv

LEMMA TableStep ==
    ASSUME TypeOK, ProxyControl, RelayedIsLive, TableInv, [Next]_vars
    PROVE  TableInv'
<1>1. CASE ub
  <2>1. ub'
    BY <1>1 DEF Next, vars, AcceptStep, RelayStep, SweepStep, Accept, PeerGone,
         AcceptLock, Drop, Admit, Dispatch, RelaySkip, RelayBegin, RelayForward,
         RelayClose, RelayEnd, Tick, Stop, Snapshot, SweepKeep, SweepDue, SweepExpire,
         SweepEnd, TimePasses, Terminate, Undefined
  <2> QED
    BY <2>1 DEF TableInv, EntryInOnePlace, DescriptorsOwned, EventsOwned,
         RowsOfConnections
<1>2. CASE ~ub
  <2> USE <1>2
  <2>1. ASSUME UNCHANGED <<table, kernel, client_fd, server_fd, client_handle,
                           server_handle, fdc>>
        PROVE  TableInv'
    BY <2>1 DEF TableInv, EntryInOnePlace, PoolEntries, DescriptorsOwned, EventsOwned,
         Owns, RowsOfConnections, table, kernel
  <2>2. ASSUME UNCHANGED <<table, registered, fields>>, DescriptorsOwned'
        PROVE  TableInv'
    BY <2>2 DEF TableInv, EntryInOnePlace, PoolEntries, EventsOwned, Owns,
         RowsOfConnections, table, fields
  <2>3. CASE Accept
    <3>1. DescriptorsOwned'
      <4>1. fdc = None
        BY <2>3 DEF Accept, ProxyControl
      <4>2. PICK f \in Fd \ open : open' = open \cup {f} /\ fdc' = f
        BY <2>3 DEF Accept, Lowest
      <4>3. f # None
        BY <4>2, ConstantFacts
      <4> QED
        BY <2>3, <4>1, <4>2, <4>3 DEF Accept, DescriptorsOwned, TableInv, fields, table
    <3> QED
      BY <2>2, <2>3, <3>1 DEF Accept
  <2>4. CASE PeerGone
    <3>1. DescriptorsOwned'
      BY <2>4, ConstantFacts DEF PeerGone, DescriptorsOwned, TableInv, TypeOK, fields, table
    <3> QED
      BY <2>2, <2>4, <3>1 DEF PeerGone
  <2>5. CASE Drop
    <3>1. DescriptorsOwned'
      <4>1. CASE open' = open \ {fdc} /\ leaked' = leaked
        BY <2>5, <4>1, ConstantFacts DEF Drop, DescriptorsOwned, TableInv, TypeOK,
             fields, table
      <4>2. ASSUME NEW f \in Fd \ open, open' = (open \ {fdc}) \cup {f},
                   leaked' = leaked \cup {f}
            PROVE  DescriptorsOwned'
        BY <2>5, <4>2, ConstantFacts DEF Drop, DescriptorsOwned, TableInv, TypeOK,
             fields, table
      <4> QED
        BY <2>5, <4>1, <4>2 DEF Drop, Lowest
    <3> QED
      BY <2>2, <2>5, <3>1 DEF Drop
  <2>6. CASE Admit
    <3>1. PICK e \in Entry, s \in Lowest(Fd \ open), r \in BOOLEAN :
          \E ch \in AddEvent({}) : \E sh \in AddEvent({ch}) : Admitting(e, s, r, ch, sh)
      BY <2>6 DEF Admit, Admitting
    <3>2. PICK ch \in AddEvent({}) : \E sh \in AddEvent({ch}) : Admitting(e, s, r, ch, sh)
      BY <3>1
    <3>3. PICK sh \in AddEvent({ch}) : Admitting(e, s, r, ch, sh)
      BY <3>2
    <3>4. s \in Fd \ open /\ fdc \in Fd
      BY <2>6 DEF Admit, Lowest, ProxyControl
    <3>5. EntryInOnePlace' /\ e \notin infos
      BY <3>3, AdmitLists DEF Admitting, Establish, TableInv
    <3>6. DescriptorsOwned'
      BY <3>3, <3>4, <3>5, AdmitDescriptors DEF TableInv
    <3>7. EventsOwned'
      BY <3>3, <3>5, AdmitEvents DEF TableInv
    <3>8. RowsOfConnections'
      BY <3>3, <3>5, AdmitRows DEF TableInv
    <3> QED
      BY <3>5, <3>6, <3>7, <3>8 DEF TableInv
  <2>7. CASE AcceptLock \/ Dispatch \/ RelaySkip \/ RelayBegin \/ Tick \/ Stop
    BY <2>1, <2>7 DEF AcceptLock, Dispatch, RelaySkip, RelayBegin, Tick, Stop, fields
  <2>8. CASE RelayForward
    BY <2>1, <2>8 DEF RelayForward, RelayEnd, table, kernel
  <2>9. CASE RelayClose
    <3>1. cur.info \in infos /\ Closing(cur.info)
      BY <2>9 DEF RelayClose, RelayEnd, RelayedIsLive, Closing
    <3> QED
      BY <3>1, ClosingKeepsTable
  <2>10. ASSUME NEW t \in Thread, SweepStep(t)
         PROVE  TableInv'
    <3>1. CASE Snapshot(t) \/ SweepKeep(t) \/ SweepDue(t) \/ SweepEnd(t)
      BY <2>1, <3>1 DEF Snapshot, SweepKeep, SweepDue, SweepEnd, fields
    <3>2. CASE SweepExpire(t)
      <4>1. CASE expiring_holder[i[t]] \in infos
        <5>1. Closing(expiring_holder[i[t]])
          BY <3>2, <4>1 DEF SweepExpire, Closing, fields
        <5> QED
          BY <4>1, <5>1, ClosingKeepsTable
      <4>2. CASE expiring_holder[i[t]] \notin infos
        <5>1. ub'
          BY <3>2, <4>2 DEF SweepExpire
        <5> QED
          BY <5>1 DEF TableInv, EntryInOnePlace, DescriptorsOwned, EventsOwned,
               RowsOfConnections
      <4> QED
        BY <4>1, <4>2
    <3> QED
      BY <2>10, <3>1, <3>2 DEF SweepStep
  <2>11. CASE TimePasses \/ Terminate \/ Undefined \/ UNCHANGED vars
    BY <2>1, <2>11 DEF TimePasses, Terminate, Undefined, vars, fields
  <2> QED
    BY <2>3, <2>4, <2>5, <2>6, <2>7, <2>8, <2>9, <2>10, <2>11
       DEF Next, AcceptStep, RelayStep
<1> QED
  BY <1>1, <1>2

LEMMA RequestStep ==
    ASSUME TypeOK, ProxyControl, RequestBound, [Next]_vars
    PROVE  RequestBound'
<1>1. ASSUME requestCount' = requestCount
      PROVE  RequestBound'
  BY <1>1 DEF RequestBound
<1>2. CASE Admit
  <2>1. PICK e \in Entry : requestCount' = [requestCount EXCEPT ![e] = 0]
    BY <1>2 DEF Admit, Establish
  <2> QED
    BY <2>1, ConstantsAssumption DEF RequestBound, TypeOK
<1>3. ASSUME pc["proxy"] = "relaying", ~TooManyRequests, CountRequest
      PROVE  RequestBound'
  <2>1. CASE cur.side = "client"
    <3>1. cur.info \in Entry
      BY <1>3 DEF ProxyControl, Event
    <3>2. /\ requestCount' = [requestCount EXCEPT ![cur.info] = @ + 1]
          /\ ~(requestCount[cur.info] > MaxAllowedRequests)
      BY <1>3, <2>1 DEF TooManyRequests, CountRequest
    <3>3. requestCount \in [Entry -> Nat]
      BY DEF TypeOK
    <3>4. SUFFICES ASSUME NEW d \in Entry
                   PROVE  requestCount'[d] <= MaxAllowedRequests + 1
      BY DEF RequestBound
    <3>5. CASE d = cur.info
      BY <3>1, <3>2, <3>3, <3>5, ConstantsAssumption
    <3>6. CASE d # cur.info
      BY <3>2, <3>3, <3>6 DEF RequestBound
    <3> QED
      BY <3>5, <3>6
  <2>2. CASE cur.side # "client"
    BY <1>1, <1>3, <2>2 DEF CountRequest
  <2> QED
    BY <2>1, <2>2
<1>4. CASE RelayForward \/ RelayClose
  BY <1>1, <1>3, <1>4 DEF RelayForward, RelayClose
<1>5. CASE Accept \/ PeerGone \/ AcceptLock \/ Drop \/ Dispatch \/ RelaySkip
             \/ RelayBegin \/ Tick \/ Stop \/ TimePasses \/ Terminate
             \/ Undefined \/ UNCHANGED vars \/ \E t \in Thread : SweepStep(t)
  BY <1>1, <1>5 DEF Accept, PeerGone, AcceptLock, Drop, Dispatch, RelaySkip,
       RelayBegin, Tick, Stop, TimePasses, Terminate, Undefined, SweepStep, Snapshot,
       SweepKeep, SweepDue, SweepExpire, SweepEnd, vars, fields
<1> QED
  BY <1>2, <1>4, <1>5 DEF Next, AcceptStep, RelayStep

(***************************************************************************)
(* TableInv is not inductive by itself: that a relay closes an entry of the *)
(* chain (and not one a sweep has closed meanwhile) needs RelayedIsLive,    *)
(* and that in turn needs to know where worker_mutex is held.               *)
(***************************************************************************)
IInv ==
    /\ TypeOK
    /\ ProxyControl
    /\ RelayedIsLive
    /\ TableInv
    /\ RequestBound

LEMMA InitIInv == Init => IInv
<1> SUFFICES ASSUME Init PROVE IInv
  OBVIOUS
<1> USE ConstantFacts, ConstantsAssumption DEF Init, Thread
<1>1. TypeOK
  <2>1. infos \subseteq allocated /\ allocated \subseteq Entry /\ pool \in Seq(allocated)
    OBVIOUS
  <2>2. pc \in [Thread -> {"loop", "accepted", "admitting", "dispatched", "relaying",
                   "sleep", "snapshot", "scan", "due", "stopped", "undefined"}]
    OBVIOUS
  <2>3. /\ client_fd \in [Entry -> Fd \cup {None}]
        /\ server_fd \in [Entry -> Fd \cup {None}]
        /\ client_handle \in [Entry -> Handle \cup {None}]
        /\ server_handle \in [Entry -> Handle \cup {None}]
        /\ registered \in [Handle -> Event \cup {None}]
        /\ expiring_holder \in [Slots -> Entry \cup {None}]
    OBVIOUS
  <2>4. /\ request_in_db \in [Entry -> BOOLEAN]
        /\ requestCount \in [Entry -> Nat]
        /\ n \in [Thread -> Nat] /\ i \in [Thread -> Nat]
    OBVIOUS
  <2> QED
    BY <2>1, <2>2, <2>3, <2>4 DEF TypeOK
<1>2. ProxyControl /\ RelayedIsLive
  BY DEF ProxyControl, RelayedIsLive
<1>3. EntryInOnePlace
  BY DEF EntryInOnePlace, PoolEntries
<1>4. DescriptorsOwned
  BY DEF DescriptorsOwned
<1>5. EventsOwned
  BY DEF EventsOwned, Event
<1>6. RowsOfConnections /\ RequestBound
  BY DEF RowsOfConnections, RequestBound
<1> QED
  BY <1>1, <1>2, <1>3, <1>4, <1>5, <1>6 DEF IInv, TableInv

LEMMA NextIInv == IInv /\ [Next]_vars => IInv'
BY ControlStep, TypeStep, TableStep, RequestStep DEF IInv

\* IInv is an invariant of the connection table and its two threads.
THEOREM Invariance == Spec => []IInv
BY InitIInv, NextIInv, PTL DEF Spec

\* Every variable of the connection table keeps its type (proxying.c).
THEOREM TypeCorrect == Spec => []TypeOK
<1>1. IInv => TypeOK
  BY DEF IInv
<1> QED
  BY <1>1, Invariance, PTL

\* Until an entry is closed twice, chain and free list share no entry, lose no entry
\* and hold none twice, whatever the order of accepts, relays and sweeps.
THEOREM ListsSafe == Spec => []EntryInOnePlace
<1>1. IInv => EntryInOnePlace
  BY DEF IInv, TableInv
<1> QED
  BY <1>1, Invariance, PTL

\* Until an entry is closed twice, each open descriptor has one owner and the sockets
\* of a connection of the chain are open.
THEOREM DescriptorsSafe == Spec => []DescriptorsOwned
<1>1. IInv => DescriptorsOwned
  BY DEF IInv, TableInv
<1> QED
  BY <1>1, Invariance, PTL

\* Until an entry is closed twice, the event table holds the events of the connections
\* of the chain and no other one.
THEOREM EventsSafe == Spec => []EventsOwned
<1>1. IInv => EventsOwned
  BY DEF IInv, TableInv
<1> QED
  BY <1>1, Invariance, PTL

\* Until an entry is closed twice, the open rows of table connections are those of the
\* connections of the chain with a request.
THEOREM RowsSafe == Spec => []RowsOfConnections
<1>1. IInv => RowsOfConnections
  BY DEF IInv, TableInv
<1> QED
  BY <1>1, Invariance, PTL

\* The entry that do_proxying() works on stays in the chain until it is done.
THEOREM RelaySafe == Spec => []RelayedIsLive
<1>1. IInv => RelayedIsLive
  BY DEF IInv
<1> QED
  BY <1>1, Invariance, PTL

\* No connection relays more than max-allowed-requests + 1 requests.
THEOREM RequestsBounded == Spec => []RequestBound
<1>1. IInv => RequestBound
  BY DEF IInv
<1> QED
  BY <1>1, Invariance, PTL
=============================================================================
