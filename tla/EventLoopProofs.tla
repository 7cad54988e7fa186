--------------------------- MODULE EventLoopProofs ---------------------------
(* Proofs about the event table, for every MAX_EVENTS and any descriptors.   *)
EXTENDS EventLoop, FiniteSetTheorems, SequenceTheorems, WellFoundedInduction, TLAPS

LEMMA ConstantFacts ==
    /\ None \notin Fd /\ None \notin Arg /\ None \notin Int
    /\ \A f \in Fd : f \in Nat /\ f # None /\ f # -1
    /\ \A k \in Index : k \in Nat /\ k < MaxEvents /\ k # None
BY ConstantsAssumption DEF Index

\* Slots past the prefix do not look like events that are in the table.
PastPrefix ==
    /\ failures <= MaxFailures
    /\ 0 \in Fd \/ \A k \in Index : k >= max_events => fds[k] \notin Fd

\* A descriptor in the table is open and its slot has the args it was added with.
ArgsOwned ==
    \A f \in Fd : handle[f] # None => owner[f] # None /\ args[handle[f]] = owner[f]

IInv == TypeOK /\ HandlesOwned /\ PastPrefix /\ ArgsOwned

(***************************************************************************)
(* What find_first_free() returns.                                         *)
(***************************************************************************)
LEMMA FreeSlot ==
    ASSUME TypeOK, NEW k \in FindFirstFree
    PROVE  /\ k \in Index
           /\ k < max_events => fds[k] = -1 /\ Grown(k) = max_events
           /\ k >= max_events => k = max_events /\ Grown(k) = max_events + 1
           /\ Grown(k) \in 0 .. MaxEvents /\ k < Grown(k) /\ max_events <= Grown(k)
           /\ \A j \in Index : j < Grown(k) /\ j # k => j < max_events
           /\ RegOf(k) = None
<1>1. \/ k \in 0 .. max_events - 1 /\ fds[k] = -1
      \/ k = max_events /\ max_events < MaxEvents
  BY DEF FindFirstFree, Lowest
<1> QED
  BY <1>1, ConstantFacts, ConstantsAssumption DEF TypeOK, Index, Grown, RegOf

LEMMA WithoutTyped ==
    ASSUME NEW s \in Seq(Fd), NEW f
    PROVE  Without(s, f) \in Seq(Fd)
<1>1. CASE ~InList(s, f)
  BY <1>1 DEF Without
<1>2. CASE InList(s, f)
  <2> DEFINE k == CHOOSE j \in 1 .. Len(s) : s[j] = f
  <2>1. k \in 1 .. Len(s)
    BY <1>2 DEF InList
  <2> HIDE DEF k
  <2>2. SubSeq(s, 1, k - 1) \in Seq(Fd) /\ SubSeq(s, k + 1, Len(s)) \in Seq(Fd)
    BY <2>1
  <2>3. Without(s, f) = SubSeq(s, 1, k - 1) \o SubSeq(s, k + 1, Len(s))
    BY <1>2 DEF Without, k
  <2> QED
    BY <2>2, <2>3
<1> QED
  BY <1>1, <1>2

(***************************************************************************)
(* The effect of each operation on the table as the loop sees it.          *)
(***************************************************************************)
LEMMA AddReg ==
    ASSUME IInv, NEW f \in Fd, NEW a \in Arg, AddEvent(f, a)
    PROVE  \E k \in Index :
              /\ RegOf(k) = None /\ RegOf(k)' = f
              /\ \A j \in Index \ {k} : RegOf(j)' = RegOf(j)
              /\ handle' = [handle EXCEPT ![f] = k]
              /\ args' = [args EXCEPT ![k] = a]
<1>1. PICK k \in FindFirstFree :
        /\ fds' = [fds EXCEPT ![k] = f]
        /\ args' = [args EXCEPT ![k] = a]
        /\ max_events' = Grown(k)
        /\ handle' = [handle EXCEPT ![f] = k]
  BY DEF AddEvent
<1>2. /\ k \in Index /\ RegOf(k) = None /\ k < Grown(k) /\ max_events <= Grown(k)
      /\ \A j \in Index : j < Grown(k) /\ j # k => j < max_events
  BY FreeSlot DEF IInv
<1>3. RegOf(k)' = f
  <2>1. fds'[k] = f /\ max_events' = Grown(k)
    BY <1>1, <1>2 DEF IInv, TypeOK
  <2> QED
    BY <1>2, <2>1 DEF RegOf
<1>4. \A j \in Index \ {k} : RegOf(j)' = RegOf(j)
  <2>1. TAKE j \in Index \ {k}
  <2>2. fds'[j] = fds[j]
    BY <1>1 DEF IInv, TypeOK
  <2>3. j < max_events' <=> j < max_events
    <3>1. max_events' = Grown(k) /\ j \in Nat
      BY <1>1, ConstantFacts
    <3>2. max_events \in Nat /\ Grown(k) \in Nat
      BY ConstantsAssumption DEF IInv, TypeOK, Grown
    <3> QED
      BY <1>2, <3>1, <3>2
  <2> QED
    BY <2>2, <2>3 DEF RegOf
<1> QED
  BY <1>1, <1>2, <1>3, <1>4

LEMMA AddFailsReg ==
    ASSUME IInv, NEW f \in Fd, AddEventFails(f)
    PROVE  \A j \in Index : RegOf(j)' = RegOf(j)
<1>1. PICK k \in FindFirstFree : max_events' = Grown(k)
  BY DEF AddEventFails
<1>2. /\ k \in Index
      /\ k < max_events => fds[k] = -1 /\ Grown(k) = max_events
      /\ k >= max_events => k = max_events /\ Grown(k) = max_events + 1
  BY FreeSlot DEF IInv
<1>3. 0 \notin Fd
  BY ConstantsAssumption DEF AddEventFails, IInv, TypeOK
<1>4. \A j \in Index : j >= max_events => fds[j] \notin Fd
  BY <1>3 DEF IInv, PastPrefix
<1>5. fds' = fds
  BY DEF AddEventFails
<1> QED
  BY <1>1, <1>2, <1>4, <1>5 DEF RegOf, IInv, TypeOK, Index

LEMMA RemoveReg ==
    ASSUME IInv, NEW f \in Fd, RemoveEvent(f)
    PROVE  \E k \in Index :
             /\ handle[f] = k /\ RegOf(k) = f /\ RegOf(k)' = None
             /\ \A j \in Index \ {k} : RegOf(j)' = RegOf(j)
             /\ handle' = [handle EXCEPT ![f] = None]
             /\ num_of_events' = num_of_events - 1
             /\ max_events' \in 0 .. max_events
             /\ fds' = [fds EXCEPT ![k] = -1]
             /\ \A j \in max_events' .. max_events - 1 : fds'[j] < 0
<1>1. PICK k \in Index : handle[f] = k
  BY DEF RemoveEvent, IInv, TypeOK
<1>2. RegOf(k) = f
  BY <1>1 DEF IInv, HandlesOwned
<1>3. k < max_events /\ fds[k] = f
  BY <1>2, ConstantFacts DEF RegOf
<1>4. /\ fds' = [fds EXCEPT ![k] = -1]
      /\ num_of_events' = num_of_events - 1
      /\ \E m \in 0 .. max_events : Trimmed(m, fds') /\ max_events' = m
      /\ handle' = [handle EXCEPT ![f] = None]
  BY <1>1, <1>3 DEF RemoveEvent
<1>5. /\ max_events' \in 0 .. max_events
      /\ \A j \in max_events' .. max_events - 1 : fds'[j] < 0
  BY <1>4 DEF Trimmed
<1>6. RegOf(k)' = None
  <2>1. fds'[k] = -1
    BY <1>1, <1>4 DEF IInv, TypeOK
  <2> QED
    BY <2>1, ConstantFacts DEF RegOf
<1>7. ASSUME NEW j \in Index \ {k}
      PROVE  RegOf(j)' = RegOf(j)
  <2>1. fds'[j] = fds[j]
    BY <1>4, <1>1 DEF IInv, TypeOK
  <2>2. j < max_events /\ fds[j] \in Fd => j < max_events'
    BY <1>5, <2>1, ConstantFacts DEF IInv, TypeOK, Index
  <2>3. j < max_events' => j < max_events
    BY <1>5 DEF IInv, TypeOK, Index
  <2> QED
    BY <2>1, <2>2, <2>3 DEF RegOf
<1> QED
  BY <1>1, <1>2, <1>4, <1>5, <1>6, <1>7

(***************************************************************************)
(* The inductive invariant.                                                *)
(***************************************************************************)
LEMMA QuietStep ==
    ASSUME IInv, UNCHANGED <<table, handle, failures>>,
           ready' \in Seq(Fd), events' \in Seq(Fd),
           dispatched' \in [fd: Fd \cup {None}, arg: Arg \cup {None}],
           owner' \in [Fd -> Arg \cup {None}],
           \A f \in Fd : handle[f] # None => owner'[f] = owner[f]
    PROVE  IInv'
BY DEF IInv, TypeOK, HandlesOwned, RegOf, PastPrefix, ArgsOwned, table

LEMMA LoopStep ==
    ASSUME IInv, Loop
    PROVE  IInv'
<1>1. /\ UNCHANGED <<table, handle, failures>> /\ owner' = owner
      /\ ready' \in Seq(Fd) /\ events' \in Seq(Fd)
  <2>1. ready \in Seq(Fd) /\ <<>> \in Seq(Fd)
    BY DEF IInv, TypeOK
  <2>2. CASE HandleNone
    BY <2>1, <2>2 DEF HandleNone
  <2>3. CASE Handle
    <3>1. \E m : ready' = Without(ready, events[m]) \/ ready' = ready
      BY <2>3 DEF Handle
    <3> QED
      BY <2>1, <2>3, <3>1, WithoutTyped DEF Handle
  <2>4. CASE EpollWait
    <3> DEFINE m == IF Len(ready) <= max_events THEN Len(ready) ELSE max_events
    <3>1. m \in Int /\ 0 <= m /\ m <= Len(ready) /\ Len(ready) \in Nat
      BY <2>1, ConstantsAssumption DEF IInv, TypeOK
    <3>2. \A k \in 1 .. Len(ready) : ready[k] \in Fd
      BY <2>1, ElementOfSeq
    <3> HIDE DEF m
    <3>3. SubSeq(ready, 1, m) \in Seq(Fd)
      BY <3>1, <3>2, SubSeqProperties
    <3>4. SubSeq(ready, m + 1, Len(ready)) \in Seq(Fd)
      BY <3>1, <3>2, SubSeqProperties
    <3>5. SubSeq(ready, m + 1, Len(ready)) \o SubSeq(ready, 1, m) \in Seq(Fd)
      BY <3>3, <3>4, ConcatProperties
    <3>6. /\ events' = SubSeq(ready, 1, m)
          /\ ready' = SubSeq(ready, m + 1, Len(ready)) \o SubSeq(ready, 1, m)
          /\ UNCHANGED <<table, handle, failures>> /\ owner' = owner
      BY <2>4 DEF EpollWait, m
    <3> QED
      BY <3>3, <3>5, <3>6
  <2> QED
    BY <2>2, <2>3, <2>4 DEF Loop
<1>2. dispatched' \in [fd: Fd \cup {None}, arg: Arg \cup {None}]
  <2>1. CASE EpollWait \/ HandleNone
    BY <2>1 DEF EpollWait, HandleNone, IInv, TypeOK
  <2>2. CASE Handle
    <3>1. PICK m \in 1 .. Len(events), k \in 0 .. max_events - 1 :
            dispatched' = [fd |-> events[m], arg |-> args[k]]
      BY <2>2 DEF Handle, Lowest, SlotsOf
    <3>2. events[m] \in Fd
      BY <3>1, ElementOfSeq DEF IInv, TypeOK
    <3>3. args[k] \in Arg \cup {None}
      BY ConstantsAssumption DEF IInv, TypeOK, Index
    <3> QED
      BY <3>1, <3>2, <3>3
  <2> QED
    BY <2>1, <2>2 DEF Loop, IInv, TypeOK
<1> QED
  BY <1>1, <1>2, QuietStep DEF IInv, TypeOK

LEMMA AddStep ==
    ASSUME IInv, NEW f \in Fd, NEW a \in Arg, AddEvent(f, a)
    PROVE  IInv'
<1>1. PICK k \in Index :
        /\ RegOf(k) = None /\ RegOf(k)' = f
        /\ \A j \in Index \ {k} : RegOf(j)' = RegOf(j)
        /\ handle' = [handle EXCEPT ![f] = k]
        /\ args' = [args EXCEPT ![k] = a]
  BY AddReg
<1>2. TypeOK'
  <2>1. PICK m \in FindFirstFree : fds' = [fds EXCEPT ![m] = f] /\ max_events' = Grown(m)
    BY DEF AddEvent
  <2>2. max_events' \in 0 .. MaxEvents
    BY <2>1, FreeSlot DEF IInv
  <2>3. fds' \in [Index -> Fd \cup {-1, 0}]
    BY <2>1 DEF IInv, TypeOK
  <2>4. handle' \in [Fd -> Index \cup {None}] /\ args' \in [Index -> Arg \cup {None}]
    BY <1>1 DEF IInv, TypeOK
  <2> QED
    BY <2>2, <2>3, <2>4 DEF AddEvent, IInv, TypeOK
<1>3. HandlesOwned'
  <2> SUFFICES ASSUME NEW g \in Fd, NEW j \in Index
               PROVE  handle'[g] = j <=> RegOf(j)' = g
    BY DEF HandlesOwned
  <2>1. handle[g] = j <=> RegOf(j) = g
    BY DEF IInv, HandlesOwned
  <2>2. handle[f] = None
    BY DEF AddEvent, IInv, ArgsOwned
  <2>3. g # None /\ j # None
    BY ConstantFacts
  <2>4. CASE g = f
    BY <1>1, <2>1, <2>2, <2>3, <2>4 DEF IInv, TypeOK
  <2>5. CASE g # f
    BY <1>1, <2>1, <2>3, <2>5 DEF IInv, TypeOK
  <2> QED
    BY <2>4, <2>5
<1>4. PastPrefix'
  <2>1. PICK m \in FindFirstFree : fds' = [fds EXCEPT ![m] = f] /\ max_events' = Grown(m)
    BY DEF AddEvent
  <2>2. m \in Index /\ m < Grown(m) /\ max_events <= Grown(m) /\ Grown(m) \in 0 .. MaxEvents
    BY <2>1, FreeSlot DEF IInv
  <2>3. failures' = failures
    BY DEF AddEvent
  <2> QED
    BY <2>1, <2>2, <2>3 DEF IInv, PastPrefix, TypeOK, Index
<1>5. ArgsOwned'
  <2> SUFFICES ASSUME NEW g \in Fd, handle'[g] # None
               PROVE  owner'[g] # None /\ args'[handle'[g]] = owner'[g]
    BY DEF ArgsOwned
  <2>1. owner' = [owner EXCEPT ![f] = a] /\ a # None
    BY ConstantFacts DEF AddEvent
  <2>2. CASE g = f
    BY <1>1, <2>1, <2>2 DEF IInv, TypeOK
  <2>3. CASE g # f
    <3>1. handle'[g] = handle[g] /\ handle[g] \in Index
      BY <1>1, <2>3 DEF IInv, TypeOK
    <3>2. handle[g] # k
      BY <1>1, <3>1, ConstantFacts DEF IInv, HandlesOwned
    <3> QED
      BY <1>1, <2>1, <2>3, <3>1, <3>2 DEF IInv, TypeOK, ArgsOwned
  <2> QED
    BY <2>2, <2>3
<1> QED
  BY <1>2, <1>3, <1>4, <1>5 DEF IInv

LEMMA AddFailsStep ==
    ASSUME IInv, NEW f \in Fd, AddEventFails(f)
    PROVE  IInv'
<1>1. \A j \in Index : RegOf(j)' = RegOf(j)
  BY AddFailsReg
<1>2. PICK k \in FindFirstFree : max_events' = Grown(k)
  BY DEF AddEventFails
<1>3. Grown(k) \in 0 .. MaxEvents /\ max_events <= Grown(k)
  BY FreeSlot DEF IInv
<1>4. TypeOK'
  BY <1>2, <1>3 DEF AddEventFails, IInv, TypeOK
<1>5. HandlesOwned' /\ ArgsOwned'
  BY <1>1 DEF AddEventFails, IInv, HandlesOwned, ArgsOwned
<1>6. PastPrefix'
  BY <1>2, <1>3, ConstantsAssumption DEF AddEventFails, IInv, PastPrefix, TypeOK, Index
<1> QED
  BY <1>4, <1>5, <1>6 DEF IInv

LEMMA RemoveStep ==
    ASSUME IInv, NEW f \in Fd, RemoveEvent(f)
    PROVE  IInv'
<1>1. PICK k \in Index :
        /\ handle[f] = k /\ RegOf(k) = f /\ RegOf(k)' = None
        /\ \A j \in Index \ {k} : RegOf(j)' = RegOf(j)
        /\ handle' = [handle EXCEPT ![f] = None]
        /\ num_of_events' = num_of_events - 1
        /\ max_events' \in 0 .. max_events
        /\ fds' = [fds EXCEPT ![k] = -1]
        /\ \A j \in max_events' .. max_events - 1 : fds'[j] < 0
  BY RemoveReg
<1>2. UNCHANGED <<args, owner, ready, events, dispatched, failures>>
  BY DEF RemoveEvent
<1>3. TypeOK'
  <2>1. fds' \in [Index -> Fd \cup {-1, 0}] /\ handle' \in [Fd -> Index \cup {None}]
    BY <1>1 DEF IInv, TypeOK
  <2>2. max_events' \in 0 .. MaxEvents /\ num_of_events' \in Int
    BY <1>1, ConstantsAssumption DEF IInv, TypeOK
  <2> QED
    BY <1>2, <2>1, <2>2 DEF IInv, TypeOK
<1>4. HandlesOwned'
  <2> SUFFICES ASSUME NEW g \in Fd, NEW j \in Index
               PROVE  handle'[g] = j <=> RegOf(j)' = g
    BY DEF HandlesOwned
  <2>1. handle[g] = j <=> RegOf(j) = g
    BY DEF IInv, HandlesOwned
  <2>2. g # None /\ j # None
    BY ConstantFacts
  <2>3. CASE g = f
    BY <1>1, <2>1, <2>2, <2>3 DEF IInv, TypeOK
  <2>4. CASE g # f
    BY <1>1, <2>1, <2>2, <2>4 DEF IInv, TypeOK
  <2> QED
    BY <2>3, <2>4
<1>5. PastPrefix'
  <2>1. ASSUME 0 \notin Fd, NEW j \in Index, j >= max_events'
        PROVE  fds'[j] \notin Fd
    <3>1. CASE j < max_events
      BY <1>1, <2>1, <3>1, ConstantFacts DEF IInv, TypeOK, Index
    <3>2. CASE j >= max_events
      BY <1>1, <2>1, <3>2, ConstantFacts DEF IInv, TypeOK, PastPrefix
    <3> QED
      BY <3>1, <3>2 DEF IInv, TypeOK, Index
  <2> QED
    BY <1>2, <2>1 DEF IInv, PastPrefix
<1>6. ArgsOwned'
  BY <1>1, <1>2 DEF IInv, TypeOK, ArgsOwned
<1> QED
  BY <1>3, <1>4, <1>5, <1>6 DEF IInv

LEMMA KernelStep ==
    ASSUME IInv, NEW f \in Fd, CloseFd(f) \/ DataArrives(f)
    PROVE  IInv'
<1>1. ready' \in Seq(Fd)
  <2>1. ready \in Seq(Fd)
    BY DEF IInv, TypeOK
  <2>2. Without(ready, f) \in Seq(Fd) /\ Append(ready, f) \in Seq(Fd)
    BY <2>1, WithoutTyped
  <2> QED
    BY <2>2 DEF CloseFd, DataArrives
<1>2. /\ owner' \in [Fd -> Arg \cup {None}]
      /\ \A g \in Fd : handle[g] # None => owner'[g] = owner[g]
  BY DEF CloseFd, DataArrives, IInv, TypeOK
<1>3. /\ UNCHANGED <<table, handle, failures>>
      /\ events' = events /\ dispatched' = dispatched
  BY DEF CloseFd, DataArrives
<1> QED
  BY <1>1, <1>2, <1>3, QuietStep DEF IInv, TypeOK

LEMMA InitIInv == Init => IInv
<1> SUFFICES ASSUME Init PROVE IInv
  OBVIOUS
<1>1. TypeOK
  BY ConstantsAssumption DEF Init, TypeOK
<1>2. HandlesOwned
  <2>1. \A k \in Index : RegOf(k) = None
    BY ConstantFacts DEF Init, RegOf
  <2> QED
    BY <2>1, ConstantFacts DEF Init, HandlesOwned
<1>3. PastPrefix /\ ArgsOwned
  BY ConstantsAssumption DEF Init, PastPrefix, ArgsOwned
<1> QED
  BY <1>1, <1>2, <1>3 DEF IInv

LEMMA NextIInv == IInv /\ [Next]_vars => IInv'
<1> SUFFICES ASSUME IInv, [Next]_vars PROVE IInv'
  OBVIOUS
<1>1. CASE UNCHANGED vars
  BY <1>1, QuietStep DEF vars, IInv, TypeOK
<1>2. CASE Loop
  BY <1>2, LoopStep
<1>3. ASSUME NEW f \in Fd, NEW a \in Arg, AddEvent(f, a)
      PROVE  IInv'
  BY <1>3, AddStep
<1>4. ASSUME NEW f \in Fd, AddEventFails(f) \/ RemoveEvent(f) \/ CloseFd(f) \/ DataArrives(f)
      PROVE  IInv'
  BY <1>4, AddFailsStep, RemoveStep, KernelStep
<1> QED
  BY <1>1, <1>2, <1>3, <1>4 DEF Next

LEMMA Invariance == Spec => []IInv
BY InitIInv, NextIInv, PTL DEF Spec

\* Every variable of the event loop keeps its type; in particular max_events stays
\* within the array.
THEOREM TypeCorrect == Spec => []TypeOK
<1>1. IInv => TypeOK
  BY DEF IInv
<1> QED
  BY <1>1, Invariance, PTL

\* The handles held by the callers and the slots the loop looks at agree, for every
\* order of additions and removals.
THEOREM HandlesSafe == Spec => []HandlesOwned
<1>1. IInv => HandlesOwned
  BY DEF IInv
<1> QED
  BY <1>1, Invariance, PTL

(***************************************************************************)
(* The table of events.c implements EventTable.                            *)
(***************************************************************************)
RegMap == [k \in Index |-> RegOf(k)]

LEMMA RefineInit == Init => Abstract!Init
BY ConstantsAssumption DEF Init, Abstract!Init, RegOf, Index

LEMMA RefineNext == IInv /\ [Next]_vars => [Abstract!Next]_RegMap
<1> SUFFICES ASSUME IInv, [Next]_vars
             PROVE  Abstract!Next \/ RegMap' = RegMap
  BY DEF RegMap
<1>1. ASSUME UNCHANGED table
      PROVE  RegMap' = RegMap
  BY <1>1 DEF table, RegMap, RegOf
<1>2. ASSUME NEW f \in Fd, NEW a \in Arg, AddEvent(f, a)
      PROVE  Abstract!Next
  <2>1. PICK k \in Index :
          /\ RegOf(k) = None /\ RegOf(k)' = f
          /\ \A j \in Index \ {k} : RegOf(j)' = RegOf(j)
    BY <1>2, AddReg
  <2>2. \A g \in Index : RegOf(g) # f
    BY <1>2, ConstantFacts DEF AddEvent, IInv, HandlesOwned, ArgsOwned
  <2>3. RegMap' = [RegMap EXCEPT ![k] = f]
    BY <2>1 DEF RegMap
  <2>4. Abstract!Add(k, f)
    BY <2>1, <2>2, <2>3 DEF Abstract!Add, RegMap
  <2> QED
    BY <2>4 DEF Abstract!Next
<1>3. ASSUME NEW f \in Fd, AddEventFails(f)
      PROVE  RegMap' = RegMap
  BY <1>3, AddFailsReg DEF RegMap
<1>4. ASSUME NEW f \in Fd, RemoveEvent(f)
      PROVE  Abstract!Next
  <2>1. PICK k \in Index :
          /\ RegOf(k) = f /\ RegOf(k)' = None
          /\ \A j \in Index \ {k} : RegOf(j)' = RegOf(j)
    BY <1>4, RemoveReg
  <2>2. RegMap' = [RegMap EXCEPT ![k] = None]
    BY <2>1 DEF RegMap
  <2>3. Abstract!Remove(k)
    BY <2>1, <2>2, ConstantFacts DEF Abstract!Remove, RegMap
  <2> QED
    BY <2>3 DEF Abstract!Next
<1>5. CASE Loop
  BY <1>1, <1>5 DEF Loop, EpollWait, Handle, HandleNone
<1>6. ASSUME NEW f \in Fd, CloseFd(f) \/ DataArrives(f)
      PROVE  RegMap' = RegMap
  BY <1>1, <1>6 DEF CloseFd, DataArrives
<1>7. CASE UNCHANGED vars
  BY <1>1, <1>7 DEF vars
<1> QED
  BY <1>2, <1>3, <1>4, <1>5, <1>6, <1>7 DEF Next

\* add_event() gives out only handles that are not in use and remove_event() frees
\* only the handle it is called with: what proxying.c relies on.
THEOREM TableImplemented == Spec => ImplementsTable
<1>1. Spec => []IInv
  BY Invariance
<1> QED
  BY <1>1, RefineInit, RefineNext, PTL DEF Spec, ImplementsTable, Abstract!Spec, RegMap

(***************************************************************************)
(* The handler call.                                                       *)
(***************************************************************************)
LEMMA DispatchStep ==
    IInv /\ [Next]_vars =>
      [events # <<>> /\ dispatched' # dispatched
         => owner[dispatched'.fd] = dispatched'.arg]_vars
<1> SUFFICES ASSUME IInv, Next, dispatched' # dispatched
             PROVE  owner[dispatched'.fd] = dispatched'.arg
  OBVIOUS
<1>1. Handle
  BY DEF Next, Loop, AddEvent, AddEventFails, RemoveEvent, CloseFd, DataArrives,
     EpollWait, HandleNone
<1>2. PICK m \in 1 .. Len(events), k \in 0 .. max_events - 1 :
        dispatched' = [fd |-> events[m], arg |-> args[k]] /\ fds[k] = events[m]
  BY <1>1 DEF Handle, Lowest, SlotsOf
<1>3. events[m] \in Fd
  BY <1>2, ElementOfSeq DEF IInv, TypeOK
<1>4. k \in Index /\ RegOf(k) = events[m]
  BY <1>2, <1>3, ConstantsAssumption DEF IInv, TypeOK, Index, RegOf
<1>5. handle[events[m]] = k /\ k # None
  BY <1>3, <1>4, ConstantFacts DEF IInv, HandlesOwned
<1>6. args[k] = owner[events[m]]
  BY <1>3, <1>5 DEF IInv, ArgsOwned
<1> QED
  BY <1>2, <1>6

\* ev_looping() calls a handler only with the args its descriptor was added with.
THEOREM DispatchSafe == Spec => DispatchesToOwner
BY Invariance, DispatchStep, PTL DEF Spec, DispatchesToOwner

(***************************************************************************)
(* What count() reports.                                                   *)
(***************************************************************************)
LEMMA AddedFinite ==
    IsFiniteSet(Added) /\ Cardinality(Added) \in Nat
<1>1. IsFiniteSet(Added)
  BY ConstantsAssumption, FS_Subset DEF Added
<1> QED
  BY <1>1, FS_CardinalityType

LEMMA CountStep == IInv /\ CountDrift /\ [Next]_vars => CountDrift'
<1> SUFFICES ASSUME IInv, CountDrift, [Next]_vars PROVE CountDrift'
  OBVIOUS
<1>1. ASSUME UNCHANGED <<num_of_events, handle, failures>>
      PROVE  CountDrift'
  BY <1>1 DEF CountDrift, Added
<1>2. ASSUME NEW f \in Fd, NEW a \in Arg, AddEvent(f, a)
      PROVE  CountDrift'
  <2>1. PICK k \in Index : handle' = [handle EXCEPT ![f] = k]
    BY <1>2, AddReg
  <2>2. f \notin Added
    BY <1>2 DEF AddEvent, IInv, ArgsOwned, Added
  <2>3. Added' = Added \cup {f}
    BY <2>1, ConstantFacts DEF Added, IInv, TypeOK
  <2>4. Cardinality(Added') = Cardinality(Added) + 1
    BY <2>2, <2>3, AddedFinite, FS_AddElement
  <2> QED
    BY <1>2, <2>4, AddedFinite DEF AddEvent, CountDrift, IInv, TypeOK
<1>3. ASSUME NEW f \in Fd, AddEventFails(f)
      PROVE  CountDrift'
  <2>1. Added' = Added
    BY <1>3 DEF AddEventFails, Added
  <2> QED
    BY <1>3, <2>1, AddedFinite DEF AddEventFails, CountDrift, IInv, TypeOK
<1>4. ASSUME NEW f \in Fd, RemoveEvent(f)
      PROVE  CountDrift'
  <2>1. handle' = [handle EXCEPT ![f] = None] /\ num_of_events' = num_of_events - 1
    BY <1>4, RemoveReg
  <2>2. f \in Added
    BY <1>4 DEF RemoveEvent, Added
  <2>3. Added' = Added \ {f}
    BY <2>1 DEF Added, IInv, TypeOK
  <2>4. Cardinality(Added') = Cardinality(Added) - 1
    BY <2>2, <2>3, AddedFinite, FS_RemoveElement
  <2> QED
    BY <1>4, <2>1, <2>4, AddedFinite DEF RemoveEvent, CountDrift, IInv, TypeOK
<1>5. CASE Loop \/ UNCHANGED vars
  BY <1>1, <1>5 DEF Loop, EpollWait, Handle, HandleNone, vars, table
<1>6. ASSUME NEW f \in Fd, CloseFd(f) \/ DataArrives(f)
      PROVE  CountDrift'
  BY <1>1, <1>6 DEF CloseFd, DataArrives, table
<1> QED
  BY <1>2, <1>3, <1>4, <1>5, <1>6 DEF Next

\* count() exceeds the number of events in the table by the failures of epoll_ctl().
THEOREM CountSafe == Spec => []CountDrift
<1>1. Init => CountDrift
  <2> SUFFICES ASSUME Init PROVE CountDrift
    OBVIOUS
  <2>1. Added = {}
    BY DEF Init, Added
  <2> QED
    BY <2>1, FS_EmptySet DEF Init, CountDrift
<1> QED
  BY <1>1, Invariance, CountStep, PTL DEF Spec

(***************************************************************************)
(* When the table is full.                                                 *)
(***************************************************************************)
LEMMA Least ==
    ASSUME NEW S \in SUBSET Nat, S # {}
    PROVE  \E x \in S : \A y \in S : x <= y
<1>1. PICK R : R = OpToRel(<, Nat)
  OBVIOUS
<1>2. \A x, y \in Nat : <<x, y>> \in R <=> x < y
  BY <1>1 DEF OpToRel
<1>3. IsWellFoundedOn(R, Nat)
  BY <1>1, NatLessThanWellFounded
<1>4. PICK x \in S : \A y \in S : ~ (<<y, x>> \in R)
  BY <1>3, WFMin, Zenon
<1>5. \A y \in S : ~(y < x)
  BY <1>2, <1>4
<1> QED
  BY <1>5

\* The slots that failures of epoll_ctl() have left in the prefix.
LostSlots == {k \in 0 .. max_events - 1 : fds[k] # -1 /\ fds[k] \notin Fd}

\* Each of them is due to a failure of its own.
SlotsAccounted == Cardinality(LostSlots) <= failures

LEMMA LostFinite ==
    ASSUME TypeOK
    PROVE  IsFiniteSet(LostSlots) /\ Cardinality(LostSlots) \in Nat
<1>1. IsFiniteSet(0 .. max_events - 1)
  BY FS_Interval, ConstantsAssumption DEF TypeOK
<1>2. IsFiniteSet(LostSlots)
  BY <1>1, FS_Subset DEF LostSlots
<1> QED
  BY <1>2, FS_CardinalityType

LEMMA FewerLost ==
    ASSUME TypeOK, SlotsAccounted, LostSlots' \subseteq LostSlots, failures' = failures
    PROVE  SlotsAccounted'
<1>1. Cardinality(LostSlots') <= Cardinality(LostSlots) /\ IsFiniteSet(LostSlots')
  BY LostFinite, FS_Subset
<1>2. Cardinality(LostSlots') \in Nat
  BY <1>1, FS_CardinalityType
<1> QED
  BY <1>1, <1>2, LostFinite DEF SlotsAccounted, TypeOK

LEMMA SlotsStep == IInv /\ SlotsAccounted /\ [Next]_vars => SlotsAccounted'
<1> SUFFICES ASSUME IInv, SlotsAccounted, [Next]_vars PROVE SlotsAccounted'
  OBVIOUS
<1>t. TypeOK
  BY DEF IInv
<1>1. ASSUME UNCHANGED <<fds, max_events, failures>>
      PROVE  SlotsAccounted'
  BY <1>1 DEF SlotsAccounted, LostSlots
<1>2. ASSUME NEW f \in Fd, NEW a \in Arg, AddEvent(f, a)
      PROVE  SlotsAccounted'
  <2>1. PICK k \in FindFirstFree : fds' = [fds EXCEPT ![k] = f] /\ max_events' = Grown(k)
    BY <1>2 DEF AddEvent
  <2>2. LostSlots' \subseteq LostSlots
    BY <1>t, <2>1, FreeSlot, ConstantsAssumption DEF LostSlots, TypeOK, Index
  <2> QED
    BY <1>2, <1>t, <2>2, FewerLost DEF AddEvent
<1>3. ASSUME NEW f \in Fd, AddEventFails(f)
      PROVE  SlotsAccounted'
  <2>1. PICK k \in FindFirstFree : max_events' = Grown(k)
    BY <1>3 DEF AddEventFails
  <2>2. fds' = fds /\ failures' = failures + 1
    BY <1>3 DEF AddEventFails
  <2>3. LostSlots' \subseteq LostSlots \cup {k}
    BY <1>t, <2>1, <2>2, FreeSlot, ConstantsAssumption DEF LostSlots, TypeOK, Index
  <2>4. /\ IsFiniteSet(LostSlots \cup {k})
        /\ Cardinality(LostSlots \cup {k}) \in {Cardinality(LostSlots), Cardinality(LostSlots) + 1}
    BY <1>t, LostFinite, FS_AddElement
  <2>5. Cardinality(LostSlots') <= Cardinality(LostSlots \cup {k}) /\ IsFiniteSet(LostSlots')
    BY <2>3, <2>4, FS_Subset
  <2>6. Cardinality(LostSlots') \in Nat
    BY <2>5, FS_CardinalityType
  <2> QED
    BY <1>t, <2>2, <2>4, <2>5, <2>6, LostFinite DEF SlotsAccounted, TypeOK
<1>4. ASSUME NEW f \in Fd, RemoveEvent(f)
      PROVE  SlotsAccounted'
  <2>1. LostSlots' \subseteq LostSlots
    BY <1>4, <1>t, ConstantFacts, ConstantsAssumption DEF RemoveEvent, LostSlots, TypeOK, Index
  <2> QED
    BY <1>4, <1>t, <2>1, FewerLost DEF RemoveEvent
<1>5. CASE Loop \/ UNCHANGED vars
  BY <1>1, <1>5 DEF Loop, EpollWait, Handle, HandleNone, vars, table
<1>6. ASSUME NEW f \in Fd, CloseFd(f) \/ DataArrives(f)
      PROVE  SlotsAccounted'
  BY <1>1, <1>6 DEF CloseFd, DataArrives, table
<1> QED
  BY <1>2, <1>3, <1>4, <1>5, <1>6 DEF Next

\* A full table: every slot has an event of its own, or is lost.
LEMMA FullMeansFull == IInv /\ SlotsAccounted => FullOnlyWhenFull
<1> SUFFICES ASSUME IInv, SlotsAccounted, FindFirstFree = {}
             PROVE  Cardinality(Added) + failures >= MaxEvents
  BY DEF FullOnlyWhenFull
<1>t. TypeOK
  BY DEF IInv
<1>1. max_events = MaxEvents /\ \A k \in Index : fds[k] # -1
  <2> DEFINE free == {k \in 0 .. max_events - 1 : fds[k] = -1}
  <2>1. free = {}
    <3> SUFFICES ASSUME free # {} PROVE FALSE
      OBVIOUS
    <3>1. free \in SUBSET Nat
      BY <1>t, ConstantsAssumption DEF TypeOK
    <3>2. Lowest(free) # {}
      <4> HIDE DEF free
      <4> QED
        BY <3>1, Least DEF Lowest
    <3> QED
      BY <3>2 DEF FindFirstFree
  <2>2. max_events = MaxEvents
    <3>1. ~(max_events < MaxEvents)
      BY <2>1 DEF FindFirstFree
    <3> QED
      BY <1>t, <3>1, ConstantsAssumption DEF TypeOK
  <2> QED
    BY <2>1, <2>2 DEF Index
<1>2. PICK Used : Used = Index \ LostSlots
  OBVIOUS
<1>3. \A k \in Used : fds[k] \in Added /\ handle[fds[k]] = k
  <2> SUFFICES ASSUME NEW k \in Used PROVE fds[k] \in Added /\ handle[fds[k]] = k
    OBVIOUS
  <2>1. k \in Index /\ fds[k] \in Fd /\ k < max_events
    BY <1>1, <1>2, <1>t, ConstantsAssumption DEF LostSlots, Index, TypeOK
  <2>2. RegOf(k) = fds[k]
    BY <2>1 DEF RegOf
  <2>3. handle[fds[k]] = k
    BY <2>1, <2>2 DEF IInv, HandlesOwned
  <2> QED
    BY <2>1, <2>3, ConstantFacts DEF Added
<1>4. IsFiniteSet(Used) /\ Cardinality(Used) <= Cardinality(Added)
  <2>1. PICK g : g = [k \in Used |-> fds[k]]
    OBVIOUS
  <2>2. g \in Injection(Used, Added)
    BY <1>3, <2>1 DEF Injection, IsInjective
  <2> QED
    BY <2>2, AddedFinite, FS_Injection
<1>5. IsFiniteSet(Index) /\ Cardinality(Index) = MaxEvents
  <2>1. IsFiniteSet(0 .. MaxEvents - 1)
        /\ Cardinality(0 .. MaxEvents - 1) = IF 0 > MaxEvents - 1 THEN 0 ELSE (MaxEvents - 1) - 0 + 1
    BY FS_Interval, ConstantsAssumption
  <2> QED
    BY <2>1, ConstantsAssumption DEF Index
<1>6. Index = Used \cup LostSlots /\ Used \cap LostSlots = {}
  BY <1>1, <1>2 DEF LostSlots, Index
<1>7. Cardinality(Index) = Cardinality(Used) + Cardinality(LostSlots)
  <2>1. Cardinality(Used \cup LostSlots)
          = Cardinality(Used) + Cardinality(LostSlots) - Cardinality(Used \cap LostSlots)
    BY <1>4, <1>t, LostFinite, FS_Union
  <2>2. Cardinality(Used \cap LostSlots) = 0
    BY <1>6, FS_EmptySet
  <2>3. Cardinality(Used) \in Nat
    BY <1>4, FS_CardinalityType
  <2> QED
    BY <1>6, <1>t, <2>1, <2>2, <2>3, LostFinite
<1> QED
  <2>1. Cardinality(Used) \in Nat
    BY <1>4, FS_CardinalityType
  <2> QED
    BY <1>4, <1>5, <1>7, <1>t, <2>1, LostFinite, AddedFinite, ConstantsAssumption
       DEF SlotsAccounted, TypeOK

\* add_event() refuses a descriptor only when MAX_EVENTS slots are used by events or lost to
\* failures of epoll_ctl(): no order of removals loses a slot.
THEOREM FullSafe == Spec => []FullOnlyWhenFull
<1>1. Init => SlotsAccounted
  <2> SUFFICES ASSUME Init PROVE SlotsAccounted
    OBVIOUS
  <2>1. LostSlots = {}
    BY DEF Init, LostSlots
  <2> QED
    BY <2>1, FS_EmptySet DEF Init, SlotsAccounted
<1> QED
  BY <1>1, Invariance, SlotsStep, FullMeansFull, PTL DEF Spec
=============================================================================
