------------------------------ MODULE EventLoop ------------------------------
(***************************************************************************)
(* The event loop of src/src/events.c: a table of at most MAX_EVENTS        *)
(* descriptors kept in the prefix 0 .. max_events-1 of an array, a free     *)
(* slot inside the prefix being marked -1, and a loop that handles one      *)
(* event per call of epoll_wait().                                          *)
(*                                                                          *)
(* Its callers are the proxy thread, which adds events and runs the loop,   *)
(* and the timer thread, which removes events at any time.  A caller        *)
(* removes an event once (EventsOwned of module Proxying) and then closes   *)
(* the descriptor.                                                          *)
(*                                                                          *)
(* The kernel's side of epoll is external: the list of ready descriptors,   *)
(* level-triggered, so that a descriptor whose data was not all read stays  *)
(* in the list.                                                             *)
(***************************************************************************)
EXTENDS Integers, Sequences, FiniteSets

CONSTANTS
    Fd,             \* descriptors
    Arg,            \* the args registered with a descriptor
    MaxEvents,      \* MAX_EVENTS
    MaxFailures,    \* bounds the number of times epoll_ctl() fails
    None

\* A slot that epoll_ctl() left unfilled holds 0 from the start, which reads as
\* standard input.  The program closes that one when it runs as a daemon, so that 0
\* may be a descriptor of a connection: then epoll_ctl() must not fail.
ASSUME ConstantsAssumption ==
    /\ Fd \subseteq Nat /\ IsFiniteSet(Fd)
    /\ MaxEvents \in Nat /\ MaxFailures \in Nat
    /\ 0 \in Fd => MaxFailures = 0
    /\ None \notin Fd \cup Arg \cup Int

VARIABLES
    fds, args,      \* the arrays of the table
    max_events,     \* the length of the prefix in use
    num_of_events,  \* what count() reports
    handle,         \* descriptor -> the index add_event() returned to the caller
    owner,          \* descriptor -> the args it was added with, until it is closed
    ready,          \* the kernel's list of ready descriptors
    events,         \* what epoll_wait() returned
    dispatched,     \* descriptor and args of the last handler call
    failures        \* failed calls of epoll_ctl()

table  == <<fds, args, max_events, num_of_events>>
vars   == <<table, handle, owner, ready, events, dispatched, failures>>

Index == 0 .. MaxEvents - 1
Added == {f \in Fd : handle[f] # None}
InList(s, f) == \E k \in 1 .. Len(s) : s[k] = f
Without(s, f) ==
    IF InList(s, f)
    THEN LET k == CHOOSE j \in 1 .. Len(s) : s[j] = f
         IN  SubSeq(s, 1, k - 1) \o SubSeq(s, k + 1, Len(s))
    ELSE s

Lowest(S) == {x \in S : \A y \in S : x <= y}

-----------------------------------------------------------------------------
\* Faulty: a free slot of the prefix is not looked for.
FindFirstFree_Grow == IF max_events < MaxEvents THEN {max_events} ELSE {}

\* find_first_free(): the index, or nothing when the table is full.
FindFirstFree ==
    LET free == {k \in 0 .. max_events - 1 : fds[k] = -1} IN
    IF free # {} THEN Lowest(free)
    ELSE IF max_events < MaxEvents THEN {max_events} ELSE {}

\* Faulty: the prefix grows for a slot inside it, too.
Grown_Always(k) == max_events + 1

\* find_first_free(): the prefix afterwards.
Grown(k) == IF k = max_events THEN max_events + 1 ELSE max_events

\* Faulty: a slot used before keeps its args.
AddEvent_ArgsKept(f, a) ==
    /\ events = <<>>
    /\ owner[f] = None
    /\ \E k \in FindFirstFree :
          /\ fds' = [fds EXCEPT ![k] = f]
          /\ args' = IF args[k] = None THEN [args EXCEPT ![k] = a] ELSE args
          /\ max_events' = Grown(k)
          /\ handle' = [handle EXCEPT ![f] = k]
    /\ num_of_events' = num_of_events + 1
    /\ owner' = [owner EXCEPT ![f] = a]
    /\ UNCHANGED <<ready, events, dispatched, failures>>

\* ev_add_event() for a descriptor just opened, by the thread that runs the loop
\* and hence not between epoll_wait() and the call of the handler.
AddEvent(f, a) ==
    /\ events = <<>>
    /\ owner[f] = None
    /\ \E k \in FindFirstFree :
          /\ fds' = [fds EXCEPT ![k] = f]
          /\ args' = [args EXCEPT ![k] = a]
          /\ max_events' = Grown(k)
          /\ handle' = [handle EXCEPT ![f] = k]
    /\ num_of_events' = num_of_events + 1
    /\ owner' = [owner EXCEPT ![f] = a]
    /\ UNCHANGED <<ready, events, dispatched, failures>>

\* ev_add_event() when epoll_ctl() fails: find_first_free() has counted the event
\* and may have extended the prefix over a slot that is not filled.
AddEventFails(f) ==
    /\ events = <<>>
    /\ owner[f] = None
    /\ failures < MaxFailures
    /\ \E k \in FindFirstFree : max_events' = Grown(k)
    /\ num_of_events' = num_of_events + 1
    /\ failures' = failures + 1
    /\ UNCHANGED <<fds, args, handle, owner, ready, events, dispatched>>

\* The prefix ends at its last slot that is in use.
Trimmed(m, array) ==
    /\ m > 0 => array[m - 1] >= 0
    /\ \A k \in m .. max_events - 1 : array[k] < 0

\* Faulty: the prefix is cut at the slot removed.
RemoveEvent_Cut(f) ==
    /\ handle[f] # None
    /\ fds' = [fds EXCEPT ![handle[f]] = -1]
    /\ num_of_events' = num_of_events - 1
    /\ max_events' = handle[f]
    /\ handle' = [handle EXCEPT ![f] = None]
    /\ UNCHANGED <<args, owner, ready, events, dispatched, failures>>

\* Faulty: the event is not counted off.
RemoveEvent_Uncounted(f) ==
    /\ handle[f] # None
    /\ fds' = [fds EXCEPT ![handle[f]] = -1]
    /\ \E m \in 0 .. max_events : Trimmed(m, fds') /\ max_events' = m
    /\ handle' = [handle EXCEPT ![f] = None]
    /\ UNCHANGED <<num_of_events, args, owner, ready, events, dispatched, failures>>

\* ev_remove_event() with the handle the caller got for f.
RemoveEvent(f) ==
    LET k == handle[f] IN
    /\ k # None
    /\ IF k < max_events
       THEN /\ fds' = [fds EXCEPT ![k] = -1]
            /\ num_of_events' = num_of_events - 1
            /\ \E m \in 0 .. max_events : Trimmed(m, fds') /\ max_events' = m
       ELSE UNCHANGED <<fds, num_of_events, max_events>>
    /\ handle' = [handle EXCEPT ![f] = None]
    /\ UNCHANGED <<args, owner, ready, events, dispatched, failures>>

\* The caller closes the descriptor; the kernel forgets it.
CloseFd(f) ==
    /\ owner[f] # None
    /\ handle[f] = None
    /\ owner' = [owner EXCEPT ![f] = None]
    /\ ready' = Without(ready, f)
    /\ UNCHANGED <<table, handle, events, dispatched, failures>>

\* Data arrives: the kernel puts the descriptor at the end of the list.
DataArrives(f) ==
    /\ owner[f] # None
    /\ ~InList(ready, f)
    /\ ready' = Append(ready, f)
    /\ UNCHANGED <<table, handle, owner, events, dispatched, failures>>

-----------------------------------------------------------------------------
\* ev_looping(): epoll_wait() reports at most max_events ready descriptors.  The kernel
\* puts the ones it reports back at the end of its list.
EpollWait ==
    LET m == IF Len(ready) <= max_events THEN Len(ready) ELSE max_events IN
    /\ events = <<>>
    /\ m > 0
    /\ events' = SubSeq(ready, 1, m)
    /\ ready' = SubSeq(ready, m + 1, Len(ready)) \o SubSeq(ready, 1, m)
    /\ UNCHANGED <<table, handle, owner, dispatched, failures>>

\* Faulty: the last slot of the prefix is never compared.
SlotsOf_Short(f) == Lowest({k \in 0 .. max_events - 2 : fds[k] = f})

\* The slot in which ev_looping() finds a descriptor.
SlotsOf(f) == Lowest({k \in 0 .. max_events - 1 : fds[k] = f})

\* ev_looping(): the first reported descriptor that is in the table is handled, the
\* others are dropped.  The handler reads all the data there is, or not.  (An event
\* removed between the comparison and the call is as one removed just after: the args
\* of its slot stay, and only this thread fills a slot.)
Handle ==
    LET found == {m \in 1 .. Len(events) : SlotsOf(events[m]) # {}} IN
    /\ events # <<>>
    /\ \E m \in Lowest(found) : \E k \in SlotsOf(events[m]) :
          /\ dispatched' = [fd |-> events[m], arg |-> args[k]]
          /\ \/ ready' = Without(ready, events[m])
             \/ UNCHANGED ready
    /\ events' = <<>>
    /\ UNCHANGED <<table, handle, owner, failures>>

\* ev_looping(): none of the reported descriptors is in the table any more.
HandleNone ==
    /\ events # <<>>
    /\ \A m \in 1 .. Len(events) : SlotsOf(events[m]) = {}
    /\ events' = <<>>
    /\ UNCHANGED <<table, handle, owner, ready, dispatched, failures>>

-----------------------------------------------------------------------------
\* new_event_loop(); the arrays are static, hence 0.
Init ==
    /\ fds = [k \in Index |-> 0]
    /\ args = [k \in Index |-> None]
    /\ max_events = 0 /\ num_of_events = 0
    /\ handle = [f \in Fd |-> None] /\ owner = [f \in Fd |-> None]
    /\ ready = <<>> /\ events = <<>>
    /\ dispatched = [fd |-> None, arg |-> None]
    /\ failures = 0

Loop == EpollWait \/ Handle \/ HandleNone

Next ==
    \/ \E f \in Fd :
          \/ \E a \in Arg : AddEvent(f, a)
          \/ AddEventFails(f)
          \/ RemoveEvent(f)
          \/ CloseFd(f)
          \/ DataArrives(f)
    \/ Loop

Spec == Init /\ [][Next]_vars

\* The proxy thread runs its loop, and whoever removes an event closes the descriptor.
FairSpec == Spec /\ WF_vars(Loop) /\ \A f \in Fd : WF_vars(CloseFd(f))

-----------------------------------------------------------------------------
\* The prefix in use (max_events) stays within the arrays, and handles are indices.
TypeOK ==
    /\ fds \in [Index -> Fd \cup {-1, 0}]
    /\ args \in [Index -> Arg \cup {None}]
    /\ max_events \in 0 .. MaxEvents
    /\ num_of_events \in Int
    /\ handle \in [Fd -> Index \cup {None}]
    /\ owner \in [Fd -> Arg \cup {None}]
    /\ ready \in Seq(Fd) /\ events \in Seq(Fd)
    /\ dispatched \in [fd: Fd \cup {None}, arg: Arg \cup {None}]
    /\ failures \in Nat

\* The descriptor a handle stands for, as the loop sees it.
RegOf(k) == IF k < max_events /\ fds[k] \in Fd THEN fds[k] ELSE None

\* The table implements EventTable: add_event() never hands out an index that is in
\* use, and removing one event, with the trimming of the prefix, never takes another
\* event out of the loop's sight.
Abstract == INSTANCE EventTable WITH Handle <- Index, reg <- [k \in Index |-> RegOf(k)]
ImplementsTable == Abstract!Spec

\* The caller's handles and the table agree.
HandlesOwned ==
    \A f \in Fd, k \in Index : handle[f] = k <=> RegOf(k) = f

\* count() is the number of events in the table, plus one for every failure of
\* epoll_ctl() there has ever been.
CountDrift ==
    num_of_events = Cardinality(Added) + failures

\* add_event() reports a full table only when MAX_EVENTS slots are used by events or
\* lost to failures of epoll_ctl(): removing events in any order loses no slot.
FullOnlyWhenFull ==
    FindFirstFree = {} => Cardinality(Added) + failures >= MaxEvents

\* A handler is called with the args its descriptor was added with, even when the
\* event is removed between epoll_wait() and the call, or was added to a slot used
\* before.
DispatchesToOwner ==
    [][events # <<>> /\ dispatched' # dispatched
         => owner[dispatched'.fd] = dispatched'.arg]_vars

\* A ready descriptor is handled, unless one other descriptor is handled at every call
\* for ever: ev_looping() stops after the first event, and only a descriptor that
\* always has data can keep its place at the head of the kernel's list.
NoStarvationButBehindOne ==
    \A f \in Fd :
        <>[](InList(ready, f) /\ handle[f] # None /\ dispatched.fd # f)
          => \E g \in Fd \ {f} : <>[](dispatched.fd = g)
=============================================================================
