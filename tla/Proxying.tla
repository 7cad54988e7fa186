------------------------------ MODULE Proxying ------------------------------
(***************************************************************************)
(* The connection table of src/src/proxying.c, shared by two threads:      *)
(*                                                                         *)
(*   "proxy"  proxy_main: the event loop.  It accepts connections and      *)
(*            relays bytes between the two sockets of a connection.  When  *)
(*            the program terminates it closes every connection.           *)
(*   "timer"  the main thread: once a minute cron() calls                  *)
(*            clean_idle_connections() to expire the idle connections.     *)
(*                                                                         *)
(* A connection is a struct connection_info, an Entry here.  An entry is   *)
(* in the chain (infos), in the free list (pool), or not yet malloc'ed.    *)
(*                                                                         *)
(* Steps are cut at the synchronisation points of the code: everything     *)
(* that happens between taking and releasing worker_mutex without blocking *)
(* is one step; a section that may block (connect, write, the database) is *)
(* entered by one step and left by another one.  Two things the timer does *)
(* are not covered by worker_mutex: copying the chain (info_mux) and       *)
(* reading the field `recent` of an entry (no lock at all).                *)
(*                                                                         *)
(* Time is abstracted to what the code compares: `idle` holds the entries  *)
(* whose `recent` is by now more than expiring-timeout old, `overdue` the  *)
(* entries whose `recent` is more than expiring-timeout older than the     *)
(* time tv at which the current run of cron() began.                       *)
(***************************************************************************)
EXTENDS Integers, Sequences, FiniteSets

CONSTANTS
    Entry,              \* addresses malloc() can return for a connection_info
    Fd,                 \* descriptors left for connections (bounds the kernel's table)
    Handle,             \* indices of the event table (bounds MAX_EVENTS)
    MaxAllowedRequests, \* max-allowed-requests of the configuration
    None                \* NULL, -1: no entry, no descriptor, no handle

VARIABLES
    infos,          \* the entries of the chain (in_chain)
    pool,           \* the free list, a stack
    allocated,      \* the entries malloc'ed so far (number_of_allocation)
    client_fd, server_fd, client_handle, server_handle,  \* fields of an entry
    request_in_db,  \* field: the entry holds a request and an open database row
    requestCount,   \* field: client requests relayed
    idle,           \* entries not active for more than expiring-timeout
    open,           \* descriptors open in the process, among Fd
    leaked,         \* descriptors no variable of the program refers to any more
    registered,     \* the event table: handle -> event
    rows,           \* entries whose row in table connections has no end time
    worker,         \* the thread that holds worker_mutex
    pc,             \* where each thread is
    fdc,            \* the descriptor accept() returned to the proxy thread
    cur,            \* the event being dispatched by the proxy thread
    expiring_holder,\* the array of entries to examine, shared by all sweeps
    n, i,           \* the locals of clean_idle_connections, per thread
    overdue,        \* entries idle at the time tv of the timer's sweep
    terminated,     \* system_conf->terminated()
    ub              \* an entry has been closed twice

fields == <<client_fd, server_fd, client_handle, server_handle, requestCount>>
table  == <<infos, pool, allocated, request_in_db, rows>>
kernel == <<open, leaked, registered>>
sweep  == <<expiring_holder, n, i>>
vars   == <<fields, table, kernel, sweep, idle, overdue, worker, pc, fdc, cur,
            terminated, ub>>

Thread == {"proxy", "timer"}
Side   == {"client", "server"}
Event  == [info: Entry, side: Side]
Slots  == 1 .. Cardinality(Entry)

ASSUME ConstantsAssumption ==
    /\ IsFiniteSet(Entry)
    /\ Fd \subseteq Nat /\ Handle \subseteq Nat
    /\ MaxAllowedRequests \in Nat
    /\ None \notin Entry /\ None \notin Fd /\ None \notin Handle
    /\ None \notin Thread /\ None \notin Event

\* The kernel hands out the lowest descriptor that is not open, and
\* find_first_free() the lowest slot of the event table that is free.
Lowest(S) == {x \in S : \A y \in S : x <= y}

-----------------------------------------------------------------------------
(* The helpers of proxying.c.                                              *)

\* (Names with an underscore are faulty variants of the definition that follows
\* them; they are used only to show that the properties notice the fault.)

\* Faulty: number_of_allocation is not kept up to date.
AllocateConnectionInfo_Uncounted(e) ==
    \/ pool # <<>> /\ e = Head(pool) /\ pool' = Tail(pool) /\ UNCHANGED allocated
    \/ pool = <<>> /\ e \in Entry \ allocated /\ UNCHANGED <<pool, allocated>>

\* Faulty: the entry handed out stays on the free list.
AllocateConnectionInfo_NotPopped(e) ==
    \/ pool # <<>> /\ e = Head(pool) /\ UNCHANGED <<pool, allocated>>
    \/ /\ pool = <<>> /\ e \in Entry \ allocated
       /\ allocated' = allocated \cup {e} /\ UNCHANGED pool

\* allocate_connection_info(): the top of the free list, or a fresh entry.
AllocateConnectionInfo(e) ==
    \/ /\ pool # <<>>
       /\ e = Head(pool)
       /\ pool' = Tail(pool)
       /\ UNCHANGED allocated
    \/ /\ pool = <<>>
       /\ e \in Entry \ allocated
       /\ allocated' = allocated \cup {e}
       /\ UNCHANGED pool

\* free_connection_info()
FreeConnectionInfo(e) == pool' = <<e>> \o pool

\* detach_connection_info_entry(); the order of the chain is not modelled.
Detach(e) == infos' = infos \ {e}

\* ev->add_event(): the first free handle not in `taken`, or None when the table
\* is full or epoll_ctl() fails.  The caller does not look at the result.
AddEvent(taken) ==
    {None} \cup Lowest({h \in Handle \ taken : registered[h] = None})

\* Faulty: the descriptor of the server stays open.
CloseEvent_OneSide(e) ==
    /\ registered' = [h \in Handle |->
                        IF h \in {client_handle[e], server_handle[e]}
                        THEN None ELSE registered[h]]
    /\ open' = open \ {client_fd[e]}
    /\ rows' = IF request_in_db[e] THEN rows \ {e} ELSE rows
    /\ request_in_db' = [request_in_db EXCEPT ![e] = FALSE]

\* Faulty: the event of the server stays in the table.
CloseEvent_EventLeft(e) ==
    /\ registered' = [h \in Handle |->
                        IF h = client_handle[e] THEN None ELSE registered[h]]
    /\ open' = open \ {client_fd[e], server_fd[e]}
    /\ rows' = IF request_in_db[e] THEN rows \ {e} ELSE rows
    /\ request_in_db' = [request_in_db EXCEPT ![e] = FALSE]

\* Faulty: the request is freed before it is tested, the row is never closed.
CloseEvent_RowLeft(e) ==
    /\ registered' = [h \in Handle |->
                        IF h \in {client_handle[e], server_handle[e]}
                        THEN None ELSE registered[h]]
    /\ open' = open \ {client_fd[e], server_fd[e]}
    /\ request_in_db' = [request_in_db EXCEPT ![e] = FALSE]
    /\ UNCHANGED rows

\* The body of close_event() for an entry out of the chain: both events are
\* removed, both descriptors closed, the database row gets its end time and
\* the request is freed.
CloseEvent(e) ==
    /\ registered' = [h \in Handle |->
                        IF h \in {client_handle[e], server_handle[e]}
                        THEN None ELSE registered[h]]
    /\ open' = open \ {client_fd[e], server_fd[e]}
    /\ rows' = IF request_in_db[e] THEN rows \ {e} ELSE rows
    /\ request_in_db' = [request_in_db EXCEPT ![e] = FALSE]

\* gettimeofday (&info->recent): a sweep under way sees the new time too.
Touch(e) ==
    /\ idle' = idle \ {e}
    /\ overdue' = overdue \ {e}

-----------------------------------------------------------------------------
(* The proxy thread: accepting a connection.                               *)

\* main_listener(): accept() returns a new descriptor.
Accept ==
    /\ pc["proxy"] = "loop"
    /\ \E f \in Lowest(Fd \ open) :
          /\ open' = open \cup {f}
          /\ fdc' = f
    /\ pc' = [pc EXCEPT !["proxy"] = "accepted"]
    /\ UNCHANGED <<fields, table, sweep, idle, overdue, leaked, registered,
                   worker, cur, terminated, ub>>

\* accepting_request(): getpeername() fails, the peer has gone.
PeerGone ==
    /\ pc["proxy"] = "accepted"
    /\ open' = open \ {fdc}
    /\ fdc' = None
    /\ pc' = [pc EXCEPT !["proxy"] = "loop"]
    /\ UNCHANGED <<fields, table, sweep, idle, overdue, leaked, registered,
                   worker, cur, terminated, ub>>

\* accepting_request(): worker_mutex is taken for the whole decision.
AcceptLock ==
    /\ pc["proxy"] = "accepted"
    /\ worker = None
    /\ worker' = "proxy"
    /\ pc' = [pc EXCEPT !["proxy"] = "admitting"]
    /\ UNCHANGED <<fields, table, kernel, sweep, idle, overdue, fdc, cur,
                   terminated, ub>>

\* accepting_request(): no channel for the client, or no connection to the
\* server of the channel.  connect_host() returns -1 without closing the
\* descriptor it created when the name of the server does not resolve.
Drop ==
    /\ pc["proxy"] = "admitting"
    /\ \/ open' = open \ {fdc} /\ UNCHANGED leaked
       \/ \E f \in Lowest(Fd \ open) :
             /\ open' = (open \ {fdc}) \cup {f}
             /\ leaked' = leaked \cup {f}
    /\ fdc' = None
    /\ worker' = None
    /\ pc' = [pc EXCEPT !["proxy"] = "loop"]
    /\ UNCHANGED <<fields, table, registered, sweep, idle, overdue, cur,
                   terminated, ub>>

\* accepting_request(): the entry is filled, its events are added, the connection
\* is recorded in the database when the client has a request there (r), and the
\* entry is attached to the chain.
Establish(e, s, r, ch, sh) ==
    /\ open' = open \cup {s}
    /\ client_fd' = [client_fd EXCEPT ![e] = fdc]
    /\ server_fd' = [server_fd EXCEPT ![e] = s]
    /\ requestCount' = [requestCount EXCEPT ![e] = 0]
    /\ client_handle' = [client_handle EXCEPT ![e] = ch]
    /\ server_handle' = [server_handle EXCEPT ![e] = sh]
    /\ registered' = [h \in Handle |->
          IF h = ch THEN [info |-> e, side |-> "client"]
          ELSE IF h = sh THEN [info |-> e, side |-> "server"]
          ELSE registered[h]]
    /\ request_in_db' = [request_in_db EXCEPT ![e] = r]
    /\ rows' = IF r THEN rows \cup {e} ELSE rows
    /\ infos' = infos \cup {e}
    /\ Touch(e)

\* accepting_request(): the server answers with a new descriptor.
Admit ==
    /\ pc["proxy"] = "admitting"
    /\ \E e \in Entry, s \in Lowest(Fd \ open), r \in BOOLEAN :
       \E ch \in AddEvent({}) :
       \E sh \in AddEvent({ch}) :
          AllocateConnectionInfo(e) /\ Establish(e, s, r, ch, sh)
    /\ fdc' = None
    /\ worker' = None
    /\ pc' = [pc EXCEPT !["proxy"] = "loop"]
    /\ UNCHANGED <<sweep, leaked, cur, terminated, ub>>

-----------------------------------------------------------------------------
(* The proxy thread: relaying.                                             *)

\* ev_looping(): one event whose descriptor is in the table is picked and its
\* handler is called with the args found there.
Dispatch ==
    /\ pc["proxy"] = "loop"
    /\ \E h \in Handle :
          /\ registered[h] # None
          /\ cur' = registered[h]
    /\ pc' = [pc EXCEPT !["proxy"] = "dispatched"]
    /\ UNCHANGED <<fields, table, kernel, sweep, idle, overdue, worker, fdc,
                   terminated, ub>>

\* do_proxying(): the entry has left the chain while the handler waited for
\* worker_mutex.
RelaySkip ==
    /\ pc["proxy"] = "dispatched"
    /\ worker = None
    /\ cur.info \notin infos
    /\ cur' = None
    /\ pc' = [pc EXCEPT !["proxy"] = "loop"]
    /\ UNCHANGED <<fields, table, kernel, sweep, idle, overdue, worker, fdc,
                   terminated, ub>>

\* do_proxying(): the entry is in the chain; recent is set, then the data read.
RelayBegin ==
    /\ pc["proxy"] = "dispatched"
    /\ worker = None
    /\ cur.info \in infos
    /\ worker' = "proxy"
    /\ Touch(cur.info)
    /\ pc' = [pc EXCEPT !["proxy"] = "relaying"]
    /\ UNCHANGED <<fields, table, kernel, sweep, fdc, cur, terminated, ub>>

\* Faulty: one more request gets through.
TooManyRequests_Late == cur.side = "client" /\ requestCount[cur.info] > MaxAllowedRequests + 1

\* The test that ends a connection with too many requests.
TooManyRequests == cur.side = "client" /\ requestCount[cur.info] > MaxAllowedRequests

CountRequest ==
    requestCount' = IF cur.side = "client"
                    THEN [requestCount EXCEPT ![cur.info] = @ + 1]
                    ELSE requestCount

RelayEnd ==
    /\ cur' = None
    /\ worker' = None
    /\ pc' = [pc EXCEPT !["proxy"] = "loop"]
    /\ UNCHANGED <<client_fd, server_fd, client_handle, server_handle, sweep,
                   idle, overdue, allocated, leaked, fdc, terminated, ub>>

\* do_proxying(): the data has been written to the other side.
RelayForward ==
    /\ pc["proxy"] = "relaying"
    /\ ~TooManyRequests
    /\ CountRequest
    /\ RelayEnd
    /\ UNCHANGED <<infos, pool, request_in_db, rows, open, registered>>

\* do_proxying(): the connection ends.  Either there is nothing to read, or the
\* client has sent too many requests, or (the request being counted) a write
\* fails.
RelayClose ==
    /\ pc["proxy"] = "relaying"
    /\ \/ UNCHANGED requestCount
       \/ ~TooManyRequests /\ CountRequest
    /\ Detach(cur.info)
    /\ CloseEvent(cur.info)
    /\ FreeConnectionInfo(cur.info)
    /\ RelayEnd

-----------------------------------------------------------------------------
(* clean_idle_connections(), run by the timer thread, and by the proxy      *)
(* thread (with timeout -1.0: every connection) when the program ends.      *)

\* The main thread's clock reaches the next minute: tv is read.
Tick ==
    /\ pc["timer"] = "sleep"
    /\ overdue' = idle
    /\ pc' = [pc EXCEPT !["timer"] = "snapshot"]
    /\ UNCHANGED <<fields, table, kernel, sweep, idle, worker, fdc, cur,
                   terminated, ub>>

\* proxy_main(): the loop ends and all connections are closed.
Stop ==
    /\ pc["proxy"] = "loop"
    /\ terminated
    /\ pc' = [pc EXCEPT !["proxy"] = "snapshot"]
    /\ UNCHANGED <<fields, table, kernel, sweep, idle, overdue, worker, fdc, cur,
                   terminated, ub>>

\* The orders in which the chain can be laid out.
Orders(S) ==
    {o \in [1 .. Cardinality(S) -> S] :
        \A j, k \in 1 .. Cardinality(S) : o[j] = o[k] => j = k}

\* Under info_mux the pointers of the chain are copied to expiring_holder.
Snapshot(t) ==
    /\ pc[t] = "snapshot"
    /\ n' = [n EXCEPT ![t] = Cardinality(infos)]
    /\ i' = [i EXCEPT ![t] = 1]
    /\ \E o \in Orders(infos) :
          expiring_holder' = [k \in Slots |->
             IF k <= Cardinality(infos) THEN o[k] ELSE expiring_holder[k]]
    /\ pc' = [pc EXCEPT ![t] = "scan"]
    /\ UNCHANGED <<fields, table, kernel, idle, overdue, worker, fdc, cur,
                   terminated, ub>>

\* duration > timeout, with `recent` read without any lock.
Due(t, e) == t = "proxy" \/ e \in overdue

SweepKeep(t) ==
    /\ pc[t] = "scan"
    /\ i[t] <= n[t]
    /\ ~Due(t, expiring_holder[i[t]])
    /\ i' = [i EXCEPT ![t] = @ + 1]
    /\ UNCHANGED <<fields, table, kernel, expiring_holder, n, idle, overdue,
                   worker, pc, fdc, cur, terminated, ub>>

\* The entry is overdue: the thread goes for worker_mutex.
SweepDue(t) ==
    /\ pc[t] = "scan"
    /\ i[t] <= n[t]
    /\ Due(t, expiring_holder[i[t]])
    /\ pc' = [pc EXCEPT ![t] = "due"]
    /\ UNCHANGED <<fields, table, kernel, sweep, idle, overdue, worker, fdc, cur,
                   terminated, ub>>

\* Faulty: the entry is closed without waiting for worker_mutex.
SweepExpire_NoLock(t) ==
    LET e == expiring_holder[i[t]] IN
    /\ pc[t] = "due"
    /\ \/ /\ e \in infos
          /\ Detach(e)
          /\ CloseEvent(e)
          /\ FreeConnectionInfo(e)
          /\ i' = [i EXCEPT ![t] = @ + 1]
          /\ pc' = [pc EXCEPT ![t] = "scan"]
          /\ UNCHANGED <<allocated, ub>>
       \/ /\ e \notin infos
          /\ ub' = TRUE
          /\ pc' = [u \in Thread |-> "undefined"]
          /\ UNCHANGED <<table, open, registered, i>>
    /\ UNCHANGED <<fields, leaked, expiring_holder, n, idle, overdue, worker, fdc,
                   cur, terminated>>

\* worker_mutex is free and the entry is closed, in the chain or not: nothing
\* is looked at again.  An entry that has left the chain since has had its
\* remote_ip freed by close_event(), which frees it again: the behaviour of the
\* program is undefined from here on, so both threads leave the model.
SweepExpire(t) ==
    LET e == expiring_holder[i[t]] IN
    /\ pc[t] = "due"
    /\ worker = None
    /\ \/ /\ e \in infos
          /\ Detach(e)
          /\ CloseEvent(e)
          /\ FreeConnectionInfo(e)
          /\ i' = [i EXCEPT ![t] = @ + 1]
          /\ pc' = [pc EXCEPT ![t] = "scan"]
          /\ UNCHANGED <<allocated, ub>>
       \/ /\ e \notin infos
          /\ ub' = TRUE
          /\ pc' = [u \in Thread |-> "undefined"]
          /\ UNCHANGED <<table, open, registered, i>>
    /\ UNCHANGED <<fields, leaked, expiring_holder, n, idle, overdue, worker, fdc,
                   cur, terminated>>

\* Faulty: the last entry of the array is left out.
SweepEnd_OneShort(t) ==
    /\ pc[t] = "scan"
    /\ i[t] >= n[t]
    /\ pc' = [pc EXCEPT ![t] = IF t = "timer" THEN "sleep" ELSE "stopped"]
    /\ UNCHANGED <<fields, table, kernel, sweep, idle, overdue, worker, fdc, cur,
                   terminated, ub>>

\* The array is done: the timer waits for the next minute, the proxy thread
\* removes the listener and ends.
SweepEnd(t) ==
    /\ pc[t] = "scan"
    /\ i[t] > n[t]
    /\ pc' = [pc EXCEPT ![t] = IF t = "timer" THEN "sleep" ELSE "stopped"]
    /\ UNCHANGED <<fields, table, kernel, sweep, idle, overdue, worker, fdc, cur,
                   terminated, ub>>

-----------------------------------------------------------------------------
(* The environment.                                                         *)

\* A connection sees no data for longer than expiring-timeout.
TimePasses ==
    /\ \E e \in allocated \ idle : idle' = idle \cup {e}
    /\ UNCHANGED <<fields, table, kernel, sweep, overdue, worker, pc, fdc, cur,
                   terminated, ub>>

\* system_conf->terminate(): a signal that is not taken by the main thread.
Terminate ==
    /\ ~terminated
    /\ terminated' = TRUE
    /\ UNCHANGED <<fields, table, kernel, sweep, idle, overdue, worker, pc, fdc,
                   cur, ub>>

\* After a double free nothing is claimed of the program.
Undefined == ub /\ UNCHANGED vars

-----------------------------------------------------------------------------
Init ==
    /\ infos = {} /\ pool = <<>> /\ allocated = {}
    /\ client_fd = [e \in Entry |-> None] /\ server_fd = [e \in Entry |-> None]
    /\ client_handle = [e \in Entry |-> None]
    /\ server_handle = [e \in Entry |-> None]
    /\ request_in_db = [e \in Entry |-> FALSE]
    /\ requestCount = [e \in Entry |-> 0]
    /\ idle = {} /\ overdue = {}
    /\ open = {} /\ leaked = {}
    /\ registered = [h \in Handle |-> None]
    /\ rows = {}
    /\ worker = None
    /\ pc = [t \in Thread |-> IF t = "proxy" THEN "loop" ELSE "sleep"]
    /\ fdc = None /\ cur = None
    /\ expiring_holder = [k \in Slots |-> None]
    /\ n = [t \in Thread |-> 0] /\ i = [t \in Thread |-> 1]
    /\ terminated = FALSE
    /\ ub = FALSE

AcceptStep == Accept \/ PeerGone \/ AcceptLock \/ Drop \/ Admit
RelayStep  == Dispatch \/ RelaySkip \/ RelayBegin \/ RelayForward \/ RelayClose
SweepStep(t) ==
    Snapshot(t) \/ SweepKeep(t) \/ SweepDue(t) \/ SweepExpire(t) \/ SweepEnd(t)

Next ==
    \/ AcceptStep
    \/ RelayStep
    \/ Tick
    \/ Stop
    \/ \E t \in Thread : SweepStep(t)
    \/ TimePasses
    \/ Terminate
    \/ Undefined

Spec == Init /\ [][Next]_vars
-----------------------------------------------------------------------------
(* Properties.                                                              *)

PoolEntries == {pool[k] : k \in 1 .. Len(pool)}

\* Only malloc'ed entries are in the chain and in the free list, and every field has
\* its type.
TypeOK ==
    /\ infos \subseteq allocated /\ allocated \subseteq Entry
    /\ pool \in Seq(allocated)
    /\ client_fd \in [Entry -> Fd \cup {None}]
    /\ server_fd \in [Entry -> Fd \cup {None}]
    /\ client_handle \in [Entry -> Handle \cup {None}]
    /\ server_handle \in [Entry -> Handle \cup {None}]
    /\ request_in_db \in [Entry -> BOOLEAN]
    /\ requestCount \in [Entry -> Nat]
    /\ idle \subseteq Entry /\ overdue \subseteq Entry
    /\ open \subseteq Fd /\ leaked \subseteq Fd
    /\ registered \in [Handle -> Event \cup {None}]
    /\ rows \subseteq Entry
    /\ worker \in {"proxy", None}
    /\ pc \in [Thread -> {"loop", "accepted", "admitting", "dispatched", "relaying",
                          "sleep", "snapshot", "scan", "due", "stopped", "undefined"}]
    /\ fdc \in Fd \cup {None}
    /\ cur \in Event \cup {None}
    /\ expiring_holder \in [Slots -> Entry \cup {None}]
    /\ n \in [Thread -> Nat] /\ i \in [Thread -> Nat]
    /\ terminated \in BOOLEAN /\ ub \in BOOLEAN

\* Until a double close, every malloc'ed entry is in the chain or in the free list
\* and never in both, and no entry is in the free list twice: neither the reuse of
\* an entry that a sweep still points to, nor two sweeps over one array, breaks the
\* two lists (attach, detach, allocate and free_connection_info).
EntryInOnePlace ==
    ~ub => /\ \A j, k \in 1 .. Len(pool) : pool[j] = pool[k] => j = k
           /\ infos \cap PoolEntries = {}
           /\ allocated = infos \cup PoolEntries

\* Until a double close, every open descriptor has one owner: the connection being
\* accepted, one side of one connection of the chain, or nobody when connect_host()
\* has leaked it; and no connection of the chain has a closed descriptor, so a relay
\* never reads or writes another connection's socket.
DescriptorsOwned ==
    ~ub => /\ open = leaked \cup ({fdc} \ {None})
                     \cup {client_fd[e] : e \in infos} \cup {server_fd[e] : e \in infos}
           /\ fdc \notin leaked
           /\ \A e \in infos :
                /\ client_fd[e] # server_fd[e]
                /\ {client_fd[e], server_fd[e]} \cap (leaked \cup {fdc, None}) = {}
                /\ \A d \in infos \ {e} :
                     {client_fd[e], server_fd[e]} \cap {client_fd[d], server_fd[d]} = {}

\* The event that handle h of entry e stands for.
Owns(e, h, side) ==
    h = IF side = "client" THEN client_handle[e] ELSE server_handle[e]

\* Until a double close, the event table holds exactly the events of the connections
\* of the chain: no event of a closed connection stays behind to be dispatched with a
\* freed entry, and closing one connection never removes the event of another one.
EventsOwned ==
    ~ub => \A h \in Handle, e \in Entry, side \in Side :
             registered[h] = [info |-> e, side |-> side] <=> e \in infos /\ Owns(e, h, side)

\* Until a double close, the rows of table connections without an end time are those
\* of the connections of the chain that came with a request: connection_close() is
\* called for every row exactly once.
RowsOfConnections ==
    ~ub => rows = {e \in infos : request_in_db[e]}

\* While the proxy thread relays for an entry (and may block in write()), no sweep
\* takes the entry away: the entry stays in the chain with its events and sockets.
RelayedIsLive ==
    pc["proxy"] = "relaying" => worker = "proxy" /\ cur # None /\ cur.info \in infos

\* What the place of the proxy thread says about the lock and its locals: it holds
\* worker_mutex exactly where the code is between lock and unlock, and it has a
\* descriptor, or an event, exactly while it accepts, or relays.
ProxyControl ==
    /\ worker = "proxy" <=> pc["proxy"] \in {"admitting", "relaying"}
    /\ pc["proxy"] \in {"accepted", "admitting"} => fdc \in Fd
    /\ pc["proxy"] \in {"dispatched", "relaying"} => cur \in Event
    /\ ~ub /\ pc["proxy"] \notin {"accepted", "admitting"} => fdc = None

\* At most one request more than max-allowed-requests is relayed per connection
\* (do_proxying() counts a request after it has tested the count).
RequestBound ==
    \A e \in Entry : requestCount[e] <= MaxAllowedRequests + 1

\* What the configuration promises of expiring-timeout: when the timer is about to
\* close a connection (SweepExpire is enabled), the connection is open and has been
\* idle for longer than that.
ExpiredWasIdle ==
    pc["timer"] = "due" /\ worker = None =>
        expiring_holder[i["timer"]] \in infos \cap idle

\* The timer thread runs, and a mutex that is free again and again is obtained in
\* the end.  Nothing is assumed of the proxy thread: connect(), write() and the
\* database may block it for ever.
Fairness ==
    /\ WF_vars(Tick)
    /\ WF_vars(Snapshot("timer") \/ SweepKeep("timer") \/ SweepDue("timer")
                 \/ SweepEnd("timer"))
    /\ SF_vars(SweepExpire("timer"))

FairSpec == Spec /\ Fairness

\* A connection that stays idle is closed in the end (clean_idle_connections), unless
\* the proxy thread never gives worker_mutex back; this holds for a connection whose
\* events could not be added, too, and for one the sweep first took for active.
IdleExpires ==
    \A e \in Entry :
        <>[](e \in infos /\ e \in idle) => <>[](worker = "proxy" \/ ub)
=============================================================================
