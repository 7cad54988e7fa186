------------------------------ MODULE MCTimer ------------------------------
(***************************************************************************)
(* For TLC: what main() and its timer bring about. Either the four threads  *)
(* of Lifecycle run, or the connections of Proxying under fairness, in two  *)
(* sizes: one connection with none, one or both of its events, and two      *)
(* connections while the event table is full, so that none has an event.    *)
(* `size` says which; what does not run rests in one initial state.         *)
(***************************************************************************)
EXTENDS Lifecycle, Integers, Sequences, FiniteSets

CONSTANTS e1, e2, Fd, None

VARIABLES
    size, \* "one" or "two" connections, or "none": the threads
    infos, pool, allocated, client_fd, server_fd, client_handle, server_handle, request_in_db,
    requestCount, idle, fds, leaked, registered, rows, worker, pc, fdc, cur, expiring_holder,
    n, i, overdue, terminated, ub

connections == <<infos, pool, allocated, client_fd, server_fd, client_handle, server_handle,
                 request_in_db, requestCount, idle, fds, leaked, registered, rows, worker, pc,
                 fdc, cur, expiring_holder, n, i, overdue, terminated, ub>>
all == <<size, vars, connections>>

One == INSTANCE Proxying WITH Entry <- {e1}, Handle <- {1, 2}, MaxAllowedRequests <- 0,
    open <- fds
Two == INSTANCE Proxying WITH Entry <- {e1, e2}, Handle <- {}, MaxAllowedRequests <- 0,
    open <- fds

AllInit ==
    /\ Init
    /\ \/ size = "one" /\ One!Init /\ ~socket
       \/ size = "two" /\ Two!Init /\ ~socket
       \/ size = "none" /\ One!Init

Connections == UNCHANGED <<size, vars>>

AllNext ==
    \/ size = "one" /\ One!Next /\ Connections
    \/ size = "two" /\ Two!Next /\ Connections
    \/ size = "none" /\ Next /\ UNCHANGED <<size, connections>>

\* The fairness of Proxying
Examines ==
    \/ size = "one" /\ Connections
       /\ (One!Snapshot("timer") \/ One!SweepKeep("timer") \/ One!SweepDue("timer")
             \/ One!SweepEnd("timer"))
    \/ size = "two" /\ Connections
       /\ (Two!Snapshot("timer") \/ Two!SweepKeep("timer") \/ Two!SweepDue("timer")
             \/ Two!SweepEnd("timer"))

AllFair ==
    /\ WF_all(\/ size = "one" /\ Connections /\ One!Tick
              \/ size = "two" /\ Connections /\ Two!Tick)
    /\ WF_all(Examines)
    /\ SF_all(\/ size = "one" /\ Connections /\ One!SweepExpire("timer")
              \/ size = "two" /\ Connections /\ Two!SweepExpire("timer"))

AllSpec == AllInit /\ [][AllNext]_all /\ AllFair

\* A connection that stays idle is closed in the end by clean_idle_connections(), unless the
\* proxy thread never gives worker_mutex back.
IdleExpires == Two!IdleExpires
=============================================================================
