----------------------------- MODULE MCProxying -----------------------------
(* Proxying for TLC.  Entries are interchangeable; descriptors and handles are  *)
(* numbers and are not.  The view leaves out the values no step can read any    *)
(* more: fields of an entry that is not in the chain, and the array, the        *)
(* counters and the time of a sweep that is over.                               *)
EXTENDS Proxying, TLC

Symmetry == Permutations(Entry)

Sweeping(t) == pc[t] \in {"scan", "due"}

ArrayInUse == {k \in Slots : \E t \in Thread : Sweeping(t) /\ i[t] <= k /\ k <= n[t]}

View ==
    << infos, pool, allocated, rows, open, leaked, registered, worker, pc, fdc, cur,
       terminated, ub, idle \cap infos,
       [e \in infos |-> <<client_fd[e], server_fd[e], client_handle[e],
                          server_handle[e], requestCount[e], request_in_db[e]>>],
       IF pc["timer"] = "sleep" THEN {} ELSE overdue,
       [k \in ArrayInUse |-> expiring_holder[k]],
       [t \in {u \in Thread : Sweeping(u)} |-> <<n[t], i[t]>>] >>
=============================================================================
