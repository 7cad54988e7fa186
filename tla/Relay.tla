------------------------------- MODULE Relay -------------------------------
(***************************************************************************)
(* The data path of src/src/proxying.c: do_proxying() reads from one socket *)
(* of a connection and writes to the other one, with blocking calls and with *)
(* worker_mutex held, while the timer's sweep waits for that mutex. Bytes   *)
(* are numbered in the order their sender sends them. The kernel keeps up to *)
(* Window bytes that a peer has not read. A write to a connection that the  *)
(* peer has reset fails; when the peer had closed it before, the write also *)
(* raises SIGPIPE, which nothing in the program handles. The lists, events  *)
(* and rows of a connection are the subject of module Proxying.             *)
(***************************************************************************)
EXTENDS Naturals, Sequences, FiniteSetsExt

CONSTANTS Conn, None,
          Chunk, Window,      \* sizeof buffer, and what the kernel holds for a peer
          MaxAllowedRequests, \* max-allowed-requests
          MaxBytes            \* bound on the bytes a peer sends

Side == {"client", "server"}
Other(s) == IF s = "client" THEN "server" ELSE "client"

\* The locals of the write loop.
Job == [c: Conn, from: Side, buffer: Seq(Conn \X Nat), total: Nat, left: Nat]

RelayAssumption ==
    /\ None \notin Conn \cup Job
    /\ {Chunk, Window} \subseteq Nat \ {0} /\ {MaxAllowedRequests, MaxBytes} \subseteq Nat

VARIABLES
    peer,     \* c, side -> "open", "half" (sends no more), "closed", "reset", "dead" (answers RST)
    sent,     \* c, side -> number of bytes sent by the peer
    seen,     \* c, side -> number of these that do_proxying() has read
    got,      \* c, side -> the bytes written to the peer's socket
    taken,    \* c, side -> number of these that the peer has read
    conn,     \* c -> "open", "closed", or the side whose orderly end closed it
    count,    \* c, side -> bytesSent, bytesReceived
    requests, \* c -> requestCount
    job,      \* the write loop: [c, from, buffer, total, left], or None
    idle,     \* connections whose `recent` is older than expiring-timeout
    expiring, \* the connection the sweep waits to close, or None
    process   \* "alive" or "killed" by SIGPIPE

peerVars == <<peer, sent, taken>>
dataVars == <<seen, got, count, requests>>
vars == <<peerVars, dataVars, conn, job, idle, expiring, process>>

Zero == [c \in Conn |-> [s \in Side |-> 0]]

Init ==
    /\ peer = [c \in Conn |-> [s \in Side |-> "open"]]
    /\ sent = Zero /\ seen = Zero /\ taken = Zero /\ count = Zero
    /\ got = [c \in Conn |-> [s \in Side |-> <<>>]]
    /\ conn = [c \in Conn |-> "open"] /\ requests = [c \in Conn |-> 0]
    /\ job = None /\ idle = {} /\ expiring = None /\ process = "alive"

Alive == process = "alive"
Room(c, s) == Window - (Len(got[c][s]) - taken[c][s])

-----------------------------------------------------------------------------
(* The peers                                                                *)

Send(c, s) ==
    /\ Alive /\ conn[c] = "open" /\ peer[c][s] = "open" /\ sent[c][s] < MaxBytes
    /\ sent' = [sent EXCEPT ![c][s] = @ + 1]
    /\ UNCHANGED <<peer, taken, dataVars, conn, job, idle, expiring, process>>

Take(c, s) ==
    /\ peer[c][s] \in {"open", "half"} /\ taken[c][s] < Len(got[c][s])
    /\ taken' = [taken EXCEPT ![c][s] = @ + 1]
    /\ UNCHANGED <<peer, sent, dataVars, conn, job, idle, expiring, process>>

\* shutdown(), close() and a reset by the peer; close() with unread data is a reset.
Leave(c, s) ==
    /\ Alive /\ conn[c] = "open"
    /\ \E p \in {"half", "closed", "reset"} :
        /\ \/ peer[c][s] = "open"
           \/ peer[c][s] = "half" /\ p # "half"
        /\ p = "closed" => taken[c][s] = Len(got[c][s])
        /\ peer' = [peer EXCEPT ![c][s] = IF p = "reset" /\ @ = "half" THEN "dead" ELSE p]
    /\ UNCHANGED <<sent, taken, dataVars, conn, job, idle, expiring, process>>

-----------------------------------------------------------------------------
(* The proxy thread: do_proxying()                                          *)

CloseConnection(c, how) == conn' = [conn EXCEPT ![c] = how]

\* The bytes read() returns: all there are, up to the size of the buffer.
Input(c, s) == [i \in 1 .. Min({Chunk, sent[c][s] - seen[c][s]}) |-> <<c, seen[c][s] + i>>]

TooManyRequests(c, s) == s = "client" /\ requests[c] > MaxAllowedRequests

\* epoll has reported the socket of c on side s, and the handler has got worker_mutex.
Reads(c, s) ==
    /\ Alive /\ job = None /\ conn[c] = "open"
    /\ idle' = idle \ {c}

Read(c, s) ==
    /\ Reads(c, s) /\ seen[c][s] < sent[c][s]
    /\ seen' = [seen EXCEPT ![c][s] = @ + Len(Input(c, s))]
    /\ IF TooManyRequests(c, s)
       THEN CloseConnection(c, "closed") /\ UNCHANGED job
       ELSE /\ job' = [c |-> c, from |-> s, buffer |-> Input(c, s), total |-> 0,
                       left |-> Len(Input(c, s))]
            /\ UNCHANGED conn
    /\ UNCHANGED <<peerVars, got, count, requests, expiring, process>>

ReadEnd_First(c, s) ==
    /\ Reads(c, s) /\ peer[c][s] # "open"
    /\ CloseConnection(c, IF peer[c][s] \in {"half", "closed"} THEN s ELSE "closed")
    /\ UNCHANGED <<peerVars, dataVars, job, expiring, process>>

\* read() returns 0 or -1: both sockets are closed.
ReadEnd(c, s) ==
    /\ Reads(c, s) /\ seen[c][s] = sent[c][s] /\ peer[c][s] # "open"
    /\ CloseConnection(c, IF peer[c][s] \in {"half", "closed"} THEN s ELSE "closed")
    /\ UNCHANGED <<peerVars, dataVars, job, expiring, process>>

Written_Length(n) ==
    /\ count' = [count EXCEPT ![job.c][job.from] = @ + Len(job.buffer)]
    /\ requests' = IF job.from = "client" THEN [requests EXCEPT ![job.c] = @ + 1] ELSE requests
    /\ job' = None

\* The loop is left after n bytes.
Written(n) ==
    /\ count' = [count EXCEPT ![job.c][job.from] = @ + n]
    /\ requests' = IF job.from = "client" THEN [requests EXCEPT ![job.c] = @ + 1] ELSE requests
    /\ job' = None

\* write() accepts k bytes from &buffer[writeTotal] on.
Accepted_FromStart(k) == SubSeq(job.buffer, 1, k)
Accepted(k) == SubSeq(job.buffer, job.total + 1, job.total + k)

Progress_OneWrite(k) == Written(job.total + k)

Progress_Stuck(k) ==
    /\ job' = [job EXCEPT !.total = @ + k, !.left = @ - k]
    /\ UNCHANGED <<count, requests>>

Progress(k) ==
    IF k = job.left THEN Written(job.total + k)
    ELSE job' = [job EXCEPT !.total = @ + k, !.left = @ - k] /\ UNCHANGED <<count, requests>>

\* write() waits for room; it returns less than asked for when a signal comes in between.
Write ==
    /\ Alive /\ job # None
    /\ LET c == job.c  d == Other(job.from) IN
       \E k \in 1 .. Min({job.left, Room(c, d)}) :
        /\ peer[c][d] # "reset"
        /\ got' = [got EXCEPT ![c][d] = @ \o Accepted(k)]
        /\ peer' = IF peer[c][d] = "closed" THEN [peer EXCEPT ![c][d] = "dead"] ELSE peer
        /\ Progress(k)
    /\ UNCHANGED <<sent, taken, seen, conn, idle, expiring, process>>

WriteFails ==
    /\ Alive /\ job # None /\ peer[job.c][Other(job.from)] = "reset"
    /\ Written(job.total) /\ CloseConnection(job.c, "closed")
    /\ UNCHANGED <<peerVars, seen, got, idle, expiring, process>>

\* The peer's RST has come after its FIN.
BrokenPipe ==
    /\ Alive /\ job # None /\ peer[job.c][Other(job.from)] = "dead"
    /\ process' = "killed"
    /\ UNCHANGED <<peerVars, dataVars, conn, job, idle, expiring>>

-----------------------------------------------------------------------------
(* The timer: clean_idle_connections()                                      *)

GetsIdle(c) ==
    /\ Alive /\ conn[c] = "open" /\ c \notin idle
    /\ idle' = idle \cup {c}
    /\ UNCHANGED <<peerVars, dataVars, conn, job, expiring, process>>

\* The idle time is computed before worker_mutex is asked for.
FindIdle ==
    /\ Alive /\ expiring = None
    /\ \E c \in idle : conn[c] = "open" /\ expiring' = c
    /\ UNCHANGED <<peerVars, dataVars, conn, job, idle, process>>

Expire_Gone ==
    /\ Alive /\ expiring # None /\ job = None
    /\ expiring' = None
    /\ UNCHANGED <<peerVars, dataVars, conn, job, idle, process>>

Expire ==
    /\ Alive /\ expiring # None /\ job = None
    /\ conn' = [conn EXCEPT ![expiring] = IF @ = "open" THEN "closed" ELSE @]
    /\ expiring' = None
    /\ UNCHANGED <<peerVars, dataVars, job, idle, process>>

-----------------------------------------------------------------------------
ProxyStep ==
    \/ \E c \in Conn, s \in Side : Read(c, s) \/ ReadEnd(c, s)
    \/ Write \/ WriteFails \/ BrokenPipe

TimerStep == FindIdle \/ Expire

Next ==
    \/ ProxyStep \/ TimerStep
    \/ \E c \in Conn : GetsIdle(c) \/ \E s \in Side : Send(c, s) \/ Take(c, s) \/ Leave(c, s)

Spec == Init /\ [][Next]_vars

\* The two threads go on, and a peer that has not closed the connection reads what comes; peers
\* need not send.
Fairness ==
    /\ WF_vars(ProxyStep) /\ WF_vars(TimerStep)
    /\ \A c \in Conn, s \in Side : WF_vars(Take(c, s))

FairSpec == Spec /\ Fairness

-----------------------------------------------------------------------------
(* Properties                                                               *)

TypeOK ==
    /\ peer \in [Conn -> [Side -> {"open", "half", "closed", "reset", "dead"}]]
    /\ conn \in [Conn -> Side \cup {"open", "closed"}]
    /\ {job} \subseteq {None} \cup [c: Conn, from: Side, buffer: Seq(Conn \X (1 .. MaxBytes)),
                                    total: 0 .. Chunk, left: 1 .. Chunk]
    /\ job # None => conn[job.c] = "open" /\ job.total + job.left = Len(job.buffer)
    /\ expiring \in Conn \cup {None} /\ idle \subseteq Conn /\ process \in {"alive", "killed"}

\* What reaches a peer is what the other peer of the same connection has sent, every byte once
\* and in order, however read() and write() cut it into pieces.
InOrder ==
    \A c \in Conn, s \in Side :
        /\ \A i \in DOMAIN got[c][s] : got[c][s][i] = <<c, i>>
        /\ Len(got[c][s]) <= sent[c][Other(s)]

\* As long as the connection is open every byte read has been written, or is still to be
\* written by the loop.
NothingDropped ==
    \A c \in Conn, s \in Side :
        conn[c] = "open" =>
            seen[c][s] = Len(got[c][Other(s)])
                         + (IF job # None /\ job.c = c /\ job.from = s THEN job.left ELSE 0)

\* A peer that has sent its data and then ended its side in order has all of it relayed before
\* the connection is closed for that reason.
EndAfterData ==
    \A c \in Conn : conn[c] \in Side => Len(got[c][Other(conn[c])]) = sent[c][conn[c]]

\* bytesSent and bytesReceived, which are logged and stored in the database, are the bytes that
\* were written, also when a write failed half way.
CountsWritten ==
    \A c \in Conn, s \in Side :
        count[c][s] + (IF job # None /\ job.c = c /\ job.from = s THEN job.total ELSE 0)
            = Len(got[c][Other(s)])

\* Everything a peer sends reaches the other one, or the connection ends.
Delivered ==
    \A c \in Conn, s \in Side :
        []<>(Len(got[c][Other(s)]) = sent[c][s] \/ conn[c] # "open" \/ ~Alive)

\* A connection that is idle for longer than expiring-timeout is closed, or is active again.
IdleExpires ==
    \A c \in Conn : (c \in idle) ~> (c \notin idle \/ conn[c] # "open" \/ ~Alive)

\* do_proxying() hands every byte on once and in order, drops none while the connection is
\* open and relays the data of a peer before its orderly end closes the connection; the byte
\* counters are the bytes written.
RelaySafe == TypeOK /\ InOrder /\ NothingDropped /\ EndAfterData /\ CountsWritten
=============================================================================
