----------------------------- MODULE ThreadProofs -----------------------------
(* Proofs about the components of MCThreads whose threads meet, each for itself and for any    *)
(* values of its constants: the data path (Relay), the plugin that the worker and the command  *)
(* thread share (PacketAnalyzer), the loggers (Logging), and the sessions of the command       *)
(* interface (CommandSession).                                                                 *)
EXTENDS MCThreads, FiniteSetTheorems, SequenceTheorems, TLAPS

-----------------------------------------------------------------------------
(* The data path, for any connections, sizes of the buffer and of the kernel's window, limits  *)
(* of requests and numbers of bytes.                                                           *)

Pending(c, s) == IF job # None /\ job.c = c /\ job.from = s THEN job.left ELSE 0
Passed(c, s)  == IF job # None /\ job.c = c /\ job.from = s THEN job.total ELSE 0

Numbers ==
    /\ sent \in [Conn -> [Side -> Nat]] /\ seen \in [Conn -> [Side -> Nat]]
    /\ taken \in [Conn -> [Side -> Nat]] /\ count \in [Conn -> [Side -> Nat]]
    /\ requests \in [Conn -> Nat]

States ==
    /\ peer \in [Conn -> [Side -> {"open", "half", "closed", "reset", "dead"}]]
    /\ conn \in [Conn -> Side \cup {"open", "closed"}]
    /\ expiring \in Conn \cup {None} /\ idle \subseteq Conn /\ process \in {"alive", "killed"}

\* The buffer of the write loop holds the bytes read last.
Loop ==
    job # None =>
        /\ job \in Job
        /\ conn[job.c] = "open"
        /\ job.total + job.left = Len(job.buffer)
        /\ job.left >= 1 /\ Len(job.buffer) <= Chunk
        /\ \A i \in 1 .. Len(job.buffer) :
              job.buffer[i] = <<job.c, seen[job.c][job.from] - Len(job.buffer) + i>>

\* The bytes of one direction: sent, read, waiting in the buffer, written and counted.
Stream(c, s) ==
    /\ seen[c][s] <= sent[c][s] /\ sent[c][s] <= MaxBytes
    /\ Len(got[c][Other(s)]) <= seen[c][s]
    /\ conn[c] = "open" => seen[c][s] = Len(got[c][Other(s)]) + Pending(c, s)
    /\ count[c][s] + Passed(c, s) = Len(got[c][Other(s)])
    /\ \A i \in 1 .. Len(got[c][Other(s)]) : got[c][Other(s)][i] = <<c, i>>
    /\ conn[c] = s => Len(got[c][Other(s)]) = sent[c][s]

\* The inductive invariant.
IInv ==
    /\ Numbers /\ States
    /\ got \in [Conn -> [Side -> Seq(Conn \X Nat)]]
    /\ Loop
    /\ \A c \in Conn, s \in Side : Stream(c, s)

-----------------------------------------------------------------------------
LEMMA Sides ==
    ASSUME NEW s \in Side
    PROVE  Other(s) \in Side /\ Other(s) # s /\ Other(Other(s)) = s
BY DEF Side, Other

LEMMA MinOfTwo ==
    ASSUME NEW a \in Int, NEW b \in Int
    PROVE  Min({a, b}) \in Int /\ Min({a, b}) <= a /\ Min({a, b}) <= b /\ Min({a, b}) \in {a, b}
<1>1. \E x \in {a, b} : \A y \in {a, b} : x =< y
  <2>1. CASE a <= b
    BY <2>1
  <2>2. CASE b <= a
    BY <2>2
  <2> QED
    BY <2>1, <2>2
<1>2. Min({a, b}) \in {a, b} /\ \A y \in {a, b} : Min({a, b}) =< y
  BY <1>1 DEF Min
<1> QED
  BY <1>2

\* g is the array f, which has an entry per connection and side, with one entry changed.
Put(g, f, c, s, v) == g = [f EXCEPT ![c][s] = v]

Changed(g, f, c, s, v) ==
    /\ g[c][s] = v
    /\ \A d \in Conn, t \in Side : ~(d = c /\ t = s) => g[d][t] = f[d][t]

LEMMA PutNumber ==
    ASSUME NEW f \in [Conn -> [Side -> Nat]], NEW c \in Conn, NEW s \in Side, NEW v \in Nat,
           NEW g, Put(g, f, c, s, v)
    PROVE  g \in [Conn -> [Side -> Nat]] /\ Changed(g, f, c, s, v)
BY DEF Put, Changed

LEMMA PutBytes ==
    ASSUME NEW f \in [Conn -> [Side -> Seq(Conn \X Nat)]], NEW c \in Conn, NEW s \in Side,
           NEW v \in Seq(Conn \X Nat), NEW g, Put(g, f, c, s, v)
    PROVE  g \in [Conn -> [Side -> Seq(Conn \X Nat)]] /\ Changed(g, f, c, s, v)
BY DEF Put, Changed

LEMMA PutPeer ==
    ASSUME States, NEW c \in Conn, NEW s \in Side,
           NEW v \in {"open", "half", "closed", "reset", "dead"}, Put(peer', peer, c, s, v)
    PROVE  peer' \in [Conn -> [Side -> {"open", "half", "closed", "reset", "dead"}]]
BY DEF Put, States

LEMMA Sizes ==
    ASSUME RelayAssumption
    PROVE  Chunk \in Nat /\ Chunk >= 1 /\ Window \in Nat /\ MaxBytes \in Nat /\ None \notin Job
BY DEF RelayAssumption

\* The type of every entry.
LEMMA Entries ==
    ASSUME IInv, NEW c \in Conn, NEW s \in Side
    PROVE  /\ sent[c][s] \in Nat /\ seen[c][s] \in Nat /\ taken[c][s] \in Nat
           /\ count[c][s] \in Nat /\ requests[c] \in Nat
           /\ got[c][s] \in Seq(Conn \X Nat) /\ Len(got[c][s]) \in Nat
           /\ got[c][Other(s)] \in Seq(Conn \X Nat) /\ Len(got[c][Other(s)]) \in Nat
           /\ Stream(c, s)
<1>1. got[c][s] \in Seq(Conn \X Nat) /\ got[c][Other(s)] \in Seq(Conn \X Nat)
  BY Sides DEF IInv
<1>2. Len(got[c][s]) \in Nat /\ Len(got[c][Other(s)]) \in Nat
  BY <1>1, LenProperties
<1> QED
  BY <1>1, <1>2 DEF IInv, Numbers

\* What the bytes of a direction depend on.
LEMMA SameStream ==
    ASSUME NEW c \in Conn, NEW s \in Side, Stream(c, s),
           seen'[c][s] = seen[c][s], sent'[c][s] = sent[c][s], conn'[c] = conn[c],
           got'[c][Other(s)] = got[c][Other(s)], count'[c][s] = count[c][s],
           Pending(c, s)' = Pending(c, s), Passed(c, s)' = Passed(c, s)
    PROVE  Stream(c, s)'
BY DEF Stream

\* Steps that move no byte: Take, Leave, BrokenPipe, GetsIdle, FindIdle, stuttering.
LEMMA Quiet ==
    ASSUME IInv, Numbers', States',
           UNCHANGED <<sent, seen, got, count, conn, job>>
    PROVE  IInv'
<1> USE DEF IInv
<1>1. Loop'
  BY DEF Loop
<1>2. ASSUME NEW c \in Conn, NEW s \in Side PROVE Stream(c, s)'
  BY DEF Stream, Pending, Passed
<1> QED
  BY <1>1, <1>2

LEMMA InitInv ==
    ASSUME RelayAssumption, Init
    PROVE  IInv
<1> USE DEF RelayAssumption, Init, Zero
<1>1. Numbers /\ States /\ Loop
  BY DEF Numbers, States, Loop
<1>2. got \in [Conn -> [Side -> Seq(Conn \X Nat)]]
  BY EmptySeq
<1>3. ASSUME NEW c \in Conn, NEW s \in Side PROVE Stream(c, s)
  <2>1. Other(s) \in Side /\ s \notin {"open", "closed"}
    BY Sides DEF Side
  <2>2. got[c][Other(s)] = <<>> /\ Len(got[c][Other(s)]) = 0
    BY <2>1
  <2> QED
    BY <2>1, <2>2 DEF Stream, Pending, Passed
<1> QED
  BY <1>1, <1>2, <1>3 DEF IInv

LEMMA SendInv ==
    ASSUME RelayAssumption, IInv, NEW c \in Conn, NEW s \in Side, Send(c, s)
    PROVE  IInv'
<1> USE DEF IInv, Send, dataVars
<1>0. Put(sent', sent, c, s, sent[c][s] + 1) /\ sent[c][s] + 1 \in Nat
  BY Entries DEF Put
<1>u. /\ sent' \in [Conn -> [Side -> Nat]] /\ sent'[c][s] = sent[c][s] + 1
      /\ \A d \in Conn, t \in Side : ~(d = c /\ t = s) => sent'[d][t] = sent[d][t]
  BY <1>0, PutNumber DEF Numbers, Changed
<1>1. Numbers' /\ States' /\ Loop'
  BY <1>u DEF Numbers, States, Loop
<1>2. ASSUME NEW d \in Conn, NEW t \in Side PROVE Stream(d, t)'
  <2>0. Stream(d, t) /\ Pending(d, t)' = Pending(d, t) /\ Passed(d, t)' = Passed(d, t)
    BY DEF Pending, Passed
  <2>1. CASE d = c /\ t = s
    <3>1. sent'[c][s] = sent[c][s] + 1 /\ sent[c][s] \in Nat /\ seen[c][s] \in Nat
      BY <1>u, Entries
    <3>2. conn[c] # s /\ sent[c][s] < MaxBytes
      BY DEF Side
    <3> QED
      BY <2>0, <2>1, <3>1, <3>2, Sizes, SMTT(30) DEF Stream
  <2>2. CASE ~(d = c /\ t = s)
    <3>1. sent'[d][t] = sent[d][t]
      BY <2>2, <1>u
    <3> QED
      BY <2>0, <3>1, SameStream
  <2> QED
    BY <2>1, <2>2
<1> QED
  BY <1>1, <1>2

LEMMA PeerInv ==
    ASSUME IInv, NEW c \in Conn, NEW s \in Side, Take(c, s) \/ Leave(c, s)
    PROVE  IInv'
<1> USE DEF dataVars
<1>1. CASE Take(c, s)
  <2>1. Put(taken', taken, c, s, taken[c][s] + 1) /\ taken[c][s] + 1 \in Nat
    BY <1>1, Entries DEF Put, Take
  <2>2. taken' \in [Conn -> [Side -> Nat]]
    BY <2>1, PutNumber DEF IInv, Numbers
  <2>3. Numbers' /\ States' /\ UNCHANGED <<sent, seen, got, count, conn, job>>
    BY <1>1, <2>2 DEF Take, IInv, Numbers, States
  <2> QED
    BY <2>3, Quiet
<1>2. CASE Leave(c, s)
  <2>1. \E q \in {"open", "half", "closed", "reset", "dead"} : Put(peer', peer, c, s, q)
    BY <1>2 DEF Put, Leave
  <2>2. peer' \in [Conn -> [Side -> {"open", "half", "closed", "reset", "dead"}]]
    BY <2>1, PutPeer DEF IInv
  <2>3. Numbers' /\ States' /\ UNCHANGED <<sent, seen, got, count, conn, job>>
    BY <1>2, <2>2 DEF Leave, IInv, Numbers, States
  <2> QED
    BY <2>3, Quiet
<1> QED
  BY <1>1, <1>2

LEMMA IdleInv ==
    ASSUME IInv, BrokenPipe \/ FindIdle \/ \E c \in Conn : GetsIdle(c)
    PROVE  IInv'
<1> USE DEF BrokenPipe, FindIdle, GetsIdle, peerVars, dataVars
<1>1. Numbers' /\ UNCHANGED <<sent, seen, got, count, conn, job>>
  BY DEF IInv, Numbers
<1>2. States'
  BY DEF IInv, States
<1> QED
  BY <1>1, <1>2, Quiet

\* read() returns as many bytes as there are, up to the size of the buffer: at least one.
LEMMA InputProperties ==
    ASSUME RelayAssumption, Numbers, NEW c \in Conn, NEW s \in Side, seen[c][s] < sent[c][s]
    PROVE  /\ Input(c, s) \in Seq(Conn \X Nat)
           /\ Len(Input(c, s)) \in Nat /\ Len(Input(c, s)) >= 1
           /\ Len(Input(c, s)) <= Chunk /\ seen[c][s] + Len(Input(c, s)) <= sent[c][s]
           /\ \A i \in 1 .. Len(Input(c, s)) : Input(c, s)[i] = <<c, seen[c][s] + i>>
<1> DEFINE n == Min({Chunk, sent[c][s] - seen[c][s]})
<1>1. Chunk \in Nat /\ Chunk >= 1 /\ seen[c][s] \in Nat /\ sent[c][s] \in Nat
  BY DEF RelayAssumption, Numbers
<1>2. n \in Nat /\ n >= 1 /\ n <= Chunk /\ n <= sent[c][s] - seen[c][s]
  <2>1. sent[c][s] - seen[c][s] \in Int /\ sent[c][s] - seen[c][s] >= 1
    BY <1>1
  <2>2. Min({Chunk, sent[c][s] - seen[c][s]}) \in Int
        /\ Min({Chunk, sent[c][s] - seen[c][s]}) <= Chunk
        /\ Min({Chunk, sent[c][s] - seen[c][s]}) <= sent[c][s] - seen[c][s]
        /\ Min({Chunk, sent[c][s] - seen[c][s]}) \in {Chunk, sent[c][s] - seen[c][s]}
    <3>1. Chunk \in Int
      BY <1>1
    <3> QED
      BY <2>1, <3>1, MinOfTwo, Zenon
  <2> QED
    BY <1>1, <2>1, <2>2
<1> HIDE DEF n
<1>3. Input(c, s) = [i \in 1 .. n |-> <<c, seen[c][s] + i>>]
  BY DEF Input, n
<1>4. Input(c, s) \in [1 .. n -> Conn \X Nat]
  BY <1>1, <1>2, <1>3
<1>5. Input(c, s) \in Seq(Conn \X Nat) /\ Len(Input(c, s)) = n
  <2>1. Input(c, s) \in Seq(Conn \X Nat)
    BY <1>2, <1>4, SeqDef
  <2>2. DOMAIN Input(c, s) = 1 .. n
    BY <1>3
  <2> QED
    BY <1>2, <2>1, <2>2, LenProperties
<1> QED
  BY <1>1, <1>2, <1>3, <1>5

LEMMA ReadInv ==
    ASSUME RelayAssumption, IInv, NEW c \in Conn, NEW s \in Side, Read(c, s)
    PROVE  IInv'
<1> DEFINE b == Input(c, s)
<1> USE DEF IInv, Read, Reads, CloseConnection, peerVars
<1>1. /\ b \in Seq(Conn \X Nat) /\ Len(b) \in Nat /\ Len(b) >= 1 /\ Len(b) <= Chunk
      /\ seen[c][s] + Len(b) <= sent[c][s]
      /\ \A i \in 1 .. Len(b) : b[i] = <<c, seen[c][s] + i>>
  BY InputProperties
<1>2. /\ seen' = [seen EXCEPT ![c][s] = seen[c][s] + Len(b)]
      /\ \/ conn' = [conn EXCEPT ![c] = "closed"] /\ job' = None
         \/ conn' = conn /\ job' = [c |-> c, from |-> s, buffer |-> b, total |-> 0, left |-> Len(b)]
      /\ job = None /\ conn[c] = "open"
  OBVIOUS
<1> HIDE DEF IInv, Read, Reads, CloseConnection
<1>n. Numbers /\ States
  BY DEF IInv
<1>r. /\ [c |-> c, from |-> s, buffer |-> b, total |-> 0, left |-> Len(b)] \in Job
      /\ [c |-> c, from |-> s, buffer |-> b, total |-> 0, left |-> Len(b)] # None
  BY <1>1, Sizes DEF Job
<1> HIDE DEF b
<1>3. /\ seen' \in [Conn -> [Side -> Nat]] /\ seen'[c][s] = seen[c][s] + Len(b)
      /\ \A d \in Conn, t \in Side : ~(d = c /\ t = s) => seen'[d][t] = seen[d][t]
      /\ seen[c][s] \in Nat
  <2>1. Put(seen', seen, c, s, seen[c][s] + Len(b)) /\ seen[c][s] \in Nat
    BY <1>2, Entries DEF Put
  <2>2. seen[c][s] + Len(b) \in Nat
    BY <1>1, <2>1
  <2> QED
    <3>1. seen \in [Conn -> [Side -> Nat]]
      BY <1>n DEF Numbers
    <3>2. seen' \in [Conn -> [Side -> Nat]] /\ Changed(seen', seen, c, s, seen[c][s] + Len(b))
      BY <2>1, <2>2, <3>1, PutNumber
    <3> QED
      BY <2>1, <3>2 DEF Changed
<1>4. Numbers' /\ States' /\ UNCHANGED <<sent, taken, got, count>>
  BY <1>2, <1>3, <1>n DEF Numbers, States, Read, Reads
<1>5. Loop'
  <2>1. CASE job' = None
    BY <2>1 DEF Loop
  <2>2. CASE conn' = conn /\ job' = [c |-> c, from |-> s, buffer |-> b, total |-> 0, left |-> Len(b)]
    <3>1. job' \in Job
      BY <1>1, <2>2 DEF Job
    <3>2. /\ job'.c = c /\ job'.from = s /\ job'.buffer = b /\ job'.total = 0
          /\ job'.left = Len(b) /\ conn'[c] = "open"
      BY <1>2, <2>2
    <3>3. \A i \in 1 .. Len(b) : b[i] = <<c, seen'[c][s] - Len(b) + i>>
      <4>1. seen'[c][s] - Len(b) = seen[c][s]
        BY <1>1, <1>3
      <4> QED
        BY <1>1, <4>1
    <3> QED
      BY <1>1, <3>1, <3>2, <3>3 DEF Loop
  <2> QED
    BY <1>2, <2>1, <2>2
<1>6. ASSUME NEW d \in Conn, NEW t \in Side PROVE Stream(d, t)'
  <2>0. Stream(d, t) /\ Pending(d, t) = 0 /\ Passed(d, t) = 0 /\ Passed(d, t)' = 0
    BY <1>2, Entries DEF Pending, Passed
  <2>1. CASE d = c /\ t = s
    <3>1. conn'[c] = "open" => Pending(c, s)' = Len(b)
      <4>1. CASE job' = None
        BY <1>2, <1>n, <1>r, <4>1 DEF States
      <4>2. CASE job' # None
        BY <1>2, <4>2 DEF Pending
      <4> QED
        BY <4>1, <4>2
    <3>2. conn'[c] # s
      BY <1>2, <1>n DEF Side, States
    <3>3. conn'[c] = "open" => conn[c] = "open"
      BY <1>2
    <3>4. Len(got[c][Other(s)]) \in Nat /\ sent[c][s] \in Nat
      BY Entries
    <3> QED
      BY <1>1, <1>3, <1>4, <2>0, <2>1, <3>1, <3>2, <3>3, <3>4, SMTT(30) DEF Stream
  <2>2. CASE ~(d = c /\ t = s)
    <3>1. seen'[d][t] = seen[d][t] /\ Pending(d, t)' = 0
      BY <1>2, <1>3, <2>2 DEF Pending
    <3>2. conn'[d] = conn[d] \/ (conn'[d] = "closed" /\ "closed" # t)
      BY <1>2, <1>n DEF States, Side
    <3> QED
      BY <1>4, <2>0, <3>1, <3>2 DEF Stream
  <2> QED
    BY <2>1, <2>2
<1> QED
  BY <1>4, <1>5, <1>6 DEF IInv

\* The end of a side's data closes the connection after every byte was written.
LEMMA ReadEndInv ==
    ASSUME RelayAssumption, IInv, NEW c \in Conn, NEW s \in Side, ReadEnd(c, s)
    PROVE  IInv'
<1>1. /\ job = None /\ conn[c] = "open" /\ seen[c][s] = sent[c][s]
      /\ conn' = [conn EXCEPT ![c] = s] \/ conn' = [conn EXCEPT ![c] = "closed"]
      /\ idle' = idle \ {c}
      /\ UNCHANGED <<peer, sent, taken, seen, got, count, requests, job, expiring, process>>
  BY DEF ReadEnd, Reads, CloseConnection, peerVars, dataVars
<1>2. Numbers' /\ States' /\ Loop'
  <2>1. conn' \in [Conn -> Side \cup {"open", "closed"}]
    BY <1>1 DEF IInv, States
  <2> QED
    BY <1>1, <2>1 DEF IInv, Numbers, States, Loop
<1>3. ASSUME NEW d \in Conn, NEW t \in Side PROVE Stream(d, t)'
  <2>1. Stream(d, t) /\ Pending(d, t) = 0 /\ Pending(d, t)' = 0 /\ Passed(d, t)' = Passed(d, t)
    BY <1>1, Entries DEF Pending, Passed
  <2>2. conn'[d] = conn[d] \/ (d = c /\ conn'[d] \in {s, "closed"})
    BY <1>1 DEF IInv, States
  <2>3. Len(got[d][Other(t)]) \in Nat
    BY Entries
  <2>4. s \notin {"open", "closed"} /\ t \notin {"open", "closed"}
    BY DEF Side
  <2> QED
    BY <1>1, <2>1, <2>2, <2>3, <2>4 DEF Stream
<1> QED
  BY <1>1, <1>2, <1>3 DEF IInv

\* The timer closes a connection between two jobs of the proxy thread.
LEMMA ExpireInv ==
    ASSUME RelayAssumption, IInv, Expire
    PROVE  IInv'
<1>1. /\ job = None
      /\ conn' = [conn EXCEPT ![expiring] = IF @ = "open" THEN "closed" ELSE @]
      /\ expiring' = None /\ UNCHANGED <<peer, sent, taken, seen, got, count, requests, job, idle, process>>
  BY DEF Expire, peerVars, dataVars
<1>2. Numbers' /\ States' /\ Loop'
  BY <1>1 DEF IInv, Numbers, States, Loop
<1>3. ASSUME NEW d \in Conn, NEW t \in Side PROVE Stream(d, t)'
  <2>1. Stream(d, t) /\ Pending(d, t)' = Pending(d, t) /\ Passed(d, t)' = Passed(d, t)
    BY <1>1, Entries DEF Pending, Passed
  <2>2. conn'[d] = conn[d] \/ conn'[d] = "closed"
    BY <1>1 DEF IInv, States
  <2>3. t \notin {"open", "closed"}
    BY DEF Side
  <2> QED
    BY <1>1, <2>1, <2>2, <2>3 DEF Stream
<1> QED
  BY <1>1, <1>2, <1>3 DEF IInv

-----------------------------------------------------------------------------
(* The write loop                                                           *)

LEMMA JobFacts ==
    ASSUME IInv, job # None
    PROVE  /\ job.c \in Conn /\ job.from \in Side /\ Other(job.from) \in Side
           /\ job.total \in Nat /\ job.left \in Nat /\ job.left >= 1
           /\ job.buffer \in Seq(Conn \X Nat) /\ Len(job.buffer) \in Nat
           /\ job.total + job.left = Len(job.buffer) /\ Len(job.buffer) <= Chunk
           /\ conn[job.c] = "open"
           /\ \A i \in 1 .. Len(job.buffer) :
                 job.buffer[i] = <<job.c, seen[job.c][job.from] - Len(job.buffer) + i>>
           /\ seen[job.c][job.from] = Len(got[job.c][Other(job.from)]) + job.left
           /\ count[job.c][job.from] + job.total = Len(got[job.c][Other(job.from)])
<1>1. Loop /\ job \in Job
  BY DEF IInv, Loop
<1>2. job.c \in Conn /\ job.from \in Side /\ job.total \in Nat /\ job.left \in Nat
      /\ job.buffer \in Seq(Conn \X Nat)
  BY <1>1 DEF Job
<1>3. Other(job.from) \in Side /\ Len(job.buffer) \in Nat
  BY <1>2, Sides, LenProperties
<1>4. Stream(job.c, job.from)
  BY <1>2, Entries
<1> QED
  BY <1>1, <1>2, <1>3, <1>4 DEF Loop, Stream, Pending, Passed

\* The counters when the loop is left.
LEMMA WrittenCounts ==
    ASSUME IInv, job # None, NEW n \in Nat, Written(n)
    PROVE  /\ count' \in [Conn -> [Side -> Nat]] /\ requests' \in [Conn -> Nat] /\ job' = None
           /\ count'[job.c][job.from] = count[job.c][job.from] + n
           /\ \A d \in Conn, t \in Side :
                 ~(d = job.c /\ t = job.from) => count'[d][t] = count[d][t]
<1>1. job.c \in Conn /\ job.from \in Side
  BY JobFacts
<1>2. count[job.c][job.from] + n \in Nat /\ requests[job.c] + 1 \in Nat
  BY <1>1, Entries
<1>3. Put(count', count, job.c, job.from, count[job.c][job.from] + n)
  BY DEF Written, Put
<1>4. count \in [Conn -> [Side -> Nat]] /\ requests \in [Conn -> Nat]
  BY DEF IInv, Numbers
<1>5. /\ count' \in [Conn -> [Side -> Nat]]
      /\ Changed(count', count, job.c, job.from, count[job.c][job.from] + n)
  BY <1>1, <1>2, <1>3, <1>4, PutNumber
<1>6. requests' \in [Conn -> Nat] /\ job' = None
  BY <1>1, <1>2, <1>4 DEF Written
<1> QED
  BY <1>5, <1>6 DEF Changed

LEMMA WriteFailsInv ==
    ASSUME RelayAssumption, IInv, WriteFails
    PROVE  IInv'
<1>1. /\ job # None /\ Written(job.total) /\ conn' = [conn EXCEPT ![job.c] = "closed"]
      /\ UNCHANGED <<peer, sent, taken, seen, got, idle, expiring, process>>
  BY DEF WriteFails, CloseConnection, peerVars
<1>2. job.c \in Conn /\ job.from \in Side /\ job.total \in Nat
  BY <1>1, JobFacts
<1>3. /\ count' \in [Conn -> [Side -> Nat]] /\ requests' \in [Conn -> Nat] /\ job' = None
      /\ count'[job.c][job.from] = count[job.c][job.from] + job.total
      /\ \A d \in Conn, t \in Side :
            ~(d = job.c /\ t = job.from) => count'[d][t] = count[d][t]
  BY <1>1, <1>2, WrittenCounts
<1>4. Numbers' /\ States' /\ Loop'
  BY <1>1, <1>2, <1>3 DEF IInv, Numbers, States, Loop
<1>5. ASSUME NEW d \in Conn, NEW t \in Side PROVE Stream(d, t)'
  <2>1. Stream(d, t) /\ count[d][t] \in Nat /\ t \notin {"open", "closed"}
    BY Entries DEF Side
  <2>2. Pending(d, t)' = 0 /\ Passed(d, t)' = 0
    BY <1>3 DEF Pending, Passed
  <2>3. CASE d = job.c /\ t = job.from
    <3>1. Passed(d, t) = job.total /\ conn'[d] = "closed"
      BY <1>1, <1>2, <2>3 DEF Passed, IInv, States
    <3>2. count'[d][t] + 0 = count[d][t] + job.total
      BY <1>2, <1>3, <2>1, <2>3
    <3> QED
      BY <1>1, <2>1, <2>2, <3>1, <3>2 DEF Stream
  <2>4. CASE ~(d = job.c /\ t = job.from)
    <3>1. Pending(d, t) = 0 /\ Passed(d, t) = 0 /\ count'[d][t] = count[d][t]
      BY <1>3, <2>4 DEF Pending, Passed
    <3>2. conn'[d] = conn[d] \/ conn'[d] = "closed"
      BY <1>1, <1>2 DEF IInv, States
    <3> QED
      BY <1>1, <2>1, <2>2, <3>1, <3>2 DEF Stream
  <2> QED
    BY <2>3, <2>4
<1> QED
  BY <1>1, <1>4, <1>5 DEF IInv

\* The write loop, in constants: from where to where it writes what, how much of it is done,
\* what the peer has got before and how much was counted.
Numbered(b, c, n, base) == \A i \in 1 .. n : b[i] = <<c, base + i>>

Named(c, s, total, left, b, n, g, w) ==
    /\ job.c = c /\ job.from = s /\ job.total = total /\ job.left = left /\ job.buffer = b
    /\ Len(b) = n /\ Len(got[c][Other(s)]) = g /\ count[c][s] = w
    /\ left >= 1 /\ total + left = n /\ n <= Chunk /\ conn[c] = "open"
    /\ seen[c][s] = g + left /\ w + total = g
    /\ Numbered(b, c, n, (g + left) - n)

LEMMA JobNames ==
    ASSUME IInv, job # None
    PROVE  \E c \in Conn, s \in Side, total \in Nat, left \in Nat, b \in Seq(Conn \X Nat),
              n \in Nat, g \in Nat, w \in Nat : Named(c, s, total, left, b, n, g, w)
<1>1. Len(got[job.c][Other(job.from)]) \in Nat /\ count[job.c][job.from] \in Nat
  BY JobFacts, Entries
<1>2. Named(job.c, job.from, job.total, job.left, job.buffer, Len(job.buffer),
            Len(got[job.c][Other(job.from)]), count[job.c][job.from])
  BY JobFacts DEF Named, Numbered
<1>3. /\ job.c \in Conn /\ job.from \in Side /\ job.total \in Nat /\ job.left \in Nat
      /\ job.buffer \in Seq(Conn \X Nat) /\ Len(job.buffer) \in Nat
  BY JobFacts
<1> QED
  BY <1>1, <1>2, <1>3, Zenon

\* A piece of the buffer, the bytes of which are numbered from g - total on.
LEMMA PieceBounds ==
    ASSUME NEW total \in Nat, NEW left \in Nat, NEW n \in Nat, NEW g \in Nat, total + left = n,
           NEW k \in 1 .. left
    PROVE  /\ total + 1 \in Int /\ total + k \in Int /\ total + 1 <= total + k
           /\ (total + k) - (total + 1) + 1 = k
           /\ \A i \in total + 1 .. total + k : i \in 1 .. n
           /\ \A i \in 1 .. k : /\ (total + 1) + i - 1 = total + i /\ total + i \in 1 .. n
                                /\ (g + left) - n + (total + i) = g + i
OBVIOUS

IsPiece(a, c, k, g) ==
    a \in Seq(Conn \X Nat) /\ Len(a) = k /\ Numbered(a, c, k, g)

LEMMA Piece ==
    ASSUME NEW c \in Conn, NEW s \in Side, NEW total \in Nat, NEW left \in Nat,
           NEW b \in Seq(Conn \X Nat), NEW n \in Nat, NEW g \in Nat, NEW w \in Nat,
           Named(c, s, total, left, b, n, g, w), NEW k \in 1 .. left
    PROVE  IsPiece(SubSeq(b, total + 1, total + k), c, k, g)
<1>0. Len(b) = n /\ total + left = n /\ Numbered(b, c, n, (g + left) - n)
  BY DEF Named
<1> DEFINE x == total + 1
           y == total + k
<1>1. x \in Int /\ y \in Int /\ x <= y /\ y - x + 1 = k
  BY <1>0, PieceBounds
<1>2. \A i \in x .. y : i \in 1 .. n
  BY <1>0, PieceBounds
<1>3. \A i \in x .. y : b[i] \in Conn \X Nat
  BY <1>0, <1>2, ElementOfSeq
<1> HIDE DEF x, y
<1>4. /\ SubSeq(b, x, y) \in Seq(Conn \X Nat) /\ Len(SubSeq(b, x, y)) = k
      /\ \A i \in 1 .. k : SubSeq(b, x, y)[i] = b[x + i - 1]
  BY <1>1, <1>3, SubSeqProperties, SMTT(30)
<1>5. ASSUME NEW i \in 1 .. k PROVE b[x + i - 1] = <<c, g + i>>
  <2>1. x + i - 1 = total + i /\ total + i \in 1 .. n
    BY <1>0, PieceBounds DEF x
  <2>2. (g + left) - n + (total + i) = g + i
    BY <1>0, PieceBounds
  <2> QED
    BY <1>0, <2>1, <2>2 DEF Numbered
<1> QED
  BY <1>4, <1>5 DEF x, y, IsPiece, Numbered

LEMMA WriteInv ==
    ASSUME RelayAssumption, IInv, Write
    PROVE  IInv'
<1>1. /\ job # None
      /\ UNCHANGED <<sent, taken, seen, conn, idle, expiring, process>>
  BY DEF Write
<1>2. PICK c \in Conn, s \in Side, total \in Nat, left \in Nat, b \in Seq(Conn \X Nat), n \in Nat,
           g \in Nat, w \in Nat : Named(c, s, total, left, b, n, g, w)
  BY <1>1, JobNames
<1>n. /\ left >= 1 /\ total + left = n /\ n <= Chunk /\ w + total = g
      /\ seen[c][s] = g + left /\ conn[c] = "open" /\ count[c][s] = w
  BY <1>2 DEF Named
<1>3. PICK d \in Side : d = Other(s) /\ d # s
  BY Sides
<1>4. PICK k \in 1 .. Min({left, Room(c, d)}) :
        /\ got' = [got EXCEPT ![c][d] = got[c][d] \o SubSeq(b, total + 1, total + k)]
        /\ peer' = IF peer[c][d] = "closed" THEN [peer EXCEPT ![c][d] = "dead"] ELSE peer
        /\ Progress(k)
  BY <1>2, <1>3 DEF Write, Accepted, Named
<1>5. k \in 1 .. left
  <2>1. left \in Int /\ Room(c, d) \in Int
    BY Entries, Sizes, SMTT(30) DEF Room
  <2>2. Min({left, Room(c, d)}) \in Int /\ Min({left, Room(c, d)}) <= left
    BY <2>1, MinOfTwo, Zenon
  <2> QED
    BY <2>2
<1> DEFINE a == SubSeq(b, total + 1, total + k)
<1>6. /\ a \in Seq(Conn \X Nat) /\ Len(a) = k
      /\ \A i \in 1 .. k : a[i] = <<c, g + i>>
  <2>1. IsPiece(a, c, k, g)
    BY <1>2, <1>5, Piece
  <2> QED
    BY <2>1 DEF IsPiece, Numbered
<1> HIDE DEF a
<1>7. /\ got[c][d] \in Seq(Conn \X Nat) /\ Len(got[c][d]) = g
      /\ got \in [Conn -> [Side -> Seq(Conn \X Nat)]] /\ count[c][s] \in Nat
  BY <1>2, <1>3, Entries DEF IInv, Named
<1>8. /\ got[c][d] \o a \in Seq(Conn \X Nat)
      /\ Len(got[c][d] \o a) = g + k
      /\ \A i \in 1 .. g + k :
            (got[c][d] \o a)[i] = IF i <= g THEN got[c][d][i] ELSE a[i - g]
  <2>1. /\ got[c][d] \o a \in Seq(Conn \X Nat)
        /\ Len(got[c][d] \o a) = Len(got[c][d]) + Len(a)
        /\ \A i \in 1 .. Len(got[c][d]) + Len(a) : (got[c][d] \o a)[i] =
              IF i <= Len(got[c][d]) THEN got[c][d][i] ELSE a[i - Len(got[c][d])]
    <3> DEFINE q == got[c][d]
    <3>1. q \in Seq(Conn \X Nat)
      BY <1>7
    <3> HIDE DEF q
    <3>2. /\ q \o a \in Seq(Conn \X Nat) /\ Len(q \o a) = Len(q) + Len(a)
          /\ \A i \in 1 .. Len(q) + Len(a) : (q \o a)[i] =
                IF i <= Len(q) THEN q[i] ELSE a[i - Len(q)]
      BY <1>6, <3>1, ConcatProperties
    <3> QED
      BY <3>2 DEF q
  <2> QED
    BY <1>6, <1>7, <2>1
<1>9. /\ got' \in [Conn -> [Side -> Seq(Conn \X Nat)]]
      /\ Changed(got', got, c, d, got[c][d] \o a)
  <2>1. Put(got', got, c, d, got[c][d] \o a)
    BY <1>4 DEF Put, a
  <2> QED
    BY <1>7, <1>8, <2>1, PutBytes
<1>10. States'
  <2>1. peer' \in [Conn -> [Side -> {"open", "half", "closed", "reset", "dead"}]]
    BY <1>4, PutPeer DEF Put, IInv, States
  <2> QED
    BY <1>1, <2>1 DEF IInv, States
\* the loop goes on, or has written everything
<1>11. /\ count' \in [Conn -> [Side -> Nat]] /\ requests' \in [Conn -> Nat]
       /\ \/ k = left /\ job' = None /\ count'[c][s] = w + (total + k)
          \/ /\ k # left /\ count' = count
             /\ job' = [job EXCEPT !.total = total + k, !.left = left - k]
       /\ \A e \in Conn, t \in Side : ~(e = c /\ t = s) => count'[e][t] = count[e][t]
  <2>1. CASE k = left
    <3>1. Written(total + k) /\ total + k \in Nat
      BY <1>2, <1>4, <1>5, <2>1 DEF Progress, Named
    <3> QED
      BY <1>1, <1>2, <2>1, <3>1, WrittenCounts DEF Named
  <2>2. CASE k # left
    BY <1>2, <1>4, <2>2 DEF Progress, IInv, Numbers, Named
  <2> QED
    BY <2>1, <2>2
<1>12. Numbers'
  BY <1>1, <1>11 DEF IInv, Numbers
<1>13. /\ job' # None => /\ job' \in Job /\ job'.c = c /\ job'.from = s
                         /\ job'.buffer = b /\ job'.total = total + k
                         /\ job'.left = left - k /\ k # left
       /\ job' = None => k = left
  <2>1. job \in Job
    BY <1>1 DEF IInv, Loop
  <2>2. CASE k # left
    <3>1. total + k \in Nat /\ left - k \in Nat
      BY <1>5
    <3>2. job' = [job EXCEPT !.total = total + k, !.left = left - k]
      BY <1>11, <2>2
    <3>3. job' \in Job
      BY <2>1, <3>1, <3>2 DEF Job
    <3>4. /\ job'.c = c /\ job'.from = s /\ job'.buffer = b
          /\ job'.total = total + k /\ job'.left = left - k
      BY <1>2, <2>1, <3>2 DEF Job, Named
    <3> QED
      BY <2>2, <3>3, <3>4, Sizes
  <2> QED
    BY <1>11, <2>2
<1>14. Loop'
  <2> SUFFICES ASSUME job' # None PROVE Loop'
    BY DEF Loop
  <2>1. Len(b) = n /\ \A i \in 1 .. n : b[i] = <<c, seen'[c][s] - n + i>>
    BY <1>1, <1>2 DEF Named, Numbered
  <2>2. (total + k) + (left - k) = n /\ left - k >= 1
    BY <1>n, <1>5, <1>13
  <2> QED
    BY <1>1, <1>n, <1>13, <2>1, <2>2 DEF Loop
<1>15. ASSUME NEW e \in Conn, NEW t \in Side PROVE Stream(e, t)'
  <2>1. Stream(e, t) /\ Other(t) \in Side
    BY Entries, Sides
  <2>2. CASE e = c /\ t = s
    <3>1. got'[c][d] = got[c][d] \o a /\ Len(got'[c][d]) = g + k
      BY <1>8, <1>9 DEF Changed
    <3>2. ASSUME NEW i \in 1 .. g + k PROVE got'[c][d][i] = <<c, i>>
      <4>1. CASE i <= g
        <5>1. i \in 1 .. g
          BY <4>1
        <5>2. got[c][d][i] = <<c, i>>
          BY <1>3, <1>7, <2>1, <2>2, <5>1 DEF Stream
        <5> QED
          BY <1>8, <3>1, <4>1, <5>2
      <4>2. CASE ~(i <= g)
        <5>1. i - g \in 1 .. k /\ g + (i - g) = i
          BY <1>5, <4>2
        <5> QED
          BY <1>6, <1>8, <3>1, <4>2, <5>1
      <4> QED
        BY <4>1, <4>2
    <3>3. Pending(c, s)' = left - k
      <4>1. CASE job' = None
        BY <1>5, <1>13, <4>1 DEF Pending
      <4>2. CASE job' # None
        BY <1>13, <4>2 DEF Pending
      <4> QED
        BY <4>1, <4>2
    <3>4. count'[c][s] + Passed(c, s)' = g + k
      <4>1. CASE job' = None
        <5>1. count'[c][s] = w + (total + k) /\ Passed(c, s)' = 0
          BY <1>11, <1>13, <4>1 DEF Passed
        <5> QED
          BY <1>n, <1>5, <5>1
      <4>2. CASE job' # None
        <5>1. Passed(c, s)' = total + k /\ count'[c][s] = w
          BY <1>n, <1>11, <1>13, <4>2 DEF Passed
        <5> QED
          <6>1. k \in Nat /\ w + (total + k) = g + k
            BY <1>n, <1>5
          <6> QED
            BY <5>1, <6>1
      <4> QED
        BY <4>1, <4>2
    <3>5. conn[c] # s
      BY <1>n DEF Side
    <3>6. seen[c][s] = (g + k) + (left - k) /\ g + k <= seen[c][s]
      BY <1>n, <1>5
    <3> QED
      BY <1>1, <1>3, <2>1, <2>2, <3>1, <3>2, <3>3, <3>4, <3>5, <3>6 DEF Stream
  <2>3. CASE ~(e = c /\ t = s)
    <3>1. ~(e = c /\ Other(t) = d)
      BY <1>3, <2>3, Sides
    <3>2. got'[e][Other(t)] = got[e][Other(t)]
      BY <1>9, <2>1, <3>1 DEF Changed
    <3>3. Pending(e, t)' = Pending(e, t) /\ Passed(e, t)' = Passed(e, t)
      BY <1>2, <1>13, <2>3 DEF Pending, Passed, Named
    <3> QED
      BY <1>1, <1>11, <2>1, <2>3, <3>2, <3>3, SameStream
  <2> QED
    BY <2>2, <2>3
<1> QED
  BY <1>9, <1>10, <1>12, <1>14, <1>15 DEF IInv

LEMMA NextInv ==
    ASSUME RelayAssumption, IInv, [Next]_vars
    PROVE  IInv'
<1>1. CASE ProxyStep
  BY <1>1, ReadInv, ReadEndInv, WriteInv, WriteFailsInv, IdleInv DEF ProxyStep
<1>2. CASE TimerStep
  BY <1>2, IdleInv, ExpireInv DEF TimerStep
<1>3. CASE \E c \in Conn : GetsIdle(c) \/ \E s \in Side : Send(c, s) \/ Take(c, s) \/ Leave(c, s)
  BY <1>3, IdleInv, SendInv, PeerInv
<1>4. CASE UNCHANGED vars
  <2>1. Numbers' /\ States' /\ UNCHANGED <<sent, seen, got, count, conn, job>>
    BY <1>4 DEF vars, peerVars, dataVars, IInv, Numbers, States
  <2> QED
    BY <2>1, Quiet
<1> QED
  BY <1>1, <1>2, <1>3, <1>4 DEF Next

-----------------------------------------------------------------------------
\* do_proxying() relays what it reads, every byte once and in order, counts what it has written,
\* and closes a connection because of an orderly end only after all its data: for every size of
\* the buffer, of the kernel's window, and however read() and write() cut the data.
THEOREM Safe ==
    ASSUME RelayAssumption
    PROVE  Spec => []RelaySafe
<1>1. IInv => RelaySafe
  <2> SUFFICES ASSUME IInv PROVE RelaySafe
    OBVIOUS
  <2>1. InOrder
    <3> SUFFICES ASSUME NEW c \in Conn, NEW s \in Side
                 PROVE  /\ \A i \in DOMAIN got[c][s] : got[c][s][i] = <<c, i>>
                        /\ Len(got[c][s]) <= sent[c][Other(s)]
      BY DEF InOrder
    <3>1. Other(s) \in Side /\ Other(Other(s)) = s
      BY Sides
    <3>2. /\ Stream(c, Other(s)) /\ sent[c][Other(s)] \in Nat /\ seen[c][Other(s)] \in Nat
          /\ got[c][s] \in Seq(Conn \X Nat) /\ Len(got[c][s]) \in Nat
      BY <3>1, Entries
    <3>3. DOMAIN got[c][s] = 1 .. Len(got[c][s])
      BY <3>2, LenProperties
    <3> QED
      BY <3>1, <3>2, <3>3 DEF Stream
  <2>2. NothingDropped /\ CountsWritten
    BY Entries DEF NothingDropped, CountsWritten, Stream, Pending, Passed
  <2>3. EndAfterData
    BY Entries DEF EndAfterData, Stream
  <2>4. TypeOK
    <3>1. job = None \/ job \in [c: Conn, from: Side, buffer: Seq(Conn \X (1 .. MaxBytes)),
                                 total: 0 .. Chunk, left: 1 .. Chunk]
      <4> SUFFICES ASSUME job # None
                   PROVE  job \in [c: Conn, from: Side, buffer: Seq(Conn \X (1 .. MaxBytes)),
                                   total: 0 .. Chunk, left: 1 .. Chunk]
        OBVIOUS
      <4>1. PICK c \in Conn, s \in Side, total \in Nat, left \in Nat, b \in Seq(Conn \X Nat),
                 n \in Nat, g \in Nat, w \in Nat : Named(c, s, total, left, b, n, g, w)
        BY JobNames
      <4>2. /\ left >= 1 /\ total + left = n /\ n <= Chunk /\ w + total = g /\ Len(b) = n
            /\ g + left <= sent[c][s] /\ sent[c][s] <= MaxBytes /\ sent[c][s] \in Nat
        BY <4>1, Entries DEF Named, Stream
      <4>3. g + left <= MaxBytes /\ n <= g + left
        <5>1. MaxBytes \in Nat
          BY Sizes
        <5>2. g + left <= MaxBytes
          BY <4>2, <5>1
        <5>3. n <= g + left
          BY <4>2
        <5> QED
          BY <5>2, <5>3
      <4>4. ASSUME NEW i \in 1 .. n PROVE b[i] \in Conn \X (1 .. MaxBytes)
        <5>1. b[i] = <<c, (g + left) - n + i>>
          BY <4>1 DEF Named, Numbered
        <5>2. (g + left) - n + i \in 1 .. MaxBytes
          BY <4>3, Sizes
        <5> QED
          BY <5>1, <5>2
      <4>5. b \in Seq(Conn \X (1 .. MaxBytes))
        <5>1. b \in [1 .. n -> Conn \X (1 .. MaxBytes)]
          <6>1. b \in [1 .. n -> Conn \X Nat]
            BY <4>2, LenProperties
          <6> QED
            BY <4>4, <6>1
        <5> QED
          BY <5>1, SeqDef
      <4>6. total \in 0 .. Chunk /\ left \in 1 .. Chunk
        BY <4>2, Sizes
      <4>7. job \in Job
        BY DEF IInv, Loop
      <4> QED
        BY <4>1, <4>5, <4>6, <4>7 DEF Job, Named
    <3>2. job # None => conn[job.c] = "open" /\ job.total + job.left = Len(job.buffer)
      BY JobFacts
    <3> QED
      BY <3>1, <3>2 DEF TypeOK, IInv, States
  <2> QED
    BY <2>1, <2>2, <2>3, <2>4 DEF RelaySafe
<1>2. Init => IInv
  BY InitInv
<1>3. IInv /\ [Next]_vars => IInv'
  BY NextInv
<1> QED
  BY <1>1, <1>2, <1>3, PTL DEF Spec

-----------------------------------------------------------------------------
(* The plugin that analyzes packets.                                           *)

\* The instance has the operators of FiniteSets, too: they are the same.
LEMMA SameFinite ==
    /\ \A X : P!IsFiniteSet(X) <=> IsFiniteSet(X)
    /\ \A X : P!Cardinality(X) = Cardinality(X)
<1>1. \A X : P!IsFiniteSet(X) <=> IsFiniteSet(X)
  BY DEF P!IsFiniteSet, IsFiniteSet
<1>2. \A X : P!Cardinality(X) = Cardinality(X)
  BY <1>1 DEF P!Cardinality, Cardinality
<1> QED
  BY <1>1, <1>2

Setting == P!ConstantsAssumption

Holders == {c \in Clients : data[c] # 0}

Switches ==
    /\ plugin_enable \in BOOLEAN /\ auto_unload \in BOOLEAN /\ safe_mode \in BOOLEAN
    /\ guarded \in BOOLEAN /\ blocked \in BOOLEAN /\ raised \in BOOLEAN

Libraries ==
    /\ loads \in 0 .. MaxLoads
    /\ pluggableAnalyzer \in 0 .. loads /\ library \in 0 .. loads
    /\ mapped \subseteq 1 .. loads /\ inited \subseteq 1 .. loads
    /\ data \in [Clients -> 0 .. loads]

AnalyzerPlaces ==
    /\ wpc \in {"idle", "allocate", "count", "analyze", "release", "uncount", "dlclose"}
    /\ at \in Clients
    /\ cpc \in {"idle", "dlsym", "init", "dlclose"}
    /\ dead \in {"no", "fast", "safe", "release"}

\* The worker and the command thread are not both in the middle of something, and a plugin that
\* is being called, or loaded, is there. This is what the lock would give that the code has not.
Apart ==
    /\ wpc # "idle" => cpc = "idle"
    /\ wpc \in {"allocate", "count", "analyze", "release", "uncount"} => pluggableAnalyzer # 0
    /\ wpc = "dlclose" \/ cpc \in {"dlsym", "dlclose"} => pluggableAnalyzer = 0
    /\ cpc = "dlsym" => library \in mapped
    /\ cpc = "init" => pluggableAnalyzer # 0
    /\ cpc \in {"dlsym", "init"} => ~plugin_enable

\* The plugin there is has been loaded, and, once init() has returned, can be called.
Loaded ==
    /\ pluggableAnalyzer # 0 => pluggableAnalyzer \in mapped
    /\ pluggableAnalyzer # 0 /\ cpc # "init" => pluggableAnalyzer \in inited
    /\ cpc = "init" => \A c \in Clients : data[c] = 0

\* The connection the worker is busy with.
Busy ==
    /\ wpc \in {"allocate", "uncount"} => data[at] = 0
    /\ wpc \in {"count", "release"} => data[at] # 0

Raised == P!RaisedGetsNoWork /\ (raised => ~plugin_enable) /\ P!SafeModeCatchesFirst

Counted ==
    /\ reference_count \in Int
    /\ wpc \notin {"count", "uncount"} => reference_count = Cardinality(Holders)
    /\ wpc = "count" => reference_count = Cardinality(Holders) - 1
    /\ wpc = "uncount" => reference_count = Cardinality(Holders) + 1

AnalyzerInv ==
    /\ Switches /\ Libraries /\ AnalyzerPlaces
    /\ Apart /\ Loaded /\ P!DataOfPlugin /\ Busy /\ Raised /\ Counted



-----------------------------------------------------------------------------
LEMMA HoldersFinite ==
    ASSUME Setting
    PROVE  /\ IsFiniteSet(Holders) /\ Cardinality(Holders) \in Nat
           /\ Cardinality(Holders) <= Cardinality(Clients)
           /\ Cardinality(Holders) = 0 => Holders = {}
<1>1. Holders \in SUBSET Clients
  BY DEF Holders
<1>2. IsFiniteSet(Holders) /\ Cardinality(Holders) <= Cardinality(Clients)
  BY <1>1, FS_Subset, SameFinite DEF Setting, P!ConstantsAssumption
<1> QED
  BY <1>2, FS_CardinalityType, FS_EmptySet

\* Whoever has no data of the plugin is one more than those who have.
LEMMA NotAll ==
    ASSUME Setting, NEW c \in Clients, data[c] = 0
    PROVE  Cardinality(Holders) + 1 <= Cardinality(Clients)
<1>1. c \notin Holders /\ Holders \cup {c} \in SUBSET Clients
  BY DEF Holders
<1>2. Cardinality(Holders \cup {c}) = Cardinality(Holders) + 1
  BY <1>1, HoldersFinite, FS_AddElement
<1>3. Cardinality(Holders \cup {c}) <= Cardinality(Clients)
  BY <1>1, FS_Subset, SameFinite DEF Setting, P!ConstantsAssumption
<1> QED
  BY <1>2, <1>3

LEMMA Some ==
    ASSUME Setting, NEW c \in Clients, data[c] # 0
    PROVE  Cardinality(Holders) >= 1
<1>1. Holders # {}
  BY DEF Holders
<1> QED
  BY <1>1, HoldersFinite

\* A connection gets data, or gives it up.
LEMMA OneMore ==
    ASSUME Setting, Libraries, NEW c \in Clients, data[c] = 0, NEW v, v # 0,
           data' = [data EXCEPT ![c] = v]
    PROVE  Cardinality(Holders') = Cardinality(Holders) + 1
<1>1. Holders' = Holders \cup {c} /\ c \notin Holders
  BY DEF Holders, Libraries
<1> QED
  BY <1>1, HoldersFinite, FS_AddElement

LEMMA OneLess ==
    ASSUME Setting, Libraries, NEW c \in Clients, data[c] # 0, data' = [data EXCEPT ![c] = 0]
    PROVE  Cardinality(Holders') = Cardinality(Holders) - 1
<1>1. Holders' = Holders \ {c} /\ c \in Holders
  BY DEF Holders, Libraries
<1> QED
  BY <1>1, HoldersFinite, FS_RemoveElement

\* Nobody has data of a plugin that is not there.
LEMMA NobodyHolds ==
    ASSUME P!DataOfPlugin, pluggableAnalyzer = 0
    PROVE  \A c \in Clients : data[c] = 0
BY DEF P!DataOfPlugin

LEMMA AnalyzerInit ==
    ASSUME Setting, P!Init
    PROVE  AnalyzerInv
<1>1. PICK boot \in BOOLEAN : /\ loads = IF boot THEN 1 ELSE 0
                              /\ \E on \in BOOLEAN : plugin_enable = (boot /\ on)
  BY DEF P!Init
<1>2. Switches
  BY <1>1, Zenon DEF P!Init, Switches
<1>3. Libraries /\ AnalyzerPlaces
  BY <1>1 DEF P!Init, Libraries, AnalyzerPlaces, Setting, P!ConstantsAssumption
<1>4. Apart /\ P!DataOfPlugin /\ Busy /\ Raised
  BY DEF P!Init, Apart, P!DataOfPlugin, Busy, Raised, P!RaisedGetsNoWork, P!SafeModeCatchesFirst
<1>5. Loaded
  BY <1>1 DEF P!Init, Loaded
<1>6. Counted
  <2>1. Holders = {}
    BY DEF P!Init, Holders
  <2> QED
    BY <2>1, FS_EmptySet DEF P!Init, Counted
<1> QED
  BY <1>2, <1>3, <1>4, <1>5, <1>6 DEF AnalyzerInv

\* The test of analyzer_allocate() and its call.
LEMMA AllocateInv ==
    ASSUME Setting, AnalyzerInv, NEW c \in Clients, P!Allocate(c)
    PROVE  AnalyzerInv'
<1> USE DEF AnalyzerInv, P!Allocate, P!Start, P!Shared, P!flags
<1>1. Switches'
  BY Zenon DEF Switches
<1>2. Libraries' /\ AnalyzerPlaces'
  BY DEF Libraries, AnalyzerPlaces, Apart
<1>3. Apart'
  BY DEF Apart, Loaded, P!DataOfPlugin, AnalyzerPlaces, Libraries
<1>4. Loaded' /\ P!DataOfPlugin'
  BY DEF Loaded, P!DataOfPlugin, Apart, Libraries, AnalyzerPlaces
<1>5. Busy' /\ Raised'
  BY DEF Busy, Raised, P!RaisedGetsNoWork, P!SafeModeCatchesFirst, Libraries, AnalyzerPlaces
<1>6. Counted'
  <2>1. Holders' = Holders
    BY DEF Holders
  <2> QED
    BY <2>1 DEF Counted, AnalyzerPlaces
<1> QED
  BY <1>1, <1>2, <1>3, <1>4, <1>5, <1>6

LEMMA AllocateCallInv ==
    ASSUME Setting, AnalyzerInv, P!AllocateCall
    PROVE  AnalyzerInv'
<1> USE DEF AnalyzerInv, P!AllocateCall, P!Shared, P!flags
<1>1. Switches'
  BY Zenon DEF Switches
<1>2. Libraries' /\ AnalyzerPlaces'
  BY DEF Libraries, AnalyzerPlaces, Apart
<1>3. Apart'
  BY DEF Apart, AnalyzerPlaces, Libraries
<1>4. Loaded' /\ P!DataOfPlugin'
  BY DEF Loaded, P!DataOfPlugin, Apart, Libraries, AnalyzerPlaces
<1>5. Busy' /\ Raised'
  BY DEF Busy, Apart, Raised, P!RaisedGetsNoWork, P!SafeModeCatchesFirst, Libraries, AnalyzerPlaces
<1>6. Counted'
  <2>1. at \in Clients /\ data[at] = 0 /\ pluggableAnalyzer # 0
    BY DEF Busy, Apart, AnalyzerPlaces
  <2>2. CASE data' = [data EXCEPT ![at] = pluggableAnalyzer] /\ wpc' = "count"
    <3>1. Cardinality(Holders') = Cardinality(Holders) + 1
      BY <2>1, <2>2, OneMore
    <3> QED
      BY <2>2, <3>1, HoldersFinite DEF Counted
  <2>3. CASE wpc' = "idle" /\ UNCHANGED data
    <3>1. Holders' = Holders
      BY <2>3 DEF Holders
    <3> QED
      BY <2>3, <3>1 DEF Counted
  <2> QED
    BY <2>2, <2>3
<1> QED
  BY <1>1, <1>2, <1>3, <1>4, <1>5, <1>6

LEMMA AllocateCountInv ==
    ASSUME Setting, AnalyzerInv, P!AllocateCount
    PROVE  AnalyzerInv'
<1> USE DEF AnalyzerInv, P!AllocateCount, P!Shared, P!flags
<1>1. Switches'
  BY Zenon DEF Switches
<1>2. Libraries' /\ AnalyzerPlaces'
  BY DEF Libraries, AnalyzerPlaces, Apart
<1>3. Apart'
  BY DEF Apart, AnalyzerPlaces, Libraries
<1>4. Loaded' /\ P!DataOfPlugin'
  BY DEF Loaded, P!DataOfPlugin, Apart, Libraries, AnalyzerPlaces
<1>5. Busy' /\ Raised'
  BY DEF Busy, Raised, P!RaisedGetsNoWork, P!SafeModeCatchesFirst, Libraries, AnalyzerPlaces
<1>6. Counted'
  <2>1. Holders' = Holders
    BY DEF Holders
  <2> QED
    BY <2>1, HoldersFinite DEF Counted
<1> QED
  BY <1>1, <1>2, <1>3, <1>4, <1>5, <1>6

\* analyze_packet()
LEMMA AnalyzeInv ==
    ASSUME Setting, AnalyzerInv, NEW c \in Clients, P!Analyze(c)
    PROVE  AnalyzerInv'
<1> USE DEF AnalyzerInv, P!Analyze, P!Start, P!Shared, P!flags
<1>1. Switches'
  BY Zenon DEF Switches
<1>2. Libraries' /\ AnalyzerPlaces'
  BY DEF Libraries, AnalyzerPlaces, Apart
<1>3. Apart'
  BY DEF Apart, Loaded, P!DataOfPlugin, AnalyzerPlaces, Libraries
<1>4. Loaded' /\ P!DataOfPlugin'
  BY DEF Loaded, P!DataOfPlugin, Apart, Libraries, AnalyzerPlaces
<1>5. Busy' /\ Raised'
  BY DEF Busy, Raised, P!RaisedGetsNoWork, P!SafeModeCatchesFirst, Libraries, AnalyzerPlaces
<1>6. Counted'
  <2>1. Holders' = Holders
    BY DEF Holders
  <2> QED
    BY <2>1 DEF Counted, AnalyzerPlaces
<1> QED
  BY <1>1, <1>2, <1>3, <1>4, <1>5, <1>6

LEMMA AnalyzeReturnsInv ==
    ASSUME Setting, AnalyzerInv, P!AnalyzeReturns
    PROVE  AnalyzerInv'
<1> USE DEF AnalyzerInv, P!AnalyzeReturns, P!Shared, P!flags
<1>1. Switches'
  BY Zenon DEF Switches
<1>2. Libraries' /\ AnalyzerPlaces'
  BY DEF Libraries, AnalyzerPlaces, Apart
<1>3. Apart'
  BY DEF Apart, AnalyzerPlaces, Libraries
<1>4. Loaded' /\ P!DataOfPlugin'
  BY DEF Loaded, P!DataOfPlugin, Apart, Libraries, AnalyzerPlaces
<1>5. Busy' /\ Raised'
  BY DEF Busy, Raised, P!RaisedGetsNoWork, P!SafeModeCatchesFirst, Libraries, AnalyzerPlaces
<1>6. Counted'
  <2>1. Holders' = Holders
    BY DEF Holders
  <2> QED
    BY <2>1 DEF Counted, AnalyzerPlaces
<1> QED
  BY <1>1, <1>2, <1>3, <1>4, <1>5, <1>6

LEMMA AnalyzeFaultsInv ==
    ASSUME Setting, AnalyzerInv, P!AnalyzeFaults
    PROVE  AnalyzerInv'
<1> USE DEF AnalyzerInv, P!AnalyzeFaults, P!Caught, P!Shared, P!flags
<1>1. Switches'
  BY Zenon DEF Switches
<1>2. Libraries' /\ AnalyzerPlaces'
  BY DEF Libraries, AnalyzerPlaces, Apart
<1>3. Apart'
  BY DEF Apart, AnalyzerPlaces, Libraries
<1>4. Loaded' /\ P!DataOfPlugin'
  BY DEF Loaded, P!DataOfPlugin, Apart, Libraries, AnalyzerPlaces
<1>5. Busy' /\ Raised'
  BY DEF Busy, Raised, P!RaisedGetsNoWork, P!SafeModeCatchesFirst, Libraries, AnalyzerPlaces
<1>6. Counted'
  <2>1. Holders' = Holders
    BY DEF Holders
  <2> QED
    BY <2>1 DEF Counted, AnalyzerPlaces
<1> QED
  BY <1>1, <1>2, <1>3, <1>4, <1>5, <1>6

\* analyzer_release()
LEMMA ReleaseInv ==
    ASSUME Setting, AnalyzerInv, NEW c \in Clients, P!Release(c)
    PROVE  AnalyzerInv'
<1> USE DEF AnalyzerInv, P!Release, P!Start, P!Shared, P!flags
<1>0. pluggableAnalyzer # 0 /\ UNCHANGED data /\ wpc' = "release" /\ at' = c /\ cpc = "idle"
  BY DEF P!DataOfPlugin, Apart, Loaded, AnalyzerPlaces
<1>1. Switches'
  BY Zenon DEF Switches
<1>2. Libraries' /\ AnalyzerPlaces'
  BY <1>0 DEF Libraries, AnalyzerPlaces, Apart
<1>3. Apart'
  BY <1>0 DEF Apart, AnalyzerPlaces, Libraries
<1>4. Loaded' /\ P!DataOfPlugin'
  BY <1>0 DEF Loaded, P!DataOfPlugin, Apart, Libraries, AnalyzerPlaces
<1>5. Busy' /\ Raised'
  BY <1>0 DEF Busy, Raised, P!RaisedGetsNoWork, P!SafeModeCatchesFirst, Libraries, AnalyzerPlaces
<1>6. Counted'
  <2>1. Holders' = Holders
    BY <1>0 DEF Holders
  <2> QED
    BY <1>0, <2>1 DEF Counted, AnalyzerPlaces
<1> QED
  BY <1>1, <1>2, <1>3, <1>4, <1>5, <1>6

LEMMA ReleaseCallInv ==
    ASSUME Setting, AnalyzerInv, P!ReleaseCall
    PROVE  AnalyzerInv'
<1> USE DEF AnalyzerInv, P!ReleaseCall, P!Shared, P!flags
<1>1. Switches'
  BY Zenon DEF Switches
<1>2. Libraries' /\ AnalyzerPlaces'
  BY DEF Libraries, AnalyzerPlaces, Apart
<1>3. Apart'
  BY DEF Apart, AnalyzerPlaces, Libraries
<1>4. Loaded' /\ P!DataOfPlugin'
  BY DEF Loaded, P!DataOfPlugin, Apart, Libraries, AnalyzerPlaces
<1>5. Busy' /\ Raised'
  BY DEF Busy, Raised, P!RaisedGetsNoWork, P!SafeModeCatchesFirst, Libraries, AnalyzerPlaces
<1>6. Counted'
  <2>1. at \in Clients /\ data[at] # 0
    BY DEF Busy, AnalyzerPlaces
  <2>2. CASE wpc' = "uncount" /\ data' = [data EXCEPT ![at] = 0]
    <3>1. Cardinality(Holders') = Cardinality(Holders) - 1
      BY <2>1, <2>2, OneLess
    <3> QED
      BY <2>2, <3>1, HoldersFinite DEF Counted
  <2>3. CASE UNCHANGED <<wpc, data>>
    <3>1. Holders' = Holders
      BY <2>3 DEF Holders
    <3> QED
      BY <2>3, <3>1 DEF Counted
  <2> QED
    BY <2>2, <2>3
<1> QED
  BY <1>1, <1>2, <1>3, <1>4, <1>5, <1>6

\* The last release of a plugin whose unloading is due: nobody holds data of it any more.
LEMMA ReleaseCountInv ==
    ASSUME Setting, AnalyzerInv, P!ReleaseCount
    PROVE  AnalyzerInv'
<1> USE DEF AnalyzerInv, P!ReleaseCount, P!LastReference, P!flags
<1>0. P!LastReference => \A c \in Clients : data[c] = 0
  <2> SUFFICES ASSUME P!LastReference PROVE \A c \in Clients : data[c] = 0
    OBVIOUS
  <2>1. Cardinality(Holders) = 0
    BY HoldersFinite DEF Counted
  <2> QED
    BY <2>1, HoldersFinite DEF Holders
<1>1. Switches'
  BY Zenon DEF Switches
<1>2. Libraries' /\ AnalyzerPlaces'
  BY DEF Libraries, AnalyzerPlaces, Apart
<1>3. Apart'
  BY DEF Apart, AnalyzerPlaces, Libraries
<1>4. Loaded' /\ P!DataOfPlugin'
  BY <1>0 DEF Loaded, P!DataOfPlugin, Apart, Libraries, AnalyzerPlaces
<1>5. Busy' /\ Raised'
  BY DEF Busy, Raised, P!RaisedGetsNoWork, P!SafeModeCatchesFirst, Libraries, AnalyzerPlaces
<1>6. Counted'
  <2>1. Holders' = Holders
    BY DEF Holders
  <2> QED
    BY <2>1, HoldersFinite DEF Counted
<1> QED
  BY <1>1, <1>2, <1>3, <1>4, <1>5, <1>6

LEMMA WorkerDlcloseInv ==
    ASSUME Setting, AnalyzerInv, P!WorkerDlclose
    PROVE  AnalyzerInv'
<1> USE DEF AnalyzerInv, P!WorkerDlclose, P!Dlclose, P!flags
<1>1. Switches'
  BY Zenon DEF Switches
<1>2. Libraries' /\ AnalyzerPlaces'
  BY DEF Libraries, AnalyzerPlaces, Apart
<1>3. Apart'
  BY DEF Apart, AnalyzerPlaces, Libraries
<1>4. Loaded' /\ P!DataOfPlugin'
  BY DEF Loaded, P!DataOfPlugin, Apart, Libraries, AnalyzerPlaces
<1>5. Busy' /\ Raised'
  BY DEF Busy, Raised, P!RaisedGetsNoWork, P!SafeModeCatchesFirst, Libraries, AnalyzerPlaces
<1>6. Counted'
  <2>1. Holders' = Holders
    BY DEF Holders
  <2> QED
    BY <2>1 DEF Counted, AnalyzerPlaces
<1> QED
  BY <1>1, <1>2, <1>3, <1>4, <1>5, <1>6

\* module_loader()
LEMMA LoadOpenInv ==
    ASSUME Setting, AnalyzerInv, P!LoadOpen
    PROVE  AnalyzerInv'
<1> USE DEF AnalyzerInv, P!LoadOpen, P!Command, P!worker, Setting
<1>1. Switches'
  BY Zenon DEF Switches
<1>2. Libraries' /\ AnalyzerPlaces'
  <2>1. loads' \in 0 .. MaxLoads /\ loads \in Nat /\ loads' \in Nat /\ loads <= loads'
    BY DEF Libraries, P!ConstantsAssumption
  <2>2. 0 .. loads \subseteq 0 .. loads' /\ 1 .. loads \subseteq 1 .. loads'
    BY <2>1
  <2>3. library' \in 0 .. loads' /\ mapped' \subseteq 1 .. loads'
    <3>1. CASE loads' = loads + 1 /\ library' = loads' /\ mapped' = mapped \cup {loads'}
      BY <3>1, <2>1, <2>2 DEF Libraries
    <3>2. CASE library' = 0 /\ UNCHANGED <<loads, mapped>>
      BY <3>2, <2>1 DEF Libraries
    <3> QED
      BY <3>1, <3>2
  <2>4. data' \in [Clients -> 0 .. loads']
    BY <2>2 DEF Libraries
  <2> QED
    BY <2>1, <2>2, <2>3, <2>4 DEF Libraries, AnalyzerPlaces
<1>3. Apart'
  BY DEF Apart, AnalyzerPlaces, Libraries
<1>4. Loaded' /\ P!DataOfPlugin'
  BY DEF Loaded, P!DataOfPlugin, Apart, Libraries, AnalyzerPlaces
<1>5. Busy' /\ Raised'
  BY DEF Busy, Raised, P!RaisedGetsNoWork, P!SafeModeCatchesFirst, Libraries, AnalyzerPlaces
<1>6. Counted'
  <2>1. Holders' = Holders
    BY DEF Holders
  <2> QED
    BY <2>1 DEF Counted, AnalyzerPlaces
<1> QED
  BY <1>1, <1>2, <1>3, <1>4, <1>5, <1>6

LEMMA LoadSymbolInv ==
    ASSUME Setting, AnalyzerInv, P!LoadSymbol
    PROVE  AnalyzerInv'
<1> USE DEF AnalyzerInv, P!LoadSymbol, P!worker, P!flags
<1>0. \A c \in Clients : data[c] = 0
  BY NobodyHolds DEF Apart
<1>1. Switches'
  BY Zenon DEF Switches
<1>2. Libraries' /\ AnalyzerPlaces'
  BY DEF Libraries, AnalyzerPlaces, Apart
<1>3. Apart'
  BY DEF Apart, AnalyzerPlaces, Libraries
<1>4. Loaded' /\ P!DataOfPlugin'
  BY <1>0 DEF Loaded, P!DataOfPlugin, Apart, Libraries, AnalyzerPlaces
<1>5. Busy' /\ Raised'
  BY DEF Busy, Raised, P!RaisedGetsNoWork, P!SafeModeCatchesFirst, Libraries, AnalyzerPlaces
<1>6. Counted'
  <2>1. Holders' = Holders
    BY DEF Holders
  <2> QED
    BY <2>1 DEF Counted, AnalyzerPlaces
<1> QED
  BY <1>1, <1>2, <1>3, <1>4, <1>5, <1>6

LEMMA LoadInitInv ==
    ASSUME Setting, AnalyzerInv, P!LoadInit
    PROVE  AnalyzerInv'
<1> USE DEF AnalyzerInv, P!LoadInit, P!worker, P!flags
<1>1. Switches'
  BY Zenon DEF Switches
<1>2. Libraries' /\ AnalyzerPlaces'
  BY DEF Libraries, AnalyzerPlaces, Apart
<1>3. Apart'
  BY DEF Apart, AnalyzerPlaces, Libraries
<1>4. Loaded' /\ P!DataOfPlugin'
  BY DEF Loaded, P!DataOfPlugin, Apart, Libraries, AnalyzerPlaces
<1>5. Busy' /\ Raised'
  BY DEF Busy, Raised, P!RaisedGetsNoWork, P!SafeModeCatchesFirst, Libraries, AnalyzerPlaces
<1>6. Counted'
  <2>1. Holders' = Holders
    BY DEF Holders
  <2> QED
    BY <2>1 DEF Counted, AnalyzerPlaces
<1> QED
  BY <1>1, <1>2, <1>3, <1>4, <1>5, <1>6

\* module_unload(): a plugin that nobody uses.
LEMMA UnloadInv ==
    ASSUME Setting, AnalyzerInv, P!Unload
    PROVE  AnalyzerInv'
<1> USE DEF AnalyzerInv, P!Unload, P!Command, P!Unused, P!worker, Setting
<1>0. P!Unused => \A c \in Clients : data[c] = 0
  <2> SUFFICES ASSUME P!Unused PROVE \A c \in Clients : data[c] = 0
    OBVIOUS
  <2>1. Cardinality(Holders) = 0
    BY HoldersFinite DEF Counted
  <2> QED
    BY <2>1, HoldersFinite DEF Holders
<1>1. Switches'
  BY Zenon DEF Switches
<1>2. Libraries' /\ AnalyzerPlaces'
  BY DEF Libraries, AnalyzerPlaces, Apart
<1>3. Apart'
  BY DEF Apart, AnalyzerPlaces, Libraries
<1>4. Loaded' /\ P!DataOfPlugin'
  BY <1>0 DEF Loaded, P!DataOfPlugin, Apart, Libraries, AnalyzerPlaces
<1>5. Busy' /\ Raised'
  BY DEF Busy, Raised, P!RaisedGetsNoWork, P!SafeModeCatchesFirst, Libraries, AnalyzerPlaces
<1>6. Counted'
  <2>1. Holders' = Holders
    BY DEF Holders
  <2> QED
    BY <2>1 DEF Counted, AnalyzerPlaces
<1> QED
  BY <1>1, <1>2, <1>3, <1>4, <1>5, <1>6

LEMMA CommandDlcloseInv ==
    ASSUME Setting, AnalyzerInv, P!CommandDlclose
    PROVE  AnalyzerInv'
<1> USE DEF AnalyzerInv, P!CommandDlclose, P!Dlclose, P!worker, P!flags
<1>1. Switches'
  BY Zenon DEF Switches
<1>2. Libraries' /\ AnalyzerPlaces'
  BY DEF Libraries, AnalyzerPlaces, Apart
<1>3. Apart'
  BY DEF Apart, AnalyzerPlaces, Libraries
<1>4. Loaded' /\ P!DataOfPlugin'
  BY DEF Loaded, P!DataOfPlugin, Apart, Libraries, AnalyzerPlaces
<1>5. Busy' /\ Raised'
  BY DEF Busy, Raised, P!RaisedGetsNoWork, P!SafeModeCatchesFirst, Libraries, AnalyzerPlaces
<1>6. Counted'
  <2>1. Holders' = Holders
    BY DEF Holders
  <2> QED
    BY <2>1 DEF Counted, AnalyzerPlaces
<1> QED
  BY <1>1, <1>2, <1>3, <1>4, <1>5, <1>6

LEMMA SetEnableInv ==
    ASSUME Setting, AnalyzerInv, NEW on \in BOOLEAN, P!SetEnable(on)
    PROVE  AnalyzerInv'
<1> USE DEF AnalyzerInv, P!SetEnable, P!Enabled, P!Command, P!worker
<1>1. Switches'
  BY Zenon DEF Switches
<1>2. Libraries' /\ AnalyzerPlaces'
  BY DEF Libraries, AnalyzerPlaces, Apart
<1>3. Apart'
  BY DEF Apart, AnalyzerPlaces, Libraries
<1>4. Loaded' /\ P!DataOfPlugin'
  BY DEF Loaded, P!DataOfPlugin, Apart, Libraries, AnalyzerPlaces
<1>5. Busy' /\ Raised'
  BY DEF Busy, Raised, P!RaisedGetsNoWork, P!SafeModeCatchesFirst, Libraries, AnalyzerPlaces
<1>6. Counted'
  <2>1. Holders' = Holders
    BY DEF Holders
  <2> QED
    BY <2>1 DEF Counted, AnalyzerPlaces
<1> QED
  BY <1>1, <1>2, <1>3, <1>4, <1>5, <1>6

LEMMA SetSafeModeInv ==
    ASSUME Setting, AnalyzerInv, NEW on \in BOOLEAN, P!SetSafeMode(on)
    PROVE  AnalyzerInv'
<1> USE DEF AnalyzerInv, P!SetSafeMode, P!Command, P!worker
<1>1. Switches'
  BY Zenon DEF Switches
<1>2. Libraries' /\ AnalyzerPlaces'
  BY DEF Libraries, AnalyzerPlaces, Apart
<1>3. Apart'
  BY DEF Apart, AnalyzerPlaces, Libraries
<1>4. Loaded' /\ P!DataOfPlugin'
  BY DEF Loaded, P!DataOfPlugin, Apart, Libraries, AnalyzerPlaces
<1>5. Busy' /\ Raised'
  BY DEF Busy, Raised, P!RaisedGetsNoWork, P!SafeModeCatchesFirst, Libraries, AnalyzerPlaces
<1>6. Counted'
  <2>1. Holders' = Holders
    BY DEF Holders
  <2> QED
    BY <2>1 DEF Counted, AnalyzerPlaces
<1> QED
  BY <1>1, <1>2, <1>3, <1>4, <1>5, <1>6

LEMMA AnalyzerNext ==
    ASSUME Setting, AnalyzerInv, [P!Next]_(P!vars)
    PROVE  AnalyzerInv'
<1>1. CASE \E c \in Clients : P!Allocate(c) \/ P!Analyze(c) \/ P!Release(c)
  BY <1>1, AllocateInv, AnalyzeInv, ReleaseInv
<1>2. CASE P!WorkerCalls
  BY <1>2, AllocateCallInv, AllocateCountInv, AnalyzeReturnsInv, AnalyzeFaultsInv,
     ReleaseCallInv, ReleaseCountInv, WorkerDlcloseInv DEF P!WorkerCalls
<1>3. CASE P!CommandGoesOn
  BY <1>3, LoadSymbolInv, LoadInitInv, CommandDlcloseInv DEF P!CommandGoesOn
<1>4. CASE \E on \in BOOLEAN : P!SetEnable(on) \/ P!SetSafeMode(on)
  BY <1>4, SetEnableInv, SetSafeModeInv
<1>5. CASE UNCHANGED P!vars
  <2> USE <1>5 DEF P!vars, P!worker, P!flags, AnalyzerInv
  <2>1. Holders' = Holders
    BY DEF Holders
  <2>2. Switches' /\ Libraries' /\ AnalyzerPlaces'
    BY DEF Switches, Libraries, AnalyzerPlaces
  <2>3. Apart' /\ Loaded' /\ P!DataOfPlugin' /\ Busy' /\ Raised' /\ Counted'
    BY <2>1 DEF Apart, Loaded, P!DataOfPlugin, Busy, Raised, P!RaisedGetsNoWork,
                P!SafeModeCatchesFirst, Counted
  <2> QED
    BY <2>2, <2>3
<1> QED
  BY <1>1, <1>2, <1>3, <1>4, <1>5, LoadOpenInv, UnloadInv DEF P!Next

-----------------------------------------------------------------------------
\* As long as no unload overlaps with another operation: the plugin is called only while it is
\* loaded and initialized, data goes back to the plugin it came from, reference_count is the
\* number of connections with data, and a plugin that has raised an exception gets no work.
THEOREM PluginSafe ==
    ASSUME P!ConstantsAssumption
    PROVE  P!Spec => []AnalyzerSafe
<1> USE DEF Setting
<1>1. AnalyzerInv => AnalyzerSafe
  <2> SUFFICES ASSUME AnalyzerInv PROVE P!AnalyzerSafe
    BY DEF AnalyzerSafe
  <2> USE DEF AnalyzerInv
  <2>1. reference_count \in 0 .. Cardinality(Clients)
    <3>1. Cardinality(Clients) \in Nat
      BY FS_CardinalityType, SameFinite DEF P!ConstantsAssumption
    <3>2. at \in Clients /\ wpc \in {"idle", "allocate", "count", "analyze", "release", "uncount",
                                    "dlclose"}
      BY DEF AnalyzerPlaces
    <3>3. CASE wpc = "count"
      BY <3>1, <3>2, <3>3, Some, HoldersFinite DEF Counted, Busy
    <3>4. CASE wpc = "uncount"
      BY <3>1, <3>2, <3>4, NotAll, HoldersFinite DEF Counted, Busy
    <3> QED
      BY <3>1, <3>2, <3>3, <3>4, HoldersFinite DEF Counted
  <2>2. P!TypeOK
    BY <2>1, SameFinite DEF P!TypeOK, Switches, Libraries, AnalyzerPlaces
  <2>3. P!CallsLoadedPlugin
    BY DEF P!CallsLoadedPlugin, Apart, Loaded
  <2>4. P!CountsReferences
    BY HoldersFinite, SameFinite DEF P!CountsReferences, Counted, Holders
  <2> QED
    BY <2>2, <2>3, <2>4 DEF P!AnalyzerSafe, Raised
<1>2. P!Init => AnalyzerInv
  BY AnalyzerInit
<1>3. AnalyzerInv /\ [P!Next]_(P!vars) => AnalyzerInv'
  BY AnalyzerNext
<1> QED
  BY <1>1, <1>2, <1>3, PTL DEF P!Spec

-----------------------------------------------------------------------------
(* The loggers.                                                                *)

LogTyped ==
    /\ phase \in {"start", "running", "crashed"}
    /\ priority \in G!Level /\ current \in G!Level
    /\ pc \in [G!Thread -> {"idle", "adding", "writing", "syslog"}]

\* Whoever is inside syslog() has its lock.
LogLock ==
    /\ lock \in G!Thread \cup {None}
    /\ \A t \in G!Thread : (pc[t] = "syslog") <=> (lock = t)

\* There is an appender when have_initialized is set - or somebody is about to add it, or a list
\* names none. No message is on its way before.
LogReady ==
    /\ initialized /\ appenders = {} =>
          G!Adding # {} \/ (logfile.kind = "list" /\ G!Known(logfile.names) = {})
    /\ \A t \in G!Thread : pc[t] # "idle" => initialized

LogInv == LogTyped /\ LogLock /\ LogReady /\ G!LostOnlyAtFirst

LEMMA LogLevels ==
    /\ G!Level = 1 .. 7 /\ G!log_error = 2 /\ G!log_warning = 3 /\ G!log_notice = 4 /\ G!log_trace = 7
BY DEF G!Level, G!log_error, G!log_warning, G!log_notice, G!log_trace

LEMMA LogInit == ASSUME G!LogAssumption, G!Init PROVE LogInv
<1>1. LogTyped
  BY LogLevels DEF G!Init, LogTyped
<1>2. LogLock
  BY DEF G!Init, LogLock, G!LogAssumption
<1>3. ~initialized /\ \A t \in G!Thread : pc[t] = "idle"
  BY DEF G!Init
<1>4. LogReady
  BY <1>3 DEF LogReady
<1>5. G!LostOnlyAtFirst
  BY DEF G!Init, G!LostOnlyAtFirst
<1> QED
  BY <1>1, <1>2, <1>4, <1>5 DEF LogInv

\* A thread that moves on, and neither begins to add an appender nor ends to.
LEMMA SameAdding ==
    ASSUME LogTyped, NEW t \in G!Thread, NEW to \in {"idle", "writing", "syslog"}, pc[t] # "adding",
           G!Goes(t, to)
    PROVE  G!Adding' = G!Adding
BY DEF LogTyped, G!Goes, G!Adding

\* The beginning of con_dolog(), in a thread or in the handler of a signal.
LEMMA LogBegin ==
    ASSUME LogInv, NEW t \in G!Thread, pc[t] = "idle", G!Begin(t), UNCHANGED <<appenders, logfile, last>>
    PROVE  /\ pc' \in [G!Thread -> {"idle", "adding", "writing", "syslog"}]
           /\ \A u \in G!Thread : (pc'[u] = "syslog") <=> (pc[u] = "syslog")
           /\ LogReady' /\ G!LostOnlyAtFirst'
<1>1. pc \in [G!Thread -> {"idle", "adding", "writing", "syslog"}]
  BY DEF LogInv, LogTyped
<1>2. CASE initialized
  <2>1. G!Goes(t, "writing") /\ initialized'
    BY <1>2 DEF G!Begin
  <2>2. G!Adding' = G!Adding
    BY <2>1, SameAdding DEF LogInv
  <2>3. LogReady'
    BY <1>1, <1>2, <2>1, <2>2 DEF LogReady, LogInv, G!Known
  <2> QED
    BY <1>1, <2>1, <2>3 DEF G!Goes, LogInv, G!LostOnlyAtFirst, G!Known
<1>3. CASE ~initialized
  <2>1. pc' = [pc EXCEPT ![t] = "adding"] /\ initialized'
    BY <1>3 DEF G!Begin, G!Goes
  <2>2. t \in G!Adding'
    BY <1>1, <2>1 DEF G!Adding
  <2>3. LogReady'
    BY <2>1, <2>2 DEF LogReady
  <2> QED
    BY <1>1, <2>1, <2>3 DEF LogInv, G!LostOnlyAtFirst, G!Known
<1> QED
  BY <1>2, <1>3

LEMMA LogLog ==
    ASSUME LogInv, NEW t \in G!Thread, G!Log(t)
    PROVE  LogInv'
<1>1. pc[t] = "idle" /\ G!Begin(t) /\ UNCHANGED <<appenders, logfile, last, lock, phase, priority, current>>
  BY DEF G!Log, G!levelVars
<1>2. /\ pc' \in [G!Thread -> {"idle", "adding", "writing", "syslog"}]
      /\ \A u \in G!Thread : (pc'[u] = "syslog") <=> (pc[u] = "syslog")
      /\ LogReady' /\ G!LostOnlyAtFirst'
  BY <1>1, LogBegin
<1>3. LogTyped' /\ LogLock'
  BY <1>1, <1>2 DEF LogInv, LogTyped, LogLock
<1> QED
  BY <1>2, <1>3 DEF LogInv

LEMMA LogAdd ==
    ASSUME LogInv, NEW t \in G!Thread, G!AddStderr(t)
    PROVE  LogInv'
<1>1. /\ pc[t] = "adding" /\ pc' = [pc EXCEPT ![t] = "writing"] /\ appenders' # {}
      /\ UNCHANGED <<phase, logfile, priority, current, lock, last>>
  BY DEF G!AddStderr, G!Goes, G!levelVars
<1>2. UNCHANGED initialized
  BY DEF G!AddStderr
<1>3. LogTyped' /\ LogLock'
  BY <1>1 DEF LogInv, LogTyped, LogLock
<1>4. LogReady'
  BY <1>1, <1>2 DEF LogInv, LogTyped, LogReady
<1>5. G!LostOnlyAtFirst'
  BY <1>1 DEF LogInv, G!LostOnlyAtFirst, G!Known
<1> QED
  BY <1>3, <1>4, <1>5 DEF LogInv

\* A message is done: where it went is where the appenders are.
LEMMA LogDone ==
    ASSUME LogInv, NEW t \in G!Thread, pc[t] \in {"writing", "syslog"}, G!Done(t),
           UNCHANGED <<logfile, appenders, initialized>>
    PROVE  LogReady' /\ G!LostOnlyAtFirst'
<1>1. G!Goes(t, "idle") /\ last' = [to |-> appenders, adding |-> G!Adding]
  BY DEF G!Done
<1>2. G!Adding' = G!Adding
  BY <1>1, SameAdding DEF LogInv
<1>3. initialized
  BY DEF LogInv, LogReady
<1>4. LogReady'
  BY <1>2, <1>3 DEF LogInv, LogReady, G!Known
<1>5. G!LostOnlyAtFirst'
  BY <1>1, <1>3 DEF LogInv, LogReady, G!LostOnlyAtFirst, G!Known
<1> QED
  BY <1>4, <1>5

LEMMA LogWrite ==
    ASSUME LogInv, NEW t \in G!Thread, G!Write(t), None \notin G!Thread
    PROVE  LogInv'
<1>1. /\ pc[t] = "writing" /\ UNCHANGED <<phase, logfile, priority, current, appenders>>
  BY DEF G!Write, G!levelVars, G!listVars
<1>2. UNCHANGED initialized
  BY DEF G!Write, G!listVars
<1>3. CASE "syslog" \in appenders
  <2>1. lock = None /\ lock' = t /\ G!Goes(t, "syslog") /\ UNCHANGED last
    BY <1>3 DEF G!Write
  <2>2. LogTyped' /\ LogLock'
    BY <1>1, <2>1 DEF LogInv, LogTyped, LogLock, G!Goes
  <2>3. LogReady'
    BY <1>1, <1>2, <1>3 DEF LogInv, LogReady
  <2> QED
    BY <1>1, <2>1, <2>2, <2>3 DEF LogInv, G!LostOnlyAtFirst, G!Known
<1>4. CASE "syslog" \notin appenders
  <2>1. G!Done(t) /\ UNCHANGED lock
    BY <1>4 DEF G!Write
  <2>2. LogReady' /\ G!LostOnlyAtFirst'
    BY <1>1, <1>2, <2>1, LogDone
  <2>3. LogTyped' /\ LogLock'
    BY <1>1, <2>1 DEF LogInv, LogTyped, LogLock, G!Done, G!Goes
  <2> QED
    BY <2>2, <2>3 DEF LogInv
<1> QED
  BY <1>3, <1>4

LEMMA LogWritten ==
    ASSUME LogInv, NEW t \in G!Thread, G!Written(t), None \notin G!Thread
    PROVE  LogInv'
<1>1. /\ pc[t] = "syslog" /\ lock' = None /\ G!Done(t)
      /\ UNCHANGED <<phase, logfile, priority, current, appenders>>
  BY DEF G!Written, G!levelVars, G!listVars
<1>2. UNCHANGED initialized
  BY DEF G!Written, G!listVars
<1>3. LogReady' /\ G!LostOnlyAtFirst'
  BY <1>1, <1>2, LogDone
<1>4. lock = t
  BY <1>1 DEF LogInv, LogLock
<1>5. LogTyped' /\ LogLock'
  BY <1>1, <1>4 DEF LogInv, LogTyped, LogLock, G!Done, G!Goes
<1> QED
  BY <1>3, <1>5 DEF LogInv

LEMMA LogSetUp ==
    ASSUME LogInv, G!SetUp
    PROVE  LogInv'
<1>1. UNCHANGED <<logfile, pc, lock, last>> /\ phase' \in {"running", "crashed"}
  BY DEF G!SetUp
<1>2. priority' \in G!Level /\ current' \in G!Level
  BY DEF G!SetUp, G!levelVars, LogInv, LogTyped
<1>3. LogTyped' /\ LogLock'
  BY <1>1, <1>2 DEF LogInv, LogTyped, LogLock
<1>4. \/ UNCHANGED <<appenders, initialized>>
      \/ appenders' # {}
      \/ logfile.kind = "list" /\ G!Known(logfile.names) = {}
  <2>1. PICK value : G!SetUpLogFile(value) \/ UNCHANGED <<appenders, initialized>>
    BY DEF G!SetUp, G!listVars
  <2>2. CASE UNCHANGED <<appenders, initialized>>
    BY <2>2
  <2>3. CASE logfile.kind = "list" /\ G!Use(logfile.names)
    BY <2>3 DEF G!Use
  <2>4. CASE G!Known(<<value>>) # {} /\ G!Use(<<value>>)
    BY <2>4 DEF G!Use
  <2> QED
    BY <2>1, <2>2, <2>3, <2>4 DEF G!SetUpLogFile, G!listVars
<1>5. initialized => initialized'
  BY DEF G!SetUp, G!SetUpLogFile, G!Use, G!listVars
<1>6. G!Adding' = G!Adding
  BY <1>1 DEF G!Adding
<1>7. LogReady'
  BY <1>1, <1>4, <1>5, <1>6 DEF LogInv, LogReady, G!Known
<1>8. G!LostOnlyAtFirst'
  BY <1>1 DEF LogInv, G!LostOnlyAtFirst, G!Known
<1> QED
  BY <1>3, <1>7, <1>8 DEF LogInv

LEMMA LogCommand ==
    ASSUME G!LogAssumption, LogInv, NEW c \in Commands, G!CmdSetLogLevel(c)
    PROVE  LogInv'
<1>1. UNCHANGED <<phase, logfile, current, appenders, pc, lock, last>> /\ priority' = G!CmdLevel(c)
  BY DEF G!CmdSetLogLevel, G!listVars
<1>2. UNCHANGED initialized
  BY DEF G!CmdSetLogLevel, G!listVars
<1>3. priority' \in G!Level
  BY <1>1, LogLevels DEF G!CmdLevel, G!LogAssumption
<1> QED
  BY <1>1, <1>2, <1>3 DEF LogInv, LogTyped, LogLock, LogReady, G!LostOnlyAtFirst, G!Adding, G!Known

LEMMA LogSignal ==
    ASSUME LogInv, NEW sig \in {"USR1", "USR2"}, G!LogLevelChange(sig)
    PROVE  LogInv'
<1>1. /\ pc["handler"] = "idle" /\ UNCHANGED <<phase, logfile, appenders, lock, last>>
      /\ current' = G!Changed(sig) /\ priority' = current'
      /\ G!Begin("handler") \/ (UNCHANGED pc /\ initialized' = initialized)
  BY DEF G!LogLevelChange
<1>2. current' \in G!Level
  BY <1>1, LogLevels DEF G!Changed, LogInv, LogTyped
<1>3. CASE G!Begin("handler")
  <2>1. "handler" \in G!Thread
    BY DEF G!Thread
  <2>2. /\ pc' \in [G!Thread -> {"idle", "adding", "writing", "syslog"}]
        /\ \A u \in G!Thread : (pc'[u] = "syslog") <=> (pc[u] = "syslog")
        /\ LogReady' /\ G!LostOnlyAtFirst'
    BY <1>1, <1>3, <2>1, LogBegin
  <2>3. LogTyped' /\ LogLock'
    BY <1>1, <1>2, <2>2 DEF LogInv, LogTyped, LogLock
  <2> QED
    BY <2>2, <2>3 DEF LogInv
<1>4. CASE UNCHANGED pc /\ initialized' = initialized
  BY <1>1, <1>2, <1>4 DEF LogInv, LogTyped, LogLock, LogReady, G!LostOnlyAtFirst, G!Adding, G!Known
<1> QED
  BY <1>1, <1>3, <1>4

\* In every interleaving of the threads with signals that log: a message that passes the level is
\* written somewhere, unless another thread is just adding the first appender or a list names no
\* appender; and only one thread is inside syslog().
THEOREM LogSafe ==
    ASSUME G!LogAssumption
    PROVE  G!Spec => []LoggingSafe
<1>1. LogInv => LoggingSafe
  BY DEF LogInv, LogTyped, LogLock, LoggingSafe, G!LoggingSafe, G!TypeOK, G!LogAssumption
<1>2. G!Init => LogInv
  BY LogInit
<1>3. LogInv /\ [G!Next]_(G!vars) => LogInv'
  <2> SUFFICES ASSUME LogInv, [G!Next]_(G!vars) PROVE LogInv'
    OBVIOUS
  <2>1. CASE UNCHANGED G!vars
    BY <2>1 DEF G!vars, G!levelVars, G!listVars, LogInv, LogTyped, LogLock, LogReady,
                G!LostOnlyAtFirst, G!Adding, G!Known
  <2>2. ASSUME NEW t \in G!Thread, G!Log(t) \/ G!LogStep(t) PROVE LogInv'
    BY <2>2, LogLog, LogAdd, LogWrite, LogWritten DEF G!LogStep, G!LogAssumption
  <2> QED
    BY <2>1, <2>2, LogSetUp, LogCommand, LogSignal DEF G!Next
<1> QED
  BY <1>1, <1>2, <1>3, PTL DEF G!Spec

-----------------------------------------------------------------------------
(* The sessions of the command interface, for any clients, size of the buffer, number of lines *)
(* and number of prints.                                                                       *)

PrintOf == [of: Clients \X Nat, k: Nat, size: 1 .. Reserve]
AnswerOf == [retval: {0, 1}, text: Seq(PrintOf), output: Seq(PrintOf)]

SesTyped ==
    /\ server \in {"accept", "greet", "wait", "execute", "answer", "close", "ended"}
    /\ session \in Clients \cup {None}
    /\ (session = None) <=> (server \in {"accept", "ended"})
    /\ client \in [Clients -> {"off", "greeted", "prompt", "asked", "ended", "killed"}]
    /\ state \in {"alive", "exited", "killed"}

SesSequences ==
    /\ backlog \in Seq(Clients) /\ asked \in [Clients -> Seq({"date", "shutdown"})]
    /\ answers \in [Clients -> Seq(AnswerOf)]
    /\ text \in Seq(PrintOf) /\ output \in Seq(PrintOf) /\ bp_index \in Nat

Beginning(s, t) == Len(s) <= Len(t) /\ \A i \in 1 .. Len(s) : s[i] = t[i]

\* The buffer holds what the present command or the greeting has printed; once a print is dropped,
\* those that follow are too.
SesBuffer ==
    /\ bp_index <= Capacity
    /\ IF server \in {"greet", "execute", "answer"}
       THEN text = output \/ (Capacity < bp_index + Reserve /\ Beginning(text, output))
       ELSE text = <<>> /\ bp_index = 0

SesOwn ==
    server \in {"execute", "answer"} =>
        \A j \in DOMAIN output : output[j].of = <<session, Len(asked[session])>>

\* Who waits in the backlog has not been answered, and who is served waits for the server.
SesBacklog ==
    state = "alive" /\ server # "ended" =>
        /\ \A i \in DOMAIN backlog :
              /\ client[backlog[i]] \in {"greeted", "killed"} /\ answers[backlog[i]] = <<>>
              /\ backlog[i] # session
        /\ \A i, j \in DOMAIN backlog : backlog[i] = backlog[j] => i = j

SesServed ==
    state = "alive" /\ server # "ended" =>
        /\ server = "greet" => client[session] \in {"greeted", "killed"} /\ answers[session] = <<>>
        /\ server \in {"execute", "answer"} =>
              client[session] \in {"asked", "killed"} /\ answers[session] = <<>>
        /\ server \in {"wait", "close"} => client[session] # "off"

SesLine ==
    state = "alive" /\ server # "ended" /\ line =>
        /\ server \in {"wait", "close"}
        /\ server = "wait" => client[session] \in {"asked", "killed"} /\ answers[session] = <<>>

\* A client has at most one answer to read, and the one that it waits for is its own.
SesAnswers ==
    \A c \in Clients :
        /\ Len(answers[c]) <= 1
        /\ client[c] \in {"off", "prompt"} => answers[c] = <<>>
        /\ \A i \in DOMAIN answers[c] :
              /\ Beginning(answers[c][i].text, answers[c][i].output)
              /\ client[c] = "asked" =>
                    \A j \in DOMAIN answers[c][i].output :
                        answers[c][i].output[j].of = <<c, Len(asked[c])>>

SesInv ==
    /\ SesTyped /\ SesSequences /\ SesBuffer /\ SesOwn
    /\ SesBacklog /\ SesServed /\ SesLine /\ SesAnswers
    /\ line \in BOOLEAN /\ stop \in BOOLEAN

LEMMA BeginningIsPrefix ==
    ASSUME NEW X, NEW s \in Seq(X), NEW t \in Seq(X), Beginning(s, t)
    PROVE  S!IsPrefix(s, t)
BY DEF Beginning, S!IsPrefix

LEMMA Waiting ==
    ASSUME SesSequences
    PROVE  DOMAIN backlog = 1 .. Len(backlog) /\ \A i \in DOMAIN backlog : backlog[i] \in Clients
BY DEF SesSequences

LEMMA SesInit == ASSUME S!SizeAssumption, S!Init PROVE SesInv
<1>1. SesTyped /\ SesSequences /\ SesBuffer
  BY DEF S!Init, S!SizeAssumption, SesTyped, SesSequences, SesBuffer
<1>2. SesOwn /\ SesBacklog /\ SesServed
  BY DEF S!Init, SesOwn, SesBacklog, SesServed
<1>3. SesLine /\ line \in BOOLEAN /\ stop \in BOOLEAN
  BY DEF S!Init, SesLine
<1>4. SesAnswers
  BY DEF S!Init, SesAnswers
<1> QED
  BY <1>1, <1>2, <1>3, <1>4 DEF SesInv

\* A step that leaves the buffer, the lines and the answers alone.
LEMMA SesAccept == ASSUME S!SizeAssumption, SesInv, S!Accept PROVE SesInv'
<1>1. /\ state = "alive" /\ server = "accept" /\ backlog # <<>>
      /\ session' = Head(backlog) /\ backlog' = Tail(backlog)
      /\ server' = "greet" /\ output' = <<>>
      /\ UNCHANGED <<client, asked, text, bp_index, answers, state>>
  BY DEF S!Accept, S!Alive, S!clientVars
<1>2. UNCHANGED <<line, stop>>
  BY DEF S!Accept
<1>3. /\ backlog \in Seq(Clients) /\ Len(backlog) >= 1 /\ Head(backlog) = backlog[1]
      /\ Tail(backlog) \in Seq(Clients) /\ Len(Tail(backlog)) = Len(backlog) - 1
      /\ \A i \in 1 .. Len(backlog) - 1 : Tail(backlog)[i] = backlog[i + 1]
  BY <1>1 DEF SesInv, SesSequences
<1>4. SesTyped' /\ SesSequences'
  BY <1>1, <1>3 DEF SesInv, SesTyped, SesSequences, S!SizeAssumption
<1>5. SesBuffer' /\ SesOwn'
  BY <1>1 DEF SesInv, SesBuffer, SesOwn
<1>6. SesBacklog'
  BY <1>1, <1>3 DEF SesInv, SesBacklog
<1>7. SesServed'
  BY <1>1, <1>3 DEF SesInv, SesBacklog, SesServed
<1>8. SesLine'
  BY <1>1, <1>2 DEF SesInv, SesLine
<1>9. SesAnswers'
  BY <1>1 DEF SesInv, SesAnswers
<1> QED
  BY <1>2, <1>4, <1>5, <1>6, <1>7, <1>8, <1>9 DEF SesInv

\* A print for the line of the present session.
LEMMA SesBprint ==
    ASSUME S!SizeAssumption, SesInv, server \in {"greet", "execute"}, UNCHANGED <<server, session, asked>>,
           NEW n \in Nat, NEW p \in S!Prints(<<session, n>>), S!Bprint(p),
           server = "execute" => n = Len(asked[session])
    PROVE  /\ text' \in Seq(PrintOf) /\ output' \in Seq(PrintOf) /\ bp_index' \in Nat
           /\ SesBuffer' /\ SesOwn'
<1>1. /\ text \in Seq(PrintOf) /\ output \in Seq(PrintOf) /\ bp_index \in Nat
      /\ session \in Clients /\ Capacity \in Nat /\ Reserve \in Nat
  BY DEF SesInv, SesSequences, SesTyped, S!SizeAssumption
<1>2. p \in PrintOf /\ p.of = <<session, n>> /\ p.size \in 1 .. Reserve
  BY <1>1 DEF S!Prints, PrintOf
<1>3. output' = Append(output, p)
  BY DEF S!Bprint
<1>4. SesOwn'
  BY <1>1, <1>2, <1>3 DEF SesInv, SesOwn
<1>5. CASE Capacity < bp_index + Reserve
  <2>1. UNCHANGED <<text, bp_index>>
    BY <1>5 DEF S!Bprint
  <2>2. Beginning(text, output)
    BY DEF SesInv, SesBuffer, Beginning
  <2>3. Beginning(text', output')
    BY <1>1, <1>2, <1>3, <2>1, <2>2 DEF Beginning
  <2>4. SesBuffer'
    BY <1>5, <2>1, <2>3 DEF SesInv, SesBuffer
  <2> QED
    BY <1>1, <1>2, <1>3, <1>4, <2>1, <2>4
<1>6. CASE ~(Capacity < bp_index + Reserve)
  <2>1. text' = Append(text, p) /\ bp_index' = bp_index + p.size
    BY <1>6 DEF S!Bprint
  <2>2. text = output
    BY <1>6 DEF SesInv, SesBuffer
  <2>3. bp_index' <= Capacity
    BY <1>1, <1>2, <1>6, <2>1
  <2>4. SesBuffer'
    BY <1>3, <2>1, <2>2, <2>3 DEF SesBuffer
  <2> QED
    BY <1>1, <1>2, <1>3, <1>4, <2>1, <2>4
<1> QED
  BY <1>5, <1>6

LEMMA SesPrints ==
    ASSUME S!SizeAssumption, SesInv, S!GreetingPrints \/ S!CommandPrints
    PROVE  SesInv'
<1>1. /\ server \in {"greet", "execute"}
      /\ UNCHANGED <<server, session, backlog, client, asked, answers, state>>
  BY DEF S!GreetingPrints, S!CommandPrints, S!serverVars, S!clientVars
<1>2. UNCHANGED <<line, stop>>
  BY DEF S!GreetingPrints, S!CommandPrints, S!serverVars
<1>3. session \in Clients /\ Len(asked[session]) \in Nat
  BY <1>1 DEF SesInv, SesTyped, SesSequences
<1>4. \E n \in Nat : /\ server = "execute" => n = Len(asked[session])
                    /\ \E p \in S!Prints(<<session, n>>) : S!Bprint(p)
  <2>1. CASE S!GreetingPrints
    BY <2>1 DEF S!GreetingPrints
  <2>2. CASE S!CommandPrints
    BY <1>3, <2>2 DEF S!CommandPrints
  <2> QED
    BY <2>1, <2>2
<1>5. PICK n \in Nat : /\ server = "execute" => n = Len(asked[session])
                      /\ \E p \in S!Prints(<<session, n>>) : S!Bprint(p)
  BY <1>4
<1>6. /\ text' \in Seq(PrintOf) /\ output' \in Seq(PrintOf) /\ bp_index' \in Nat
      /\ SesBuffer' /\ SesOwn'
  BY <1>1, <1>5, SesBprint
<1>7. SesTyped' /\ SesSequences'
  BY <1>1, <1>6 DEF SesInv, SesTyped, SesSequences
<1>8. SesBacklog' /\ SesServed'
  BY <1>1 DEF SesInv, SesBacklog, SesServed
<1>9. SesLine'
  BY <1>1, <1>2 DEF SesInv, SesLine
<1>10. SesAnswers'
  BY <1>1 DEF SesInv, SesAnswers
<1> QED
  BY <1>2, <1>6, <1>7, <1>8, <1>9, <1>10 DEF SesInv

\* What the server writes when the client is still there.
LEMMA SesSend ==
    ASSUME S!SizeAssumption, SesInv, state = "alive", server \in {"greet", "answer"},
           NEW r \in {0, 1}, S!Send(S!Message(r)), UNCHANGED <<client, asked>>
    PROVE  /\ answers' \in [Clients -> Seq(AnswerOf)] /\ state' \in {"alive", "killed"}
           /\ SesAnswers'
           /\ \A c \in Clients : c # session => answers'[c] = answers[c]
<1>1. /\ session \in Clients /\ answers \in [Clients -> Seq(AnswerOf)]
      /\ text \in Seq(PrintOf) /\ output \in Seq(PrintOf)
  BY DEF SesInv, SesTyped, SesSequences, S!SizeAssumption
<1>2. S!Message(r) \in AnswerOf /\ S!Message(r).text = text /\ S!Message(r).output = output
  BY <1>1 DEF S!Message, AnswerOf
<1>3. CASE S!Gone(session)
  <2>1. UNCHANGED answers /\ state' = "killed"
    BY <1>3 DEF S!Send
  <2> QED
    BY <1>1, <2>1 DEF SesInv, SesAnswers
<1>4. CASE ~S!Gone(session)
  <2>1. /\ answers' = [answers EXCEPT ![session] = Append(answers[session], S!Message(r))]
        /\ UNCHANGED state
    BY <1>1, <1>4 DEF S!Send
  <2>2. answers[session] = <<>> /\ client[session] \in {"greeted", "asked"}
    BY <1>4 DEF SesInv, SesServed, S!Gone
  <2>3. /\ answers'[session] = <<S!Message(r)>>
        /\ \A c \in Clients : c # session => answers'[c] = answers[c]
        /\ answers' \in [Clients -> Seq(AnswerOf)]
    BY <1>1, <1>2, <2>1, <2>2
  <2>4. Beginning(text, output)
    BY DEF SesInv, SesBuffer, Beginning
  <2>5. client[session] = "asked" =>
            \A j \in DOMAIN output : output[j].of = <<session, Len(asked[session])>>
    BY DEF SesInv, SesServed, SesOwn
  <2>6. ASSUME NEW c \in Clients
        PROVE  /\ Len(answers'[c]) <= 1
               /\ client[c] \in {"off", "prompt"} => answers'[c] = <<>>
               /\ \A i \in DOMAIN answers'[c] :
                     /\ Beginning(answers'[c][i].text, answers'[c][i].output)
                     /\ client[c] = "asked" =>
                           \A j \in DOMAIN answers'[c][i].output :
                               answers'[c][i].output[j].of = <<c, Len(asked[c])>>
    <3>1. CASE c = session
      <4>1. Len(answers'[c]) = 1 /\ answers'[c][1] = S!Message(r) /\ DOMAIN answers'[c] = {1}
        <5>1. \A m : Len(<<m>>) = 1 /\ <<m>>[1] = m /\ DOMAIN <<m>> = {1}
          OBVIOUS
        <5> QED
          BY <2>3, <3>1, <5>1
      <4>2. client[c] \in {"greeted", "asked"}
        BY <2>2, <3>1
      <4> QED
        BY <1>2, <2>4, <2>5, <3>1, <4>1, <4>2
    <3>2. CASE c # session
      BY <2>3, <3>2 DEF SesInv, SesAnswers
    <3> QED
      BY <3>1, <3>2
  <2> QED
    BY <2>1, <2>3, <2>6 DEF SesAnswers
<1> QED
  BY <1>3, <1>4

LEMMA SesGreet == ASSUME S!SizeAssumption, SesInv, S!Greet PROVE SesInv'
<1>1. /\ state = "alive" /\ server = "greet" /\ S!Send(S!Message(1)) /\ server' = "wait"
      /\ text' = <<>> /\ bp_index' = 0
      /\ UNCHANGED <<session, backlog, client, asked, output>>
  BY DEF S!Greet, S!Alive, S!Emptied, S!clientVars
<1>2. UNCHANGED <<line, stop>>
  BY DEF S!Greet
<1>3. /\ answers' \in [Clients -> Seq(AnswerOf)] /\ state' \in {"alive", "killed"}
      /\ SesAnswers'
      /\ \A c \in Clients : c # session => answers'[c] = answers[c]
  BY <1>1, SesSend
<1>4. SesTyped' /\ SesSequences' /\ SesBuffer' /\ SesOwn'
  BY <1>1, <1>3 DEF SesInv, SesTyped, SesSequences, SesBuffer, SesOwn, S!SizeAssumption
<1>5. SesBacklog' /\ SesServed'
  BY <1>1, <1>3 DEF SesInv, SesBacklog, SesServed, SesSequences
<1>6. ~line
  BY <1>1 DEF SesInv, SesLine
<1>7. SesLine'
  BY <1>2, <1>6 DEF SesLine
<1> QED
  BY <1>2, <1>3, <1>4, <1>5, <1>7 DEF SesInv

LEMMA SesAnswer == ASSUME S!SizeAssumption, SesInv, S!Answer PROVE SesInv'
<1>1. /\ state = "alive" /\ server = "answer" /\ server' \in {"close", "wait"}
      /\ text' = <<>> /\ bp_index' = 0
      /\ UNCHANGED <<session, backlog, client, asked, output>>
  BY DEF S!Answer, S!Alive, S!Emptied, S!clientVars
<1>2. UNCHANGED <<line, stop>>
  BY DEF S!Answer
<1>3. \E r \in {0, 1} : S!Send(S!Message(r))
  BY DEF S!Answer
<1>4. /\ answers' \in [Clients -> Seq(AnswerOf)] /\ state' \in {"alive", "killed"}
      /\ SesAnswers'
      /\ \A c \in Clients : c # session => answers'[c] = answers[c]
  BY <1>1, <1>3, SesSend
<1>5. SesTyped' /\ SesSequences' /\ SesBuffer' /\ SesOwn'
  BY <1>1, <1>4 DEF SesInv, SesTyped, SesSequences, SesBuffer, SesOwn, S!SizeAssumption
<1>6. SesBacklog' /\ SesServed'
  BY <1>1, <1>4 DEF SesInv, SesBacklog, SesServed, SesSequences
<1>7. ~line
  BY <1>1 DEF SesInv, SesLine
<1>8. SesLine'
  BY <1>2, <1>7 DEF SesLine
<1> QED
  BY <1>2, <1>4, <1>5, <1>6, <1>8 DEF SesInv

LEMMA SesReadLine == ASSUME SesInv, S!ReadLine PROVE SesInv'
<1>1. /\ state = "alive" /\ server = "wait" /\ server' = "execute" /\ output' = <<>>
      /\ UNCHANGED <<session, backlog, client, asked, text, bp_index, answers, state>>
  BY DEF S!ReadLine, S!Alive, S!clientVars
<1>2. line /\ line' = FALSE /\ UNCHANGED stop
  BY DEF S!ReadLine
<1>3. client[session] \in {"asked", "killed"} /\ answers[session] = <<>>
  BY <1>1, <1>2 DEF SesInv, SesLine
<1>4. SesTyped' /\ SesSequences' /\ SesBuffer' /\ SesOwn'
  BY <1>1 DEF SesInv, SesTyped, SesSequences, SesBuffer, SesOwn
<1>5. SesBacklog' /\ SesServed' /\ SesAnswers'
  BY <1>1, <1>3 DEF SesInv, SesBacklog, SesServed, SesAnswers
<1>6. SesLine'
  BY <1>2 DEF SesLine
<1> QED
  BY <1>2, <1>4, <1>5, <1>6 DEF SesInv

LEMMA SesReturns == ASSUME SesInv, S!CommandReturns PROVE SesInv'
<1>1. /\ server = "execute" /\ server' = "answer"
      /\ UNCHANGED <<session, backlog, client, asked, text, bp_index, output, answers, state>>
  BY DEF S!CommandReturns, S!clientVars, S!bufferVars
<1>2. UNCHANGED line /\ stop' \in BOOLEAN
  BY DEF S!CommandReturns
<1>3. SesTyped' /\ SesSequences' /\ SesBuffer' /\ SesOwn'
  BY <1>1 DEF SesInv, SesTyped, SesSequences, SesBuffer, SesOwn
<1>4. SesBacklog' /\ SesServed' /\ SesAnswers'
  BY <1>1 DEF SesInv, SesBacklog, SesServed, SesAnswers
<1>5. SesLine'
  BY <1>1, <1>2 DEF SesInv, SesLine
<1> QED
  BY <1>2, <1>3, <1>4, <1>5 DEF SesInv

\* The end of a session, of the server and of the process.
LEMMA SesEnds ==
    ASSUME S!SizeAssumption, SesInv,
           S!EndOfFile \/ S!CloseSession \/ S!ServerEnds \/ S!MainExits
    PROVE  SesInv'
<1>1. UNCHANGED <<backlog, client, asked, text, bp_index, output, answers>>
  BY DEF S!EndOfFile, S!CloseSession, S!ServerEnds, S!MainExits, S!serverVars, S!clientVars,
         S!bufferVars
<1>2. UNCHANGED stop /\ line' \in {line, FALSE}
  BY DEF S!EndOfFile, S!CloseSession, S!ServerEnds, S!MainExits, S!serverVars
<1>3. SesSequences' /\ SesAnswers'
  BY <1>1 DEF SesInv, SesSequences, SesAnswers
<1>4. CASE S!EndOfFile
  <2>1. server = "wait" /\ server' = "close" /\ UNCHANGED <<session, state>>
    BY <1>4 DEF S!EndOfFile
  <2>2. SesTyped' /\ SesBuffer' /\ SesOwn' /\ SesBacklog' /\ SesServed'
    BY <1>1, <2>1 DEF SesInv, SesTyped, SesBuffer, SesOwn, SesBacklog, SesServed
  <2>3. SesLine'
    BY <2>1 DEF SesLine
  <2> QED
    BY <1>2, <1>3, <2>2, <2>3 DEF SesInv
<1>5. CASE S!CloseSession
  <2>1. server = "close" /\ server' = "accept" /\ session' = None /\ UNCHANGED state
    BY <1>5 DEF S!CloseSession
  <2>2. SesTyped' /\ SesBuffer' /\ SesOwn' /\ SesServed'
    BY <1>1, <2>1 DEF SesInv, SesTyped, SesBuffer, SesOwn, SesServed
  <2>3. SesBacklog'
    BY <1>1, <2>1 DEF SesInv, SesBacklog, SesSequences, S!SizeAssumption
  <2>4. SesLine'
    BY <1>5 DEF S!CloseSession, SesLine
  <2> QED
    BY <1>2, <1>3, <2>2, <2>3, <2>4 DEF SesInv
<1>6. CASE S!ServerEnds
  <2>1. server = "accept" /\ server' = "ended" /\ UNCHANGED <<session, state>>
    BY <1>6 DEF S!ServerEnds
  <2>2. SesTyped' /\ SesBuffer' /\ SesOwn' /\ SesBacklog' /\ SesServed' /\ SesLine'
    BY <1>1, <2>1 DEF SesInv, SesTyped, SesBuffer, SesOwn, SesBacklog, SesServed, SesLine
  <2> QED
    BY <1>2, <1>3, <2>2 DEF SesInv
<1>7. CASE S!MainExits
  <2>1. state' = "exited" /\ UNCHANGED <<server, session>>
    BY <1>7 DEF S!MainExits, S!serverVars
  <2>2. SesTyped' /\ SesBuffer' /\ SesOwn' /\ SesBacklog' /\ SesServed' /\ SesLine'
    BY <1>1, <2>1 DEF SesInv, SesTyped, SesBuffer, SesOwn, SesBacklog, SesServed, SesLine
  <2> QED
    BY <1>2, <1>3, <2>2 DEF SesInv
<1> QED
  BY <1>4, <1>5, <1>6, <1>7

\* A client that goes away, or is ended by the server.
LEMMA SesGone ==
    ASSUME SesInv, NEW c \in Clients, NEW to \in {"ended", "killed"},
           client' = [client EXCEPT ![c] = to], to = "ended" => client[c] = "prompt",
           UNCHANGED <<session, backlog, asked, text, bp_index, output, answers, state>>,
           UNCHANGED line, UNCHANGED stop,
           UNCHANGED server \/ (server = "wait" /\ server' = "close" /\ c = session)
    PROVE  SesInv'
<1>1. client \in [Clients -> {"off", "greeted", "prompt", "asked", "ended", "killed"}]
  BY DEF SesInv, SesTyped
<1>2. \A d \in Clients : client'[d] = IF d = c THEN to ELSE client[d]
  BY <1>1
<1>3. SesTyped' /\ SesSequences' /\ SesBuffer' /\ SesOwn'
  BY <1>1 DEF SesInv, SesTyped, SesSequences, SesBuffer, SesOwn
<1>4. SesAnswers'
  BY <1>2 DEF SesInv, SesAnswers
<1>5. SesBacklog'
  BY <1>2, SMTT(30) DEF SesInv, SesBacklog, SesSequences
<1>6. SesServed'
  BY <1>2 DEF SesInv, SesServed, SesTyped
<1>7. SesLine'
  BY <1>2 DEF SesInv, SesLine, SesTyped
<1> QED
  BY <1>3, <1>4, <1>5, <1>6, <1>7 DEF SesInv

LEMMA SesLeaves ==
    ASSUME SesInv
    PROVE  /\ S!IdleTimeout => SesInv'
           /\ \A c \in Clients : S!Exit(c) \/ S!Interrupted(c) => SesInv'
<1>1. ASSUME S!IdleTimeout PROVE SesInv'
  <2>1. /\ server = "wait" /\ server' = "close" /\ client' = [client EXCEPT ![session] = "killed"]
        /\ UNCHANGED <<session, backlog, asked, text, bp_index, output, answers, state>>
    BY <1>1 DEF S!IdleTimeout, S!bufferVars
  <2>2. UNCHANGED line /\ UNCHANGED stop
    BY <1>1 DEF S!IdleTimeout
  <2>3. session \in Clients
    BY <2>1 DEF SesInv, SesTyped
  <2> QED
    BY <2>1, <2>2, <2>3, SesGone
<1>2. ASSUME NEW c \in Clients, S!Exit(c) \/ S!Interrupted(c) PROVE SesInv'
  <2>1. /\ \E to \in {"ended", "killed"} :
              /\ client' = [client EXCEPT ![c] = to]
              /\ to = "ended" => client[c] = "prompt"
        /\ UNCHANGED <<server, session, backlog, asked, text, bp_index, output, answers, state>>
    BY <1>2 DEF S!Exit, S!Interrupted, S!serverVars, S!bufferVars
  <2>2. UNCHANGED line /\ UNCHANGED stop
    BY <1>2 DEF S!Exit, S!Interrupted, S!serverVars
  <2> QED
    BY <2>1, <2>2, SesGone
<1> QED
  BY <1>1, <1>2

LEMMA SesConnect == ASSUME S!SizeAssumption, SesInv, NEW c \in Clients, S!Connect(c) PROVE SesInv'
<1>1. /\ state = "alive" /\ server # "ended" /\ client[c] = "off"
      /\ client' = [client EXCEPT ![c] = "greeted"] /\ backlog' = Append(backlog, c)
      /\ UNCHANGED <<server, session, asked, text, bp_index, output, answers, state>>
  BY DEF S!Connect, S!Alive, S!bufferVars
<1>2. UNCHANGED line /\ UNCHANGED stop
  BY DEF S!Connect
<1>3. client \in [Clients -> {"off", "greeted", "prompt", "asked", "ended", "killed"}]
  BY DEF SesInv, SesTyped
<1>4. \A d \in Clients : client'[d] = IF d = c THEN "greeted" ELSE client[d]
  BY <1>1, <1>3
<1>5. c # session
  BY <1>1 DEF SesInv, SesServed, SesTyped, S!SizeAssumption
<1>6. /\ backlog \in Seq(Clients) /\ backlog' \in Seq(Clients)
      /\ Len(backlog') = Len(backlog) + 1 /\ backlog'[Len(backlog) + 1] = c
      /\ \A i \in 1 .. Len(backlog) : backlog'[i] = backlog[i]
  BY <1>1 DEF SesInv, SesSequences
<1>7. \A i \in 1 .. Len(backlog) : backlog[i] # c
  BY <1>1, <1>6 DEF SesInv, SesBacklog
<1>8. SesTyped' /\ SesSequences' /\ SesBuffer' /\ SesOwn'
  BY <1>1, <1>3, <1>6 DEF SesInv, SesTyped, SesSequences, SesBuffer, SesOwn
<1>9. SesAnswers'
  BY <1>1, <1>4 DEF SesInv, SesAnswers
<1>10. answers[c] = <<>>
  BY <1>1 DEF SesInv, SesAnswers
<1>11. SesBacklog'
  <2>1. ASSUME NEW i \in DOMAIN backlog'
        PROVE  /\ client'[backlog'[i]] \in {"greeted", "killed"} /\ answers'[backlog'[i]] = <<>>
               /\ backlog'[i] # session'
    BY <1>1, <1>4, <1>5, <1>6, <1>10 DEF SesInv, SesBacklog
  <2>2. ASSUME NEW i \in DOMAIN backlog', NEW j \in DOMAIN backlog', backlog'[i] = backlog'[j]
        PROVE  i = j
    BY <1>1, <1>6, <1>7, <2>2 DEF SesInv, SesBacklog
  <2> QED
    BY <2>1, <2>2 DEF SesBacklog
<1>12. SesServed'
  BY <1>1, <1>4, <1>5 DEF SesInv, SesServed, SesTyped
<1>13. SesLine'
  BY <1>1, <1>2, <1>4, <1>5 DEF SesInv, SesLine, SesTyped
<1> QED
  BY <1>2, <1>8, <1>9, <1>11, <1>12, <1>13 DEF SesInv

\* A client whose connection is open, and which is not at the greeting, is the one served; it has
\* asked, if the server is at work for it.
LEMMA SesOpen ==
    ASSUME S!SizeAssumption, SesInv, NEW c \in Clients, ~S!Closed(c), client[c] \in {"prompt", "asked"}
    PROVE  /\ state = "alive" /\ server # "ended" /\ session = c
           /\ client[c] = "prompt" => server \in {"wait", "close"} /\ ~(server = "wait" /\ line)
<1>1. state = "alive" /\ server # "ended"
  BY DEF S!Closed, S!Alive
<1>2. ASSUME session # c PROVE FALSE
  <2>1. S!Contains(backlog, c)
    BY <1>2 DEF S!Closed
  <2>2. PICK i \in 1 .. Len(backlog) : backlog[i] = c
    BY <2>1 DEF S!Contains
  <2> QED
    BY <1>1, <2>2, Waiting DEF SesInv, SesBacklog
<1>3. client[c] = "prompt" => server \in {"wait", "close"}
  BY <1>1, <1>2 DEF SesInv, SesServed, SesTyped, S!SizeAssumption
<1>4. client[c] = "prompt" => ~(server = "wait" /\ line)
  BY <1>1, <1>2 DEF SesInv, SesLine
<1> QED
  BY <1>1, <1>2, <1>3, <1>4

LEMMA SesAsk ==
    ASSUME S!SizeAssumption, SesInv, NEW c \in Clients, NEW cmd \in {"date", "shutdown"}, S!Ask(c, cmd)
    PROVE  SesInv'
<1>1. /\ client[c] = "prompt"
      /\ UNCHANGED <<server, session, backlog, text, bp_index, output, answers, state>>
  BY DEF S!Ask, S!serverVars, S!bufferVars
<1>2. UNCHANGED stop
  BY DEF S!Ask, S!serverVars
<1>3. CASE S!Closed(c)
  <2>1. client' = [client EXCEPT ![c] = "killed"] /\ UNCHANGED asked
    BY <1>3 DEF S!Ask
  <2>2. UNCHANGED line
    BY <1>3 DEF S!Ask
  <2> QED
    BY <1>1, <1>2, <2>1, <2>2, SesGone
<1>4. CASE ~S!Closed(c)
  <2>1. /\ client' = [client EXCEPT ![c] = "asked"]
        /\ asked' = [asked EXCEPT ![c] = Append(asked[c], cmd)]
    BY <1>4 DEF S!Ask
  <2>2. line' = TRUE
    BY <1>4 DEF S!Ask
  <2>3. /\ client \in [Clients -> {"off", "greeted", "prompt", "asked", "ended", "killed"}]
        /\ asked \in [Clients -> Seq({"date", "shutdown"})]
    BY DEF SesInv, SesTyped, SesSequences
  <2>4. state = "alive" /\ session = c /\ server \in {"wait", "close"} /\ answers[c] = <<>>
    BY <1>1, <1>4, SesOpen DEF SesInv, SesAnswers
  <2>5. \A d \in Clients : d # c => client'[d] = client[d] /\ asked'[d] = asked[d]
    BY <2>1, <2>3
  <2>6. client'[c] = "asked" /\ asked' \in [Clients -> Seq({"date", "shutdown"})]
    BY <2>1, <2>3
  <2>7. SesTyped' /\ SesSequences' /\ SesBuffer' /\ SesOwn'
    BY <1>1, <2>1, <2>3, <2>4, <2>6 DEF SesInv, SesTyped, SesSequences, SesBuffer, SesOwn
  <2>8. SesAnswers'
    BY <1>1, <2>4, <2>5, <2>6 DEF SesInv, SesAnswers
  <2>9. SesBacklog'
    BY <1>1, <2>4, <2>5, Waiting DEF SesInv, SesBacklog
  <2>10. SesServed'
    BY <1>1, <2>4, <2>6 DEF SesServed
  <2>11. SesLine'
    BY <1>1, <2>4, <2>6 DEF SesLine
  <2> QED
    BY <1>2, <2>2, <2>7, <2>8, <2>9, <2>10, <2>11 DEF SesInv
<1> QED
  BY <1>3, <1>4

\* A client that reads: what it waits for, or that the connection is closed.
LEMMA SesReads ==
    ASSUME S!SizeAssumption, SesInv, NEW c \in Clients, S!ClientReads(c)
    PROVE  SesInv'
<1>1. UNCHANGED <<server, session, backlog, asked, text, bp_index, output, state>>
  BY DEF S!ClientReads, S!ReadGreeting, S!ReadAnswer, S!ReadNothing, S!serverVars, S!bufferVars
<1>2. UNCHANGED line /\ UNCHANGED stop
  BY DEF S!ClientReads, S!ReadGreeting, S!ReadAnswer, S!ReadNothing, S!serverVars
<1>3. /\ client \in [Clients -> {"off", "greeted", "prompt", "asked", "ended", "killed"}]
      /\ answers \in [Clients -> Seq(AnswerOf)] /\ Len(answers[c]) <= 1
  BY DEF SesInv, SesTyped, SesSequences, SesAnswers
<1>4. answers[c] # <<>> => Tail(answers[c]) = <<>>
  BY <1>3
<1>5. /\ client[c] \in {"greeted", "asked"} /\ (answers[c] # <<>> \/ S!Closed(c))
      /\ \E to \in {"prompt", "ended"} : client' = [client EXCEPT ![c] = to]
      /\ answers' = [answers EXCEPT ![c] = <<>>]
  <2>1. CASE S!ReadGreeting(c)
    BY <1>3, <1>4, <2>1 DEF S!ReadGreeting
  <2>2. CASE S!ReadAnswer(c)
    BY <1>3, <1>4, <2>2 DEF S!ReadAnswer
  <2>3. CASE S!ReadNothing(c)
    BY <1>3, <2>3 DEF S!ReadNothing
  <2> QED
    BY <2>1, <2>2, <2>3 DEF S!ClientReads
<1>6. /\ \A d \in Clients : d # c => client'[d] = client[d] /\ answers'[d] = answers[d]
      /\ client'[c] \in {"prompt", "ended"} /\ answers'[c] = <<>>
      /\ answers' \in [Clients -> Seq(AnswerOf)]
  BY <1>3, <1>5
<1>7. SesTyped' /\ SesSequences' /\ SesBuffer' /\ SesOwn'
  BY <1>1, <1>3, <1>5, <1>6 DEF SesInv, SesTyped, SesSequences, SesBuffer, SesOwn
<1>8. SesAnswers'
  BY <1>1, <1>6 DEF SesInv, SesAnswers
<1>9. ASSUME state = "alive", server # "ended"
      PROVE  /\ \A i \in 1 .. Len(backlog) : backlog[i] # c
             /\ c = session => server \in {"wait", "close"}
             /\ ~(c = session /\ server = "wait" /\ line)
  <2>1. \A i \in 1 .. Len(backlog) : backlog[i] # c
    BY <1>5, <1>9 DEF SesInv, SesBacklog, SesSequences, S!Closed, S!Alive, S!Contains
  <2>2. c = session => answers[c] # <<>>
    BY <1>5, <1>9, <2>1 DEF S!Closed, S!Alive, S!Contains
  <2>3. c = session => server \in {"wait", "close"}
    BY <1>9, <2>2 DEF SesInv, SesServed, SesTyped, S!SizeAssumption
  <2>4. ~(c = session /\ server = "wait" /\ line)
    BY <1>9, <2>2 DEF SesInv, SesLine
  <2> QED
    BY <2>1, <2>3, <2>4
<1>10. SesBacklog'
  BY <1>1, <1>6, <1>9, Waiting DEF SesInv, SesBacklog
<1>11. SesServed'
  BY <1>1, <1>6, <1>9 DEF SesInv, SesServed, SesTyped
<1>12. SesLine'
  BY <1>1, <1>2, <1>6, <1>9 DEF SesInv, SesLine, SesTyped
<1> QED
  BY <1>2, <1>7, <1>8, <1>10, <1>11, <1>12 DEF SesInv

\* In every interleaving of the clients with the server, however they are interrupted: bprint()
\* stays within its buffer, and a client reads the answer to its own line, with what the command
\* has printed up to the point where the buffer was full.
THEOREM SessionSafe ==
    ASSUME S!SizeAssumption
    PROVE  S!Spec => []SessionsSafe
<1>1. ASSUME SesInv PROVE SessionsSafe
  <2>1. S!TypeOK
    <3>1. {line, stop} \subseteq BOOLEAN
      BY <1>1 DEF SesInv
    <3> QED
      BY <1>1, <3>1 DEF SesInv, SesTyped, SesSequences, S!TypeOK
  <2>2. S!BufferBounded
    BY <1>1 DEF SesInv, SesBuffer, S!BufferBounded
  <2>3. ASSUME NEW c \in Clients, NEW i \in DOMAIN answers[c]
        PROVE  S!IsPrefix(answers[c][i].text, answers[c][i].output)
    <3>1. answers[c][i] \in AnswerOf
      BY <1>1 DEF SesInv, SesSequences
    <3> QED
      BY <1>1, <3>1, BeginningIsPrefix DEF SesInv, SesAnswers, AnswerOf
  <2>4. S!OwnAnswer
    BY <1>1, <2>3 DEF SesInv, SesAnswers, S!OwnAnswer
  <2> QED
    BY <2>1, <2>2, <2>4 DEF SessionsSafe, S!SessionsSafe
<1>2. S!Init => SesInv
  BY SesInit
<1>3. SesInv /\ [S!Next]_(S!vars) => SesInv'
  <2> SUFFICES ASSUME SesInv, [S!Next]_(S!vars) PROVE SesInv'
    OBVIOUS
  <2>1. CASE UNCHANGED S!vars
    <3>1. UNCHANGED <<server, session, backlog, client, asked, text, bp_index, output, answers, state>>
      BY <2>1 DEF S!vars, S!serverVars, S!clientVars, S!bufferVars
    <3>2. UNCHANGED line /\ UNCHANGED stop
      BY <2>1 DEF S!vars, S!serverVars
    <3>3. SesTyped' /\ SesSequences' /\ SesBuffer' /\ SesOwn' /\ SesBacklog' /\ SesServed'
      BY <3>1 DEF SesInv, SesTyped, SesSequences, SesBuffer, SesOwn, SesBacklog, SesServed
    <3>4. SesAnswers'
      BY <3>1 DEF SesInv, SesAnswers
    <3>5. SesLine'
      BY <3>1, <3>2 DEF SesInv, SesLine
    <3> QED
      BY <3>2, <3>3, <3>4, <3>5 DEF SesInv
  <2>2. CASE S!ServerStep \/ S!MainExits
    BY <2>2, SesAccept, SesPrints, SesGreet, SesReadLine, SesReturns, SesAnswer, SesEnds, SesLeaves
       DEF S!ServerStep
  <2>3. ASSUME NEW c \in Clients,
               \/ S!Connect(c) \/ S!ClientReads(c) \/ S!Exit(c) \/ S!Interrupted(c)
               \/ \E cmd \in {"date", "shutdown"} : S!Ask(c, cmd)
        PROVE  SesInv'
    BY <2>3, SesConnect, SesReads, SesLeaves, SesAsk
  <2> QED
    BY <2>1, <2>2, <2>3 DEF S!Next
<1> QED
  BY <1>1, <1>2, <1>3, PTL DEF S!Spec
=============================================================================
