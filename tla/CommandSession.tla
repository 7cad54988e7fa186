--------------------------- MODULE CommandSession ---------------------------
(***************************************************************************)
(* The sessions of the command line interface (src/src/cmdlintf.c): clients  *)
(* connect to the socket of the command thread, which serves one after the  *)
(* other: a greeting, then for every line a return value and the text that  *)
(* the command printed into the one buffer of the server. A return value of *)
(* 0 ends the session on both sides. Nothing in the program handles SIGPIPE: *)
(* a write to a connection whose other side is gone ends the process.       *)
(***************************************************************************)
EXTENDS Naturals, Sequences, SequencesExt

CONSTANTS Clients, None,
          Capacity, Reserve, \* of the buffer: bp_size, and the 80 bytes bprint() asks for
          Timeout,           \* whether idle_time is set
          MaxAsked,          \* bound on the lines a client sends
          MaxPrints          \* bound on the prints of a command

SizeAssumption ==
    /\ Capacity \in Nat /\ Reserve \in Nat \ {0} /\ MaxAsked \in Nat /\ MaxPrints \in Nat
    /\ Timeout \in BOOLEAN /\ None \notin Clients

VARIABLES
    server,   \* "accept", "greet", "wait", "execute", "answer", "close", "ended"
    session,  \* the client that is served, or None
    backlog,  \* clients that are connected and not yet accepted
    client,   \* client -> "off", "greeted", "prompt", "asked", "ended", "killed"
    asked,    \* client -> its lines so far: "date" or "shutdown"
    line,     \* the session has an unread line
    answers,  \* client -> answers it has not read
    text,     \* the buffer: the prints since it was emptied,
    bp_index, \* ... and their size
    output,   \* history: everything the present command has printed
    stop,     \* pdptr->terminate
    process   \* "alive", "exited" by main, "killed" by SIGPIPE

serverVars == <<server, session, backlog, stop>>
clientVars == <<client, asked>>
bufferVars == <<text, bp_index, output>>
vars == <<serverVars, clientVars, bufferVars, line, answers, process>>

Init ==
    /\ server = "accept" /\ session = None /\ backlog = <<>> /\ stop = FALSE
    /\ client = [c \in Clients |-> "off"] /\ asked = [c \in Clients |-> <<>>]
    /\ text = <<>> /\ bp_index = 0 /\ output = <<>>
    /\ line = FALSE /\ answers = [c \in Clients |-> <<>>] /\ process = "alive"

Alive == process = "alive"
Gone(c) == client[c] \in {"ended", "killed"}

-----------------------------------------------------------------------------
(* The buffer                                                               *)

Bprint_Unchecked(p) ==
    /\ output' = Append(output, p)
    /\ text' = Append(text, p) /\ bp_index' = bp_index + p.size

\* bprint() drops what comes when less than Reserve is left.
Bprint(p) ==
    /\ output' = Append(output, p)
    /\ IF Capacity < bp_index + Reserve THEN UNCHANGED <<text, bp_index>>
       ELSE text' = Append(text, p) /\ bp_index' = bp_index + p.size

\* A print of the line `of`: what bprint() writes at once is at most Reserve long.
Prints(of) == [of: {of}, k: {Len(output) + 1}, size: 1 .. Reserve]

\* bpinit()
Emptied == text' = <<>> /\ bp_index' = 0

-----------------------------------------------------------------------------
(* The server: cli_start(), accept_client()                                 *)

Accept ==
    /\ Alive /\ server = "accept" /\ ~stop /\ backlog # <<>>
    /\ session' = Head(backlog) /\ backlog' = Tail(backlog)
    /\ server' = "greet" /\ output' = <<>>
    /\ UNCHANGED <<stop, clientVars, text, bp_index, line, answers, process>>

\* write(): to a client that is gone it raises SIGPIPE.
Send(message) ==
    IF Gone(session)
    THEN process' = "killed" /\ UNCHANGED answers
    ELSE answers' = [answers EXCEPT ![session] = Append(@, message)] /\ UNCHANGED process

Message(retval) == [retval |-> retval, text |-> text, output |-> output]

\* The greeting is what the callback prints: one line, the version.
GreetingPrints ==
    /\ Alive /\ server = "greet" /\ output = <<>>
    /\ \E p \in Prints(<<session, 0>>) : Bprint(p)
    /\ UNCHANGED <<serverVars, clientVars, line, answers, process>>

Greet ==
    /\ Alive /\ server = "greet" /\ output # <<>>
    /\ Send(Message(1))
    /\ Emptied /\ server' = "wait"
    /\ UNCHANGED <<session, backlog, stop, clientVars, output, line>>

\* One line is read and executed ...
ReadLine ==
    /\ Alive /\ server = "wait" /\ line /\ ~stop
    /\ line' = FALSE
    /\ server' = "execute" /\ output' = <<>>
    /\ UNCHANGED <<session, backlog, stop, clientVars, text, bp_index, answers, process>>

CommandPrints ==
    /\ Alive /\ server = "execute" /\ Len(output) < MaxPrints
    /\ \E p \in Prints(<<session, Len(asked[session])>>) : Bprint(p)
    /\ UNCHANGED <<serverVars, clientVars, line, answers, process>>

\* ... and the command returns: cmd_shutdown() has ended the server and signals main.
CommandReturns ==
    /\ Alive /\ server = "execute"
    /\ stop' = (Last(asked[session]) = "shutdown")
    /\ server' = "answer"
    /\ UNCHANGED <<session, backlog, clientVars, bufferVars, line, answers, process>>

Answer_KeepsText ==
    /\ Alive /\ server = "answer"
    /\ Send(Message(IF stop THEN 0 ELSE 1))
    /\ server' = IF stop THEN "close" ELSE "wait"
    /\ UNCHANGED <<session, backlog, stop, clientVars, line, bufferVars>>

\* The return value, the length and the text; then the buffer is emptied.
Answer ==
    /\ Alive /\ server = "answer"
    /\ Send(Message(IF stop THEN 0 ELSE 1))
    /\ Emptied
    /\ server' = IF stop THEN "close" ELSE "wait"
    /\ UNCHANGED <<session, backlog, stop, clientVars, line, output>>

EndOfFile_Ignored ==
    /\ Alive /\ server = "wait" /\ ~line /\ Gone(session)
    /\ UNCHANGED vars

EndOfFile ==
    /\ Alive /\ server = "wait" /\ ~line /\ Gone(session)
    /\ server' = "close"
    /\ UNCHANGED <<session, backlog, stop, clientVars, bufferVars, line, answers, process>>

\* Nothing was read for idle_time seconds: the client gets SIGALRM, the session is closed.
IdleTimeout ==
    /\ Alive /\ server = "wait" /\ ~line /\ ~Gone(session) /\ Timeout
    /\ server' = "close"
    /\ client' = [client EXCEPT ![session] = "killed"]
    /\ UNCHANGED <<session, backlog, stop, asked, bufferVars, line, answers, process>>

CloseSession ==
    /\ Alive /\ server = "close"
    /\ server' = "accept" /\ session' = None /\ line' = FALSE
    /\ UNCHANGED <<backlog, stop, clientVars, bufferVars, answers, process>>

ServerEnds ==
    /\ Alive /\ server = "accept" /\ stop
    /\ server' = "ended"
    /\ UNCHANGED <<session, backlog, stop, clientVars, bufferVars, line, answers, process>>

\* interrupt() on main, which cmd_shutdown() has signalled
MainExits ==
    /\ Alive /\ stop
    /\ process' = "exited"
    /\ UNCHANGED <<serverVars, clientVars, bufferVars, line, answers>>

-----------------------------------------------------------------------------
(* The clients: cli_start(), cmdline_interface(), execute_line()            *)

Connect(c) ==
    /\ Alive /\ server # "ended" /\ client[c] = "off"
    /\ client' = [client EXCEPT ![c] = "greeted"]
    /\ backlog' = Append(backlog, c)
    /\ UNCHANGED <<server, session, stop, asked, bufferVars, line, answers, process>>

\* The connection of c is closed on the server's side.
Closed(c) == ~Alive \/ server = "ended" \/ (session # c /\ ~Contains(backlog, c))

ReadGreeting(c) ==
    /\ client[c] = "greeted" /\ (answers[c] # <<>> \/ Closed(c))
    /\ answers' = [answers EXCEPT ![c] = IF @ = <<>> THEN @ ELSE Tail(@)]
    /\ client' = [client EXCEPT ![c] = "prompt"]
    /\ UNCHANGED <<serverVars, asked, bufferVars, line, process>>

\* A line for the server; a client whose connection is closed ends by SIGPIPE.
Ask(c, cmd) ==
    /\ client[c] = "prompt" /\ Len(asked[c]) < MaxAsked
    /\ IF Closed(c) THEN client' = [client EXCEPT ![c] = "killed"] /\ UNCHANGED <<asked, line>>
       ELSE /\ client' = [client EXCEPT ![c] = "asked"]
            /\ asked' = [asked EXCEPT ![c] = Append(@, cmd)]
            /\ line' = TRUE
    /\ UNCHANGED <<serverVars, bufferVars, answers, process>>

ReadAnswer(c) ==
    /\ client[c] = "asked" /\ answers[c] # <<>>
    /\ client' = [client EXCEPT ![c] = IF Head(answers[c]).retval = 0 THEN "ended" ELSE "prompt"]
    /\ answers' = [answers EXCEPT ![c] = Tail(@)]
    /\ UNCHANGED <<serverVars, asked, bufferVars, line, process>>

\* read() returns nothing: retval is still 1.
ReadNothing(c) ==
    /\ client[c] = "asked" /\ answers[c] = <<>> /\ Closed(c)
    /\ client' = [client EXCEPT ![c] = "prompt"]
    /\ UNCHANGED <<serverVars, asked, bufferVars, line, answers, process>>

\* The command "exit" is not a remote one; a client may also be interrupted at any time.
Exit(c) ==
    /\ client[c] = "prompt"
    /\ client' = [client EXCEPT ![c] = "ended"]
    /\ UNCHANGED <<serverVars, asked, bufferVars, line, answers, process>>

Interrupted(c) ==
    /\ client[c] \in {"greeted", "prompt", "asked"}
    /\ client' = [client EXCEPT ![c] = "killed"]
    /\ UNCHANGED <<serverVars, asked, bufferVars, line, answers, process>>

-----------------------------------------------------------------------------
ServerStep ==
    \/ Accept \/ GreetingPrints \/ Greet
    \/ ReadLine \/ CommandPrints \/ CommandReturns \/ Answer
    \/ EndOfFile \/ IdleTimeout \/ CloseSession \/ ServerEnds

ClientReads(c) == ReadGreeting(c) \/ ReadAnswer(c) \/ ReadNothing(c)

Next ==
    \/ ServerStep \/ MainExits
    \/ \E c \in Clients :
        \/ Connect(c) \/ ClientReads(c) \/ Exit(c) \/ Interrupted(c)
        \/ \E cmd \in {"date", "shutdown"} : Ask(c, cmd)

Spec == Init /\ [][Next]_vars

\* The command thread and select()'s timeout go on; clients and main need not.
Fairness == WF_vars(ServerStep) /\ \A c \in Clients : WF_vars(ClientReads(c))

FairSpec == Spec /\ Fairness

-----------------------------------------------------------------------------
(* Properties                                                               *)

TypeOK ==
    /\ server \in {"accept", "greet", "wait", "execute", "answer", "close", "ended"}
    /\ session \in Clients \cup {None}
    /\ (session = None) <=> (server \in {"accept", "ended"})
    /\ backlog \in Seq(Clients)
    /\ client \in [Clients -> {"off", "greeted", "prompt", "asked", "ended", "killed"}]
    /\ {line, stop} \subseteq BOOLEAN
    /\ process \in {"alive", "exited", "killed"}

\* What is printed never passes the end of the buffer, because a print of at most Reserve is
\* only made while Reserve is left.
BufferBounded == bp_index <= Capacity

\* A client reads an answer to its own line, and in it what the command printed, from the
\* beginning up to the point where the buffer was full: nothing of an earlier command, of the
\* greeting or of another session, and no print after one that was dropped.
OwnAnswer ==
    \A c \in Clients : \A i \in DOMAIN answers[c] :
        LET a == answers[c][i] IN
        /\ IsPrefix(a.text, a.output)
        /\ client[c] = "asked" => \A j \in DOMAIN a.output : a.output[j].of = <<c, Len(asked[c])>>

\* A client that waits is served, when the ones before it have nothing more to ask: a session
\* that is idle ends (if a timeout is set), and so does one whose client is gone.
Served == \A c \in Clients : (client[c] = "greeted") ~> (client[c] # "greeted" \/ stop)

\* What the server of the command line interface never does.
SessionsSafe == TypeOK /\ BufferBounded /\ OwnAnswer
=============================================================================
