----------------------------- MODULE MCThreads -----------------------------
(***************************************************************************)
(* For TLC: the components whose threads meet but which share no state with *)
(* each other, in one instance. `part` says which of them runs; the others  *)
(* rest in one initial state, so that the behaviours are those of each      *)
(* component alone. Relay is extended, the others are instances.            *)
(***************************************************************************)
EXTENDS Relay, FiniteSets

CONSTANTS Clients,  \* the connections that a plugin is given, or clients of the command interface
          c1, c2,   \* the two of them
          MaxLoads, LogFile, Names, Commands, Capacity, Reserve, Timeout, MaxAsked, MaxPrints

VARIABLES
    part,
    \* Lifecycle
    main, handler, pending, requested, command, success, socket, proxy, kicked, open,
    terminate_flag, sweeper, terminate, mutex, exited,
    \* Logging
    phase, logfile, appenders, initialized, priority, current, pc, lock, last,
    \* PacketAnalyzer
    pluggableAnalyzer, library, plugin_enable, auto_unload, safe_mode, reference_count, loads,
    mapped, inited, data, wpc, at, guarded, cpc, blocked, raised, dead,
    \* CommandSession
    server, session, backlog, client, asked, line, answers, text, bp_index, output, stop,
    state

lifecycle == <<main, handler, pending, requested, command, success, socket, proxy, kicked, open,
               terminate_flag, sweeper, terminate, mutex, exited>>
logging   == <<phase, logfile, appenders, initialized, priority, current, pc, lock, last>>
analyzer  == <<pluggableAnalyzer, library, plugin_enable, auto_unload, safe_mode,
               reference_count, loads, mapped, inited, data, wpc, at, guarded, cpc, blocked,
               raised, dead>>
sessions  == <<server, session, backlog, client, asked, line, answers, text, bp_index, output,
               stop, state>>
all       == <<part, lifecycle, logging, analyzer, sessions, vars>>

Part == {"lifecycle", "logging", "analyzer", "session", "relay"}

L == INSTANCE Lifecycle WITH expiring <- sweeper
G == INSTANCE Logging
P == INSTANCE PacketAnalyzer WITH Conn <- Clients, conn <- at, Serial <- TRUE
S == INSTANCE CommandSession WITH process <- state

ASSUME ThreadsAssumption ==
    /\ G!LogAssumption /\ P!ConstantsAssumption /\ S!SizeAssumption /\ RelayAssumption
    /\ {c1, c2} \subseteq Clients

Rests ==
    /\ part # "lifecycle" => ~socket
    /\ part # "logging" => logfile.kind = "absent"
    /\ part # "analyzer" => loads = 0 /\ at = c1

AllInit == part \in Part /\ L!Init /\ G!Init /\ P!Init /\ S!Init /\ Init /\ Rests

\* A step of a component leaves the others alone.
OnlyLifecycle == UNCHANGED <<part, logging, analyzer, sessions, vars>>
OnlyLogging   == UNCHANGED <<part, lifecycle, analyzer, sessions, vars>>
OnlyAnalyzer  == UNCHANGED <<part, lifecycle, logging, sessions, vars>>
OnlySession   == UNCHANGED <<part, lifecycle, logging, analyzer, vars>>
OnlyRelay     == UNCHANGED <<part, lifecycle, logging, analyzer, sessions>>

AllNext ==
    \/ part = "lifecycle" /\ L!Next /\ OnlyLifecycle
    \/ part = "logging" /\ G!Next /\ OnlyLogging
    \/ part = "analyzer" /\ P!Next /\ OnlyAnalyzer
    \/ part = "session" /\ S!Next /\ OnlySession
    \/ part = "relay" /\ Next /\ OnlyRelay

-----------------------------------------------------------------------------
\* As only one component runs, a condition on steps of several components is one on each of
\* them: these are the fairness conditions of the five components.
AllFair ==
    /\ SF_all(\/ part = "lifecycle" /\ L!MainStep /\ OnlyLifecycle
              \/ part = "logging" /\ G!LogStep("main") /\ OnlyLogging
              \/ part = "analyzer" /\ P!Release(c1) /\ OnlyAnalyzer)
    /\ SF_all(\/ part = "lifecycle" /\ L!HandlerStep /\ OnlyLifecycle
              \/ part = "logging" /\ G!LogStep("handler") /\ OnlyLogging
              \/ part = "analyzer" /\ P!Release(c2) /\ OnlyAnalyzer)
    /\ SF_all(\/ part = "lifecycle" /\ L!ExpiringStep /\ OnlyLifecycle
              \/ part = "logging" /\ G!LogStep("proxy") /\ OnlyLogging)
    /\ WF_all(\/ part = "lifecycle" /\ L!CommandStep /\ OnlyLifecycle
              \/ part = "analyzer" /\ P!WorkerCalls /\ OnlyAnalyzer
              \/ part = "session" /\ S!ServerStep /\ OnlySession
              \/ part = "relay" /\ ProxyStep /\ OnlyRelay)
    /\ WF_all(\/ part = "lifecycle" /\ L!ProxyStep /\ OnlyLifecycle
              \/ part = "analyzer" /\ P!CommandGoesOn /\ OnlyAnalyzer
              \/ part = "session" /\ S!ClientReads(c1) /\ OnlySession
              \/ part = "relay" /\ TimerStep /\ OnlyRelay)
    /\ WF_all(\/ part = "session" /\ S!ClientReads(c2) /\ OnlySession
              \/ part = "relay" /\ Take(c1, "client") /\ OnlyRelay)
    /\ WF_all(part = "relay" /\ Take(c1, "server") /\ OnlyRelay)

AllSpec == AllInit /\ [][AllNext]_all /\ AllFair

-----------------------------------------------------------------------------
(* What each component promises: that something is never done, one property for each (that of *)
(* Relay is RelaySafe), and that the component which runs goes on. What Lifecycle never does   *)
(* is checked by MCTimer.                                                                     *)

\* con_dolog() loses a message only while the first appender is added.
LoggingSafe == G!LoggingSafe

\* The plugin is called only while it is loaded and initialized, with data of its own, which
\* reference_count counts; try_catch() catches its first fault in safe mode and an exception
\* keeps work from it until it is enabled again.
AnalyzerSafe == P!AnalyzerSafe

\* bprint() stays within the buffer, and a client of the command interface reads what its own
\* command has printed.
SessionsSafe == S!SessionsSafe

\* Nothing waits for ever: start_server_in_thread(); expiring_main(), as long as cron() wakes it;
\* a process that got a signal, unless interrupt() has interrupted wakeup(); a message, unless
\* a signal handler logs on top of syslog(); the unloading of a plugin that is due, when the
\* connections have ended; a client of the command interface; a byte that was sent, unless the
\* connection ends; and an idle connection, although the sweep waits for worker_mutex.
ThreadsGoOn ==
    /\ part = "lifecycle" => L!Starts
    /\ L!SweepsGoOn /\ L!SignalEnds
    /\ G!MessageEnds
    /\ P!UnloadedInTheEnd
    /\ S!Served
    /\ Delivered /\ IdleExpires
=============================================================================
