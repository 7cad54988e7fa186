----------------------------- MODULE Lifecycle -----------------------------
(***************************************************************************)
(* How the program starts and ends: the threads of main() and the signals   *)
(* and condition variables between them.                                    *)
(*                                                                          *)
(*   main      waits until the command thread has its socket, starts the    *)
(*             proxy thread, then runs the timer (src/src/main.c,           *)
(*             min_timer.c); interrupt() runs on it as a signal handler     *)
(*   command   serves the socket (src/src/cmdlintf.c); its command          *)
(*             "shutdown" sends main a signal (src/src/commands.c)          *)
(*   proxy     the loop of proxy_main() (src/src/proxying.c)                *)
(*   expiring  sweeps the auto blacklist when it is woken                   *)
(*             (src/src/auto_blacklist.c)                                   *)
(***************************************************************************)
EXTENDS Integers

VARIABLES
    main,      \* "start", "waiting", "decide", "timer", "lock", "signal", "unlock"
    handler,   \* interrupt() on main: "no", "kill", "lock", "signal", "unlock", "exit"
    pending,   \* a signal to end the program waits for main
    requested, \* history: such a signal was sent
    command,   \* "bind", "tell", "notify", "serve", "reply", "unlink", "gone"
    success,   \* command_thread_success
    socket,    \* the socket exists in the file system
    proxy,     \* "no", "listen", "test", "epoll", "handle", "sweep", "ended"
    kicked,    \* a signal waits for the proxy thread
    open,      \* there is a connection
    terminate_flag,
    expiring,  \* "test", "lock", "wait", "woken", "sweep", "ended"
    terminate, \* of auto_blacklist.c
    mutex,     \* owner of expiring_mutex
    exited     \* "no", or how the process ended

mainVars     == <<main, handler, pending, requested>>
commandVars  == <<command, success, socket>>
proxyVars    == <<proxy, kicked, open, terminate_flag>>
expiringVars == <<expiring, terminate, mutex>>
vars         == <<mainVars, commandVars, proxyVars, expiringVars, exited>>

Init ==
    /\ main = "start" /\ handler = "no" /\ pending = FALSE /\ requested = FALSE
    /\ command = "bind" /\ success = -1 /\ socket \in BOOLEAN
    /\ proxy = "no" /\ kicked = FALSE /\ open = FALSE /\ terminate_flag = FALSE
    /\ expiring = "test" /\ terminate = FALSE /\ mutex = "free"
    /\ exited = "no"

Runs == exited = "no"

-----------------------------------------------------------------------------
(* start_server_in_thread(): main waits under command_thread_mutex, which   *)
(* it holds from its test of the state until it waits.                      *)

StartServer_NoPredicate ==
    /\ Runs /\ main = "start"
    /\ main' = "waiting"
    /\ UNCHANGED <<handler, pending, requested, commandVars, proxyVars, expiringVars, exited>>

StartServer ==
    /\ Runs /\ main = "start"
    /\ main' = IF success = -1 THEN "waiting" ELSE "decide"
    /\ UNCHANGED <<handler, pending, requested, commandVars, proxyVars, expiringVars, exited>>

\* The result is read again after the mutex is released; without a server main() exits.
Served_Unchecked == success # -1
Served == success > 0

StartProxying ==
    /\ Runs /\ main = "decide"
    /\ IF Served THEN main' = "timer" /\ proxy' = "listen" /\ UNCHANGED exited
                 ELSE exited' = "failure" /\ UNCHANGED <<main, proxy>>
    /\ UNCHANGED <<handler, pending, requested, commandVars, kicked, open, terminate_flag,
                   expiringVars>>

(* The command thread: cli_start(), change_state_and_wakeup().              *)

\* A socket left behind is removed; another server, or a file in its place, is an error.
Bind ==
    /\ Runs /\ command = "bind"
    /\ \/ socket' = TRUE /\ command' = "tell" /\ UNCHANGED success
       \/ command' = "notify" /\ success' = 0 /\ UNCHANGED socket
    /\ UNCHANGED <<mainVars, proxyVars, expiringVars, exited>>

TellSuccess ==
    /\ Runs /\ command = "tell"
    /\ success' = 1 /\ command' = "notify"
    /\ UNCHANGED <<mainVars, socket, proxyVars, expiringVars, exited>>

\* pthread_cond_signal() wakes main if it waits, and is lost otherwise.
Notify ==
    /\ Runs /\ command = "notify"
    /\ main' = IF main = "waiting" THEN "start" ELSE main
    /\ command' = IF success = 1 THEN "serve" ELSE "gone"
    /\ UNCHANGED <<handler, pending, requested, success, socket, proxyVars, expiringVars,
                   exited>>

\* The handlers are installed when main starts its timer; before, a signal ends the process.
Handled == main \notin {"start", "waiting", "decide"}

Signalled ==
    /\ pending' = TRUE /\ requested' = TRUE
    /\ exited' = IF Handled THEN exited ELSE "killed"

\* cmd_shutdown(): a signal to this thread, which only sets the flag, and one to main.
Shutdown ==
    /\ Runs /\ command = "serve"
    /\ Signalled
    /\ terminate_flag' = TRUE
    /\ command' = "reply"
    /\ UNCHANGED <<main, handler, success, socket, proxy, kicked, open, expiringVars>>

Reply ==
    /\ Runs /\ command = "reply"
    /\ command' = "unlink"
    /\ UNCHANGED <<mainVars, success, socket, proxyVars, expiringVars, exited>>

ServerEnds ==
    /\ Runs /\ command = "unlink"
    /\ socket' = FALSE /\ success' = 0 /\ command' = "notify"
    /\ UNCHANGED <<mainVars, proxyVars, expiringVars, exited>>

-----------------------------------------------------------------------------
(* expiring_mutex and expiring_cond                                         *)

\* pthread_cond_signal() without a predicate: lost if the thread does not wait.
Wake_Lost == UNCHANGED expiring
Wake == expiring' = IF expiring = "wait" THEN "woken" ELSE expiring

\* The timer of main: cron() ends with wakeup().
Tick ==
    /\ Runs /\ main = "timer" /\ handler = "no"
    /\ main' = "lock"
    /\ UNCHANGED <<handler, pending, requested, commandVars, proxyVars, expiringVars, exited>>

WakeupLock ==
    /\ Runs /\ main = "lock" /\ handler = "no" /\ mutex = "free"
    /\ mutex' = "main" /\ main' = "signal"
    /\ UNCHANGED <<handler, pending, requested, commandVars, proxyVars, expiring, terminate,
                   exited>>

WakeupSignal ==
    /\ Runs /\ main = "signal" /\ handler = "no"
    /\ Wake
    /\ main' = "unlock"
    /\ UNCHANGED <<handler, pending, requested, commandVars, proxyVars, terminate, mutex,
                   exited>>

WakeupUnlock ==
    /\ Runs /\ main = "unlock" /\ handler = "no"
    /\ mutex' = "free" /\ main' = "timer"
    /\ UNCHANGED <<handler, pending, requested, commandVars, proxyVars, expiring, terminate,
                   exited>>

\* expiring_main()
ExpiringTest ==
    /\ Runs /\ expiring = "test"
    /\ expiring' = IF terminate THEN "ended" ELSE "lock"
    /\ UNCHANGED <<mainVars, commandVars, proxyVars, terminate, mutex, exited>>

ExpiringWait ==
    /\ Runs /\ expiring = "lock" /\ mutex = "free"
    /\ expiring' = "wait"
    /\ UNCHANGED <<mainVars, commandVars, proxyVars, terminate, mutex, exited>>

ExpiringSweep ==
    /\ Runs /\ expiring = "woken" /\ mutex = "free"
    /\ mutex' = "expiring" /\ expiring' = "sweep"
    /\ UNCHANGED <<mainVars, commandVars, proxyVars, terminate, exited>>

ExpiringUnlock_Kept ==
    /\ Runs /\ expiring = "sweep"
    /\ expiring' = "test"
    /\ UNCHANGED <<mainVars, commandVars, proxyVars, terminate, mutex, exited>>

ExpiringUnlock ==
    /\ Runs /\ expiring = "sweep"
    /\ mutex' = "free" /\ expiring' = "test"
    /\ UNCHANGED <<mainVars, commandVars, proxyVars, terminate, exited>>

-----------------------------------------------------------------------------
(* Signals                                                                  *)

\* A signal to the process, which main takes.
Kill ==
    /\ Runs /\ ~requested
    /\ Signalled
    /\ UNCHANGED <<main, handler, commandVars, proxyVars, expiringVars>>

\* interrupt() on main: the flag, the proxy thread, the expiring thread, exit().
Interrupt ==
    /\ Runs /\ pending /\ handler = "no"
    /\ pending' = FALSE
    /\ terminate_flag' = TRUE
    /\ handler' = "kill"
    /\ UNCHANGED <<main, requested, commandVars, proxy, kicked, open, expiringVars, exited>>

KillProxy ==
    /\ Runs /\ handler = "kill"
    /\ kicked' = TRUE
    /\ terminate' = TRUE
    /\ handler' = "lock"
    /\ UNCHANGED <<main, pending, requested, commandVars, proxy, open, terminate_flag, expiring,
                   mutex, exited>>

TerminateLock ==
    /\ Runs /\ handler = "lock" /\ mutex = "free"
    /\ mutex' = "main" /\ handler' = "signal"
    /\ UNCHANGED <<main, pending, requested, commandVars, proxyVars, expiring, terminate,
                   exited>>

TerminateSignal ==
    /\ Runs /\ handler = "signal"
    /\ Wake /\ mutex' = "free"
    /\ handler' = "exit"
    /\ UNCHANGED <<main, pending, requested, commandVars, proxyVars, terminate, exited>>

Exit ==
    /\ Runs /\ handler = "exit"
    /\ exited' = "ok"
    /\ UNCHANGED <<mainVars, commandVars, proxyVars, expiringVars>>

-----------------------------------------------------------------------------
(* The proxy thread                                                         *)

\* init_socket() fails where another program has the port: the process ends.
ProxyListen ==
    /\ Runs /\ proxy = "listen"
    /\ \/ proxy' = "test" /\ UNCHANGED <<terminate_flag, exited>>
       \/ terminate_flag' = TRUE /\ exited' = "failure" /\ UNCHANGED proxy
    /\ UNCHANGED <<mainVars, commandVars, kicked, open, expiringVars>>

ProxyTest ==
    /\ Runs /\ proxy = "test"
    /\ proxy' = IF terminate_flag THEN "sweep" ELSE "epoll"
    /\ UNCHANGED <<mainVars, commandVars, kicked, open, terminate_flag, expiringVars, exited>>

\* An event; its handler opens or closes connections.
ProxyEvent ==
    /\ Runs /\ proxy = "epoll"
    /\ proxy' = "handle"
    /\ UNCHANGED <<mainVars, commandVars, kicked, open, terminate_flag, expiringVars, exited>>

ProxyHandled ==
    /\ Runs /\ proxy = "handle"
    /\ open' \in BOOLEAN
    /\ proxy' = "test"
    /\ UNCHANGED <<mainVars, commandVars, kicked, terminate_flag, expiringVars, exited>>

\* interrupt() on the proxy thread sets the flag; only epoll_wait() is cut short by it.
ProxySignal ==
    /\ Runs /\ kicked /\ proxy # "ended"
    /\ kicked' = FALSE /\ terminate_flag' = TRUE
    /\ proxy' = IF proxy = "epoll" THEN "test" ELSE proxy
    /\ UNCHANGED <<mainVars, commandVars, open, expiringVars, exited>>

ProxySweep_Idle ==
    /\ Runs /\ proxy = "sweep"
    /\ proxy' = "ended"
    /\ UNCHANGED <<mainVars, commandVars, kicked, open, terminate_flag, expiringVars, exited>>

\* clean_idle_connections(-1.0) closes every connection.
ProxySweep ==
    /\ Runs /\ proxy = "sweep"
    /\ open' = FALSE
    /\ proxy' = "ended"
    /\ UNCHANGED <<mainVars, commandVars, kicked, terminate_flag, expiringVars, exited>>

-----------------------------------------------------------------------------
MainStep     == StartServer \/ StartProxying \/ WakeupLock \/ WakeupSignal \/ WakeupUnlock
HandlerStep  == Interrupt \/ KillProxy \/ TerminateLock \/ TerminateSignal \/ Exit
CommandStep  == Bind \/ TellSuccess \/ Notify \/ Reply \/ ServerEnds
ExpiringStep == ExpiringTest \/ ExpiringWait \/ ExpiringSweep \/ ExpiringUnlock
ProxyStep    == ProxyListen \/ ProxyTest \/ ProxyHandled \/ ProxySignal \/ ProxySweep

Next ==
    \/ MainStep \/ Tick \/ HandlerStep \/ CommandStep \/ Shutdown
    \/ ExpiringStep \/ ProxyStep \/ ProxyEvent \/ Kill

Spec == Init /\ [][Next]_vars

\* Threads go on, and one that waits for a mutex which is free again and again gets it. No
\* fairness for what comes from outside: events, commands and signals.
Fairness ==
    /\ SF_vars(MainStep) /\ SF_vars(HandlerStep) /\ SF_vars(ExpiringStep)
    /\ WF_vars(CommandStep) /\ WF_vars(ProxyStep)

FairSpec == Spec /\ Fairness

-----------------------------------------------------------------------------
(* Properties                                                               *)

TypeOK ==
    /\ main \in {"start", "waiting", "decide", "timer", "lock", "signal", "unlock"}
    /\ handler \in {"no", "kill", "lock", "signal", "exit"}
    /\ {pending, requested, socket, kicked, open, terminate_flag, terminate} \subseteq BOOLEAN
    /\ command \in {"bind", "tell", "notify", "serve", "reply", "unlink", "gone"}
    /\ success \in {-1, 0, 1}
    /\ proxy \in {"no", "listen", "test", "epoll", "handle", "sweep", "ended"}
    /\ expiring \in {"test", "lock", "wait", "woken", "sweep", "ended"}
    /\ mutex \in {"free", "main", "expiring"}
    /\ exited \in {"no", "ok", "failure", "killed"}
    \* nobody sweeps, or signals from the timer, without expiring_mutex
    /\ (expiring = "sweep") <=> (mutex = "expiring")
    /\ (handler = "no" /\ main \in {"signal", "unlock"}) => mutex = "main"

\* A program that cannot have its command socket does not begin to proxy, although main
\* reads the state of the command thread after it has released the mutex.
ProxiesOnlyIfServed ==
    proxy # "no" => /\ command \notin {"bind", "tell"}
                    /\ command = "gone" => requested

\* When the proxy thread has ended no connection is left open.
EndsClean == proxy = "ended" => ~open

\* The wait for the command thread ends: its signal is never lost.
Starts == (main = "start") ~> (main \notin {"start", "waiting"} \/ exited # "no")

\* As long as cron() comes again and again the auto blacklist is swept again and again, although
\* a wakeup is lost when the expiring thread does not wait.
SweepsGoOn == []<>(main = "timer") /\ []<>(main = "signal") => []<>(expiring = "sweep")

\* interrupt() waits for a mutex that main() holds, which it has interrupted.
SelfDeadlock == handler = "lock" /\ mutex = "main"

\* A signal, or the command "shutdown", ends the process, wherever it finds the threads -
\* except that interrupt() may have interrupted wakeup() on the same thread.
SignalEnds == requested ~> (exited # "no" \/ SelfDeadlock)

\* main() starts the proxy thread only with a command thread that serves, and the proxy
\* thread leaves no connection open when it ends (clean_idle_connections(-1)).
LifecycleSafe == TypeOK /\ ProxiesOnlyIfServed /\ EndsClean
=============================================================================
