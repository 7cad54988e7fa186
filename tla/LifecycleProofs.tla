--------------------------- MODULE LifecycleProofs ---------------------------
(* Proofs about the start and the end of the program: its threads, signals and mutexes.     *)
EXTENDS Lifecycle, TLAPS

Flags ==
    /\ pending \in BOOLEAN /\ requested \in BOOLEAN /\ socket \in BOOLEAN /\ kicked \in BOOLEAN
    /\ open \in BOOLEAN /\ terminate_flag \in BOOLEAN /\ terminate \in BOOLEAN

Places ==
    /\ main \in {"start", "waiting", "decide", "timer", "lock", "signal", "unlock"}
    /\ handler \in {"no", "kill", "lock", "signal", "exit"}
    /\ command \in {"bind", "tell", "notify", "serve", "reply", "unlink", "gone"}
    /\ success \in {-1, 0, 1}
    /\ proxy \in {"no", "listen", "test", "epoll", "handle", "sweep", "ended"}
    /\ expiring \in {"test", "lock", "wait", "woken", "sweep", "ended"}
    /\ mutex \in {"free", "main", "expiring"}
    /\ exited \in {"no", "ok", "failure", "killed"}

\* Whoever is in a critical section has expiring_mutex: the sweep, wakeup() in the timer, and
\* interrupt(), which never comes back to the code it has interrupted.
Exclusion ==
    /\ (expiring = "sweep") <=> (mutex = "expiring")
    /\ (handler = "no" /\ main \in {"signal", "unlock"}) => mutex = "main"
    /\ handler = "signal" => mutex = "main"

\* What main reads in command_thread_success, and why the command thread has left its loop.
ToldInTime ==
    /\ command \in {"bind", "tell"} => success = -1
    /\ command \in {"serve", "reply", "unlink"} => success = 1
    /\ command \in {"notify", "gone"} => success # -1
    /\ command = "gone" => success = 0
    /\ command \in {"reply", "unlink"} => requested
    /\ proxy # "no" => success # -1 /\ (success = 0 => requested)

\* The inductive invariant: which threads are where, and what they have told each other.
IInv == Flags /\ Places /\ Exclusion /\ ToldInTime /\ EndsClean

-----------------------------------------------------------------------------
LEMMA InitInv == Init => IInv
<1> SUFFICES ASSUME Init PROVE IInv
  OBVIOUS
<1>1. Flags
  BY Zenon DEF Init, Flags
<1>2. Places /\ Exclusion /\ ToldInTime /\ EndsClean
  BY DEF Init, Places, Exclusion, ToldInTime, EndsClean
<1> QED
  BY <1>1, <1>2 DEF IInv

\* start_server_in_thread(), the timer of main and wakeup().
LEMMA MainInv == IInv /\ (MainStep \/ Tick) => IInv'
<1> SUFFICES ASSUME IInv, MainStep \/ Tick PROVE IInv'
  OBVIOUS
<1> USE DEF IInv, MainStep, StartServer, StartProxying, Served, WakeupLock, WakeupSignal, Wake,
            WakeupUnlock, Tick, commandVars, proxyVars, expiringVars
<1>1. Flags'
  BY Zenon DEF Flags
<1>2. Places'
  BY DEF Places
<1>3. Exclusion'
  BY DEF Places, Exclusion
<1>4. ToldInTime'
  BY DEF Places, ToldInTime
<1>5. EndsClean'
  BY DEF EndsClean
<1> QED
  BY <1>1, <1>2, <1>3, <1>4, <1>5

\* interrupt() on the thread of main.
LEMMA HandlerInv == IInv /\ HandlerStep => IInv'
<1> SUFFICES ASSUME IInv, HandlerStep PROVE IInv'
  OBVIOUS
<1> USE DEF IInv, HandlerStep, Interrupt, KillProxy, TerminateLock, TerminateSignal, Wake, Exit,
            mainVars, commandVars, proxyVars, expiringVars
<1>1. Flags'
  BY Zenon DEF Flags
<1>2. Places'
  BY DEF Places
<1>3. Exclusion'
  BY DEF Places, Exclusion
<1>4. ToldInTime' /\ EndsClean'
  BY DEF ToldInTime, EndsClean
<1> QED
  BY <1>1, <1>2, <1>3, <1>4

\* cli_start() and change_state_and_wakeup(), and the signals from "shutdown" and from outside.
LEMMA CommandInv == IInv /\ (CommandStep \/ Shutdown \/ Kill) => IInv'
<1> SUFFICES ASSUME IInv, CommandStep \/ Shutdown \/ Kill PROVE IInv'
  OBVIOUS
<1> USE DEF IInv, CommandStep, Bind, TellSuccess, Notify, Reply, ServerEnds, Shutdown, Kill,
            Signalled, Handled, mainVars, commandVars, proxyVars, expiringVars
<1>1. Flags'
  BY Zenon DEF Flags
<1>2. Places'
  BY DEF Places
<1>3. Exclusion'
  BY DEF Exclusion
<1>4. ToldInTime'
  BY DEF Places, ToldInTime
<1>5. EndsClean'
  BY DEF EndsClean
<1> QED
  BY <1>1, <1>2, <1>3, <1>4, <1>5

\* expiring_main()
LEMMA ExpiringInv == IInv /\ ExpiringStep => IInv'
<1> SUFFICES ASSUME IInv, ExpiringStep PROVE IInv'
  OBVIOUS
<1> USE DEF IInv, ExpiringStep, ExpiringTest, ExpiringWait, ExpiringSweep, ExpiringUnlock,
            mainVars, commandVars, proxyVars
<1>1. Flags'
  BY Zenon DEF Flags
<1>2. Places'
  BY DEF Places
<1>3. Exclusion'
  BY DEF Places, Exclusion
<1>4. ToldInTime' /\ EndsClean'
  BY DEF ToldInTime, EndsClean
<1> QED
  BY <1>1, <1>2, <1>3, <1>4

\* proxy_main()
LEMMA ProxyInv == IInv /\ (ProxyStep \/ ProxyEvent) => IInv'
<1> SUFFICES ASSUME IInv, ProxyStep \/ ProxyEvent PROVE IInv'
  OBVIOUS
<1> USE DEF IInv, ProxyStep, ProxyEvent, ProxyListen, ProxyTest, ProxyHandled, ProxySignal,
            ProxySweep, mainVars, commandVars, expiringVars
<1>1. Flags'
  BY Zenon DEF Flags
<1>2. Places'
  BY DEF Places
<1>3. Exclusion'
  BY DEF Exclusion
<1>4. ToldInTime'
  BY DEF ToldInTime
<1>5. EndsClean'
  BY DEF EndsClean, Flags
<1> QED
  BY <1>1, <1>2, <1>3, <1>4, <1>5

LEMMA NextInv == IInv /\ [Next]_vars => IInv'
<1> SUFFICES ASSUME IInv, [Next]_vars PROVE IInv'
  OBVIOUS
<1>1. CASE Next
  BY <1>1, MainInv, HandlerInv, CommandInv, ExpiringInv, ProxyInv DEF Next
<1>2. CASE UNCHANGED vars
  BY <1>2 DEF vars, mainVars, commandVars, proxyVars, expiringVars, IInv, Flags, Places,
              Exclusion, ToldInTime, EndsClean
<1> QED
  BY <1>1, <1>2

-----------------------------------------------------------------------------
\* main() proxies only if its command thread had the socket, expiring_mutex has one owner, and no
\* connection is left open when the proxy thread has ended: in every interleaving of the four
\* threads with signals at any time.
THEOREM Safe == Spec => []LifecycleSafe
<1>1. IInv => LifecycleSafe
  <2> SUFFICES ASSUME IInv PROVE LifecycleSafe
    OBVIOUS
  <2>1. TypeOK
    BY DEF IInv, Flags, Places, Exclusion, TypeOK
  <2>2. ProxiesOnlyIfServed
    BY DEF IInv, ToldInTime, ProxiesOnlyIfServed
  <2> QED
    BY <2>1, <2>2 DEF IInv, LifecycleSafe
<1> QED
  BY <1>1, InitInv, NextInv, PTL DEF Spec
=============================================================================
