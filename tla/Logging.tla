------------------------------ MODULE Logging ------------------------------
(***************************************************************************)
(* Logging (src/src/common_logger.c and the appenders), as main sets it up  *)
(* (src/src/main.c) and as commands and signals change it afterwards. The   *)
(* first message adds the appender for stderr if none was configured. Any   *)
(* thread may log; the handler of SIGUSR1 and SIGUSR2 logs too, on top of   *)
(* whatever the main thread is doing. syslog() holds a lock of the C library *)
(* that is not recursive.                                                   *)
(***************************************************************************)
EXTENDS Naturals, Sequences, SequencesExt

CONSTANTS LogFile,  \* how log-file may be given: subset of {"absent", "string", "list"}
          Names,    \* what it may name: "syslog", "console", and others
          Commands, \* levels that "set logging level" is used with
          None

Level == 1 .. 7 \* log_fatal .. log_trace
log_error == 2
log_warning == 3
log_notice == 4
log_trace == 7

Thread == {"main", "handler", "proxy"}

LogAssumption ==
    /\ LogFile \subseteq {"absent", "string", "list"}
    /\ {"stderr", "NULL", "?"} \cap Names = {} /\ Commands \subseteq log_error .. log_trace
    /\ None \notin Thread

VARIABLES
    phase,       \* "start", "running", "crashed"
    logfile,     \* the definition of log-file: [kind, names]
    appenders,   \* appender_list, as a set: in which order they are called is not told apart
    initialized, \* have_initialized
    priority,    \* of the logger
    current,     \* current_log_priority of main
    pc,          \* thread -> "idle", "adding", "writing", "syslog" (inside the C library)
    lock,        \* the thread that holds the lock of syslog()
    last         \* history: where the last message went, and who was adding an appender then

levelVars == <<priority, current>>
listVars == <<appenders, initialized>>
vars == <<phase, logfile, levelVars, listVars, pc, lock, last>>

Init ==
    /\ phase = "start"
    /\ \E k \in LogFile, n \in SeqOf(Names, 2) :
        /\ Len(n) \in (CASE k = "absent" -> {0} [] k = "string" -> {1} [] k = "list" -> {1, 2})
        /\ logfile = [kind |-> k, names |-> n]
    /\ appenders = {} /\ initialized = FALSE
    /\ priority = 5 /\ current = log_notice
    /\ pc = [t \in Thread |-> "idle"] /\ lock = None
    /\ last = [to |-> {"stderr"}, adding |-> {}]

-----------------------------------------------------------------------------
(* con_dolog()                                                              *)

\* The main thread stands still while its signal handler runs.
Runs(t) ==
    /\ phase # "crashed"
    /\ t = "main" => pc["handler"] = "idle"
    /\ t = "proxy" => phase = "running"

Goes(t, to) == pc' = [pc EXCEPT ![t] = to]

Adding == {t \in Thread : pc[t] = "adding"}

\* have_initialized is set before there is an appender.
Begin(t) ==
    /\ Goes(t, IF initialized THEN "writing" ELSE "adding")
    /\ initialized' = TRUE

Log(t) ==
    /\ t # "handler" /\ Runs(t) /\ pc[t] = "idle"
    /\ \E p \in Level : p <= priority
    /\ Begin(t)
    /\ UNCHANGED <<phase, logfile, levelVars, appenders, lock, last>>

AddStderr(t) ==
    /\ Runs(t) /\ pc[t] = "adding"
    /\ appenders' = appenders \cup {"stderr"}
    /\ Goes(t, "writing")
    /\ UNCHANGED <<phase, logfile, levelVars, initialized, lock, last>>

Done_NotAdvanced(t) == last' = [to |-> appenders, adding |-> Adding] /\ UNCHANGED pc

Done(t) ==
    /\ Goes(t, "idle")
    /\ last' = [to |-> appenders, adding |-> Adding]

\* The appenders are called one after the other; only syslog_write() can wait for somebody.
Write(t) ==
    /\ Runs(t) /\ pc[t] = "writing"
    /\ IF "syslog" \in appenders
       THEN /\ lock = None /\ lock' = t
            /\ Goes(t, "syslog") /\ UNCHANGED last
       ELSE Done(t) /\ UNCHANGED lock
    /\ UNCHANGED <<phase, logfile, levelVars, listVars>>

Written(t) ==
    /\ Runs(t) /\ pc[t] = "syslog"
    /\ lock' = None /\ Done(t)
    /\ UNCHANGED <<phase, logfile, levelVars, listVars>>

-----------------------------------------------------------------------------
(* main()                                                                   *)

\* The names that have an appender; the others are passed over.
Known(names) == ToSet(names) \cap {"syslog", "console"}

\* conf->str ("log-file") of a list is the value of malloc'ed memory: NULL, or anything.
Value ==
    CASE logfile.kind = "absent" -> {"NULL"}
      [] logfile.kind = "string" -> {logfile.names[1]}
      [] logfile.kind = "list" -> {"NULL", "?"}

Use_ClearedOnly(names) == appenders' = {} /\ UNCHANGED initialized

\* clearAppender(), then addAppender() for every known name
Use(names) ==
    /\ appenders' = Known(names)
    /\ initialized' = (initialized \/ Known(names) # {})

SetUpLogFile(value) ==
    IF value = "NULL"
    THEN IF logfile.kind = "list" THEN Use(logfile.names) ELSE UNCHANGED listVars
    ELSE IF Known(<<value>>) # {} THEN Use(<<value>>) ELSE UNCHANGED listVars

\* The level of log-priority: one of the names, log_notice for another word.
SetUp ==
    /\ phase = "start" /\ Runs("main") /\ pc["main"] = "idle"
    /\ \E value \in Value :
        \/ /\ SetUpLogFile(value) /\ phase' = "running"
           /\ \E p \in Level : current' = p /\ priority' = p
        \/ /\ value = "?" /\ phase' = "crashed" /\ UNCHANGED <<listVars, levelVars>>
    /\ UNCHANGED <<logfile, pc, lock, last>>

-----------------------------------------------------------------------------
(* Commands and signals                                                     *)

\* cmd_logging_warning() sets log_notice.
CmdLevel(c) == IF c = log_warning THEN log_notice ELSE c

CmdSetLogLevel(c) ==
    /\ phase = "running"
    /\ priority' = CmdLevel(c)
    /\ UNCHANGED <<phase, logfile, current, listVars, pc, lock, last>>

Changed(sig) ==
    IF sig = "USR1" THEN IF current > log_warning THEN current - 1 ELSE current
    ELSE IF current < log_trace THEN current + 1 ELSE current

\* log_level_change(): it steps from the level main knows of, and logs a warning.
LogLevelChange(sig) ==
    /\ phase = "running" /\ pc["handler"] = "idle"
    /\ current' = Changed(sig) /\ priority' = current'
    /\ IF log_warning <= priority' THEN Begin("handler") ELSE UNCHANGED <<pc, initialized>>
    /\ UNCHANGED <<phase, logfile, appenders, lock, last>>

-----------------------------------------------------------------------------
LogStep(t) == AddStderr(t) \/ Write(t) \/ Written(t)

Next ==
    \/ \E t \in Thread : Log(t) \/ LogStep(t)
    \/ SetUp
    \/ \E c \in Commands : CmdSetLogLevel(c)
    \/ \E sig \in {"USR1", "USR2"} : LogLevelChange(sig)

Spec == Init /\ [][Next]_vars

\* Threads that log go on, the main thread between signals; a lock that is free again and again
\* is obtained.
Fairness == \A t \in Thread : SF_vars(LogStep(t))

FairSpec == Spec /\ Fairness

-----------------------------------------------------------------------------
(* Properties                                                               *)

TypeOK ==
    /\ phase \in {"start", "running", "crashed"}
    /\ {priority, current} \subseteq Level
    /\ pc \in [Thread -> {"idle", "adding", "writing", "syslog"}]
    /\ (lock = None) <=> (\A t \in Thread : pc[t] # "syslog")
    /\ \A t \in Thread : (pc[t] = "syslog") <=> (lock = t)

\* A message that passes the level is written somewhere, except by a thread that comes while
\* another one adds the first appender, and when a list names no appender at all.
LostOnlyAtFirst ==
    last.to = {} => last.adding # {} \/ (logfile.kind = "list" /\ Known(logfile.names) = {})

\* The signal handler waits for a lock that the thread it has interrupted holds.
SelfDeadlock == lock = "main" /\ pc["handler"] = "writing"

\* A message that is begun is written and no thread waits for ever, except that the handler of
\* SIGUSR1 and SIGUSR2 may have interrupted syslog() on the same thread.
MessageEnds == \A t \in {"main", "proxy"} : (pc[t] # "idle") ~> (pc[t] = "idle" \/ SelfDeadlock)

\* What con_dolog() never does.
LoggingSafe == TypeOK /\ LostOnlyAtFirst
=============================================================================
