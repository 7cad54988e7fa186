--------------------------- MODULE PacketAnalyzer ---------------------------
(***************************************************************************)
(* The plugin that analyzes packets (src/src/packet_analyzer.c) and the     *)
(* signal handler around it (src/src/exception.c).                          *)
(*                                                                          *)
(*   worker   whoever has worker_mutex: allocates the plugin's data of a    *)
(*            connection, has its packets analyzed, releases the data       *)
(*   command  loads, unloads, enables and disables the plugin, and sets the *)
(*            safe mode, without any lock                                   *)
(*                                                                          *)
(* Every loading of a library gets a number of its own; 0 is NULL. A call   *)
(* of the plugin is one step, and so is each access to the shared state     *)
(* before and after it.                                                     *)
(***************************************************************************)
EXTENDS Naturals, FiniteSets

CONSTANTS
    Conn,      \* connections
    MaxLoads,  \* bounds the number of libraries loaded
    Serial     \* whether an unload never overlaps with another operation

ConstantsAssumption ==
    /\ IsFiniteSet(Conn) /\ Conn # {}
    /\ MaxLoads \in Nat \ {0}
    /\ Serial \in BOOLEAN

VARIABLES
    pluggableAnalyzer, library,   \* the plugin's table, the handle of its library
    plugin_enable, auto_unload, safe_mode, reference_count,
    loads,     \* libraries loaded so far
    mapped,    \* libraries in memory
    inited,    \* libraries whose init() has run
    data,      \* connection -> the library that allocated packet_analyzer_data, or 0
    wpc, conn, \* worker: place, connection
    guarded,   \* worker: the call is made through try_catch()
    cpc,       \* command thread: place
    blocked,   \* SIGSEGV is blocked in the proxy thread
    raised,    \* an exception has disabled the plugin, and nobody has enabled it since
    dead       \* what ended the process: "no", "fast" or "safe" mode, "release"

worker  == <<wpc, conn, guarded>>
flags   == <<plugin_enable, auto_unload, safe_mode>>
vars    == <<pluggableAnalyzer, library, flags, reference_count, loads, mapped, inited, data,
             worker, cpc, blocked, raised, dead>>

\* init_packet_analyzer(): the plugin may be loaded, and enabled, on boot.
Init ==
    /\ \E boot, on \in BOOLEAN :
         /\ loads = IF boot THEN 1 ELSE 0
         /\ plugin_enable = (boot /\ on)
    /\ pluggableAnalyzer = loads /\ library = loads
    /\ mapped = 1 .. loads /\ inited = mapped
    /\ auto_unload = FALSE /\ safe_mode = FALSE /\ reference_count = 0
    /\ data = [c \in Conn |-> 0]
    /\ wpc = "idle" /\ conn \in Conn /\ guarded = FALSE
    /\ cpc = "idle"
    /\ blocked = FALSE /\ raised = FALSE /\ dead = "no"

-----------------------------------------------------------------------------
(* The worker                                                               *)

Start(c, place) ==
    /\ dead = "no" /\ wpc = "idle"
    /\ Serial => cpc # "dlclose"
    /\ wpc' = place /\ conn' = c

Shared == <<pluggableAnalyzer, library, loads, mapped, inited, cpc>>

\* analyzer_allocate(): test, call, count.
Allocate(c) ==
    /\ data[c] = 0
    /\ pluggableAnalyzer # 0 /\ plugin_enable
    /\ Start(c, "allocate")
    /\ UNCHANGED <<Shared, flags, reference_count, data, guarded, blocked, raised, dead>>

AllocateCall ==
    /\ dead = "no" /\ wpc = "allocate"
    /\ \/ data' = [data EXCEPT ![conn] = pluggableAnalyzer] /\ wpc' = "count"
       \/ wpc' = "idle" /\ UNCHANGED data
    /\ UNCHANGED <<Shared, flags, reference_count, conn, guarded, blocked, raised, dead>>

AllocateCount ==
    /\ dead = "no" /\ wpc = "count"
    /\ reference_count' = reference_count + 1
    /\ wpc' = "idle"
    /\ UNCHANGED <<Shared, flags, data, conn, guarded, blocked, raised, dead>>

\* analyze_packet(): test and choice of the mode, then the call.
Analyze(c) ==
    /\ plugin_enable /\ data[c] # 0 /\ pluggableAnalyzer # 0
    /\ Start(c, "analyze")
    /\ guarded' = safe_mode
    /\ UNCHANGED <<Shared, flags, reference_count, data, blocked, raised, dead>>

AnalyzeReturns ==
    /\ dead = "no" /\ wpc = "analyze"
    /\ wpc' = "idle" /\ guarded' = FALSE
    /\ UNCHANGED <<Shared, flags, reference_count, data, conn, blocked, raised, dead>>

Caught_Never == FALSE

\* try_catch() catches a fault once: longjmp() out of the handler leaves SIGSEGV blocked,
\* and a fault with SIGSEGV blocked ends the process.
Caught == guarded /\ ~blocked

\* A segmentation fault in the plugin.
AnalyzeFaults_StillEnabled ==
    /\ dead = "no" /\ wpc = "analyze" /\ Caught
    /\ auto_unload' = TRUE /\ blocked' = TRUE /\ raised' = TRUE
    /\ wpc' = "idle" /\ guarded' = FALSE
    /\ UNCHANGED <<Shared, plugin_enable, safe_mode, reference_count, data, conn, dead>>

AnalyzeFaults ==
    /\ dead = "no" /\ wpc = "analyze"
    /\ IF Caught
         THEN /\ plugin_enable' = FALSE /\ auto_unload' = TRUE
              /\ blocked' = TRUE /\ raised' = TRUE
              /\ UNCHANGED dead
         ELSE /\ dead' = IF guarded THEN "safe" ELSE "fast"
              /\ UNCHANGED <<plugin_enable, auto_unload, blocked, raised>>
    /\ wpc' = "idle" /\ guarded' = FALSE
    /\ UNCHANGED <<Shared, safe_mode, reference_count, data, conn>>

\* analyzer_release(): call and count; the last release unloads a plugin that was busy.
Release(c) ==
    /\ data[c] # 0
    /\ IF pluggableAnalyzer # 0
         THEN Start(c, "release") /\ UNCHANGED data
         ELSE Start(c, "idle") /\ data' = [data EXCEPT ![c] = 0]
    /\ UNCHANGED <<Shared, flags, reference_count, guarded, blocked, raised, dead>>

ReleaseCall ==
    /\ dead = "no" /\ wpc = "release"
    /\ \/ wpc' = "uncount" /\ data' = [data EXCEPT ![conn] = 0] /\ UNCHANGED dead
       \/ dead' = "release" /\ UNCHANGED <<wpc, data>>   \* it faults, outside try_catch()
    /\ UNCHANGED <<Shared, flags, reference_count, conn, guarded, blocked, raised>>

LastReference_Kept == FALSE
LastReference == reference_count = 1 /\ auto_unload /\ pluggableAnalyzer # 0

ReleaseCount_Kept ==
    /\ dead = "no" /\ wpc = "uncount"
    /\ wpc' = "idle"
    /\ UNCHANGED <<Shared, flags, reference_count, data, conn, guarded, blocked, raised, dead>>

ReleaseCount ==
    /\ dead = "no" /\ wpc = "uncount"
    /\ reference_count' = reference_count - 1
    /\ IF LastReference
         THEN pluggableAnalyzer' = 0 /\ raised' = FALSE /\ wpc' = "dlclose"
         ELSE wpc' = "idle" /\ UNCHANGED <<pluggableAnalyzer, raised>>
    /\ UNCHANGED <<library, loads, mapped, inited, cpc, flags, data, conn, guarded,
                   blocked, dead>>

\* The end of module_unload(): dlclose() of whatever the handle is now, which may fail.
Dlclose ==
    \/ library # 0 /\ mapped' = mapped \ {library} /\ library' = 0
    \/ UNCHANGED <<mapped, library>>

WorkerDlclose ==
    /\ dead = "no" /\ wpc = "dlclose"
    /\ Dlclose
    /\ wpc' = "idle"
    /\ UNCHANGED <<pluggableAnalyzer, flags, reference_count, loads, inited, data, conn,
                   guarded, cpc, blocked, raised, dead>>

-----------------------------------------------------------------------------
(* The command thread                                                       *)

Command == dead = "no" /\ cpc = "idle"

\* module_loader(): dlopen(), dlsym(), init(). A library without the symbol stays loaded.
LoadOpen_EnableKept ==
    /\ Command /\ pluggableAnalyzer = 0
    /\ Serial => wpc # "dlclose"
    /\ loads < MaxLoads /\ loads' = loads + 1
    /\ library' = loads' /\ mapped' = mapped \cup {loads'}
    /\ auto_unload' = FALSE
    /\ cpc' = "dlsym"
    /\ UNCHANGED <<pluggableAnalyzer, plugin_enable, safe_mode, reference_count, inited, data,
                   worker, blocked, raised, dead>>

LoadOpen ==
    /\ Command /\ pluggableAnalyzer = 0
    /\ Serial => wpc # "dlclose"
    /\ \/ /\ loads < MaxLoads /\ loads' = loads + 1
          /\ library' = loads' /\ mapped' = mapped \cup {loads'}
          /\ plugin_enable' = FALSE /\ auto_unload' = FALSE
          /\ cpc' = "dlsym"
       \/ /\ library' = 0
          /\ UNCHANGED <<loads, mapped, plugin_enable, auto_unload, cpc>>
    /\ UNCHANGED <<pluggableAnalyzer, safe_mode, reference_count, inited, data, worker, blocked,
                   raised, dead>>

LoadSymbol ==
    /\ dead = "no" /\ cpc = "dlsym"
    /\ \/ pluggableAnalyzer' = library /\ cpc' = "init"
       \/ cpc' = "idle" /\ UNCHANGED pluggableAnalyzer
    /\ UNCHANGED <<library, flags, reference_count, loads, mapped, inited, data, worker,
                   blocked, raised, dead>>

LoadInit ==
    /\ dead = "no" /\ cpc = "init"
    /\ inited' = inited \cup {pluggableAnalyzer}
    /\ cpc' = "idle"
    /\ UNCHANGED <<pluggableAnalyzer, library, flags, reference_count, loads, mapped, data,
                   worker, blocked, raised, dead>>

\* module_unload()
Unused_Unchecked == TRUE
Unused == reference_count <= 0

Unload ==
    /\ Command /\ pluggableAnalyzer # 0
    /\ Serial => wpc = "idle"
    /\ IF Unused
         THEN /\ pluggableAnalyzer' = 0 /\ raised' = FALSE /\ cpc' = "dlclose"
              /\ UNCHANGED auto_unload
         ELSE /\ auto_unload' = TRUE
              /\ UNCHANGED <<pluggableAnalyzer, raised, cpc>>
    /\ UNCHANGED <<library, plugin_enable, safe_mode, reference_count, loads, mapped, inited,
                   data, worker, blocked, dead>>

CommandDlclose ==
    /\ dead = "no" /\ cpc = "dlclose"
    /\ Dlclose
    /\ cpc' = "idle"
    /\ UNCHANGED <<pluggableAnalyzer, flags, reference_count, loads, inited, data, worker,
                   blocked, raised, dead>>

\* set_enable(), which answers whether the plugin is enabled now
Enabled(on) == on /\ pluggableAnalyzer # 0

SetEnable(on) ==
    /\ Command
    /\ plugin_enable' = Enabled(on)
    /\ raised' = (raised /\ ~plugin_enable')
    /\ UNCHANGED <<pluggableAnalyzer, library, auto_unload, safe_mode, reference_count, loads,
                   mapped, inited, data, worker, cpc, blocked, dead>>

SetSafeMode(on) ==
    /\ Command
    /\ safe_mode' = on
    /\ UNCHANGED <<pluggableAnalyzer, library, plugin_enable, auto_unload, reference_count,
                   loads, mapped, inited, data, worker, cpc, blocked, raised, dead>>

-----------------------------------------------------------------------------
WorkerCalls == AllocateCall \/ AllocateCount \/ AnalyzeReturns \/ AnalyzeFaults \/ ReleaseCall
               \/ ReleaseCount \/ WorkerDlclose
CommandGoesOn == LoadSymbol \/ LoadInit \/ CommandDlclose

Next ==
    \/ \E c \in Conn : Allocate(c) \/ Analyze(c) \/ Release(c)
    \/ WorkerCalls
    \/ LoadOpen \/ Unload \/ CommandGoesOn
    \/ \E on \in BOOLEAN : SetEnable(on) \/ SetSafeMode(on)

Spec == Init /\ [][Next]_vars

\* The threads go on, calls of the plugin return, and connections end in the end (property
\* IdleExpires of module Proxying).
Fairness ==
    /\ WF_vars(WorkerCalls) /\ WF_vars(CommandGoesOn)
    /\ \A c \in Conn : SF_vars(Release(c))

FairSpec == Spec /\ Fairness

-----------------------------------------------------------------------------
(* Properties                                                               *)

TypeOK ==
    /\ {plugin_enable, auto_unload, safe_mode, guarded, blocked, raised} \subseteq BOOLEAN
    /\ loads \in 0 .. MaxLoads
    /\ {pluggableAnalyzer, library} \subseteq 0 .. loads
    /\ mapped \subseteq 1 .. loads /\ inited \subseteq 1 .. loads
    /\ reference_count \in 0 .. Cardinality(Conn)
    /\ data \in [Conn -> 0 .. loads]
    /\ wpc \in {"idle", "allocate", "count", "analyze", "release", "uncount", "dlclose"}
    /\ conn \in Conn
    /\ cpc \in {"idle", "dlsym", "init", "dlclose"}
    /\ dead \in {"no", "fast", "safe", "release"}

\* The plugin is only called while its library is in memory and after its init() has run,
\* although the worker tests and calls it without a lock against the command thread.
CallsLoadedPlugin ==
    dead = "no" /\ wpc \in {"allocate", "analyze", "release"}
        => pluggableAnalyzer \in mapped \cap inited

\* The data of a connection is released to, and analyzed by, the plugin that allocated it,
\* whatever is unloaded and loaded during the life of the connection.
DataOfPlugin == \A c \in Conn : data[c] # 0 => data[c] = pluggableAnalyzer

\* reference_count is the number of connections with data of the plugin.
CountsReferences ==
    reference_count = Cardinality({c \in Conn : data[c] # 0})
                      + (IF wpc = "uncount" THEN 1 ELSE 0) - (IF wpc = "count" THEN 1 ELSE 0)

\* A plugin that an exception has disabled is only called to release data, until a command
\* enables it again.
RaisedGetsNoWork == raised => wpc \notin {"allocate", "analyze"}

\* A disabled plugin whose unloading is due, after an exception or because it was busy, is
\* unloaded when its connections have ended, unless it is enabled again.
UnloadedInTheEnd ==
    (auto_unload /\ ~plugin_enable /\ pluggableAnalyzer # 0)
        ~> (pluggableAnalyzer = 0 \/ plugin_enable \/ dead # "no")

\* In safe mode a fault of analyze() ends the process only if one was caught before.
SafeModeCatchesFirst == dead = "safe" => blocked

\* What the worker and the command thread never do with the plugin.
AnalyzerSafe ==
    /\ TypeOK /\ CallsLoadedPlugin /\ DataOfPlugin /\ CountsReferences
    /\ RaisedGetsNoWork /\ SafeModeCatchesFirst
=============================================================================
