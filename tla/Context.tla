------------------------------ MODULE Context ------------------------------
(***************************************************************************)
(* The application context (src/src/context.c): the components register     *)
(* with populate() and find each other with get_bean(). A component is      *)
(* constructed by wiring(), which runs at every registration (casual) and   *)
(* once more before the threads are started. The hash map behind it is the  *)
(* subject of module HashMap; here it is a function from names.             *)
(***************************************************************************)
EXTENDS Naturals, Sequences, SequencesExt, FiniteSetsExt

CONSTANTS Names, None,
          MaxEntries \* bound on the registrations

ContextAssumption == MaxEntries \in Nat /\ None \notin 1 .. MaxEntries

VARIABLES
    entries,     \* the list `entries`, by number of registration: [name, deps]
    initialized, \* numbers of the entries with the flag initialized
    hashMap,     \* name -> number of an entry, or None
    constructed, \* history: the numbers in the order of their post_construct()
    answer,      \* what populate() or auto_wiring() has answered last
    wired        \* auto_wiring() has run

vars == <<entries, initialized, hashMap, constructed, answer, wired>>

Id == 1 .. Len(entries)
Header == [magic: BOOLEAN, major: BOOLEAN, minor: BOOLEAN] \* whether each number matches

Init ==
    /\ entries = <<>> /\ initialized = {} /\ hashMap = [n \in Names |-> None]
    /\ constructed = <<>> /\ answer = "none" /\ wired = FALSE

-----------------------------------------------------------------------------
(* wiring()                                                                 *)

CheckEntry_AbsentFails(list, i, done) ==
    \A n \in list[i].deps : hashMap[n] # None /\ hashMap[n] \in done

\* A dependency that is not registered counts as satisfied.
CheckEntry(list, i, done) == \A n \in list[i].deps : hashMap[n] # None => hashMap[n] \in done

Construct_Again(w, i) == [w EXCEPT !.order = Append(@, i)]
Construct(w, i) == [w EXCEPT !.order = Append(@, i), !.done = @ \cup {i}]

\* One entry: w holds the entries done and, in their order, those constructed.
WireEntry(list, w, i) ==
    IF i \notin w.done /\ CheckEntry(list, i, w.done) THEN Construct(w, i) ELSE w

\* The list is walked once, from the newest entry on: the pointer is not reset when the loop
\* is repeated.
Wiring(list) ==
    LET walk[n \in 0 .. Len(list)] ==
            IF n = 0 THEN [done |-> initialized, order |-> <<>>]
            ELSE WireEntry(list, walk[n - 1], Len(list) + 1 - n)
    IN  walk[Len(list)]

Wired(w) ==
    /\ initialized' = w.done
    /\ constructed' = constructed \o w.order

-----------------------------------------------------------------------------
(* The operations                                                           *)

Refused(h) == ~h.magic \/ (~h.major /\ ~h.minor)

PutIfAbsent(n, i) == hashMap' = [hashMap EXCEPT ![n] = IF @ = None THEN i ELSE @]

\* populate(): the entry is in the list and wired before it is in the map.
Populate(h, e) ==
    /\ Len(entries) < MaxEntries /\ ~wired
    /\ IF Refused(h)
       THEN /\ answer' = IF h.magic THEN "version" ELSE "magic"
            /\ UNCHANGED <<entries, initialized, hashMap, constructed>>
       ELSE /\ entries' = Append(entries, e)
            /\ Wired(Wiring(entries'))
            /\ answer' = IF hashMap[e.name] = None THEN "ok" ELSE "exists"
            /\ PutIfAbsent(e.name, Len(entries'))
    /\ UNCHANGED wired

\* auto_wiring(): the answer is that of the last repetition, which visits no entry.
AutoWiring ==
    /\ ~wired /\ wired' = TRUE
    /\ LET w == Wiring(entries) IN
       /\ Wired(w)
       /\ answer' = IF w.order # <<>> \/ w.done = Id THEN "ok" ELSE "failed"
    /\ UNCHANGED <<entries, hashMap>>

\* get_bean()
GetBean(n) == IF hashMap[n] # None /\ hashMap[n] \in initialized THEN hashMap[n] ELSE None

Next ==
    \/ \E h \in Header, e \in [name: Names, deps: SUBSET Names] : Populate(h, e)
    \/ AutoWiring

Spec == Init /\ [][Next]_vars

-----------------------------------------------------------------------------
(* Properties                                                               *)

TypeOK ==
    /\ entries \in Seq([name: Names, deps: SUBSET Names])
    /\ initialized \subseteq Id
    /\ hashMap \in [Names -> Id \cup {None}]
    /\ wired \in BOOLEAN
    /\ answer \in {"none", "ok", "exists", "version", "magic", "failed"}

\* post_construct() is called once for a component, however often wiring() is repeated.
ConstructedOnce ==
    /\ \A i, j \in DOMAIN constructed : constructed[i] = constructed[j] => i = j
    /\ Range(constructed) = initialized

\* A name finds a component as soon as one is registered under it, before auto_wiring(): main
\* relies on it in init_packet_analyzer() and register_commands(). It finds the first of them.
FoundAtOnce ==
    \A i \in Id : GetBean(entries[i].name) = Min({j \in Id : entries[j].name = entries[i].name})
=============================================================================
