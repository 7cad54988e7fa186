---------------------------- MODULE AutoBlacklist ----------------------------
(***************************************************************************)
(* The access counters of src/src/auto_blacklist.c: for every address the   *)
(* number of connections in the last RESERVED_ENTRY time slots.             *)
(*                                                                          *)
(*   "proxy thread"     find_and_increase() for each connection             *)
(*   "expiring thread"  expiring(): drops the slots that are out of the     *)
(*                      window and the entries that count nothing           *)
(*                                                                          *)
(* Both threads lock the bucket, but find_and_increase() reads the head of  *)
(* the bucket before it has the lock and increments the counters after it   *)
(* has given it back; and both read the clock before they lock.  A step is  *)
(* what happens between two such points.                                    *)
(*                                                                          *)
(* The clock counts time slots (monitor-period / RESERVED_ENTRY seconds).   *)
(* A call of find_and_increase() sees the clock move on at most once.       *)
(***************************************************************************)
EXTENDS Integers, Sequences, FiniteSets, Functions, SequencesExt

CONSTANTS
    Ip,             \* client addresses, as numbers
    HashSize,       \* hash_buffer_size
    Entry,          \* addresses malloc() can return
    Reserved,       \* RESERVED_ENTRY
    MaxTime,        \* bounds the clock
    MaxAccess,      \* bounds the connections
    None

ASSUME ConstantsAssumption ==
    /\ Ip \subseteq Nat /\ HashSize \in Nat \ {0}
    /\ Reserved \in Nat \ {0} /\ MaxTime \in Nat /\ MaxTime >= Reserved /\ MaxAccess \in Nat
    /\ None \notin Ip \cup Entry

VARIABLES
    now,            \* time (NULL) / frequency_in_seconds
    chain,          \* bucket -> its list of entries
    release_pool,   \* the free list
    ipaddr, counter,\* fields of an entry
    access_count,   \* field of an entry: the slots
    pc, ip, slot_index, entry, loaded, crossed,  \* find_and_increase() under way
    k, sweep_slot,  \* expiring() under way: the next bucket (-1: waiting), its time
    free_list,      \* expiring(): entries on their way to the free list
    recent_index,   \* static in expiring()
    accesses,       \* history: address -> slot -> accesses counted
    seen,           \* what the last call of find_and_increase() returned
    raced           \* history: the two threads got into each other's way

call    == <<pc, ip, slot_index, entry, loaded, crossed>>
sweep   == <<k, sweep_slot, free_list, recent_index>>
entries == <<chain, release_pool, ipaddr, counter, access_count>>
vars    == <<now, entries, call, sweep, accesses, seen, raced>>

Index == 0 .. Reserved - 1
Slot  == [slot_index: Int, counter: Nat]

Bucket == 0 .. HashSize - 1

\* hash_index
HashIndex(p) == p % HashSize

\* current_time_index()
IndexOf(slot) == slot % Reserved

-----------------------------------------------------------------------------
\* The slot number that place j has in the window that ends with `slot`.
WindowSlot(slot, j) == slot - ((IndexOf(slot) + Reserved - j) % Reserved)

\* clear_outdated_data(): the places of an entry that it resets ...
Outdated(e, slot) ==
    {j \in Index : access_count[e][j].slot_index # WindowSlot(slot, j)}

\* ... the slots afterwards ...
Cleared(e, slot) ==
    [j \in Index |->
        IF j \in Outdated(e, slot)
        THEN [slot_index |-> WindowSlot(slot, j), counter |-> 0]
        ELSE access_count[e][j]]

\* Faulty: the counter of the entry is not reduced.
CountLeft_Kept(e, slot) == counter[e]

\* ... and the counter.
CountLeft(e, slot) ==
    counter[e] - SumFunction([j \in Outdated(e, slot) |-> access_count[e][j].counter])

-----------------------------------------------------------------------------
(* find_and_increase(), called by the proxy thread.                         *)

\* The head of the bucket and the clock are read, without the lock.
FindBegin(p) ==
    /\ pc = "idle"
    /\ SumFunction([q \in Ip |-> SumFunction(accesses[q])]) < MaxAccess
    /\ ip' = p
    /\ entry' = IF chain[HashIndex(p)] = <<>> THEN None ELSE Head(chain[HashIndex(p)])
    /\ slot_index' = now
    /\ crossed' = FALSE
    /\ pc' = "search"
    /\ UNCHANGED <<now, entries, loaded, sweep, accesses, seen, raced>>

\* The entries reached from e along `next`.  e is in its bucket, or on its way to the
\* free list, or in the free list when it has been freed since it was read.
Walk(e) ==
    LET list == CHOOSE s \in {chain[HashIndex(ip)], free_list, release_pool} : Contains(s, e)
        from == CHOOSE j \in 1 .. Len(list) : list[j] = e
    IN  IF e = None THEN <<>> ELSE SubSeq(list, from, Len(list))

\* Faulty: only the first entry is looked at.
Matches_First == {j \in DOMAIN Walk(entry) : j = 1 /\ ipaddr[Walk(entry)[j]] = ip}

\* Where the address is on the way; the search ends at the first place.
Matches == {j \in DOMAIN Walk(entry) : ipaddr[Walk(entry)[j]] = ip}

\* Under the lock: the address is found, and a new time slot begun.
FindKnown ==
    /\ pc = "search"
    /\ Matches # {}
    /\ LET e == Walk(entry)[Min(Matches)] IN
          /\ entry' = e
          /\ IF access_count[e][IndexOf(slot_index)].slot_index # slot_index
             THEN /\ access_count' = [access_count EXCEPT ![e] = Cleared(e, slot_index)]
                  /\ counter' = [counter EXCEPT ![e] = CountLeft(e, slot_index)]
             ELSE UNCHANGED <<access_count, counter>>
    /\ pc' = "slot"
    /\ UNCHANGED <<now, chain, release_pool, ipaddr, ip, slot_index, loaded, crossed,
                   sweep, accesses, seen, raced>>

\* Faulty: the free list is used when it is empty, too.
Allocatable_Unchecked == IF release_pool # <<>> THEN {Head(release_pool)} ELSE {None}

\* allocate_new_entry(): from the free list, or else from malloc()
Allocatable ==
    IF release_pool # <<>> THEN {Head(release_pool)}
    ELSE Entry \ (ToSet(free_list) \cup UNION {ToSet(chain[b]) : b \in Bucket})

\* Faulty: the slots of a new entry are not given their time.
FreshSlots_Untimed == [j \in Index |-> [slot_index |-> 0, counter |-> 0]]

\* The slots of a new entry after the two loops that initialise and clear them.
FreshSlots == [j \in Index |-> [slot_index |-> WindowSlot(slot_index, j), counter |-> 0]]

\* Under the lock: the address is not found, an entry is put at the head.
FindNew ==
    /\ pc = "search"
    /\ Matches = {}
    /\ \E e \in Allocatable :
          /\ entry' = e
          /\ release_pool' = IF release_pool # <<>> THEN Tail(release_pool) ELSE <<>>
          /\ ipaddr' = [ipaddr EXCEPT ![e] = ip]
          /\ counter' = [counter EXCEPT ![e] = 0]
          /\ access_count' = [access_count EXCEPT ![e] = FreshSlots]
          /\ chain' = [chain EXCEPT ![HashIndex(ip)] = <<e>> \o @]
    /\ pc' = "slot"
    /\ UNCHANGED <<now, ip, slot_index, loaded, crossed, sweep, accesses, seen, raced>>

\* The lock has been given back.  access_count[index].counter++ is a load ...
LoadSlot ==
    /\ pc = "slot"
    /\ loaded' = access_count[entry][IndexOf(slot_index)].counter
    /\ pc' = "storeSlot"
    /\ UNCHANGED <<now, entries, ip, slot_index, entry, crossed, sweep, accesses, seen,
                   raced>>

\* ... and a store,
StoreSlot ==
    /\ pc = "storeSlot"
    /\ access_count' = [access_count EXCEPT ![entry][IndexOf(slot_index)].counter = loaded + 1]
    /\ pc' = "counter"
    /\ UNCHANGED <<now, chain, release_pool, ipaddr, counter, ip, slot_index, entry,
                   loaded, crossed, sweep, accesses, seen, raced>>

\* and so is entry->counter++.
LoadCounter ==
    /\ pc = "counter"
    /\ loaded' = counter[entry]
    /\ pc' = "storeCounter"
    /\ UNCHANGED <<now, entries, ip, slot_index, entry, crossed, sweep, accesses, seen,
                   raced>>

StoreCounter ==
    /\ pc = "storeCounter"
    /\ counter' = [counter EXCEPT ![entry] = loaded + 1]
    /\ accesses' = [accesses EXCEPT ![ip][slot_index] = @ + 1]
    /\ loaded' = 0
    /\ pc' = "return"
    /\ UNCHANGED <<now, chain, release_pool, ipaddr, access_count, ip, slot_index, entry,
                   crossed, sweep, seen, raced>>

\* accepting_request() reads entry->counter.
Return ==
    /\ pc = "return"
    /\ seen' = [ip |-> ip, slot_index |-> slot_index, counter |-> counter[entry]]
    /\ pc' = "idle"
    /\ UNCHANGED <<now, entries, ip, slot_index, entry, loaded, crossed, sweep, accesses,
                   raced>>

-----------------------------------------------------------------------------
(* expiring(), run by the expiring thread.                                  *)

\* The thread has been woken up and reads the clock; it does nothing twice in the same
\* time slot.
SweepBegin ==
    /\ k = -1
    /\ IndexOf(now) # recent_index
    /\ sweep_slot' = now
    /\ k' = 0
    /\ UNCHANGED <<now, entries, call, free_list, recent_index, accesses, seen, raced>>

\* Faulty: entries that still count something are freed, too.
Expired_Low(b) == {e \in ToSet(chain[b]) : CountLeft(e, sweep_slot) <= 1}

Expired(b) == {e \in ToSet(chain[b]) : CountLeft(e, sweep_slot) = 0}

\* What a sweep can spoil: find_and_increase() has a pointer to an entry that is taken
\* out of the table; a counter changes between its load and its store; or the sweep,
\* whose clock is behind, drops a slot that has begun since.
Spoils(b) ==
    \/ pc # "idle" /\ entry \in Expired(b)
    \/ /\ pc = "storeSlot" /\ entry \in ToSet(chain[b])
       /\ IndexOf(slot_index) \in Outdated(entry, sweep_slot)
    \/ /\ pc = "storeCounter" /\ entry \in ToSet(chain[b])
       /\ CountLeft(entry, sweep_slot) # counter[entry]
    \/ \E e \in ToSet(chain[b]) : \E j \in Outdated(e, sweep_slot) :
          access_count[e][j].slot_index > sweep_slot

\* The entries of the list s that are in T, in their order.
Only(s, T) ==
    LET only[n \in 0 .. Len(s)] ==
            IF n = 0 THEN <<>>
            ELSE IF s[n] \in T THEN Append(only[n - 1], s[n])
            ELSE only[n - 1]
    IN  only[Len(s)]

\* Under the lock of the bucket: every entry is cleared, and the entries that count
\* nothing are taken out.
SweepBucket ==
    LET all == ToSet(chain[k]) IN
    /\ k \in Bucket /\ free_list = <<>>
    /\ access_count' = [e \in Entry |->
          IF e \in all THEN Cleared(e, sweep_slot) ELSE access_count[e]]
    /\ counter' = [e \in Entry |->
          IF e \in all THEN CountLeft(e, sweep_slot) ELSE counter[e]]
    /\ chain' = [chain EXCEPT ![k] = Only(@, all \ Expired(k))]
    /\ free_list' = Reverse(Only(chain[k], Expired(k)))
    /\ raced' = (raced \/ Spoils(k))
    /\ k' = k + 1
    /\ UNCHANGED <<now, release_pool, ipaddr, call, sweep_slot, recent_index, accesses, seen>>

\* Faulty: the entry stays on the list to be freed as well.
FreeEntry_NotPopped ==
    /\ free_list # <<>>
    /\ release_pool' = <<Head(free_list)>> \o release_pool
    /\ UNCHANGED <<now, chain, ipaddr, counter, access_count, call, sweep, accesses, seen,
                   raced>>

\* free_entry(), after the lock of the bucket has been given back
FreeEntry ==
    /\ free_list # <<>>
    /\ release_pool' = <<Head(free_list)>> \o release_pool
    /\ free_list' = Tail(free_list)
    /\ UNCHANGED <<now, chain, ipaddr, counter, access_count, call, k, sweep_slot,
                   recent_index, accesses, seen, raced>>

\* Every bucket is done; the thread waits for the next wakeup().
SweepEnd ==
    /\ k = HashSize /\ free_list = <<>>
    /\ recent_index' = IndexOf(sweep_slot)
    /\ k' = -1
    /\ UNCHANGED <<now, entries, call, sweep_slot, free_list, accesses, seen, raced>>

\* Time moves on to the next slot.
Tick ==
    /\ now < MaxTime
    /\ pc # "idle" => ~crossed
    /\ now' = now + 1
    /\ crossed' = (pc # "idle")
    /\ UNCHANGED <<entries, pc, ip, slot_index, entry, loaded, sweep, accesses, seen, raced>>

-----------------------------------------------------------------------------
\* The clock starts late enough for a whole window to lie behind it.
Init ==
    /\ now = Reserved
    /\ chain = [b \in Bucket |-> <<>>] /\ release_pool = <<>>
    /\ ipaddr = [e \in Entry |-> None]
    /\ counter = [e \in Entry |-> 0]
    /\ access_count = [e \in Entry |-> [j \in Index |-> [slot_index |-> 0, counter |-> 0]]]
    /\ pc = "idle" /\ ip = None /\ slot_index = 0 /\ entry = None /\ loaded = 0
    /\ crossed = FALSE
    /\ k = -1 /\ sweep_slot = 0 /\ free_list = <<>> /\ recent_index = -1
    /\ accesses = [p \in Ip |-> [t \in 0 .. MaxTime |-> 0]]
    /\ seen = None
    /\ raced = FALSE

Next ==
    \/ \E p \in Ip : FindBegin(p)
    \/ FindKnown
    \/ FindNew
    \/ LoadSlot
    \/ StoreSlot
    \/ LoadCounter
    \/ StoreCounter
    \/ Return
    \/ SweepBegin
    \/ SweepBucket
    \/ FreeEntry
    \/ SweepEnd
    \/ Tick

Spec == Init /\ [][Next]_vars

-----------------------------------------------------------------------------
InTable(p) == {e \in ToSet(chain[HashIndex(p)]) : ipaddr[e] = p}

\* The accesses of p in the window of RESERVED_ENTRY slots that ends with slot t.
Window(p, t) == SumFunctionOnSet(accesses[p], {s \in 0 .. MaxTime : t - Reserved < s /\ s <= t})

\* All the lists of entries: the buckets, the list expiring() frees, the free list.
Lists == {chain[b] : b \in Bucket} \cup {free_list, release_pool}

\* Every list is made of entries and every field has its type, raced or not.
TypeOK ==
    /\ now \in 0 .. MaxTime
    /\ \A s \in Lists : s \in Seq(Entry)
    /\ ipaddr \in [Entry -> Ip \cup {None}]
    /\ counter \in [Entry -> Int]
    /\ access_count \in [Entry -> [Index -> Slot]]
    /\ pc \in {"idle", "search", "slot", "storeSlot", "counter", "storeCounter", "return"}
    /\ entry \in Entry \cup {None} /\ k \in -1 .. HashSize
    /\ raced \in BOOLEAN

\* Unless the threads raced, an address has at most one entry, in its own bucket, and a
\* lookup cannot find an older, lower count.
OneEntryPerAddress ==
    ~raced =>
        \A b \in Bucket : \A e \in ToSet(chain[b]) :
            /\ HashIndex(ipaddr[e]) = b
            /\ \A f \in ToSet(chain[b]) : ipaddr[e] = ipaddr[f] => e = f

\* Raced or not, no entry is twice in the buckets, the list expiring() frees and the
\* free list: the lists stay lists, and an entry that is allocated is in no other.
EntryInOneList ==
    /\ \A s \in Lists : IsInjective(s)
    /\ \A b, c \in Bucket : b # c => ToSet(chain[b]) \cap ToSet(chain[c]) = {}
    /\ \A b \in Bucket : ToSet(chain[b]) \cap (ToSet(free_list) \cup ToSet(release_pool)) = {}
    /\ ToSet(free_list) \cap ToSet(release_pool) = {}

\* The lists of the table are intact, whatever expiring() frees meanwhile.
ListsIntact == TypeOK /\ OneEntryPerAddress /\ EntryInOneList

\* Unless the threads raced, an address that connected within the window has its entry:
\* expiring() frees an entry only when it counts nothing.
NoActiveEntryFreed ==
    ~raced => \A p \in Ip : Window(p, now) > 0 => InTable(p) # {}

\* Unless the threads raced, the counter of an entry is the sum of its slots between
\* calls, so that it comes down to 0 when the slots leave the window.
CounterIsSumOfSlots ==
    ~raced /\ pc = "idle" =>
        \A b \in Bucket : \A e \in ToSet(chain[b]) :
            counter[e] = SumFunction([j \in Index |-> access_count[e][j].counter])

\* Unless the threads raced, a call of find_and_increase() that lies within one time slot
\* gives accepting_request() the number of connections of the address in the last
\* RESERVED_ENTRY slots.
CountsWindow ==
    ~raced /\ seen # None /\ pc = "idle" /\ seen.slot_index = now =>
        seen.counter = Window(seen.ip, now)

\* The counter of an entry agrees with its slots, and its count with the connections there were.
CountsRight == CounterIsSumOfSlots /\ CountsWindow

\* What "threshold" over "monitor-period" says: the count that accepting_request()
\* compares with the threshold is the number of connections of the address in the
\* monitored period, whatever expiring() does in between.
CountsWindowAlways ==
    seen # None /\ pc = "idle" /\ seen.slot_index = now =>
        seen.counter = Window(seen.ip, now)
=============================================================================
