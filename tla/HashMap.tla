------------------------------ MODULE HashMap ------------------------------
(***************************************************************************)
(* The hash map (src/src/hash_map.c) and its use for the names of products  *)
(* (src/src/db_service.c). A bucket is a chain of nodes, a new node in      *)
(* front. The map keeps the pointers it is given, to strings that its user  *)
(* allocates and frees: an Address here, with the text it holds in `heap`.  *)
(* A text is a number, and its hash code the number itself.                 *)
(***************************************************************************)
EXTENDS Naturals, Sequences, SequencesExt, FiniteSetsExt

CONSTANTS Text,    \* the texts of keys
          Product, \* the texts of values
          Address, \* what malloc() can return
          Size,    \* buckets_size
          None

MapAssumption ==
    /\ Text \subseteq Nat /\ Product \subseteq Nat /\ Size \in Nat \ {0}
    /\ None \notin Address /\ None \notin Nat

VARIABLES
    buckets, \* 0 .. Size - 1 -> chain of [key: Address, value: Address]
    heap,    \* Address -> the text allocated there, or None
    names    \* history: text -> the product last put under it, or None

vars == <<buckets, heap, names>>

Init ==
    /\ buckets = [b \in 0 .. Size - 1 |-> <<>>]
    /\ heap = [x \in Address |-> None]
    /\ names = [t \in Text |-> None]

-----------------------------------------------------------------------------
(* hash_map.c                                                               *)

FindHead(t) == t % Size

\* find_data(): the positions in the chain whose key is equal as a string
Matching(t) == {i \in DOMAIN buckets[FindHead(t)] : heap[buckets[FindHead(t)][i].key] = t}

FindData(t) == Min(Matching(t))

Exists(t) == Matching(t) # {}

GetByKey(t) == IF Exists(t) THEN buckets[FindHead(t)][FindData(t)].value ELSE None

OverwritePut_First(t, key, value) ==
    buckets' = [buckets EXCEPT ![FindHead(t)] =
        IF Exists(t) THEN [@ EXCEPT ![1].value = value]
        ELSE <<[key |-> key, value |-> value]>> \o @]

\* overwrite_put(): the key of a node that is found stays.
OverwritePut(t, key, value) ==
    buckets' = [buckets EXCEPT ![FindHead(t)] =
        IF Exists(t) THEN [@ EXCEPT ![FindData(t)].value = value]
        ELSE <<[key |-> key, value |-> value]>> \o @]

-----------------------------------------------------------------------------
(* db_service.c                                                             *)

Free == {x \in Address : heap[x] = None}

GivenBack_None(t, key) == {}

\* What product_names_callback() frees: its key and the old value, if there was one.
GivenBack(t, key) == IF Exists(t) THEN {key, GetByKey(t)} ELSE {}

\* One row read by reload_product_names(): two strings are allocated and put.
ProductNamesCallback(t, p) ==
    \E key, value \in Free :
        /\ key # value
        /\ OverwritePut(t, key, value)
        /\ heap' = [x \in Address |->
                        IF x \in GivenBack(t, key) THEN None
                        ELSE IF x = key THEN t ELSE IF x = value THEN p ELSE heap[x]]
        /\ names' = [names EXCEPT ![t] = p]

\* get_product_name(): a key is allocated for the search and freed again.
ProductName(t) == IF GetByKey(t) = None THEN None ELSE heap[GetByKey(t)]

Next == \E t \in Text, p \in Product : ProductNamesCallback(t, p)

Spec == Init /\ [][Next]_vars

-----------------------------------------------------------------------------
(* Properties                                                               *)

TypeOK ==
    /\ DOMAIN buckets = 0 .. Size - 1
    /\ \A b \in 0 .. Size - 1 : buckets[b] \in Seq([key: Address, value: Address])
    /\ heap \in [Address -> Text \cup Product \cup {None}]

\* The chains hold a map: the name found for a key is the one put last under it, although other
\* keys share its bucket.
FindsLast == \A t \in Text : ProductName(t) = names[t]

Held == UNION {UNION {{buckets[b][i].key, buckets[b][i].value} : i \in DOMAIN buckets[b]} :
                   b \in 0 .. Size - 1}

\* The map holds exactly the strings that are allocated: a reload of the names leaves none
\* behind and frees none that the map still has.
StringsAccounted == {x \in Address : heap[x] # None} = Held
=============================================================================
