------------------------------ MODULE Hashtable ------------------------------
(***************************************************************************)
(* The hash table of kernel/utils/hashtable.c, which holds the system's    *)
(* file descriptors, and the reference count of the hash function it uses  *)
(* (kernel/crypto/hashing.c).  The table never grows: nothing counts the   *)
(* entries of its biggest slot.                                            *)
(***************************************************************************)
EXTENDS Integers, Sequences

CONSTANTS
    Key, Value,
    NoValue,    \* what a key without an entry has
    Slot,       \* the slots, INITIAL_HASHTABLE_SLOTS of them
    Hash        \* the slot of a key, the digest of the key modulo their number

ASSUME HashtableAssumption == Hash \in [Key -> Slot] /\ NoValue \notin Value

VARIABLES
    slots,      \* for each slot the sequence of its entries
    made,       \* whether the table is initialised
    refcount,   \* of the hash function
    entries     \* what the callers put in: a function from keys to values

hashVars == <<slots, made, refcount, entries>>

HashInit ==
    /\ slots = [s \in Slot |-> <<>>]
    /\ made = FALSE
    /\ refcount = 0
    /\ entries = [k \in Key |-> NoValue]

\* hashtable_init.
HashtableInit ==
    /\ ~made
    /\ made' = TRUE
    /\ slots' = [s \in Slot |-> <<>>]
    /\ refcount' = refcount + 1
    /\ UNCHANGED entries

\* The places of a key in its slot.
Places(k) == {i \in DOMAIN slots[Hash[k]] : slots[Hash[k]][i].key = k}

\* hashtable_insert finds the key: hashtable_add_value_to_slot replaces the
\* value of the first such entry.
InsertOver(k, v) ==
    /\ made
    /\ \E i \in Places(k) :
        /\ \A j \in Places(k) : i <= j
        /\ slots' = [slots EXCEPT ![Hash[k]][i].value = v]
    /\ entries' = [entries EXCEPT ![k] = v]
    /\ UNCHANGED <<made, refcount>>

\* hashtable_insert of a new key; without memory nothing changes.
InsertNew(k, v) ==
    /\ made
    /\ Places(k) = {}
    /\ slots' = [slots EXCEPT ![Hash[k]] = Append(@, [key |-> k, value |-> v])]
    /\ entries' = [entries EXCEPT ![k] = v]
    /\ UNCHANGED <<made, refcount>>

\* hashtable_find: the value of the first entry with the key.
HashtableFind(k) ==
    IF Places(k) = {} THEN NoValue
    ELSE slots[Hash[k]][CHOOSE i \in Places(k) : \A j \in Places(k) : i <= j].value

\* Wrong variant: the entry after the one removed is dropped as well.
Without_Two(s, i) == [j \in 1 .. Len(s) - 1 |-> IF j < i THEN s[j] ELSE s[Len(s)]]

\* The entries behind place i move down by one.
Without(s, i) == [j \in 1 .. Len(s) - 1 |-> IF j < i THEN s[j] ELSE s[j + 1]]

\* hashtable_remove.  The memory of a slot that still has entries is made
\* smaller, which is asserted to succeed.
HashtableRemove(k) ==
    /\ made
    /\ \E i \in Places(k) :
        /\ \A j \in Places(k) : i <= j
        /\ slots' = [slots EXCEPT ![Hash[k]] = Without(@, i)]
    /\ entries' = [entries EXCEPT ![k] = NoValue]
    /\ UNCHANGED <<made, refcount>>

\* hashtable_destroy.
HashtableDestroy ==
    /\ made
    /\ made' = FALSE
    /\ slots' = [s \in Slot |-> <<>>]
    /\ refcount' = refcount - 1
    /\ entries' = [k \in Key |-> NoValue]

HashNext ==
    \/ HashtableInit
    \/ \E k \in Key, v \in Value : InsertOver(k, v) \/ InsertNew(k, v)
    \/ \E k \in Key : HashtableRemove(k)
    \/ HashtableDestroy

HashSpec == HashInit /\ [][HashNext]_hashVars

-----------------------------------------------------------------------------
\* Whatever keys fall into the same slot, and in whatever order entries come
\* and go, hashtable_find gives for every key the value it was last given
\* and finds nothing for the others; the hash function is held while a table
\* uses it.
HashtableIsMap ==
    /\ \A k \in Key : HashtableFind(k) = entries[k]
    /\ refcount = IF made THEN 1 ELSE 0

-----------------------------------------------------------------------------
HashEntry == [key : Key, value : Value]

\* Every entry is in its key's slot, holds the value its key was given, and is
\* the only one of its key; every key with a value has an entry.  Without
\* the uniqueness a removal would uncover an older entry of the same key.
EntriesTyped == slots \in [Slot -> Seq(HashEntry)] /\ entries \in [Key -> Value \cup {NoValue}]
EntriesPlaced == \A s \in Slot : \A i \in DOMAIN slots[s] : Hash[slots[s][i].key] = s
EntriesUnique ==
    \A s \in Slot : \A i, j \in DOMAIN slots[s] : slots[s][i].key = slots[s][j].key => i = j
EntriesCurrent ==
    \A s \in Slot : \A i \in DOMAIN slots[s] : entries[slots[s][i].key] = slots[s][i].value
KeysHaveEntries == \A k \in Key : entries[k] # NoValue => Places(k) # {}
RefsExact ==
    /\ made \in BOOLEAN /\ refcount = IF made THEN 1 ELSE 0
    /\ ~made => entries = [k \in Key |-> NoValue] /\ slots = [s \in Slot |-> <<>>]

\* The invariant of the proof that the table is a map.
HashInv ==
    EntriesTyped /\ EntriesPlaced /\ EntriesUnique /\ EntriesCurrent /\ KeysHaveEntries /\ RefsExact
=============================================================================
