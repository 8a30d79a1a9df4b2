---------------------------- MODULE LibraryProofs ----------------------------
(***************************************************************************)
(* The kernel library, containers and the maps of memory: strings compare, *)
(* copy, search, print and read back exactly, for every set of strings and *)
(* bases; the hash table is a map, for every set of keys, number of slots  *)
(* and hash function; a linked list is a sequence, for every set of nodes; *)
(* ranges of device memory are kept apart, for every size of the bitmap;   *)
(* no frame handed out touches a reserved region, for every memory map.    *)
(* vsnprintf is left to TLC.                                               *)
(***************************************************************************)
EXTENDS Stdlib, Hashtable, Linkedlist, Dma, Mregmap, FiniteSetTheorems, WellFoundedInduction, TLAPS

\* Every set of natural numbers that has a member has a least one.
LEMMA LeastNatural ==
    ASSUME NEW T \in SUBSET Nat, T # {}
    PROVE  \E x \in T : \A y \in T : x <= y
<1>1. ASSUME NEW R, R = OpToRel(<, Nat)
      PROVE  IsWellFoundedOn(R, Nat) /\ \A x \in Nat, y \in Nat : y < x => <<y, x>> \in R
  <2>1. IsWellFoundedOn(R, Nat)
    BY <1>1, NatLessThanWellFounded, Zenon
  <2>2. \A x \in Nat, y \in Nat : y < x => <<y, x>> \in R
    BY <1>1, Zenon DEF OpToRel
  <2> QED BY <2>1, <2>2
<1>2. \E R : R = OpToRel(<, Nat)
  BY Zenon
<1>3. PICK R : IsWellFoundedOn(R, Nat) /\ \A x \in Nat, y \in Nat : y < x => <<y, x>> \in R
  BY <1>1, <1>2, Zenon
<1>4. PICK x \in T : \A y \in T : ~(<<y, x>> \in R)
  BY <1>3, WFMin
<1>5. \A y \in T : ~(y < x)
  BY <1>3, <1>4
<1> QED BY <1>5

LEMMA Elements ==
    ASSUME NEW S, NEW s \in Seq(S), NEW i \in 1 .. Len(s)
    PROVE  s[i] \in S
OBVIOUS

LEMMA Concatenated ==
    ASSUME NEW S, NEW a \in Seq(S), NEW b \in Seq(S)
    PROVE  a \o b \in Seq(S) /\ Len(a \o b) = Len(a) + Len(b)
OBVIOUS

\* An entry of the second list is in the two lists together, after the first.
LEMMA ConcatenatedSecond ==
    ASSUME NEW S, NEW a \in Seq(S), NEW b \in Seq(S), NEW j \in 1 .. Len(b)
    PROVE  (a \o b)[Len(a) + j] = b[j]
<1>1. Len(a) \in Nat /\ Len(b) \in Nat
  OBVIOUS
<1>2. PICK m : m = Len(a) + j
  OBVIOUS
<1>3. m \in 1 .. Len(a) + Len(b) /\ ~(m <= Len(a)) /\ m - Len(a) = j
  BY ONLY <1>1, <1>2, j \in 1 .. Len(b)
<1> QED BY <1>2, <1>3

\* Where an entry of a list was before the one at k was removed.
Before(k, i) == IF i < k THEN i ELSE i + 1

\* r is s without the entry at k.
Shifted(S, s, k, r) ==
    /\ r \in Seq(S) /\ DOMAIN r = 1 .. Len(s) - 1
    /\ \A i \in 1 .. Len(s) - 1 : /\ Before(k, i) \in 1 .. Len(s) /\ Before(k, i) # k
                                /\ r[i] = s[Before(k, i)]
    /\ \A j \in 1 .. Len(s) : j # k => \E i \in 1 .. Len(s) - 1 : Before(k, i) = j

LEMMA RemoveAtPlaces ==
    ASSUME NEW S, NEW s \in Seq(S), NEW k \in 1 .. Len(s), NEW r, r = RemoveAt(s, k)
    PROVE  Shifted(S, s, k, r)
<1> DEFINE n == Len(s)
           a == SubSeq(s, 1, k - 1)
           b == SubSeq(s, k + 1, n)
           From(i) == Before(k, i)
<1>1. n \in Nat /\ k \in Nat /\ 1 <= k /\ k <= n
  OBVIOUS
<1>2. \A i \in 1 .. n : s[i] \in S
  BY Elements
<1>3. a \in Seq(S) /\ Len(a) = k - 1 /\ \A i \in 1 .. k - 1 : a[i] = s[i]
  <2>1. a = [i \in 1 .. k - 1 |-> s[i]]
    BY <1>1
  <2>2. \A i \in 1 .. k - 1 : s[i] \in S
    BY <1>1, <1>2
  <2> QED BY <1>1, <2>1, <2>2
<1>4. b \in Seq(S) /\ Len(b) = n - k /\ \A i \in 1 .. n - k : b[i] = s[i + k]
  <2>1. b = [i \in 1 .. n - k |-> s[i + k]]
    BY <1>1
  <2>2. \A i \in 1 .. n - k : s[i + k] \in S
    BY <1>1, <1>2
  <2> HIDE DEF b
  <2> QED BY <1>1, <2>1, <2>2
<1>5. r = a \o b
  BY DEF RemoveAt
<1> HIDE DEF a, b
<1> USE DEF Before
<1>6. r \in Seq(S) /\ Len(r) = n - 1 /\ DOMAIN r = 1 .. n - 1
  <2>1. r \in Seq(S) /\ Len(r) = Len(a) + Len(b)
    BY <1>3, <1>4, <1>5, Concatenated
  <2>2. Len(r) = n - 1
    BY <1>1, <1>3, <1>4, <2>1
  <2> QED BY <2>1, <2>2
<1>7. ASSUME NEW i \in 1 .. n - 1 PROVE From(i) \in 1 .. n /\ From(i) # k /\ r[i] = s[From(i)]
  <2>1. CASE i < k
    <3>1. i \in 1 .. k - 1 /\ r[i] = a[i]
      BY <1>1, <1>3, <1>4, <1>5, <2>1
    <3> QED BY <1>1, <1>3, <2>1, <3>1
  <2>2. CASE ~(i < k)
    <3>1. i - (k - 1) \in 1 .. n - k /\ r[i] = b[i - (k - 1)] /\ (i - (k - 1)) + k = i + 1
      <4>1. PICK j : j = i - (k - 1)
        OBVIOUS
      <4>2. i \in Nat /\ i >= k /\ i <= n - 1
        BY ONLY <1>1, <2>2, i \in 1 .. n - 1
      <4>3. j \in 1 .. n - k /\ j + k = i + 1 /\ i = (k - 1) + j
        BY ONLY <1>1, <4>1, <4>2
      <4>4. Len(a) + j = i /\ j \in 1 .. Len(b)
        BY ONLY <1>1, <1>3, <1>4, <4>3
      <4>5. (a \o b)[Len(a) + j] = b[j]
        <5>1. a \in Seq(S) /\ b \in Seq(S) /\ j \in 1 .. Len(b)
          BY ONLY <1>3, <1>4, <4>4
        <5> QED BY ONLY <5>1, ConcatenatedSecond
      <4> QED BY ONLY <1>5, <4>1, <4>3, <4>4, <4>5
    <3> QED BY <1>1, <1>4, <2>2, <3>1
  <2> QED BY <2>1, <2>2
<1>8. ASSUME NEW j \in 1 .. n, j # k PROVE \E i \in 1 .. n - 1 : From(i) = j
  <2>1. CASE j < k
    <3>1. j \in 1 .. n - 1 /\ From(j) = j
      BY <1>1, <2>1
    <3> QED BY <3>1
  <2>2. CASE ~(j < k)
    <3>1. j - 1 \in 1 .. n - 1 /\ From(j - 1) = j
      BY <1>1, <1>8, <2>2
    <3> QED BY <3>1
  <2> QED BY <2>1, <2>2
<1> QED BY <1>6, <1>7, <1>8 DEF Shifted

-----------------------------------------------------------------------------
(* Hash tables (Hashtable).                                                *)

\* A key's slot is a slot.
LEMMA HashType == \A k \in Key : Hash[k] \in Slot
BY HashtableAssumption

\* What a slot holds are entries.
LEMMA SlotType ==
    ASSUME EntriesTyped, NEW s \in Slot
    PROVE  /\ slots[s] \in Seq(HashEntry)
           /\ DOMAIN slots[s] = 1 .. Len(slots[s])
           /\ \A j \in DOMAIN slots[s] : slots[s][j] \in HashEntry /\ slots[s][j].key \in Key
<1>1. slots[s] \in Seq(HashEntry)
  BY DEF EntriesTyped
<1>2. DOMAIN slots[s] = 1 .. Len(slots[s]) /\ \A j \in DOMAIN slots[s] : slots[s][j] \in HashEntry
  BY <1>1
<1>3. \A e \in HashEntry : e.key \in Key
  BY DEF HashEntry
<1> QED BY <1>1, <1>2, <1>3

\* With at most one entry of a key in its slot, the first one is that one.
LEMMA OnePlace ==
    ASSUME EntriesTyped, EntriesUnique, NEW k \in Key, NEW i \in Places(k)
    PROVE  Places(k) = {i}
BY HashType DEF EntriesTyped, EntriesUnique, Places

\* The table is empty after hashtable_init and hashtable_destroy, and at first.
LEMMA EmptyTable ==
    ASSUME slots = [s \in Slot |-> <<>>], entries = [k \in Key |-> NoValue]
    PROVE  EntriesTyped /\ EntriesPlaced /\ EntriesUnique /\ EntriesCurrent /\ KeysHaveEntries
<1>1. \A s \in Slot : slots[s] = <<>> /\ DOMAIN slots[s] = {}
  OBVIOUS
<1>2. EntriesTyped
  BY DEF EntriesTyped
<1>3. EntriesPlaced /\ EntriesUnique /\ EntriesCurrent
  BY <1>1 DEF EntriesPlaced, EntriesUnique, EntriesCurrent
<1>4. KeysHaveEntries
  BY DEF KeysHaveEntries
<1> QED BY <1>2, <1>3, <1>4

LEMMA InitHash == HashInit => HashInv
BY EmptyTable DEF HashInit, HashInv, RefsExact

\* Replacing the value of a key's entry keeps the invariant.
LEMMA InsertOverKeeps ==
    ASSUME HashInv, NEW k \in Key, NEW v \in Value, InsertOver(k, v)
    PROVE  HashInv'
<1> USE HashType DEF HashInv
<1>1. PICK i \in Places(k) : slots' = [slots EXCEPT ![Hash[k]][i].value = v]
  BY DEF InsertOver
<1>2. Places(k) = {i}
  BY OnePlace
<1>3. i \in DOMAIN slots[Hash[k]] /\ slots[Hash[k]][i].key = k
  BY DEF Places
<1>4. slots[Hash[k]] \in Seq(HashEntry) /\ slots[Hash[k]][i] \in HashEntry
  BY <1>3 DEF EntriesTyped
<1>5. /\ \A s \in Slot : DOMAIN slots'[s] = DOMAIN slots[s]
      /\ \A s \in Slot : \A j \in DOMAIN slots[s] :
            /\ slots'[s][j].key = slots[s][j].key
            /\ slots'[s][j].value = IF s = Hash[k] /\ j = i THEN v ELSE slots[s][j].value
  BY <1>1, <1>3, <1>4 DEF EntriesTyped, HashEntry
<1>6. EntriesTyped'
  <2>1. [slots[Hash[k]] EXCEPT ![i].value = v] \in Seq(HashEntry)
    BY <1>3, <1>4 DEF HashEntry
  <2>2. slots' \in [Slot -> Seq(HashEntry)]
    BY <1>1, <2>1 DEF EntriesTyped
  <2> QED BY <2>2 DEF EntriesTyped, InsertOver
<1>7. EntriesPlaced' /\ EntriesUnique'
  BY <1>5 DEF EntriesPlaced, EntriesUnique
<1>8. EntriesCurrent'
  <2> SUFFICES ASSUME NEW s \in Slot, NEW j \in DOMAIN slots[s]
               PROVE  entries'[slots[s][j].key] = slots'[s][j].value
    BY <1>5 DEF EntriesCurrent
  <2>1. slots[s][j].key \in Key
    BY SlotType
  <2>2. slots[s][j].key = k <=> s = Hash[k] /\ j = i
    BY <1>3 DEF EntriesPlaced, EntriesUnique
  <2> QED BY <1>5, <2>1, <2>2 DEF EntriesCurrent, EntriesTyped, InsertOver
<1>9. KeysHaveEntries'
  BY <1>3, <1>5 DEF KeysHaveEntries, EntriesTyped, InsertOver, Places
<1>10. RefsExact'
  BY DEF RefsExact, InsertOver
<1> QED BY <1>6, <1>7, <1>8, <1>9, <1>10

\* Appending an entry for a key that has none keeps the invariant.
LEMMA InsertNewKeeps ==
    ASSUME HashInv, NEW k \in Key, NEW v \in Value, InsertNew(k, v)
    PROVE  HashInv'
<1> USE HashType DEF HashInv
<1> DEFINE e == [key |-> k, value |-> v]
           old == slots[Hash[k]]
<1>1. slots' = [slots EXCEPT ![Hash[k]] = Append(old, e)] /\ e \in HashEntry /\ old \in Seq(HashEntry)
  BY DEF InsertNew, EntriesTyped, HashEntry
<1>2. \A s \in Slot : slots'[s] = IF s = Hash[k] THEN Append(old, e) ELSE slots[s]
  BY <1>1 DEF EntriesTyped
<1>3. /\ DOMAIN Append(old, e) = DOMAIN old \cup {Len(old) + 1}
      /\ Len(old) + 1 \notin DOMAIN old
      /\ Append(old, e)[Len(old) + 1] = e
      /\ \A j \in DOMAIN old : Append(old, e)[j] = old[j]
  BY <1>1
<1>4. \A j \in DOMAIN old : old[j].key # k
  BY DEF InsertNew, Places
<1>5. EntriesTyped'
  BY <1>1 DEF EntriesTyped, InsertNew
<1> HIDE DEF e, old
<1>new. \A s \in Slot : \A j \in DOMAIN slots'[s] :
            \/ s = Hash[k] /\ j = Len(old) + 1 /\ slots'[s][j] = e
            \/ j \in DOMAIN slots[s] /\ slots'[s][j] = slots[s][j] /\ slots[s][j].key # k
  <2> SUFFICES ASSUME NEW s \in Slot, NEW j \in DOMAIN slots'[s]
               PROVE  \/ s = Hash[k] /\ j = Len(old) + 1 /\ slots'[s][j] = e
                      \/ j \in DOMAIN slots[s] /\ slots'[s][j] = slots[s][j] /\ slots[s][j].key # k
    OBVIOUS
  <2>1. CASE s = Hash[k]
    <3>1. slots'[s] = Append(old, e) /\ slots[s] = old
      BY <1>2, <2>1 DEF old
    <3> QED BY <1>3, <1>4, <2>1, <3>1
  <2>2. CASE s # Hash[k]
    <3>1. slots'[s] = slots[s]
      BY <1>2, <2>2
    <3> QED BY <2>2, <3>1 DEF EntriesPlaced
  <2> QED BY <2>1, <2>2
<1>ent. e.key = k /\ e.value = v
  BY DEF e
<1>6. EntriesPlaced'
  BY <1>new, <1>ent DEF EntriesPlaced
<1>7. EntriesUnique'
  <2> SUFFICES ASSUME NEW s \in Slot, NEW j \in DOMAIN slots'[s], NEW m \in DOMAIN slots'[s],
                      slots'[s][j].key = slots'[s][m].key
               PROVE  j = m
    BY DEF EntriesUnique
  <2> QED BY <1>new, <1>ent DEF EntriesUnique
<1>8. EntriesCurrent'
  <2> SUFFICES ASSUME NEW s \in Slot, NEW j \in DOMAIN slots'[s]
               PROVE  entries'[slots'[s][j].key] = slots'[s][j].value
    BY DEF EntriesCurrent
  <2>1. CASE s = Hash[k] /\ j = Len(old) + 1 /\ slots'[s][j] = e
    BY <1>ent, <2>1 DEF InsertNew, EntriesTyped
  <2>2. CASE j \in DOMAIN slots[s] /\ slots'[s][j] = slots[s][j] /\ slots[s][j].key # k
    <3>1. slots[s][j].key \in Key
      BY <2>2, SlotType
    <3> QED BY <2>2, <3>1 DEF EntriesCurrent, EntriesTyped, InsertNew
  <2> QED BY <1>new, <2>1, <2>2
<1>9. KeysHaveEntries'
  <2> SUFFICES ASSUME NEW x \in Key, entries'[x] # NoValue
               PROVE  \E j \in DOMAIN slots'[Hash[x]] : slots'[Hash[x]][j].key = x
    BY DEF KeysHaveEntries, Places
  <2>1. CASE x = k
    <3>1. slots'[Hash[x]] = Append(old, e)
      BY <1>2, <2>1
    <3> QED BY <1>3, <1>ent, <2>1, <3>1
  <2>2. CASE x # k
    <3>1. PICK j \in DOMAIN slots[Hash[x]] : slots[Hash[x]][j].key = x
      BY <2>2 DEF KeysHaveEntries, Places, InsertNew, EntriesTyped
    <3>2. CASE Hash[x] = Hash[k]
      <4>1. slots'[Hash[x]] = Append(old, e) /\ slots[Hash[x]] = old
        BY <1>2, <3>2 DEF old
      <4> QED BY <1>3, <3>1, <4>1
    <3>3. CASE Hash[x] # Hash[k]
      <4>1. slots'[Hash[x]] = slots[Hash[x]]
        BY <1>2, <3>3
      <4> QED BY <3>1, <4>1
    <3> QED BY <3>2, <3>3
  <2> QED BY <2>1, <2>2
<1>10. RefsExact'
  BY DEF RefsExact, InsertNew
<1> QED BY <1>5, <1>6, <1>7, <1>8, <1>9, <1>10

\* What is left of a sequence without one of its places.
LEMMA WithoutFacts ==
    ASSUME NEW S, NEW q \in Seq(S), NEW i \in DOMAIN q
    PROVE  /\ Without(q, i) \in Seq(S)
           /\ DOMAIN Without(q, i) = 1 .. Len(q) - 1
           /\ \A j \in 1 .. Len(q) - 1 :
                    Without(q, i)[j] = q[IF j < i THEN j ELSE j + 1]
<1>1. Len(q) \in Nat /\ DOMAIN q = 1 .. Len(q) /\ Len(q) - 1 \in Nat
  OBVIOUS
<1>2. \A j \in 1 .. Len(q) - 1 : j \in DOMAIN q /\ j + 1 \in DOMAIN q /\ q[j] \in S /\ q[j + 1] \in S
  BY <1>1
<1>3. Without(q, i) \in [1 .. Len(q) - 1 -> S]
  BY <1>2 DEF Without
<1> QED BY <1>1, <1>3 DEF Without

\* Removing the entry of a key keeps the invariant.
LEMMA RemoveKeeps ==
    ASSUME HashInv, NEW k \in Key, HashtableRemove(k)
    PROVE  HashInv'
<1> USE HashType DEF HashInv
<1> DEFINE old == slots[Hash[k]]
<1>1. PICK i \in Places(k) : slots' = [slots EXCEPT ![Hash[k]] = Without(old, i)]
  BY DEF HashtableRemove
<1>2. i \in DOMAIN old /\ old[i].key = k /\ old \in Seq(HashEntry)
  BY DEF Places, EntriesTyped
<1> DEFINE at(j) == IF j < i THEN j ELSE j + 1
<1>3. \A s \in Slot : slots'[s] = IF s = Hash[k] THEN Without(old, i) ELSE slots[s]
  BY <1>1 DEF EntriesTyped
<1>4. /\ Without(old, i) \in Seq(HashEntry)
      /\ DOMAIN Without(old, i) = 1 .. Len(old) - 1
      /\ \A j \in 1 .. Len(old) - 1 : Without(old, i)[j] = old[at(j)]
  BY <1>2, WithoutFacts
<1>5. Len(old) \in Nat /\ DOMAIN old = 1 .. Len(old)
  BY <1>2
<1>6. /\ \A j \in 1 .. Len(old) - 1 : at(j) \in DOMAIN old \ {i}
      /\ \A j, m \in 1 .. Len(old) - 1 : at(j) = at(m) => j = m
      /\ \A m \in DOMAIN old \ {i} : \E j \in 1 .. Len(old) - 1 : at(j) = m
  <2>1. \A j \in 1 .. Len(old) - 1 : at(j) \in DOMAIN old \ {i}
    BY <1>2, <1>5
  <2>2. \A j, m \in 1 .. Len(old) - 1 : at(j) = at(m) => j = m
    BY <1>2, <1>5
  <2>3. ASSUME NEW m \in DOMAIN old \ {i} PROVE \E j \in 1 .. Len(old) - 1 : at(j) = m
    <3>1. CASE m < i
      BY <1>2, <1>5, <3>1
    <3>2. CASE ~(m < i)
      <4>1. m - 1 \in 1 .. Len(old) - 1 /\ at(m - 1) = m
        BY <1>2, <1>5, <3>2
      <4> QED BY <4>1
    <3> QED BY <3>1, <3>2
  <2> QED BY <2>1, <2>2, <2>3
<1> HIDE DEF at
<1>7. \A j \in DOMAIN old \ {i} : old[j].key # k
  BY <1>2 DEF EntriesUnique
<1>8. EntriesTyped'
  BY <1>1, <1>4 DEF EntriesTyped, HashtableRemove
<1>9. EntriesPlaced'
  <2> SUFFICES ASSUME NEW s \in Slot, NEW j \in DOMAIN slots'[s]
               PROVE  Hash[slots'[s][j].key] = s
    BY DEF EntriesPlaced
  <2>1. CASE s = Hash[k]
    <3>1. j \in 1 .. Len(old) - 1 /\ slots'[s][j] = old[at(j)] /\ at(j) \in DOMAIN old
      BY <1>3, <1>4, <1>6, <2>1
    <3> QED BY <2>1, <3>1 DEF EntriesPlaced
  <2>2. CASE s # Hash[k]
    <3>1. slots'[s] = slots[s]
      BY <1>3, <2>2
    <3> QED BY <3>1 DEF EntriesPlaced
  <2> QED BY <2>1, <2>2
<1>10. EntriesUnique'
  <2> SUFFICES ASSUME NEW s \in Slot, NEW j \in DOMAIN slots'[s], NEW m \in DOMAIN slots'[s],
                      slots'[s][j].key = slots'[s][m].key
               PROVE  j = m
    BY DEF EntriesUnique
  <2>1. CASE s = Hash[k]
    <3>1. at(j) \in DOMAIN old /\ at(m) \in DOMAIN old /\ old[at(j)].key = old[at(m)].key
      BY <1>3, <1>4, <1>6, <2>1
    <3>2. at(j) = at(m)
      BY <3>1 DEF EntriesUnique
    <3> QED BY <1>3, <1>4, <1>6, <2>1, <3>2
  <2>2. CASE s # Hash[k]
    BY <1>3, <2>2 DEF EntriesUnique
  <2> QED BY <2>1, <2>2
<1>11. EntriesCurrent'
  <2> SUFFICES ASSUME NEW s \in Slot, NEW j \in DOMAIN slots'[s]
               PROVE  entries'[slots'[s][j].key] = slots'[s][j].value
    BY DEF EntriesCurrent
  <2>1. \E m \in DOMAIN slots[s] : slots'[s][j] = slots[s][m] /\ slots[s][m].key # k
    <3>1. CASE s = Hash[k]
      BY <1>3, <1>4, <1>6, <1>7, <3>1
    <3>2. CASE s # Hash[k]
      BY <1>3, <3>2 DEF EntriesPlaced
    <3> QED BY <3>1, <3>2
  <2>2. PICK m \in DOMAIN slots[s] : slots'[s][j] = slots[s][m] /\ slots[s][m].key # k
    BY <2>1
  <2>3. slots[s][m].key \in Key
    BY SlotType
  <2> QED BY <2>2, <2>3 DEF EntriesCurrent, EntriesTyped, HashtableRemove
<1>12. KeysHaveEntries'
  <2> SUFFICES ASSUME NEW x \in Key, entries'[x] # NoValue
               PROVE  \E j \in DOMAIN slots'[Hash[x]] : slots'[Hash[x]][j].key = x
    BY DEF KeysHaveEntries, Places
  <2>1. x # k /\ entries[x] # NoValue
    BY DEF HashtableRemove, EntriesTyped
  <2>2. PICK m \in DOMAIN slots[Hash[x]] : slots[Hash[x]][m].key = x
    BY <2>1 DEF KeysHaveEntries, Places
  <2>3. CASE Hash[x] = Hash[k]
    <3>1. m \in DOMAIN old \ {i}
      BY <1>2, <2>1, <2>2, <2>3
    <3>2. PICK j \in 1 .. Len(old) - 1 : at(j) = m
      BY <1>6, <3>1
    <3> QED BY <1>3, <1>4, <2>2, <2>3, <3>2
  <2>4. CASE Hash[x] # Hash[k]
    BY <1>3, <2>2, <2>4
  <2> QED BY <2>3, <2>4
<1>13. RefsExact'
  BY DEF RefsExact, HashtableRemove
<1> QED BY <1>8, <1>9, <1>10, <1>11, <1>12, <1>13

\* Every call keeps the invariant.
LEMMA StepKeeps == HashInv /\ [HashNext]_hashVars => HashInv'
<1> SUFFICES ASSUME HashInv, [HashNext]_hashVars PROVE HashInv'
  OBVIOUS
<1>1. CASE HashtableInit
  <2>1. slots' = [s \in Slot |-> <<>>] /\ entries' = [k \in Key |-> NoValue] /\ made' /\ refcount' = 1
    BY <1>1 DEF HashtableInit, HashInv, RefsExact
  <2>2. EntriesTyped' /\ EntriesPlaced' /\ EntriesUnique' /\ EntriesCurrent' /\ KeysHaveEntries'
    <3>1. EntriesTyped'
      BY <2>1 DEF EntriesTyped
    <3>2. \A s \in Slot : DOMAIN slots'[s] = {}
      BY <2>1
    <3>3. EntriesPlaced' /\ EntriesUnique' /\ EntriesCurrent'
      BY <3>2 DEF EntriesPlaced, EntriesUnique, EntriesCurrent
    <3>4. KeysHaveEntries'
      BY <2>1 DEF KeysHaveEntries
    <3> QED BY <3>1, <3>3, <3>4
  <2>3. RefsExact'
    BY <1>1, <2>1 DEF RefsExact, HashtableInit
  <2> QED BY <2>2, <2>3 DEF HashInv
<1>2. CASE \E k \in Key, v \in Value : InsertOver(k, v) \/ InsertNew(k, v)
  BY <1>2, InsertOverKeeps, InsertNewKeeps
<1>3. CASE \E k \in Key : HashtableRemove(k)
  BY <1>3, RemoveKeeps
<1>4. CASE HashtableDestroy
  <2>1. slots' = [s \in Slot |-> <<>>] /\ entries' = [k \in Key |-> NoValue]
    BY <1>4 DEF HashtableDestroy
  <2>2. EntriesTyped' /\ EntriesPlaced' /\ EntriesUnique' /\ EntriesCurrent' /\ KeysHaveEntries'
    <3>1. EntriesTyped'
      BY <2>1 DEF EntriesTyped
    <3>2. \A s \in Slot : DOMAIN slots'[s] = {}
      BY <2>1
    <3>3. EntriesPlaced' /\ EntriesUnique' /\ EntriesCurrent'
      BY <3>2 DEF EntriesPlaced, EntriesUnique, EntriesCurrent
    <3>4. KeysHaveEntries'
      BY <2>1 DEF KeysHaveEntries
    <3> QED BY <3>1, <3>3, <3>4
  <2>3. made' = FALSE /\ refcount' = 0
    BY <1>4 DEF RefsExact, HashtableDestroy, HashInv
  <2>4. RefsExact'
    BY <2>1, <2>3 DEF RefsExact
  <2> QED BY <2>2, <2>4 DEF HashInv
<1>5. CASE UNCHANGED hashVars
  BY <1>5 DEF hashVars, HashInv, EntriesTyped, EntriesPlaced, EntriesUnique, EntriesCurrent,
              KeysHaveEntries, RefsExact, Places
<1> QED BY <1>1, <1>2, <1>3, <1>4, <1>5 DEF HashNext

\* In a table that satisfies the invariant a lookup answers as the map does.
LEMMA InvImpliesMap == HashInv => HashtableIsMap
<1> SUFFICES ASSUME HashInv PROVE HashtableIsMap
  OBVIOUS
<1> USE HashType DEF HashInv
<1>1. ASSUME NEW k \in Key PROVE HashtableFind(k) = entries[k]
  <2>1. CASE Places(k) = {}
    BY <2>1 DEF HashtableFind, KeysHaveEntries
  <2>2. CASE Places(k) # {}
    <3>1. PICK i : i \in Places(k)
      BY <2>2
    <3>2. Places(k) = {i}
      BY <3>1, OnePlace
    <3>3. i \in Nat
      BY <3>1 DEF Places, EntriesTyped
    <3>4. (CHOOSE m \in Places(k) : \A j \in Places(k) : m <= j) = i
      BY <3>2, <3>3
    <3>5. HashtableFind(k) = slots[Hash[k]][i].value
      BY <2>2, <3>4 DEF HashtableFind
    <3> QED BY <3>1, <3>5 DEF EntriesCurrent, Places
  <2> QED BY <2>1, <2>2
<1> QED BY <1>1 DEF HashtableIsMap, RefsExact

\* Whatever keys share a slot and in whatever order entries are inserted,
\* replaced and removed, hashtable_find gives for every key the value it was
\* last given, and the hash function is held exactly while a table uses it.
THEOREM HashtableCorrect == HashSpec => []HashtableIsMap
<1>1. HashSpec => []HashInv
  BY InitHash, StepKeeps, PTL DEF HashSpec
<1> QED BY <1>1, InvImpliesMap, PTL

-----------------------------------------------------------------------------
(* Linked lists (Linkedlist).                                              *)

\* The nodes w, in order, are the list.
Linked(w) ==
    /\ w \in Seq(Node)
    /\ \A i, j \in 1 .. Len(w) : w[i] = w[j] => i = j
    /\ root = IF Len(w) = 0 THEN NoNode ELSE w[1]
    /\ end = IF Len(w) = 0 THEN NoNode ELSE w[Len(w)]
    /\ \A i \in 1 .. Len(w) : next[w[i]] = IF i = Len(w) THEN NoNode ELSE w[i + 1]
    /\ live = {w[i] : i \in 1 .. Len(w)}
    /\ Len(listed) = Len(w)
    /\ \A i \in 1 .. Len(w) : data[w[i]] = listed[i]

ListTyped ==
    /\ next \in [Node -> Node \cup {NoNode}]
    /\ data \in [Node -> Data \cup {NoNode}]
    /\ listed \in Seq(Data)

ListInv == ListTyped /\ \E w : Linked(w)

\* Nodes of a list are different, so there are no more than there are nodes.
LEMMA NodesSuffice ==
    ASSUME NEW w, Linked(w)
    PROVE  Len(w) \in Nat /\ Len(w) <= Cardinality(Node) /\ Cardinality(Node) \in Nat
<1>1. w \in Seq(Node) /\ Len(w) \in Nat
  BY DEF Linked
<1>2. w \in [1 .. Len(w) -> Node] /\ DOMAIN w = 1 .. Len(w)
  BY <1>1
<1>3. w \in Injection(1 .. Len(w), Node)
  BY <1>2 DEF Linked, Injection, IsInjective
<1>4. Cardinality(1 .. Len(w)) <= Cardinality(Node)
  BY <1>3, FS_Injection, LinkedlistAssumption
<1>5. Cardinality(1 .. Len(w)) = Len(w)
  BY <1>1, FS_Interval, SMTT(30)
<1> QED BY <1>1, <1>4, <1>5, FS_CardinalityType, LinkedlistAssumption

\* What the chain is when the nodes w are the list.
ChainOf(w) == [i \in 1 .. Cardinality(Node) |-> IF i <= Len(w) THEN w[i] ELSE NoNode]

\* Where a walk goes from one place to the next.
Follow(g, i) == IF i = 1 THEN root ELSE IF g[i - 1] = NoNode THEN NoNode ELSE next[g[i - 1]]

LEMMA ChainFollows ==
    ASSUME ListTyped, NEW w, Linked(w)
    PROVE  ChainOf(w) = [i \in 1 .. Cardinality(Node) |-> Follow(ChainOf(w), i)]
<1>0. PICK n, m, c : n = Cardinality(Node) /\ m = Len(w) /\ c = ChainOf(w)
  OBVIOUS
<1>1. n \in Nat /\ m \in Nat /\ m <= n
  BY <1>0, NodesSuffice
<1>2. /\ w \in Seq(Node) /\ root = IF m = 0 THEN NoNode ELSE w[1]
      /\ \A i \in 1 .. m : w[i] \in Node /\ next[w[i]] = IF i = m THEN NoNode ELSE w[i + 1]
  BY <1>0, Elements DEF Linked
<1>3. c = [i \in 1 .. n |-> IF i <= m THEN w[i] ELSE NoNode]
  BY <1>0 DEF ChainOf
<1>4. ASSUME NEW i \in 1 .. n PROVE c[i] = Follow(c, i)
  <2>1. CASE i = 1
    BY <1>1, <1>2, <1>3, <2>1 DEF Follow
  <2>2. CASE i # 1
    <3>1. i - 1 \in 1 .. n /\ c[i - 1] = (IF i - 1 <= m THEN w[i - 1] ELSE NoNode)
      BY <1>1, <1>3, <2>2
    <3>2. CASE i - 1 <= m
      <4>1. /\ c[i - 1] = w[i - 1] /\ w[i - 1] # NoNode
            /\ next[w[i - 1]] = IF i - 1 = m THEN NoNode ELSE w[(i - 1) + 1]
        BY <1>1, <1>2, <3>1, <3>2, LinkedlistAssumption
      <4>2. Follow(c, i) = next[w[i - 1]]
        BY <2>2, <4>1 DEF Follow
      <4>3. c[i] = IF i <= m THEN w[i] ELSE NoNode
        BY <1>3
      <4> QED BY <1>1, <3>2, <4>1, <4>2, <4>3
    <3>3. CASE ~(i - 1 <= m)
      <4>1. c[i] = NoNode
        BY <1>1, <1>3, <3>3
      <4> QED BY <2>2, <3>1, <3>3, <4>1 DEF Follow
    <3> QED BY <3>2, <3>3
  <2> QED BY <2>1, <2>2
<1>5. c = [i \in 1 .. n |-> Follow(c, i)]
  <2>1. c = [i \in 1 .. n |-> c[i]]
    BY <1>3
  <2> QED BY <1>4, <2>1
<1> QED BY <1>0, <1>5

LEMMA ChainExact ==
    ASSUME ListTyped, NEW w, Linked(w)
    PROVE  Chain = ChainOf(w)
<1> DEFINE N == Cardinality(Node)
           F(g) == [i \in 1 .. N |-> Follow(g, i)]
           f == CHOOSE g : g = F(g)
<1>1. Chain = f
  BY DEF Chain, Follow
<1>2. PICK c : c = ChainOf(w)
  OBVIOUS
<1>3. c = F(c)
  BY <1>2, ChainFollows
<1>4. f = F(f)
  BY <1>3
<1>5. N \in Nat
  BY NodesSuffice
<1>6. \A i \in 1 .. N : f[i] = Follow(f, i) /\ c[i] = Follow(c, i)
  BY <1>3, <1>4
<1> HIDE DEF f
<1>7. \A i \in 1 .. N : f[i] = c[i]
  <2> DEFINE T == {i \in 1 .. N : f[i] # c[i]}
  <2> SUFFICES ASSUME T # {} PROVE FALSE
    OBVIOUS
  <2>1. T \in SUBSET Nat
    BY <1>5
  <2>2. PICK x \in T : \A y \in T : x <= y
    BY <2>1, LeastNatural
  <2>3. x \in 1 .. N /\ f[x] # c[x]
    OBVIOUS
  <2>4. CASE x = 1
    BY <1>6, <2>3, <2>4 DEF Follow
  <2>5. CASE x # 1
    <3>1. x - 1 \in 1 .. N /\ ~(x <= x - 1)
      BY <1>5, <2>3, <2>5
    <3>2. f[x - 1] = c[x - 1]
      BY <2>2, <3>1
    <3> QED BY <1>6, <2>3, <2>5, <3>2 DEF Follow
  <2> QED BY <2>4, <2>5
<1>8. f = c
  <2>1. f = [i \in 1 .. N |-> f[i]] /\ c = [i \in 1 .. N |-> c[i]]
    BY <1>3, <1>4
  <2> QED BY <1>7, <2>1
<1> QED BY <1>1, <1>2, <1>8

\* A walk over the list meets its nodes.
LEMMA WalkedExact ==
    ASSUME ListTyped, NEW w, Linked(w)
    PROVE  Walked = w
<1>1. PICK n, m, c : n = Cardinality(Node) /\ m = Len(w) /\ c = ChainOf(w)
  OBVIOUS
<1>2. n \in Nat /\ m \in Nat /\ m <= n
  BY <1>1, NodesSuffice
<1>3. w \in Seq(Node) /\ \A i \in 1 .. m : w[i] \in Node
  BY <1>1, Elements DEF Linked
<1>4. c = [i \in 1 .. n |-> IF i <= m THEN w[i] ELSE NoNode]
  BY <1>1 DEF ChainOf
<1>5. {j \in DOMAIN c : c[j] # NoNode} = 1 .. m
  BY <1>2, <1>3, <1>4, LinkedlistAssumption
<1>6. Cardinality(1 .. m) = m
  BY <1>2, FS_Interval
<1>7. Walked = [i \in 1 .. m |-> c[i]]
  <2>1. Chain = c
    BY <1>1, ChainExact
  <2> QED BY <1>5, <1>6, <2>1 DEF Walked
<1>8. w = [i \in 1 .. m |-> w[i]]
  BY <1>1, <1>3
<1>9. \A i \in 1 .. m : c[i] = w[i]
  BY <1>2, <1>4
<1> QED BY <1>7, <1>8, <1>9


LEMMA ListInvImplies == ListInv => ListIsSequence
<1> SUFFICES ASSUME ListInv PROVE ListIsSequence
  OBVIOUS
<1>1. PICK w : Linked(w)
  BY DEF ListInv
<1>2. Walked = w
  BY <1>1, WalkedExact DEF ListInv
<1>3. /\ w \in Seq(Node) /\ listed \in Seq(Data) /\ Len(listed) = Len(w)
      /\ DOMAIN w = 1 .. Len(w) /\ DOMAIN listed = 1 .. Len(w) /\ Len(w) \in Nat
  <2>1. w \in Seq(Node) /\ listed \in Seq(Data) /\ Len(listed) = Len(w)
    BY <1>1 DEF ListInv, ListTyped, Linked
  <2> QED BY <2>1
<1>4. [i \in DOMAIN w |-> data[w[i]]] = listed
  <2>1. listed = [i \in 1 .. Len(w) |-> listed[i]]
    BY <1>3
  <2>2. \A i \in 1 .. Len(w) : data[w[i]] = listed[i]
    BY <1>1 DEF Linked
  <2> QED BY <1>3, <2>1, <2>2
<1>5. Range(w) = live
  BY <1>1, <1>3 DEF Linked, Range
<1>6. end = IF w = <<>> THEN NoNode ELSE Last(w)
  <2>1. w = <<>> <=> Len(w) = 0
    BY <1>3
  <2> QED BY <1>1, <2>1 DEF Linked, Last
<1> QED BY <1>2, <1>4, <1>5, <1>6 DEF ListIsSequence

LEMMA ListInitial == ListInit => ListInv
<1> SUFFICES ASSUME ListInit PROVE ListInv
  OBVIOUS
<1>1. ListTyped
  BY DEF ListInit, ListTyped
<1>2. PICK w : w = <<>>
  OBVIOUS
<1>3. w \in Seq(Node) /\ Len(w) = 0 /\ 1 .. Len(w) = {}
  BY <1>2
<1>4. Linked(w)
  BY <1>3 DEF ListInit, Linked
<1> QED BY <1>1, <1>4 DEF ListInv

LEMMA Extended ==
    ASSUME NEW S, NEW s \in Seq(S), NEW e \in S, NEW m, m = Len(s)
    PROVE  /\ Append(s, e) \in Seq(S) /\ Len(Append(s, e)) = m + 1 /\ m \in Nat
           /\ \A i \in 1 .. m : Append(s, e)[i] = s[i]
           /\ Append(s, e)[m + 1] = e
           /\ \A i \in 1 .. m + 1 : i \in 1 .. m \/ i = m + 1
OBVIOUS

\* linkedlist_add.
LEMMA ListAddKeeps ==
    ASSUME ListInv, NEW n \in Node, NEW d \in Data, ListAdd(n, d)
    PROVE  ListInv'
<1>1. PICK w : Linked(w)
  BY DEF ListInv
<1>2. PICK m, v : m = Len(w) /\ v = Append(w, n)
  OBVIOUS
<1>3. w \in Seq(Node) /\ Len(listed) = m /\ listed \in Seq(Data)
  BY <1>1, <1>2 DEF Linked, ListInv, ListTyped
<1>4. /\ v \in Seq(Node) /\ Len(v) = m + 1 /\ m \in Nat
      /\ \A i \in 1 .. m : v[i] = w[i]
      /\ v[m + 1] = n
      /\ \A i \in 1 .. m + 1 : i \in 1 .. m \/ i = m + 1
  BY <1>2, <1>3, Extended
<1>5. /\ listed' \in Seq(Data) /\ Len(listed') = m + 1
      /\ \A i \in 1 .. m : listed'[i] = listed[i]
      /\ listed'[m + 1] = d
  BY <1>2, <1>3, Extended DEF ListAdd
<1>6. \A i \in 1 .. m : w[i] \in Node /\ w[i] # n
  <2>1. \A i \in 1 .. m : w[i] \in live
    BY <1>1, <1>2 DEF Linked
  <2> QED BY <1>2, <1>3, <2>1, Elements DEF ListAdd
<1>7. end = IF m = 0 THEN NoNode ELSE w[m]
  BY <1>1, <1>2 DEF Linked
<1>8. end = NoNode <=> m = 0
  BY <1>4, <1>6, <1>7, LinkedlistAssumption
<1>9. /\ data' = [data EXCEPT ![n] = d] /\ live' = live \cup {n} /\ end' = n
      /\ next' = IF m = 0 THEN [next EXCEPT ![n] = NoNode] ELSE [next EXCEPT ![end] = n, ![n] = NoNode]
      /\ root' = IF m = 0 THEN n ELSE root
  BY <1>8 DEF ListAdd
<1>10. ListTyped'
  <2>1. next \in [Node -> Node \cup {NoNode}] /\ data \in [Node -> Data \cup {NoNode}]
    BY DEF ListInv, ListTyped
  <2>2. next' \in [Node -> Node \cup {NoNode}]
    BY <1>9, <2>1
  <2>3. data' \in [Node -> Data \cup {NoNode}]
    BY <1>9, <2>1
  <2> QED BY <1>5, <2>2, <2>3 DEF ListTyped
<1>11. \A i, j \in 1 .. m + 1 : v[i] = v[j] => i = j
  <2>1. \A i, j \in 1 .. m : w[i] = w[j] => i = j
    BY <1>1, <1>2 DEF Linked
  <2> QED BY <1>4, <1>6, <2>1
<1>12. root' = v[1] /\ end' = v[m + 1]
  <2>1. CASE m = 0
    BY <1>4, <1>9, <2>1
  <2>2. CASE m # 0
    <3>1. root = w[1]
      BY <1>1, <1>2, <2>2 DEF Linked
    <3> QED BY <1>4, <1>9, <2>2, <3>1
  <2> QED BY <2>1, <2>2
<1>13. ASSUME NEW i \in 1 .. m + 1 PROVE next'[v[i]] = IF i = m + 1 THEN NoNode ELSE v[i + 1]
  <2>0. next \in [Node -> Node \cup {NoNode}]
    BY DEF ListInv, ListTyped
  <2>1. CASE i = m + 1
    BY <1>4, <1>9, <2>0, <2>1
  <2>2. CASE i \in 1 .. m
    <3>1. m # 0 /\ v[i] = w[i] /\ w[i] # n /\ w[i] \in Node /\ end = w[m] /\ m \in 1 .. m
      BY <1>4, <1>6, <1>7, <2>2
    <3>2. next'[w[i]] = IF w[i] = w[m] THEN n ELSE next[w[i]]
      BY <1>9, <2>0, <3>1
    <3>3. CASE i = m
      BY <1>4, <3>1, <3>2, <3>3
    <3>4. CASE i # m
      <4>1. w[i] # w[m]
        BY <1>1, <1>2, <2>2, <3>1, <3>4 DEF Linked
      <4>2. next[w[i]] = w[i + 1]
        BY <1>1, <1>2, <2>2, <3>4 DEF Linked
      <4>3. i + 1 \in 1 .. m /\ i # m + 1
        BY <1>4, <2>2, <3>4
      <4> QED BY <1>4, <3>1, <3>2, <4>1, <4>2, <4>3
    <3> QED BY <3>3, <3>4
  <2> QED BY <1>4, <2>1, <2>2
<1>14. live' = {v[i] : i \in 1 .. m + 1}
  <2>1. live = {w[i] : i \in 1 .. m}
    BY <1>1, <1>2 DEF Linked
  <2>2. m + 1 \in 1 .. m + 1 /\ \A i \in 1 .. m : i \in 1 .. m + 1
    BY <1>4
  <2> QED BY <1>4, <1>9, <2>1, <2>2
<1>15. \A i \in 1 .. m + 1 : data'[v[i]] = listed'[i]
  <2>1. \A i \in 1 .. m : data[w[i]] = listed[i]
    BY <1>1, <1>2 DEF Linked
  <2>2. data \in [Node -> Data \cup {NoNode}]
    BY DEF ListInv, ListTyped
  <2> QED BY <1>4, <1>5, <1>6, <1>9, <2>1, <2>2
<1>16. Linked(v)'
  <2>1. m + 1 # 0
    BY <1>4
  <2> QED BY <1>4, <1>5, <1>11, <1>12, <1>13, <1>14, <1>15, <2>1 DEF Linked
<1> QED BY <1>10, <1>16 DEF ListInv

\* linkedlist_add without memory leaves the list as it was.
LEMMA ListAddFailsKeeps == ListInv /\ ListAddFails => ListInv'
<1> SUFFICES ASSUME ListInv, ListAddFails PROVE ListInv'
  OBVIOUS
<1>1. PICK w : Linked(w)
  BY DEF ListInv
<1>2. Len(w) \in Nat /\ \A i \in 1 .. Len(w) : w[i] \in Node
  BY <1>1, Elements DEF Linked
<1>3. next \in [Node -> Node \cup {NoNode}]
  BY DEF ListInv, ListTyped
<1>4. root' = root /\ next' = next
  <2>1. CASE Len(w) = 0
    BY <1>1, <2>1 DEF Linked, ListAddFails
  <2>2. CASE Len(w) # 0
    <3>1. end = w[Len(w)] /\ Len(w) \in 1 .. Len(w)
      BY <1>1, <1>2, <2>2 DEF Linked
    <3>2. end # NoNode /\ end \in Node /\ next[end] = NoNode
      BY <1>1, <1>2, <3>1, LinkedlistAssumption DEF Linked
    <3> QED BY <1>3, <3>2 DEF ListAddFails
  <2> QED BY <2>1, <2>2
<1>5. UNCHANGED <<end, data, live, listed>>
  BY DEF ListAddFails
<1> QED BY <1>1, <1>4, <1>5 DEF ListInv, ListTyped, Linked


\* A node is unlinked and freed, by linkedlist_remove_by_data or
\* linkedlist_remove_by_position.
LEMMA UnlinkKeeps ==
    ASSUME ListInv, NEW k \in 1 .. Len(Walked), Unlink(k), listed' = RemoveAt(listed, k)
    PROVE  ListInv'
<1>1. PICK w : Linked(w)
  BY DEF ListInv
<1>2. Walked = w
  BY <1>1, WalkedExact DEF ListInv
<1>3. PICK m, v, n, prev : /\ m = Len(w) /\ v = RemoveAt(w, k) /\ n = w[k]
                           /\ prev = IF k = 1 THEN NoNode ELSE w[k - 1]
  OBVIOUS
<1>4. /\ w \in Seq(Node) /\ listed \in Seq(Data) /\ Len(listed) = m /\ m \in Nat
      /\ k \in 1 .. m /\ \A i \in 1 .. m : w[i] \in Node
  <2>1. w \in Seq(Node) /\ listed \in Seq(Data) /\ Len(listed) = m
    BY <1>1, <1>3 DEF Linked, ListInv, ListTyped
  <2> QED BY <1>2, <1>3, <2>1, Elements
<1>5. /\ next \in [Node -> Node \cup {NoNode}] /\ data \in [Node -> Data \cup {NoNode}]
  BY DEF ListInv, ListTyped
<1>6. /\ \A i, j \in 1 .. m : w[i] = w[j] => i = j
      /\ root = (IF m = 0 THEN NoNode ELSE w[1]) /\ end = (IF m = 0 THEN NoNode ELSE w[m])
      /\ \A i \in 1 .. m : next[w[i]] = IF i = m THEN NoNode ELSE w[i + 1]
      /\ live = {w[i] : i \in 1 .. m}
      /\ \A i \in 1 .. m : data[w[i]] = listed[i]
  BY <1>1, <1>3 DEF Linked
<1>7. /\ v \in Seq(Node) /\ DOMAIN v = 1 .. m - 1
      /\ \A i \in 1 .. m - 1 : /\ Before(k, i) \in 1 .. m /\ Before(k, i) # k
                               /\ v[i] = w[Before(k, i)]
      /\ \A j \in 1 .. m : j # k => \E i \in 1 .. m - 1 : Before(k, i) = j
  <2>1. k \in 1 .. Len(w)
    BY <1>3, <1>4
  <2>2. /\ v \in Seq(Node) /\ DOMAIN v = 1 .. Len(w) - 1
        /\ \A i \in 1 .. Len(w) - 1 : /\ Before(k, i) \in 1 .. Len(w) /\ Before(k, i) # k
                                      /\ v[i] = w[Before(k, i)]
        /\ \A j \in 1 .. Len(w) : j # k => \E i \in 1 .. Len(w) - 1 : Before(k, i) = j
    <3>1. Shifted(Node, w, k, v)
      BY <1>3, <1>4, <2>1, RemoveAtPlaces
    <3> QED BY <3>1 DEF Shifted
  <2> QED BY <1>3, <2>2
<1>8. /\ listed' \in Seq(Data) /\ DOMAIN listed' = 1 .. m - 1
      /\ \A i \in 1 .. m - 1 : listed'[i] = listed[Before(k, i)]
  <2>1. listed \in Seq(Data) /\ k \in 1 .. Len(listed) /\ listed' = RemoveAt(listed, k)
    BY <1>4
  <2>2. /\ listed' \in Seq(Data) /\ DOMAIN listed' = 1 .. Len(listed) - 1
        /\ \A i \in 1 .. Len(listed) - 1 : listed'[i] = listed[Before(k, i)]
    <3>1. Shifted(Data, listed, k, listed')
      BY <2>1, RemoveAtPlaces
    <3> QED BY <3>1 DEF Shifted
  <2> QED BY <1>4, <2>2
<1>9. Len(v) = m - 1 /\ Len(listed') = m - 1
  <2>1. m - 1 \in Nat
    BY <1>4
  <2> QED BY <1>7, <1>8, <2>1
<1>10. prev = NoNode <=> k = 1
  BY <1>3, <1>4, LinkedlistAssumption
<1>11. /\ root' = (IF k = 1 THEN next[n] ELSE root)
       /\ end' = (IF end = n THEN prev ELSE end)
       /\ next' = IF k = 1 THEN [next EXCEPT ![n] = NoNode]
                  ELSE [next EXCEPT ![prev] = next[n], ![n] = NoNode]
       /\ data' = [data EXCEPT ![n] = NoNode]
       /\ live' = live \ {n}
  <2>1. Walked[k] = n /\ (IF k = 1 THEN NoNode ELSE Walked[k - 1]) = prev
    BY <1>2, <1>3
  <2> QED BY <1>10, <2>1 DEF Unlink
<1>12. n \in Node /\ \A i \in 1 .. m : i # k => w[i] # n
  BY <1>3, <1>4, <1>6
<1>13. ListTyped'
  <2>1. prev \in Node \/ k = 1
    BY <1>3, <1>4
  <2>2. next' \in [Node -> Node \cup {NoNode}]
    BY <1>5, <1>11, <1>12, <2>1
  <2>3. data' \in [Node -> Data \cup {NoNode}]
    BY <1>5, <1>11, <1>12
  <2> QED BY <1>8, <2>2, <2>3 DEF ListTyped
<1>14. \A i, j \in 1 .. m - 1 : v[i] = v[j] => i = j
  <2> SUFFICES ASSUME NEW i \in 1 .. m - 1, NEW j \in 1 .. m - 1, v[i] = v[j] PROVE i = j
    OBVIOUS
  <2>1. Before(k, i) = Before(k, j)
    BY <1>6, <1>7
  <2> QED BY <1>4, <2>1 DEF Before
<1>15. root' = IF m - 1 = 0 THEN NoNode ELSE v[1]
  <2>1. CASE k = 1
    <3>1. root' = IF m = 1 THEN NoNode ELSE w[2]
      BY <1>3, <1>4, <1>6, <1>11, <2>1
    <3>2. m # 1 => 1 \in 1 .. m - 1 /\ Before(k, 1) = 2
      BY <1>4, <2>1 DEF Before
    <3> QED BY <1>4, <1>7, <3>1, <3>2
  <2>2. CASE k # 1
    <3>1. 1 \in 1 .. m - 1 /\ Before(k, 1) = 1 /\ m # 0 /\ m - 1 # 0
      BY <1>4, <2>2 DEF Before
    <3> QED BY <1>6, <1>7, <1>11, <2>2, <3>1
  <2> QED BY <2>1, <2>2
<1>16. end' = IF m - 1 = 0 THEN NoNode ELSE v[m - 1]
  <2>0. m \in 1 .. m /\ m # 0 /\ end = w[m]
    BY <1>4, <1>6
  <2>1. CASE k = m
    <3>1. end' = prev
      BY <1>3, <1>11, <2>0, <2>1
    <3>2. m # 1 => m - 1 \in 1 .. m - 1 /\ Before(k, m - 1) = m - 1
      BY <1>4, <2>1 DEF Before
    <3>3. CASE m = 1
      BY ONLY <1>3, <2>1, <3>1, <3>3
    <3>4. CASE m # 1
      <4>1. PICK j : j = m - 1
        OBVIOUS
      <4>2. j \in 1 .. m - 1 /\ Before(k, j) = j /\ k - 1 = j /\ j # 0 /\ k # 1
        BY ONLY <1>4, <2>1, <3>2, <3>4, <4>1
      <4>3. v[j] = w[j]
        BY ONLY <1>7, <4>2
      <4>4. prev = w[j]
        BY ONLY <1>3, <4>2
      <4> QED BY ONLY <3>1, <4>1, <4>2, <4>3, <4>4
    <3> QED BY <3>3, <3>4
  <2>2. CASE k # m
    <3>1. end' = w[m]
      BY <1>11, <1>12, <2>0, <2>2
    <3>2. m - 1 \in 1 .. m - 1 /\ Before(k, m - 1) = m /\ m - 1 # 0
      BY <1>4, <2>2 DEF Before
    <3> QED BY <1>7, <3>1, <3>2
  <2> QED BY <2>1, <2>2
<1>17. ASSUME NEW i \in 1 .. m - 1
       PROVE  next'[v[i]] = IF i = m - 1 THEN NoNode ELSE v[i + 1]
  <2>1. PICK b : b = Before(k, i)
    OBVIOUS
  <2>2. b \in 1 .. m /\ b # k /\ v[i] = w[b] /\ w[b] # n /\ w[b] \in Node
    BY <1>4, <1>7, <1>12, <2>1
  <2>3. next[w[b]] = IF b = m THEN NoNode ELSE w[b + 1]
    BY <1>6, <2>2
  <2>4. CASE k # 1 /\ b = k - 1
    <3>1. next'[w[b]] = next[n]
      BY <1>3, <1>5, <1>11, <1>12, <2>2, <2>4
    <3>2. next[n] = IF k = m THEN NoNode ELSE w[k + 1]
      BY <1>3, <1>4, <1>6
    <3>3. i = k - 1
      BY <1>4, <2>1, <2>4 DEF Before
    <3>4. CASE k = m
      BY <1>4, <2>2, <3>1, <3>2, <3>3, <3>4
    <3>5. CASE k # m
      <4>1. i + 1 \in 1 .. m - 1 /\ Before(k, i + 1) = k + 1 /\ i # m - 1
        BY <1>4, <3>3, <3>5 DEF Before
      <4> QED BY <1>7, <2>2, <3>1, <3>2, <3>5, <4>1
    <3> QED BY <3>4, <3>5
  <2>5. CASE ~(k # 1 /\ b = k - 1)
    <3>1. next'[w[b]] = next[w[b]]
      <4>1. k # 1 => prev # w[b]
        <5>1. k # 1 => k - 1 \in 1 .. m /\ prev = w[k - 1]
          BY <1>3, <1>4
        <5> QED BY <1>6, <2>2, <2>5, <5>1
      <4> QED BY <1>5, <1>11, <2>2, <4>1
    <3>2. CASE i = m - 1
      <4>1. b = m
        BY <1>4, <2>1, <2>2, <2>5, <3>2 DEF Before
      <4> QED BY <2>2, <2>3, <3>1, <3>2, <4>1
    <3>3. CASE i # m - 1
      <4>1. b # m /\ i + 1 \in 1 .. m - 1 /\ Before(k, i + 1) = b + 1
        BY <1>4, <2>1, <2>2, <2>5, <3>3 DEF Before
      <4> QED BY <1>7, <2>2, <2>3, <3>1, <3>3, <4>1
    <3> QED BY <3>2, <3>3
  <2> QED BY <2>4, <2>5
<1>18. live' = {v[i] : i \in 1 .. m - 1}
  <2>1. \A x \in live' : \E i \in 1 .. m - 1 : x = v[i]
    <3> TAKE x \in live'
    <3>1. PICK j \in 1 .. m : x = w[j] /\ j # k
      BY <1>3, <1>6, <1>11
    <3> QED BY <1>7, <3>1
  <2>2. \A i \in 1 .. m - 1 : v[i] \in live'
    BY <1>6, <1>7, <1>11, <1>12
  <2> QED BY <2>1, <2>2
<1>19. \A i \in 1 .. m - 1 : data'[v[i]] = listed'[i]
  <2> TAKE i \in 1 .. m - 1
  <2>1. PICK b : b = Before(k, i)
    OBVIOUS
  <2>2. b \in 1 .. m /\ b # k /\ v[i] = w[b] /\ w[b] # n /\ w[b] \in Node /\ listed'[i] = listed[b]
    BY <1>4, <1>7, <1>8, <1>12, <2>1
  <2> QED BY <1>5, <1>6, <1>11, <2>2
<1>20. Linked(v)'
  BY <1>7, <1>9, <1>14, <1>15, <1>16, <1>17, <1>18, <1>19 DEF Linked
<1> QED BY <1>13, <1>20 DEF ListInv

\* The first place of a kind, for two sequences that agree on the kind.
LEMMA FirstPlace ==
    ASSUME NEW I \in SUBSET Nat, I # {}
    PROVE  Min(I) \in I
<1>1. \E x \in I : \A y \in I : x <= y
  BY LeastNatural
<1> QED BY <1>1 DEF Min

LEMMA RemoveByDataKeeps ==
    ASSUME ListInv, NEW d \in Data, ListRemoveByData(d)
    PROVE  ListInv'
<1>1. PICK w : Linked(w)
  BY DEF ListInv
<1>2. Walked = w
  BY <1>1, WalkedExact DEF ListInv
<1>3. /\ Len(w) \in Nat /\ Len(listed) = Len(w) /\ \A i \in 1 .. Len(w) : data[w[i]] = listed[i]
  BY <1>1 DEF Linked
<1>4. PICK I : I = {i \in 1 .. Len(w) : data[w[i]] = d}
  OBVIOUS
<1>5. I = {i \in 1 .. Len(listed) : listed[i] = d}
  BY <1>3, <1>4
<1>6. PICK k : k = IF I # {} THEN Min(I) ELSE 0
  OBVIOUS
<1>7. /\ k # 0 /\ Unlink(k) /\ listed' = RemoveFirst(listed, d)
  BY <1>2, <1>4, <1>6 DEF ListRemoveByData, SelectInSeq
<1>8. I # {} /\ k = Min(I)
  BY <1>6, <1>7
<1>9. k \in I
  <2>1. I \in SUBSET Nat
    BY <1>3, <1>4
  <2> QED BY <1>8, <2>1, FirstPlace
<1>10. listed' = RemoveAt(listed, k)
  <2>1. \E i \in 1 .. Len(listed) : listed[i] = d
    BY <1>5, <1>8
  <2>2. SelectInSeq(listed, LAMBDA x : x = d) = k
    BY <1>5, <1>6 DEF SelectInSeq
  <2>3. RemoveFirst(listed, d) = RemoveAt(listed, SelectInSeq(listed, LAMBDA x : x = d))
    BY <2>1 DEF RemoveFirst
  <2> QED BY <1>7, <2>2, <2>3
<1> QED BY <1>2, <1>4, <1>7, <1>9, <1>10, UnlinkKeeps

LEMMA ListStep == ListInv /\ [ListNext]_listVars => ListInv'
<1> SUFFICES ASSUME ListInv, [ListNext]_listVars PROVE ListInv'
  OBVIOUS
<1>1. CASE UNCHANGED listVars
  BY <1>1 DEF listVars, ListInv, ListTyped, Linked
<1>2. ASSUME NEW pos \in 0 .. Cardinality(Node) - 1, ListRemoveByPosition(pos) PROVE ListInv'
  <2>1. Len(Walked) \in Nat
    BY WalkedExact DEF ListInv, Linked
  <2>2. Cardinality(Node) \in Nat
    BY FS_CardinalityType, LinkedlistAssumption
  <2>3. pos + 1 \in 1 .. Len(Walked)
    BY <1>2, <2>1, <2>2 DEF ListRemoveByPosition
  <2> QED BY <1>2, <2>3, UnlinkKeeps DEF ListRemoveByPosition
<1> QED BY <1>1, <1>2, ListAddKeeps, ListAddFailsKeeps, RemoveByDataKeeps DEF ListNext

\* For every number of nodes: a linked list is the sequence its callers made
\* of it, whatever they add and remove and however often memory runs out.
THEOREM ListsStaySequences == ListSpec => []ListIsSequence
<1>1. ListInit => ListInv
  BY ListInitial
<1>2. ListInv /\ [ListNext]_listVars => ListInv'
  BY ListStep
<1>3. ListInv => ListIsSequence
  BY ListInvImplies
<1> QED BY <1>1, <1>2, <1>3, PTL DEF ListSpec

-----------------------------------------------------------------------------
(* Mappings of device memory (Dma).                                        *)

\* Behind the cursor nothing has been given out, until it comes round: the
\* bits of a range need not be marked, the cursor alone keeps ranges apart.
DmaInv ==
    /\ given \subseteq Nat \X Nat
    /\ dmaCursor \in Nat /\ dmaCursor <= Bytes * ByteBits
    /\ wrapped \in BOOLEAN
    /\ ~wrapped => \A r \in given : r[2] < dmaCursor
    /\ DmaExclusive

LEMMA SizeOfBitmap == Bytes * ByteBits \in Nat
BY DmaAssumption

LEMMA FirstRun ==
    ASSUME NEW n, Runs(n) # {}
    PROVE  Min(Runs(n)) \in Runs(n)
<1>1. Runs(n) \in SUBSET Nat
  <2>1. Bits \subseteq Nat
    BY SizeOfBitmap DEF Bits
  <2> QED BY <2>1 DEF Runs
<1>2. \E x \in Runs(n) : \A y \in Runs(n) : x <= y
  BY <1>1, LeastNatural
<1> QED BY <1>2 DEF Min

LEMMA MapRangeKeeps ==
    ASSUME DmaInv, NEW n \in 1 .. MaxPages, NEW k \in 0 .. n, MapRange(n, k)
    PROVE  DmaInv'
<1>1. PICK p, t : p = Min(Runs(n)) /\ t = Bytes * ByteBits
  OBVIOUS
<1>2. n \in Nat /\ n > 0 /\ k \in Nat /\ k <= n /\ t \in Nat
  BY <1>1, DmaAssumption, SizeOfBitmap
<1>3. p \in Nat /\ p >= dmaCursor /\ p + n <= t
  <2>1. p \in Runs(n)
    BY <1>1, FirstRun DEF MapRange
  <2> QED BY <1>1, <1>2, <2>1 DEF Runs, Bits
<1>4. /\ dmaCursor' = IF p + n = t THEN 0 ELSE p + n
      /\ wrapped' = (wrapped \/ dmaCursor' = 0)
      /\ mapped' = mapped \cup (p .. p + k - 1)
      /\ given' = IF k = n THEN given \cup {<<p, p + n - 1>>} ELSE given
  BY <1>1 DEF MapRange, CursorAfter
<1>5. given \subseteq Nat \X Nat /\ dmaCursor \in Nat /\ wrapped \in BOOLEAN
  BY DEF DmaInv
<1>6. dmaCursor' \in Nat /\ dmaCursor' <= t /\ wrapped' \in BOOLEAN
  BY <1>2, <1>3, <1>4
<1>7. PICK new : new = <<p, p + n - 1>>
  OBVIOUS
<1>8. new \in Nat \X Nat /\ new[1] = p /\ new[2] = p + n - 1
  BY <1>2, <1>3, <1>7
<1>9. given' \subseteq given \cup {new} /\ (k # n => given' = given)
  BY <1>4, <1>7
<1>10. given' \subseteq Nat \X Nat
  BY <1>5, <1>8, <1>9
<1>11. \A r \in given : r[1] \in Nat /\ r[2] \in Nat
  BY <1>5
<1>12. ASSUME ~wrapped' PROVE /\ ~wrapped /\ dmaCursor' = p + n
                              /\ \A r \in given : r[2] < dmaCursor
                              /\ \A r, s \in given : r = s \/ r[2] < s[1] \/ s[2] < r[1]
  BY <1>2, <1>3, <1>4, <1>5, <1>12 DEF DmaInv, DmaExclusive
<1>13. ~wrapped' => \A r \in given' : r[2] < dmaCursor'
  <2> SUFFICES ASSUME ~wrapped', NEW r \in given' PROVE r[2] < dmaCursor'
    OBVIOUS
  <2>1. CASE r \in given
    BY <1>2, <1>3, <1>5, <1>11, <1>12, <2>1
  <2>2. CASE r = new
    BY <1>2, <1>3, <1>8, <1>12, <2>2
  <2> QED BY <1>9, <2>1, <2>2
<1>14. ~wrapped' => \A r, s \in given' : r = s \/ r[2] < s[1] \/ s[2] < r[1]
  <2> SUFFICES ASSUME ~wrapped' PROVE \A r, s \in given' : r = s \/ r[2] < s[1] \/ s[2] < r[1]
    OBVIOUS
  <2>1. \A r \in given : r[2] < new[1]
    BY <1>3, <1>5, <1>8, <1>11, <1>12
  <2> QED BY <1>9, <1>12, <2>1
<1>15. \A r \in given' : r[1] .. r[2] \subseteq mapped'
  <2> TAKE r \in given'
  <2>1. CASE r \in given
    BY <1>4, <2>1 DEF DmaInv, DmaExclusive
  <2>2. CASE r = new /\ k = n
    BY <1>4, <1>8, <2>2
  <2> QED BY <1>9, <2>1, <2>2
<1> QED BY <1>1, <1>6, <1>10, <1>13, <1>14, <1>15 DEF DmaInv, DmaExclusive

LEMMA DmaStep == DmaInv /\ [DmaNext]_dmaVars => DmaInv'
<1> SUFFICES ASSUME DmaInv, [DmaNext]_dmaVars PROVE DmaInv'
  OBVIOUS
<1>1. CASE UNCHANGED dmaVars
  BY <1>1 DEF dmaVars, DmaInv, DmaExclusive
<1>2. CASE MapRangeFull
  <2>1. PICK n \in 1 .. MaxPages : Runs(n) = {}
    BY <1>2 DEF MapRangeFull
  <2>2. PICK t : t = Bytes * ByteBits
    OBVIOUS
  <2>3. t \in Nat /\ dmaCursor' = t /\ UNCHANGED <<marked, given, mapped, wrapped, dmaPanic>>
    BY <1>2, <2>2, SizeOfBitmap DEF MapRangeFull
  <2>4. given \subseteq Nat \X Nat /\ dmaCursor \in Nat /\ dmaCursor <= t
    BY <2>2 DEF DmaInv
  <2>5. ~wrapped => \A r \in given : r[2] < t
    <3>1. ~wrapped => \A r \in given : r[2] < dmaCursor
      BY DEF DmaInv
    <3>2. \A r \in given : r[2] \in Nat
      BY <2>4
    <3> QED BY <2>3, <2>4, <3>1, <3>2
  <2>6. t <= t
    BY <2>3
  <2> QED BY <2>2, <2>3, <2>5, <2>6 DEF DmaInv, DmaExclusive
<1>3. ASSUME NEW n \in 1 .. MaxPages, MarkFails(n) PROVE DmaInv'
  BY <1>3 DEF MarkFails, DmaInv, DmaExclusive
<1>4. ASSUME NEW n \in 1 .. MaxPages, NEW k \in 0 .. n, MapRange(n, k) PROVE DmaInv'
  BY <1>4, MapRangeKeeps
<1> QED BY <1>1, <1>2, <1>3, <1>4 DEF DmaNext

LEMMA DmaInitial == DmaInit => DmaInv
<1> SUFFICES ASSUME DmaInit PROVE DmaInv
  OBVIOUS
<1>1. given = {} /\ dmaCursor = 0 /\ wrapped = FALSE
  BY DEF DmaInit
<1>2. 0 <= Bytes * ByteBits
  BY SizeOfBitmap
<1> QED BY <1>1, <1>2 DEF DmaInv, DmaExclusive

\* For every size of the bitmap and of a byte: until the cursor of the bitmap
\* has come round, dma_map_range gives no page to two callers, and every page
\* it gives is mapped, although bitmap_mark_bitmap marks other bits than
\* those of the range.
THEOREM RangesStayApart == DmaSpec => []DmaExclusive
<1>1. DmaInit => DmaInv
  BY DmaInitial
<1>2. DmaInv /\ [DmaNext]_dmaVars => DmaInv'
  BY DmaStep
<1>3. DmaInv => DmaExclusive
  BY DEF DmaInv
<1> QED BY <1>1, <1>2, <1>3, PTL DEF DmaSpec

-----------------------------------------------------------------------------
\* The map of available memory.

\* A region that is not empty.
Region == [start : Nat, size : Nat \ {0}]

\* Every two members of n are two members of m.
Rearranged(S, m, n) ==
    /\ n \in Seq(S)
    /\ Len(n) = Len(m)
    /\ \A i, j \in DOMAIN n : \E k, l \in DOMAIN m :
        n[i] = m[k] /\ n[j] = m[l] /\ (i # j => k # l)

\* The places of the bubble sort are those of the map, each of them once.
LEMMA SortedPlaces ==
    ASSUME NEW S, NEW m \in Seq(S), \A i \in DOMAIN m : m[i].start \in Nat
    PROVE  \A k \in DOMAIN m : \E i \in DOMAIN m : SortedPlace(m, i) = k
<1> DEFINE D == DOMAIN m
           n == Len(m)
           Upto(i) == {j \in D : \/ m[j].start < m[i].start
                                 \/ m[j].start = m[i].start /\ j <= i}
           f == [i \in D |-> Cardinality(Upto(i))]
<1>1. D = 1 .. n /\ n \in Nat
  OBVIOUS
<1>2. IsFiniteSet(D) /\ Cardinality(D) = n
  BY <1>1, FS_Interval
<1>3. \A i \in D : Upto(i) \in SUBSET D /\ i \in Upto(i)
  BY <1>1
<1>4. \A i \in D : IsFiniteSet(Upto(i)) /\ Cardinality(Upto(i)) \in D
  <2> SUFFICES ASSUME NEW i \in D PROVE IsFiniteSet(Upto(i)) /\ Cardinality(Upto(i)) \in D
    OBVIOUS
  <2> DEFINE U == Upto(i)
  <2>1. U \in SUBSET D /\ i \in U
    BY <1>3
  <2> HIDE DEF D, U, n
  <2>2. IsFiniteSet(U) /\ Cardinality(U) <= n
    BY <1>2, <2>1, FS_Subset
  <2>3. Cardinality(U) \in Nat /\ Cardinality(U) # 0
    BY <2>1, <2>2, FS_EmptySet, FS_CardinalityType
  <2>4. IsFiniteSet(U) /\ Cardinality(U) \in 1 .. n
    BY <1>1, <2>2, <2>3
  <2> QED BY <1>1, <2>4 DEF U
<1>5. \A i, j \in D : i # j => Cardinality(Upto(i)) # Cardinality(Upto(j))
  <2>1. ASSUME NEW i \in D, NEW j \in D,
               m[i].start < m[j].start \/ (m[i].start = m[j].start /\ i < j)
        PROVE  Cardinality(Upto(i)) # Cardinality(Upto(j))
    <3> DEFINE U == Upto(i)
               V == Upto(j)
    <3>1. U \in SUBSET V
      BY <1>1, <2>1
    <3>2. j \notin U /\ j \in V
      BY <1>1, <2>1
    <3>3. IsFiniteSet(V)
      BY <1>4
    <3> HIDE DEF U, V
    <3>4. Cardinality(V) # Cardinality(U)
      BY <3>1, <3>2, <3>3, FS_Subset
    <3> QED BY <3>4 DEF U, V
  <2> HIDE DEF Upto
  <2> SUFFICES ASSUME NEW i \in D, NEW j \in D, i # j
               PROVE  Cardinality(Upto(i)) # Cardinality(Upto(j))
    OBVIOUS
  <2>2. i \in Nat /\ j \in Nat /\ m[i].start \in Nat /\ m[j].start \in Nat
    BY <1>1
  <2>3. CASE m[i].start < m[j].start \/ (m[i].start = m[j].start /\ i < j)
    BY <2>1, <2>3
  <2>4. CASE m[j].start < m[i].start \/ (m[j].start = m[i].start /\ j < i)
    BY <2>1, <2>4
  <2> QED BY <2>2, <2>3, <2>4
<1> HIDE DEF D, Upto
<1>6. f \in Injection(D, D)
  BY <1>4, <1>5 DEF Injection, IsInjective
<1>7. f \in Surjection(D, D)
  BY <1>2, <1>6, FS_Injection
<1>8. \A k \in D : \E i \in D : f[i] = k
  BY <1>7 DEF Surjection
<1> QED BY <1>8 DEF SortedPlace, D, Upto

\* mregmap_add_reg's sort loses no region and makes none.
LEMMA SortRearranges ==
    ASSUME NEW S, NEW m \in Seq(S), \A i \in DOMAIN m : m[i].start \in Nat
    PROVE  Rearranged(S, m, Sorted(m))
<1> DEFINE D == DOMAIN m
           Of(k) == CHOOSE i \in D : SortedPlace(m, i) = k
<1>1. \A k \in D : Of(k) \in D /\ SortedPlace(m, Of(k)) = k
  BY SortedPlaces
<1>2. \A k \in D : m[Of(k)] \in S
  BY <1>1, Elements
<1>3. Sorted(m) = [k \in D |-> m[Of(k)]]
  BY DEF Sorted
<1>4. D = 1 .. Len(m) /\ Len(m) \in Nat
  OBVIOUS
<1> PICK n : n = Sorted(m)
  OBVIOUS
<1> HIDE DEF Of, D
<1>5. n \in Seq(S) /\ Len(n) = Len(m) /\ DOMAIN n = D /\ \A i \in D : n[i] = m[Of(i)]
  BY <1>2, <1>3, <1>4
<1>6. \A i, j \in D : i # j => Of(i) # Of(j)
  BY <1>1
<1> QED BY <1>1, <1>5, <1>6 DEF Rearranged, D

\* Region t lies in the range e.
Within(t, e) == e.start <= t.start /\ t.start + t.size <= e.start + e.size

\* Every two regions of n lie in two regions of m.
Drawn(m, n) ==
    /\ n \in Seq(Region)
    /\ \A i, j \in DOMAIN n : \E k, l \in DOMAIN m :
        Within(n[i], m[k]) /\ Within(n[j], m[l]) /\ (i # j => k # l)

\* Every two regions of m lie in two of the first p entries of the firmware's
\* map, both available.
Owned(m, p) ==
    /\ m \in Seq(Region)
    /\ \A i, j \in DOMAIN m : \E a, b \in Available :
        /\ a <= p /\ b <= p
        /\ Within(m[i], reported[a]) /\ Within(m[j], reported[b]) /\ (i # j => a # b)

\* All regions begin at low or above; those before place i end up behind r; r
\* overlaps one region at most.
Above(m, low) == \A j \in DOMAIN m : m[j].start >= low
Clear(m, r, i) == \A j \in DOMAIN m : j < i => m[j].start >= r.start + r.size
Single(m, r) == \A i, j \in DOMAIN m : i # j /\ Overlap(r, m[i]) => ~Overlap(r, m[j])

LEMMA RegionParts ==
    ASSUME NEW m \in Seq(Region), NEW i \in DOMAIN m
    PROVE  m[i] \in Region /\ m[i].start \in Nat /\ m[i].size \in Nat /\ m[i].size > 0
<1>1. m[i] \in Region
  BY Elements
<1> QED BY <1>1 DEF Region

LEMMA ReportedParts ==
    ASSUME reported \in FirmwareMaps, NEW a \in DOMAIN reported
    PROVE  /\ reported \in Seq([start : Nat, size : Nat, available : BOOLEAN])
           /\ reported[a].start \in Nat /\ reported[a].size \in Nat
           /\ reported[a].start + reported[a].size < U64
<1> DEFINE E == [start : Nat, size : Nat, available : BOOLEAN]
<1>1. reported \in Seq(E) /\ reported[a].start + reported[a].size < U64
  BY MregmapAssumption
<1>2. reported[a] \in E
  <2> HIDE DEF E
  <2>1. a \in 1 .. Len(reported)
    BY <1>1
  <2> QED BY <1>1, <2>1, Elements
<1> QED BY <1>1, <1>2

LEMMA Sizes ==
    /\ U64 \in Nat \ {0} /\ Page \in Nat \ {0} /\ Mib \in Nat \ {0} /\ Capacity \in Nat \ {0}
    /\ kernelSize \in KernelSizes => kernelSize \in Nat \ {0} /\ Mib + kernelSize < U64
    /\ KernelSizes # {} => Mib < U64
BY MregmapAssumption

LEMMA DrawnOwned ==
    ASSUME reported \in FirmwareMaps, NEW p, NEW m, NEW n, Owned(m, p), Drawn(m, n)
    PROVE  Owned(n, p)
<1> SUFFICES ASSUME NEW i \in DOMAIN n, NEW j \in DOMAIN n
             PROVE  \E a, b \in Available :
                /\ a <= p /\ b <= p
                /\ Within(n[i], reported[a]) /\ Within(n[j], reported[b]) /\ (i # j => a # b)
  BY DEF Owned, Drawn
<1>1. PICK k \in DOMAIN m, l \in DOMAIN m :
        Within(n[i], m[k]) /\ Within(n[j], m[l]) /\ (i # j => k # l)
  BY DEF Drawn
<1>2. PICK a \in Available, b \in Available :
        /\ a <= p /\ b <= p
        /\ Within(m[k], reported[a]) /\ Within(m[l], reported[b]) /\ (k # l => a # b)
  BY DEF Owned
<1>3. ASSUME NEW t, NEW u, NEW e, Within(t, u), Within(u, e), t.start \in Nat, t.size \in Nat,
             u.start \in Nat, u.size \in Nat, e.start \in Nat, e.size \in Nat
      PROVE  Within(t, e)
  BY <1>3 DEF Within
<1>4. m \in Seq(Region) /\ n \in Seq(Region) /\ a \in DOMAIN reported /\ b \in DOMAIN reported
  BY DEF Owned, Drawn, Available
<1>5. Within(n[i], reported[a])
  BY <1>1, <1>2, <1>3, <1>4, RegionParts, ReportedParts
<1>6. Within(n[j], reported[b])
  BY <1>1, <1>2, <1>3, <1>4, RegionParts, ReportedParts
<1> QED BY <1>1, <1>2, <1>5, <1>6

LEMMA DrawnAbove ==
    ASSUME NEW m \in Seq(Region), NEW n, NEW low \in Nat, Above(m, low), Drawn(m, n)
    PROVE  Above(n, low)
<1> SUFFICES ASSUME NEW j \in DOMAIN n PROVE n[j].start >= low
  BY DEF Above
<1>1. PICK k \in DOMAIN m : Within(n[j], m[k])
  BY DEF Drawn
<1>2. m[k].start \in Nat /\ n[j].start \in Nat /\ m[k].start >= low
  BY RegionParts DEF Drawn, Above
<1> QED BY <1>1, <1>2 DEF Within

\* No region of the map reaches the end of the address range.
LEMMA OwnedBelow ==
    ASSUME reported \in FirmwareMaps, NEW p, NEW m, Owned(m, p), NEW i \in DOMAIN m
    PROVE  m[i].start + m[i].size < U64
<1>1. PICK a \in Available : Within(m[i], reported[a])
  BY DEF Owned
<1>2. a \in DOMAIN reported /\ m \in Seq(Region)
  BY DEF Owned, Available
<1>3. m[i].start \in Nat /\ m[i].size \in Nat
  BY <1>2, RegionParts
<1>4. /\ reported[a].start \in Nat /\ reported[a].size \in Nat
      /\ reported[a].start + reported[a].size < U64
  BY <1>2, ReportedParts
<1> QED BY <1>1, <1>3, <1>4, Sizes DEF Within

LEMMA AtMostOne ==
    ASSUME NEW T, IsFiniteSet(T), Cardinality(T) <= 1, NEW a \in T, NEW b \in T
    PROVE  a = b
<1>1. Cardinality(T) \in Nat
  BY FS_CardinalityType
<1>2. Cardinality(T) # 0
  BY FS_EmptySet
<1>3. Cardinality(T) = 1
  BY <1>1, <1>2
<1> QED BY <1>3, FS_Singleton

\* Of the regions of an ordinary map, the first MiB and the kernel image each
\* overlap one at most.
LEMMA OwnedSingle ==
    ASSUME reported \in FirmwareMaps, kernelSize \in KernelSizes, Ordinary,
           NEW p, NEW m, Owned(m, p), NEW r \in {Low, Kernel}
    PROVE  Single(m, r)
<1> SUFFICES ASSUME NEW i \in DOMAIN m, NEW j \in DOMAIN m, i # j,
                    Overlap(r, m[i]), Overlap(r, m[j])
             PROVE  FALSE
  BY DEF Single
<1> DEFINE T == {a \in Available : Overlap(r, reported[a])}
<1>1. r.start \in Nat /\ r.size \in Nat
  BY Sizes DEF Low, Kernel
<1>2. PICK a \in Available, b \in Available :
        Within(m[i], reported[a]) /\ Within(m[j], reported[b]) /\ a # b
  BY DEF Owned
<1>3. m \in Seq(Region) /\ a \in DOMAIN reported /\ b \in DOMAIN reported
  BY DEF Owned, Available
<1>4. ASSUME NEW t, NEW e, Overlap(r, t), Within(t, e), t.start \in Nat, t.size \in Nat,
             e.start \in Nat, e.size \in Nat
      PROVE  Overlap(r, e)
  BY <1>1, <1>4 DEF Within, Overlap
<1>5. Overlap(r, reported[a])
  BY <1>2, <1>3, <1>4, RegionParts, ReportedParts
<1>6. Overlap(r, reported[b])
  BY <1>2, <1>3, <1>4, RegionParts, ReportedParts
<1>7. Cardinality(T) <= 1
  BY DEF Ordinary
<1>8. IsFiniteSet(T)
  <2>1. reported \in Seq([start : Nat, size : Nat, available : BOOLEAN])
    BY <1>3, ReportedParts
  <2>2. DOMAIN reported = 1 .. Len(reported) /\ Len(reported) \in Nat
    BY <2>1
  <2>3. IsFiniteSet(DOMAIN reported)
    BY <2>2, FS_Interval
  <2>4. T \in SUBSET DOMAIN reported
    BY DEF Available
  <2> HIDE DEF T
  <2> QED BY <2>3, <2>4, FS_Subset
<1>9. a \in T /\ b \in T
  BY <1>2, <1>5, <1>6
<1> HIDE DEF T
<1>10. a = b
  BY <1>7, <1>8, <1>9, AtMostOne
<1> QED BY <1>2, <1>10

\* u is t without its first s bytes.
Lifted(t, s, from, u) == u \in Region /\ u.start = from /\ u.size = t.size - s

LEMMA CutRegion ==
    ASSUME NEW t, t \in Region, NEW s, s \in Nat, s < t.size, NEW from, from \in Nat, NEW u,
           u = [Shrunk(s, t) EXCEPT !.start = from]
    PROVE  Lifted(t, s, from, u)
<1>1. t.size \in Nat /\ t.size - s \in Nat \ {0}
  BY DEF Region
<1>2. u = [start |-> from, size |-> t.size - s]
  BY DEF Shrunk, Region
<1>3. PICK z \in Nat \ {0} : z = t.size - s
  BY <1>1
<1>4. u = [start |-> from, size |-> z]
  BY <1>2, <1>3
<1>5. u \in Region /\ u.start = from /\ u.size = z
  BY ONLY <1>4, from \in Nat, z \in Nat \ {0} DEF Region
<1> QED BY <1>3, <1>5 DEF Lifted

LEMMA Unwrapped ==
    ASSUME NEW u \in Nat, NEW n \in Nat, n < u
    PROVE  n % u = n
OBVIOUS

\* One pass of mregmap_fix_overlaps where r begins before every region: what
\* is left lies in what there was, and r has passed the region at place i.
LEMMA FixedCuts ==
    ASSUME NEW r, r.start \in Nat, r.size \in Nat, r.start + r.size < U64,
           NEW m \in Seq(Region), NEW i \in DOMAIN m, m[i].start + m[i].size < U64,
           Above(m, r.start), Single(m, r), Clear(m, r, i)
    PROVE  /\ ~Splits(r, m[i])
           /\ Drawn(m, Fixed(r, m, i))
           /\ Clear(Fixed(r, m, i), r, i + 1)
<1> DEFINE rs == r.start
           re == r.start + r.size
           ts == m[i].start
           te == m[i].start + m[i].size
<1>1. ts \in Nat /\ m[i].size \in Nat /\ m[i].size > 0 /\ i \in Nat /\ i \in 1 .. Len(m) /\ U64 \in Nat
      /\ m[i] \in Region
  BY RegionParts, Sizes
<1>2. ts >= rs
  BY DEF Above
<1>3. End(r) = re /\ End(m[i]) = te
  <2>1. re \in Nat /\ te \in Nat
    BY <1>1
  <2> QED BY <1>1, <2>1, Unwrapped DEF End
<1>4. ~Splits(r, m[i])
  BY <1>1, <1>2, <1>3 DEF Splits
<1>5. \A j \in DOMAIN m : m[j] \in Region /\ m[j].start \in Nat /\ m[j].size \in Nat /\ m[j].size > 0
  BY RegionParts
<1>6. \A j \in DOMAIN m : Within(m[j], m[j])
  BY <1>5 DEF Within
<1>7. Drawn(m, m)
  BY <1>6 DEF Drawn
\* The region is removed: no other one overlaps r.
<1>8. ASSUME NEW n, n = RemoveAt(m, i), Overlap(r, m[i])
      PROVE  Drawn(m, n) /\ Clear(n, r, i + 1)
  <2>1. Shifted(Region, m, i, n)
    BY <1>1, <1>8, RemoveAtPlaces
  <2>2. n \in Seq(Region) /\ \A j \in DOMAIN n : Before(i, j) \in DOMAIN m /\ Before(i, j) # i
                                               /\ n[j] = m[Before(i, j)] /\ j \in Nat
    BY <2>1 DEF Shifted
  <2>3. \A j, k \in DOMAIN n : j # k => Before(i, j) # Before(i, k)
    BY <1>1, <2>2 DEF Before
  <2>4. Drawn(m, n)
    BY <1>6, <2>2, <2>3 DEF Drawn
  <2>5. ASSUME NEW j \in DOMAIN n, j < i + 1 PROVE n[j].start >= re
    <3>1. PICK k \in DOMAIN m : k # i /\ n[j] = m[k]
      BY <2>2
    <3>2. ~Overlap(r, m[k])
      BY <1>8, <3>1 DEF Single
    <3>3. m[k].start >= rs /\ m[k].start \in Nat /\ m[k].size \in Nat /\ m[k].size > 0
      BY <1>5 DEF Above
    <3> QED BY <3>1, <3>2, <3>3 DEF Overlap
  <2> QED BY <2>4, <2>5 DEF Clear
\* The region loses its lower part.
<1>9. ASSUME NEW n, NEW s \in Nat, s < m[i].size, re = ts + s,
             n = [m EXCEPT ![i] = [Shrunk(s, @) EXCEPT !.start = re]]
      PROVE  Drawn(m, n) /\ Clear(n, r, i + 1)
  <2> DEFINE t == [Shrunk(s, m[i]) EXCEPT !.start = re]
  <2>1. t.start = re /\ t.size = m[i].size - s /\ t \in Region
    <3>1. re \in Nat
      OBVIOUS
    <3>2. m[i] \in Region /\ s \in Nat /\ s < m[i].size
      BY <1>1, <1>9
    <3> HIDE DEF re
    <3>3. Lifted(m[i], s, re, t)
      BY ONLY <3>1, <3>2, CutRegion
    <3> QED BY <3>3 DEF Lifted
  <2>2. t \in Region /\ t.start = re /\ t.size = m[i].size - s
    BY <2>1
  <2>3. Within(t, m[i])
    BY <1>1, <1>9, <2>2 DEF Within
  <2> HIDE DEF t
  <2>4. n = [m EXCEPT ![i] = t]
    BY <1>9 DEF t
  <2>5. n \in Seq(Region) /\ DOMAIN n = DOMAIN m /\ n[i] = t
        /\ \A j \in DOMAIN m : j # i => n[j] = m[j]
    BY <2>2, <2>4
  <2>6. \A j \in DOMAIN n : Within(n[j], m[j])
    BY <1>6, <2>3, <2>5
  <2>7. Drawn(m, n)
    BY <2>5, <2>6 DEF Drawn
  <2>8. \A j \in DOMAIN m : j < i => m[j].start >= re
    BY DEF Clear
  <2>9. \A j \in DOMAIN m : j \in Nat
    OBVIOUS
  <2>10. re >= re
    BY <1>1
  <2>11. ASSUME NEW j \in DOMAIN n, j < i + 1 PROVE n[j].start >= re
    <3>1. CASE j = i
      BY <2>2, <2>5, <2>10, <3>1
    <3>2. CASE j # i
      <4>1. j \in DOMAIN m /\ j < i /\ n[j] = m[j]
        BY <1>1, <2>5, <2>9, <2>11, <3>2
      <4> QED BY <2>8, <4>1
    <3> QED BY <3>1, <3>2
  <2>12. Clear(n, r, i + 1)
    BY <2>11 DEF Clear
  <2> QED BY <2>7, <2>12
<1>10. CASE re >= te
  <2>1. Fixed(r, m, i) = RemoveAt(m, i)
    BY <1>1, <1>2, <1>3, <1>10 DEF Fixed
  <2>2. Overlap(r, m[i])
    BY <1>1, <1>2, <1>10 DEF Overlap
  <2> QED BY <1>4, <1>8, <2>1, <2>2
<1>11. CASE re < te /\ re > ts
  <2>1. Fixed(r, m, i) = Cut(m, i, (re - ts) % U64, re)
    BY <1>1, <1>2, <1>3, <1>11 DEF Fixed
  <2>2. PICK s \in Nat : s = re - ts /\ s < m[i].size /\ (re - ts) % U64 = s
    <3>1. re - ts \in Nat /\ re - ts < m[i].size /\ re - ts < U64
      BY <1>1, <1>2, <1>11
    <3> QED BY <1>1, <3>1, Unwrapped
  <2>3. ~ShouldRemove(s, m[i])
    BY <1>1, <2>2 DEF ShouldRemove
  <2>4. Fixed(r, m, i) = [m EXCEPT ![i] = [Shrunk(s, @) EXCEPT !.start = re]]
    BY <2>1, <2>2, <2>3 DEF Cut
  <2>5. re = ts + s
    <3>1. re \in Nat /\ ts \in Nat
      BY <1>1
    <3> HIDE DEF re, ts
    <3> QED BY <2>2, <3>1
  <2> QED BY <1>4, <1>9, <2>2, <2>4, <2>5
<1>12. CASE re < te /\ re <= ts
  <2>1. Fixed(r, m, i) = m
    BY <1>1, <1>2, <1>3, <1>12 DEF Fixed
  <2>2. \A j \in DOMAIN m : j \in Nat /\ (j < i => m[j].start >= re)
    BY DEF Clear
  <2>3. Clear(m, r, i + 1)
    BY <1>1, <1>12, <2>2 DEF Clear
  <2> QED BY <1>4, <1>7, <2>1, <2>3
<1> QED BY <1>1, <1>10, <1>11, <1>12

\* A region apart from r is left alone.
LEMMA FixedApart ==
    ASSUME NEW r, r.start \in Nat, r.size \in Nat, r.size > 0, r.start + r.size < U64,
           NEW m \in Seq(Region), NEW i \in DOMAIN m, m[i].start + m[i].size < U64,
           ~Overlap(r, m[i])
    PROVE  ~Splits(r, m[i]) /\ Fixed(r, m, i) = m
<1>1. m[i].start \in Nat /\ m[i].size \in Nat /\ m[i].size > 0 /\ U64 \in Nat
  BY RegionParts, Sizes
<1>2. End(r) = r.start + r.size /\ End(m[i]) = m[i].start + m[i].size
  <2>1. r.start + r.size \in Nat /\ m[i].start + m[i].size \in Nat
    BY <1>1
  <2> QED BY <1>1, <2>1, Unwrapped DEF End
<1>3. r.start + r.size <= m[i].start \/ m[i].start + m[i].size <= r.start
  BY <1>1 DEF Overlap
<1> QED BY <1>1, <1>2, <1>3 DEF Splits, Fixed

LEMMA AlignUp ==
    ASSUME NEW s \in Nat
    PROVE  ((s + Page - 1) \div Page) * Page \in Nat /\ ((s + Page - 1) \div Page) * Page >= s
<1>1. PICK q : q = (s + Page - 1) \div Page
  OBVIOUS
<1>2. PICK x : x = (s + Page - 1) % Page
  OBVIOUS
<1>3. Page \in Nat /\ Page > 0
  BY Sizes
<1>4. q \in Nat /\ x \in Nat /\ x < Page /\ s + Page - 1 = Page * q + x
  BY <1>1, <1>2, <1>3
<1>5. Page * q = q * Page /\ q * Page \in Nat
  BY <1>3, <1>4
<1> QED BY <1>1, <1>3, <1>4, <1>5

\* mregmap_align_regs: every region that is left lies in what there was.
LEMMA AlignDraws ==
    ASSUME NEW m \in Seq(Region)
    PROVE  Drawn(m, AlignRegs(m))
<1> DEFINE Gap(i) == AlignStart(m[i]) - m[i].start
           Removes(i) == ShouldRemove(Gap(i), m[i])
           Aligned == [i \in DOMAIN m |->
               IF \E j \in 1 .. i : Removes(j) THEN m[i]
               ELSE [Shrunk(Gap(i), m[i]) EXCEPT !.start = AlignStart(m[i])]]
           Gone == CHOOSE i \in DOMAIN m : Removes(i) /\ \A j \in 1 .. i - 1 : ~Removes(j)
<1>1. \A i \in DOMAIN m : m[i] \in Region /\ m[i].start \in Nat /\ m[i].size \in Nat /\ m[i].size > 0
                          /\ i \in Nat /\ i >= 1
  BY RegionParts
<1>2. \A i \in DOMAIN m : Gap(i) \in Nat /\ AlignStart(m[i]) = m[i].start + Gap(i)
                          /\ AlignStart(m[i]) \in Nat
  <2> TAKE i \in DOMAIN m
  <2>1. m[i].start \in Nat
    BY <1>1
  <2>2. AlignStart(m[i]) \in Nat /\ AlignStart(m[i]) >= m[i].start
    BY <2>1, AlignUp DEF AlignStart
  <2> QED BY <2>1, <2>2
<1>3. AlignRegs(m) = IF \E i \in DOMAIN m : Removes(i) THEN RemoveAt(Aligned, Gone) ELSE Aligned
  BY DEF AlignRegs
<1>4. \A i \in DOMAIN m : Aligned[i] \in Region /\ Within(Aligned[i], m[i])
  <2> TAKE i \in DOMAIN m
  <2>1. CASE \E j \in 1 .. i : Removes(j)
    <3>1. Aligned[i] = m[i]
      BY <2>1
    <3>2. Within(m[i], m[i])
      BY <1>1 DEF Within
    <3> QED BY <1>1, <3>1, <3>2
  <2>2. CASE ~(\E j \in 1 .. i : Removes(j))
    <3>1. PICK g \in Nat : g = Gap(i)
      BY <1>2
    <3>2. PICK a \in Nat : a = AlignStart(m[i]) /\ a = m[i].start + g
      BY <1>2, <3>1
    <3>3. ~Removes(i)
      BY <1>1, <2>2
    <3>4. g < m[i].size
      BY <1>1, <3>1, <3>3 DEF ShouldRemove
    <3>5. PICK u : u = [Shrunk(g, m[i]) EXCEPT !.start = a]
      OBVIOUS
    <3>6. Aligned[i] = u
      BY <2>2, <3>1, <3>2, <3>5
    <3>7. m[i] \in Region
      BY <1>1
    <3>8. u \in Region /\ u.start = a /\ u.size = m[i].size - g
      <4>1. Lifted(m[i], g, a, u)
        BY ONLY <3>4, <3>5, <3>7, g \in Nat, a \in Nat, CutRegion
      <4> QED BY <4>1 DEF Lifted
    <3>9. Within(u, m[i])
      BY <1>1, <3>2, <3>8 DEF Within
    <3> QED BY <3>6, <3>8, <3>9
  <2> QED BY <2>1, <2>2
<1>5. DOMAIN Aligned = DOMAIN m
  OBVIOUS
<1> HIDE DEF Aligned, Removes, Gap
<1>6. Aligned \in Seq(Region) /\ Len(Aligned) = Len(m)
  <2>1. DOMAIN m = 1 .. Len(m) /\ Len(m) \in Nat
    OBVIOUS
  <2>2. Aligned = [i \in 1 .. Len(m) |-> Aligned[i]]
    BY <2>1 DEF Aligned
  <2> QED BY <1>4, <2>1, <2>2
<1>7. CASE ~\E i \in DOMAIN m : Removes(i)
  BY <1>3, <1>4, <1>5, <1>6, <1>7 DEF Drawn
<1>8. CASE \E i \in DOMAIN m : Removes(i)
  <2> DEFINE T == {i \in DOMAIN m : Removes(i)}
  <2>1. T \in SUBSET Nat /\ T # {}
    BY <1>1, <1>8
  <2> HIDE DEF T
  <2>2. PICK g \in T : \A j \in T : g <= j
    BY <2>1, LeastNatural
  <2>3. g \in DOMAIN m /\ Removes(g) /\ \A j \in 1 .. g - 1 : ~Removes(j)
    <3>1. g \in DOMAIN m /\ Removes(g) /\ \A j \in DOMAIN m : Removes(j) => g <= j
      BY <2>2 DEF T
    <3>2. ASSUME NEW j \in 1 .. g - 1 PROVE j \in DOMAIN m /\ ~(g <= j)
      BY <3>1
    <3> QED BY <3>1, <3>2
  <2>4. Gone \in DOMAIN m
    BY <2>3
  <2>5. PICK k \in DOMAIN m : k = Gone
    BY <2>4
  <2>6. PICK n : n = RemoveAt(Aligned, k)
    OBVIOUS
  <2>7. AlignRegs(m) = n
    BY <1>3, <1>8, <2>5, <2>6
  <2>8. k \in 1 .. Len(Aligned)
    BY <1>6
  <2>9. Shifted(Region, Aligned, k, n)
    BY <1>6, <2>6, <2>8, RemoveAtPlaces
  <2>10. n \in Seq(Region) /\ \A j \in DOMAIN n : Before(k, j) \in DOMAIN m /\ j \in Nat
                                                 /\ n[j] = Aligned[Before(k, j)]
    BY <1>6, <2>9 DEF Shifted
  <2>11. \A i, j \in DOMAIN n : i # j => Before(k, i) # Before(k, j)
    BY <1>1, <2>10 DEF Before
  <2> QED BY <1>4, <2>7, <2>10, <2>11 DEF Drawn
<1> QED BY <1>7, <1>8

\* An entry of the map, added: the places of the sort keep the regions apart.
LEMMA AddedOwned ==
    ASSUME reported \in FirmwareMaps, NEW p \in Available, NEW m, Owned(m, p - 1),
           NEW r \in Region, Within(r, reported[p])
    PROVE  Owned(Sorted(Append(m, r)), p)
<1> DEFINE k == Append(m, r)
           n == Sorted(k)
<1>1. p \in DOMAIN reported /\ m \in Seq(Region) /\ Len(m) \in Nat
  BY DEF Available, Owned
<1>2. k \in Seq(Region) /\ Len(k) = Len(m) + 1 /\ k[Len(m) + 1] = r
      /\ DOMAIN k = 1 .. Len(m) + 1 /\ \A i \in DOMAIN m : k[i] = m[i]
  BY <1>1
<1>3. p \in Nat /\ \A a \in Available : a \in Nat
  BY <1>1, ReportedParts DEF Available
<1>4. \A i, j \in DOMAIN k : \E a, b \in Available :
        /\ a <= p /\ b <= p
        /\ Within(k[i], reported[a]) /\ Within(k[j], reported[b]) /\ (i # j => a # b)
  <2> SUFFICES ASSUME NEW i \in DOMAIN k, NEW j \in DOMAIN k
               PROVE  \E a, b \in Available :
                        /\ a <= p /\ b <= p
                        /\ Within(k[i], reported[a]) /\ Within(k[j], reported[b]) /\ (i # j => a # b)
    OBVIOUS
  <2> HIDE DEF k
  <2>1. p <= p
    BY <1>3
  <2>2. \A a \in Available : a <= p - 1 => a <= p /\ a # p
    BY <1>3
  <2>3. \A h \in DOMAIN k : h = Len(m) + 1 \/ h \in DOMAIN m
    BY <1>1, <1>2
  <2>4. CASE i \in DOMAIN m /\ j \in DOMAIN m
    <3>1. PICK a \in Available, b \in Available :
            /\ a <= p - 1 /\ b <= p - 1
            /\ Within(m[i], reported[a]) /\ Within(m[j], reported[b]) /\ (i # j => a # b)
      BY <2>4 DEF Owned
    <3> QED BY <1>2, <2>2, <2>4, <3>1
  <2>5. CASE i \in DOMAIN m /\ j = Len(m) + 1
    <3>1. PICK a \in Available : a <= p - 1 /\ Within(m[i], reported[a])
      BY <2>5 DEF Owned
    <3> QED BY <1>2, <2>1, <2>2, <2>5, <3>1
  <2>6. CASE i = Len(m) + 1 /\ j \in DOMAIN m
    <3>1. PICK a \in Available : a <= p - 1 /\ Within(m[j], reported[a])
      BY <2>6 DEF Owned
    <3> QED BY <1>2, <2>1, <2>2, <2>6, <3>1
  <2>7. CASE i = Len(m) + 1 /\ j = Len(m) + 1
    BY <1>2, <2>1, <2>7
  <2> QED BY <2>3, <2>4, <2>5, <2>6, <2>7
<1> HIDE DEF k
<1>5. \A i \in DOMAIN k : k[i].start \in Nat
  BY <1>2, RegionParts
<1>6. Rearranged(Region, k, n)
  BY <1>2, <1>5, SortRearranges
<1> HIDE DEF n
<1>7. ASSUME NEW i \in DOMAIN n, NEW j \in DOMAIN n
      PROVE  \E a, b \in Available :
                /\ a <= p /\ b <= p
                /\ Within(n[i], reported[a]) /\ Within(n[j], reported[b]) /\ (i # j => a # b)
  <2>1. PICK g \in DOMAIN k, h \in DOMAIN k : n[i] = k[g] /\ n[j] = k[h] /\ (i # j => g # h)
    BY <1>6 DEF Rearranged
  <2>2. PICK a \in Available, b \in Available :
            /\ a <= p /\ b <= p
            /\ Within(k[g], reported[a]) /\ Within(k[h], reported[b]) /\ (g # h => a # b)
    BY <1>4
  <2> QED BY <2>1, <2>2
<1>8. n \in Seq(Region)
  BY <1>6 DEF Rearranged
<1>9. Owned(n, p)
  BY <1>7, <1>8 DEF Owned
<1> QED BY <1>9 DEF n, k

\* A call of mregmap_fix_overlaps for r that has come to place i.
CallAt(r, i, adds) == [region |-> r, place |-> i, adds |-> adds]
Bare(e) == [start |-> e.start, size |-> e.size]

\* p entries of the firmware's map are parsed.
Parsed(p) ==
    /\ p \in 0 .. Len(reported)
    /\ firmware \in Seq([start : Nat, size : Nat, available : BOOLEAN])
    /\ Len(firmware) = Len(reported) - p
    /\ \A i \in 1 .. Len(firmware) : firmware[i] = reported[p + i]

\* Where the set-up is, for an ordinary map: the regions lie in the entries
\* parsed so far, and what the call under way has passed is clear of its region.
Parsing(p) == bootStep = "parse" /\ calls = <<>> /\ Owned(regions, p)
Adding(p, i) ==
    /\ bootStep = "parse" /\ p \in Available /\ Owned(regions, p - 1)
    /\ calls = <<CallAt(Bare(reported[p]), i, TRUE)>>
ClearingLow(p, i) ==
    /\ bootStep = "lowmem" /\ Owned(regions, p)
    /\ calls = <<CallAt(Low, i, FALSE)>> /\ Clear(regions, Low, i)
LowCleared(p) ==
    bootStep = "lowmem" /\ Owned(regions, p) /\ calls = <<>> /\ Above(regions, Mib)
ClearingKernel(p, i) ==
    /\ bootStep = "kernel" /\ Owned(regions, p) /\ Above(regions, Mib)
    /\ calls = <<CallAt(Kernel, i, FALSE)>> /\ Clear(regions, Kernel, i)
KernelCleared(p) ==
    /\ bootStep \in {"kernel", "done"} /\ Owned(regions, p)
    /\ calls = <<>> /\ Above(regions, Mib + kernelSize)

Stage(p, i) ==
    \/ bootStep = "panic" /\ calls = <<>>
    \/ Parsing(p) \/ Adding(p, i) \/ ClearingLow(p, i) \/ LowCleared(p)
    \/ ClearingKernel(p, i) \/ KernelCleared(p)

MregInv ==
    /\ reported \in FirmwareMaps /\ kernelSize \in KernelSizes
    /\ Ordinary => \E p \in Nat, i \in Nat \ {0} : Parsed(p) /\ Stage(p, i)

LEMMA OwnedNone ==
    ASSUME NEW p
    PROVE  Owned(<<>>, p)
BY DEF Owned

LEMMA MregInitial == MregInit => MregInv
<1> SUFFICES ASSUME MregInit, Ordinary
             PROVE  /\ reported \in FirmwareMaps /\ kernelSize \in KernelSizes
                    /\ \E p \in Nat, i \in Nat \ {0} : Parsed(p) /\ Stage(p, i)
  BY DEF MregInv, MregInit
<1>1. reported \in Seq([start : Nat, size : Nat, available : BOOLEAN]) /\ firmware = reported
  BY MregmapAssumption DEF MregInit
<1>2. Parsed(0)
  BY <1>1 DEF Parsed
<1>3. Stage(0, 1)
  BY OwnedNone DEF Stage, Parsing, MregInit
<1> QED BY <1>2, <1>3 DEF MregInit

\* What an entry of an ordinary map is to the regions of those before it.
LEMMA EntryApart ==
    ASSUME reported \in FirmwareMaps, Ordinary, NEW p \in Available,
           NEW m, Owned(m, p - 1)
    PROVE  /\ Bare(reported[p]) \in Region
           /\ Bare(reported[p]).start + Bare(reported[p]).size < U64
           /\ Within(Bare(reported[p]), reported[p])
           /\ \A i \in DOMAIN m : ~Overlap(Bare(reported[p]), m[i])
<1>1. p \in DOMAIN reported /\ m \in Seq(Region)
  BY DEF Available, Owned
<1>2. /\ reported[p].start \in Nat /\ reported[p].size \in Nat
      /\ reported[p].start + reported[p].size < U64 /\ reported[p].size > 0
  BY <1>1, ReportedParts DEF Ordinary
<1>3. Bare(reported[p]).start = reported[p].start /\ Bare(reported[p]).size = reported[p].size
      /\ Bare(reported[p]) \in Region
  BY <1>2 DEF Bare, Region
<1>4. ASSUME NEW i \in DOMAIN m PROVE ~Overlap(Bare(reported[p]), m[i])
  <2>1. PICK a \in Available : a <= p - 1 /\ Within(m[i], reported[a])
    BY DEF Owned
  <2>2. a \in DOMAIN reported /\ a \in Nat /\ p \in Nat
    BY <1>1, ReportedParts DEF Available
  <2>3. ~Overlap(reported[a], reported[p])
    BY <1>1, <2>1, <2>2 DEF Ordinary
  <2>4. reported[a].start \in Nat /\ reported[a].size \in Nat
        /\ m[i].start \in Nat /\ m[i].size \in Nat
    BY <1>1, <2>2, ReportedParts, RegionParts
  <2> QED BY <1>2, <1>3, <2>1, <2>3, <2>4 DEF Overlap, Within
<1>5. Within(Bare(reported[p]), reported[p])
  BY <1>2, <1>3 DEF Within
<1> QED BY <1>2, <1>3, <1>4, <1>5

\* The next entry: the regions do not lie in it.
LEMMA ParseKeeps == MregInv /\ ParseEntry => MregInv'
<1> SUFFICES ASSUME MregInv, ParseEntry PROVE MregInv'
  OBVIOUS
<1>1. reported' = reported /\ kernelSize' = kernelSize /\ regions' = regions
  BY DEF ParseEntry
<1>2. Ordinary' <=> Ordinary
  BY <1>1 DEF Ordinary, Available, Kernel
<1> SUFFICES ASSUME Ordinary PROVE \E p \in Nat, i \in Nat \ {0} : Parsed(p)' /\ Stage(p, i)'
  BY <1>1, <1>2 DEF MregInv
<1>3. PICK p \in Nat, i \in Nat \ {0} : Parsed(p) /\ Stage(p, i)
  BY DEF MregInv
<1>4. Owned(regions, p) /\ bootStep = "parse" /\ calls = <<>>
  BY <1>3 DEF ParseEntry, Stage, Parsing, Adding, ClearingLow, LowCleared, ClearingKernel,
              KernelCleared
<1> DEFINE E == [start : Nat, size : Nat, available : BOOLEAN]
           q == p + 1
<1>5. /\ firmware \in Seq(E) /\ firmware # <<>> /\ firmware' = Tail(firmware)
      /\ p \in 0 .. Len(reported) /\ Len(firmware) = Len(reported) - p
      /\ \A j \in 1 .. Len(firmware) : firmware[j] = reported[p + j]
  BY <1>3 DEF Parsed, ParseEntry
<1>6. reported \in Seq(E) /\ Len(reported) \in Nat
  BY MregmapAssumption DEF MregInv
<1> HIDE DEF E
<1>7. /\ firmware' \in Seq(E) /\ Len(firmware') = Len(firmware) - 1 /\ Len(firmware) >= 1
      /\ \A j \in 1 .. Len(firmware') : firmware'[j] = firmware[j + 1]
  BY <1>5
<1>8. Parsed(q)'
  <2>1. q \in 0 .. Len(reported) /\ Len(firmware') = Len(reported) - q
    BY <1>5, <1>6, <1>7
  <2>2. ASSUME NEW j \in 1 .. Len(firmware') PROVE firmware'[j] = reported[q + j]
    <3>1. j + 1 \in 1 .. Len(firmware) /\ p + (j + 1) = q + j
      BY <1>5, <1>6, <1>7
    <3> QED BY <1>5, <1>7, <3>1
  <2> QED BY <1>1, <1>7, <2>1, <2>2 DEF Parsed, E
<1>9. Head(firmware) = reported[q] /\ q \in DOMAIN reported /\ q \in Nat /\ q - 1 = p
  <2>1. 1 \in 1 .. Len(firmware)
    BY <1>5, <1>6, <1>7
  <2>2. Head(firmware) = firmware[1]
    BY <1>5
  <2> QED BY <1>5, <1>6, <1>7, <2>1, <2>2
<1>10. ASSUME NEW m, Owned(m, p) PROVE Owned(m, q)
  <2>1. \A a \in Available : a <= p => a <= q
    BY <1>6 DEF Available
  <2> QED BY <1>10, <2>1, Zenon DEF Owned
<1>11. CASE Len(regions) >= Capacity
  <2>1. bootStep' = "panic" /\ calls' = <<>>
    BY <1>4, <1>11 DEF ParseEntry
  <2>2. Stage(q, i)'
    BY <2>1 DEF Stage
  <2> QED BY <1>8, <1>9, <2>2
<1>12. CASE ~(Len(regions) >= Capacity) /\ ~Head(firmware).available
  <2>1. bootStep' = "parse" /\ calls' = <<>>
    BY <1>4, <1>12 DEF ParseEntry
  <2>2. Owned(regions, q)'
    BY <1>1, <1>4, <1>10 DEF Owned, Available
  <2>3. Stage(q, i)'
    BY <2>1, <2>2 DEF Stage, Parsing
  <2> QED BY <1>8, <1>9, <2>3
<1>13. CASE ~(Len(regions) >= Capacity) /\ Head(firmware).available
  <2>1. bootStep' = "parse" /\ calls' = <<CallAt(Bare(reported[q]), 1, TRUE)>>
    BY <1>4, <1>9, <1>13 DEF ParseEntry, FixOverlaps, CallAt, Bare
  <2>2. q \in Available'
    BY <1>1, <1>9, <1>13 DEF Available
  <2>3. Owned(regions, q - 1)'
    BY <1>1, <1>4, <1>9 DEF Owned, Available
  <2>4. Stage(q, 1)'
    BY <1>1, <2>1, <2>2, <2>3 DEF Stage, Adding
  <2> QED BY <1>8, <1>9, <2>4
<1> QED BY <1>11, <1>12, <1>13

\* A step that parses nothing has only its stage to keep.
LEMMA StageSuffices ==
    ASSUME MregInv, UNCHANGED <<firmware, reported, kernelSize>>,
           ASSUME NEW p \in Nat, NEW i \in Nat \ {0}, Ordinary, Parsed(p), Stage(p, i)
           PROVE  \E j \in Nat \ {0} : Stage(p, j)'
    PROVE  MregInv'
<1>1. Ordinary' <=> Ordinary
  BY DEF Ordinary, Available, Kernel
<1> SUFFICES ASSUME Ordinary PROVE \E p \in Nat, i \in Nat \ {0} : Parsed(p)' /\ Stage(p, i)'
  BY <1>1 DEF MregInv
<1>2. PICK p \in Nat, i \in Nat \ {0} : Parsed(p) /\ Stage(p, i)
  BY DEF MregInv
<1>3. Parsed(p)'
  BY <1>2 DEF Parsed
<1>4. PICK j \in Nat \ {0} : Stage(p, j)'
  BY <1>2
<1> QED BY <1>3, <1>4

LEMMA RemovalsKeep == MregInv /\ (RemoveLowMemory \/ RemoveKernel \/ AlignRegions) => MregInv'
<1>1. ASSUME MregInv, RemoveLowMemory PROVE MregInv'
  <2>1. UNCHANGED <<firmware, reported, kernelSize>> /\ UNCHANGED regions
    BY <1>1 DEF RemoveLowMemory
  <2>2. ASSUME NEW p \in Nat, NEW i \in Nat \ {0}, Ordinary, Parsed(p), Stage(p, i)
        PROVE  \E j \in Nat \ {0} : Stage(p, j)'
    <3>1. Owned(regions, p)
      BY <1>1, <2>2 DEF RemoveLowMemory, Stage, Parsing, Adding, ClearingLow, LowCleared,
                        ClearingKernel, KernelCleared
    <3>2. Owned(regions, p)'
      BY <2>1, <3>1 DEF Owned, Available
    <3>3. Clear(regions, Low, 1)'
      <4>1. \A j \in DOMAIN regions : j \in Nat /\ ~(j < 1)
        BY <3>1 DEF Owned
      <4> QED BY <2>1, <4>1 DEF Clear
    <3>4. bootStep' = "lowmem" /\ calls' = <<CallAt(Low, 1, FALSE)>>
      BY <1>1 DEF RemoveLowMemory, FixOverlaps, CallAt
    <3>5. Stage(p, 1)'
      BY <3>2, <3>3, <3>4 DEF Stage, ClearingLow, Low
    <3> QED BY <3>5
  <2> QED BY <1>1, <2>1, <2>2, StageSuffices
<1>2. ASSUME MregInv, RemoveKernel PROVE MregInv'
  <2>1. UNCHANGED <<firmware, reported, kernelSize>> /\ UNCHANGED regions
    BY <1>2 DEF RemoveKernel
  <2>2. ASSUME NEW p \in Nat, NEW i \in Nat \ {0}, Ordinary, Parsed(p), Stage(p, i)
        PROVE  \E j \in Nat \ {0} : Stage(p, j)'
    <3>1. Owned(regions, p) /\ Above(regions, Mib)
      BY <1>2, <2>2 DEF RemoveKernel, Stage, Parsing, Adding, ClearingLow, LowCleared,
                        ClearingKernel, KernelCleared
    <3>2. Owned(regions, p)' /\ Above(regions, Mib)'
      BY <2>1, <3>1 DEF Owned, Available, Above
    <3>3. Clear(regions, Kernel, 1)'
      <4>1. \A j \in DOMAIN regions : j \in Nat /\ ~(j < 1)
        BY <3>1 DEF Owned
      <4> QED BY <2>1, <4>1 DEF Clear
    <3>4. bootStep' = "kernel" /\ calls' = <<CallAt(Kernel, 1, FALSE)>>
      BY <1>2 DEF RemoveKernel, FixOverlaps, CallAt
    <3>5. Kernel' = Kernel
      BY <2>1 DEF Kernel
    <3>6. Stage(p, 1)'
      BY <3>2, <3>3, <3>4, <3>5 DEF Stage, ClearingKernel
    <3> QED BY <3>6
  <2> QED BY <1>2, <2>1, <2>2, StageSuffices
<1>3. ASSUME MregInv, AlignRegions PROVE MregInv'
  <2>1. UNCHANGED <<firmware, reported, kernelSize>> /\ UNCHANGED calls
    BY <1>3 DEF AlignRegions
  <2>2. ASSUME NEW p \in Nat, NEW i \in Nat \ {0}, Ordinary, Parsed(p), Stage(p, i)
        PROVE  \E j \in Nat \ {0} : Stage(p, j)'
    <3>1. Owned(regions, p) /\ Above(regions, Mib + kernelSize)
      BY <1>3, <2>2 DEF AlignRegions, Stage, Parsing, Adding, ClearingLow, LowCleared,
                        ClearingKernel, KernelCleared
    <3>2. regions \in Seq(Region) /\ reported \in FirmwareMaps /\ Mib + kernelSize \in Nat
      BY <1>3, <3>1, Sizes DEF Owned, MregInv
    <3>3. Drawn(regions, regions')
      BY <1>3, <3>2, AlignDraws DEF AlignRegions
    <3>4. Owned(regions', p) /\ Above(regions', Mib + kernelSize)
      BY <3>1, <3>2, <3>3, DrawnOwned, DrawnAbove
    <3>5. Owned(regions, p)' /\ Above(regions, Mib + kernelSize)'
      BY <2>1, <3>4 DEF Owned, Available, Above
    <3>6. bootStep' = "done" /\ calls' = <<>>
      BY <1>3, <2>1 DEF AlignRegions
    <3>7. Stage(p, 1)'
      BY <3>5, <3>6 DEF Stage, KernelCleared
    <3> QED BY <3>7
  <2> QED BY <1>3, <2>1, <2>2, StageSuffices
<1> QED BY <1>1, <1>2, <1>3

\* The call under way is the outermost one.
LEMMA OneCall ==
    ASSUME NEW r, NEW i \in Nat \ {0}, NEW adds, calls = <<CallAt(r, i, adds)>>
    PROVE  /\ Call.region = r /\ Call.place = i /\ Call.adds = adds
           /\ Onward = <<CallAt(r, i + 1, adds)>>
           /\ SubSeq(calls, 1, Len(calls) - 1) = <<>>
<1>1. Len(calls) = 1 /\ calls[1] = CallAt(r, i, adds)
  OBVIOUS
<1>2. Call = CallAt(r, i, adds)
  BY <1>1 DEF Call
<1>3. Onward = <<CallAt(r, i + 1, adds)>>
  BY <1>1 DEF Onward, CallAt
<1>4. SubSeq(calls, 1, Len(calls) - 1) = <<>>
  BY <1>1
<1> QED BY <1>2, <1>3, <1>4 DEF CallAt

\* The first MiB and the kernel image, as the calls take them.
LEMMA ReservedParts ==
    ASSUME kernelSize \in KernelSizes
    PROVE  /\ Low.start = 0 /\ Low.size = Mib /\ Low.start + Low.size < U64
           /\ Kernel.start = Mib /\ Kernel.size = kernelSize /\ Kernel.start + Kernel.size < U64
           /\ Mib \in Nat /\ kernelSize \in Nat
<1>1. Mib \in Nat /\ kernelSize \in Nat /\ Mib + kernelSize < U64 /\ Mib < U64 /\ U64 \in Nat
  BY Sizes
<1> QED BY <1>1 DEF Low, Kernel

\* One pass of the loop, in each of the three calls that can be under way.
LEMMA FixKeeps == MregInv /\ (FixRegion \/ SplitRegion) => MregInv'
<1> SUFFICES ASSUME MregInv, FixRegion \/ SplitRegion PROVE MregInv'
  OBVIOUS
<1>1. UNCHANGED <<firmware, reported, kernelSize>> /\ UNCHANGED bootStep
  BY DEF FixRegion, SplitRegion
<1>2. reported \in FirmwareMaps /\ kernelSize \in KernelSizes
  BY DEF MregInv
<1>3. ASSUME NEW r, NEW i \in Nat \ {0}, NEW adds, calls = <<CallAt(r, i, adds)>>,
             NEW m, regions = m, m \in Seq(Region)
      PROVE  /\ i \in DOMAIN m
             /\ ~Splits(r, m[i]) => /\ regions' = Fixed(r, m, i)
                                    /\ calls' = <<CallAt(r, i + 1, adds)>>
  <2>1. Call.region = r /\ Call.place = i /\ Onward = <<CallAt(r, i + 1, adds)>>
    BY <1>3, OneCall
  <2>2. /\ Call.place <= Len(regions)
        /\ ~Splits(Call.region, regions[Call.place]) =>
             regions' = Fixed(Call.region, regions, Call.place) /\ calls' = Onward
    BY DEF FixRegion, SplitRegion
  <2>3. i \in DOMAIN m
    BY <1>3, <2>1, <2>2
  <2> QED BY <1>3, <2>1, <2>2, <2>3
<1>4. ASSUME NEW p \in Nat, NEW i \in Nat \ {0}, Ordinary, Parsed(p), Stage(p, i)
      PROVE  \E j \in Nat \ {0} : Stage(p, j)'
  <2>1. Adding(p, i) \/ ClearingLow(p, i) \/ ClearingKernel(p, i)
    BY <1>4 DEF FixRegion, SplitRegion, Stage, Parsing, LowCleared, KernelCleared
  <2>2. regions \in Seq(Region)
    BY <2>1 DEF Adding, ClearingLow, ClearingKernel, Owned
  <2>3. i + 1 \in Nat \ {0}
    OBVIOUS
  <2>4. CASE Adding(p, i)
    <3> DEFINE r == Bare(reported[p])
    <3>1. p \in Available /\ Owned(regions, p - 1) /\ calls = <<CallAt(r, i, TRUE)>>
      BY <2>4 DEF Adding
    <3>2. i \in DOMAIN regions
      BY <1>3, <2>2, <3>1
    <3>3. /\ r \in Region /\ r.start + r.size < U64 /\ ~Overlap(r, regions[i])
      BY <1>2, <1>4, <3>1, <3>2, EntryApart
    <3>4. regions[i].start + regions[i].size < U64
      BY <1>2, <3>1, <3>2, OwnedBelow
    <3>5. r.start \in Nat /\ r.size \in Nat /\ r.size > 0
      BY <3>3 DEF Region
    <3> HIDE DEF r
    <3>6. ~Splits(r, regions[i]) /\ Fixed(r, regions, i) = regions
      BY <2>2, <3>2, <3>3, <3>4, <3>5, FixedApart
    <3>7. regions' = regions /\ calls' = <<CallAt(r, i + 1, TRUE)>>
      BY <1>3, <2>2, <3>1, <3>6
    <3>8. Adding(p, i + 1)'
      BY <1>1, <2>4, <3>1, <3>7 DEF Adding, Owned, Available, r
    <3> QED BY <2>3, <3>8 DEF Stage
  <2>5. ASSUME NEW r \in {Low, Kernel}, Owned(regions, p), Above(regions, r.start),
               calls = <<CallAt(r, i, FALSE)>>, Clear(regions, r, i)
        PROVE  /\ Owned(regions, p)' /\ calls' = <<CallAt(r, i + 1, FALSE)>>
               /\ Clear(regions', r, i + 1) /\ Drawn(regions, regions')
    <3>1. i \in DOMAIN regions
      BY <1>3, <2>2, <2>5
    <3>2. Single(regions, r)
      BY <1>2, <1>4, <2>5, OwnedSingle
    <3>3. r.start \in Nat /\ r.size \in Nat /\ r.start + r.size < U64
      BY <1>2, ReservedParts
    <3>4. regions[i].start + regions[i].size < U64
      BY <1>2, <2>5, <3>1, OwnedBelow
    <3>5. /\ ~Splits(r, regions[i]) /\ Drawn(regions, Fixed(r, regions, i))
          /\ Clear(Fixed(r, regions, i), r, i + 1)
      BY <2>2, <2>5, <3>1, <3>2, <3>3, <3>4, FixedCuts
    <3>6. regions' = Fixed(r, regions, i) /\ calls' = <<CallAt(r, i + 1, FALSE)>>
      BY <1>3, <2>2, <2>5, <3>5
    <3>7. Owned(regions', p)
      BY <1>2, <2>5, <3>5, <3>6, DrawnOwned
    <3> QED BY <1>1, <3>5, <3>6, <3>7 DEF Owned, Available
  <2>6. CASE ClearingLow(p, i)
    <3>1. Above(regions, Low.start)
      <4>1. \A j \in DOMAIN regions : regions[j].start \in Nat
        BY <2>2, RegionParts
      <4> QED BY <1>2, <4>1, ReservedParts DEF Above
    <3>2. /\ Owned(regions, p)' /\ calls' = <<CallAt(Low, i + 1, FALSE)>>
          /\ Clear(regions', Low, i + 1)
      BY <2>5, <2>6, <3>1 DEF ClearingLow
    <3>3. ClearingLow(p, i + 1)'
      BY <1>1, <2>6, <3>2 DEF ClearingLow, Clear, Low
    <3> QED BY <2>3, <3>3 DEF Stage
  <2>7. CASE ClearingKernel(p, i)
    <3>1. Above(regions, Kernel.start) /\ Above(regions, Mib) /\ Mib \in Nat
      BY <1>2, <2>7, ReservedParts DEF ClearingKernel
    <3>2. /\ Owned(regions, p)' /\ calls' = <<CallAt(Kernel, i + 1, FALSE)>>
          /\ Clear(regions', Kernel, i + 1) /\ Drawn(regions, regions')
      BY <2>5, <2>7, <3>1 DEF ClearingKernel
    <3>3. Above(regions', Mib)
      BY <2>2, <3>1, <3>2, DrawnAbove
    <3>4. Kernel' = Kernel
      BY <1>1 DEF Kernel
    <3>5. ClearingKernel(p, i + 1)'
      BY <1>1, <2>7, <3>2, <3>3, <3>4 DEF ClearingKernel, Clear, Above
    <3> QED BY <2>3, <3>5 DEF Stage
  <2> QED BY <2>1, <2>4, <2>6, <2>7
<1> QED BY <1>1, <1>4, StageSuffices

\* The loop is over: the region that was to be added is, or r is cleared.
LEMMA EndKeeps == MregInv /\ EndCall => MregInv'
<1> SUFFICES ASSUME MregInv, EndCall PROVE MregInv'
  OBVIOUS
<1>1. UNCHANGED <<firmware, reported, kernelSize>> /\ UNCHANGED bootStep
  BY DEF EndCall
<1>2. reported \in FirmwareMaps /\ kernelSize \in KernelSizes
  BY DEF MregInv
<1>3. ASSUME NEW r, NEW i \in Nat \ {0}, NEW adds, calls = <<CallAt(r, i, adds)>>
      PROVE  /\ calls' = <<>> /\ i > Len(regions)
             /\ regions' = IF adds /\ Room(regions) THEN Sorted(Append(regions, r)) ELSE regions
  <2>1. /\ Call.region = r /\ Call.place = i /\ Call.adds = adds
        /\ SubSeq(calls, 1, Len(calls) - 1) = <<>>
    BY <1>3, OneCall
  <2> QED BY <2>1 DEF EndCall
<1>4. ASSUME NEW m \in Seq(Region), NEW r, NEW i \in Nat \ {0}, i > Len(m), Clear(m, r, i)
      PROVE  Above(m, r.start + r.size)
  <2>1. \A j \in DOMAIN m : j < i
    BY <1>4
  <2> QED BY <1>4, <2>1 DEF Clear, Above
<1>5. ASSUME NEW p \in Nat, NEW i \in Nat \ {0}, Ordinary, Parsed(p), Stage(p, i)
      PROVE  \E j \in Nat \ {0} : Stage(p, j)'
  <2>1. Adding(p, i) \/ ClearingLow(p, i) \/ ClearingKernel(p, i)
    BY <1>5 DEF EndCall, Stage, Parsing, LowCleared, KernelCleared
  <2>2. regions \in Seq(Region)
    BY <2>1 DEF Adding, ClearingLow, ClearingKernel, Owned
  <2>3. CASE Adding(p, i)
    <3> DEFINE r == Bare(reported[p])
    <3>1. p \in Available /\ Owned(regions, p - 1) /\ calls = <<CallAt(r, i, TRUE)>>
      BY <2>3 DEF Adding
    <3>2. r \in Region /\ Within(r, reported[p])
      BY <1>2, <1>5, <3>1, EntryApart
    <3>3. Owned(Sorted(Append(regions, r)), p)
      BY <1>2, <3>1, <3>2, AddedOwned
    <3>4. Owned(regions, p)
      <4>1. \A a \in Available : a <= p - 1 => a <= p
        <5>1. \A a \in DOMAIN reported : a \in Nat
          BY <1>2, ReportedParts
        <5> QED BY <5>1 DEF Available
      <4> QED BY <3>1, <4>1, Zenon DEF Owned
    <3> HIDE DEF r
    <3>5. calls' = <<>> /\ (regions' = Sorted(Append(regions, r)) \/ regions' = regions)
      BY <1>3, <3>1
    <3>6. Owned(regions', p)
      BY <3>3, <3>4, <3>5
    <3>7. Parsing(p)'
      BY <1>1, <2>3, <3>5, <3>6 DEF Parsing, Adding, Owned, Available
    <3> QED BY <3>7 DEF Stage
  <2>4. CASE ClearingLow(p, i)
    <3>1. calls' = <<>> /\ i > Len(regions) /\ regions' = regions
      BY <1>3, <2>4 DEF ClearingLow
    <3>2. Above(regions, Low.start + Low.size)
      BY <1>4, <2>2, <2>4, <3>1 DEF ClearingLow
    <3>3. Above(regions, Mib)
      BY <1>2, <3>2, ReservedParts
    <3>4. LowCleared(p)'
      BY <1>1, <2>4, <3>1, <3>3 DEF LowCleared, ClearingLow, Owned, Available, Above
    <3> QED BY <3>4 DEF Stage
  <2>5. CASE ClearingKernel(p, i)
    <3>1. calls' = <<>> /\ i > Len(regions) /\ regions' = regions
      BY <1>3, <2>5 DEF ClearingKernel
    <3>2. Above(regions, Kernel.start + Kernel.size)
      BY <1>4, <2>2, <2>5, <3>1 DEF ClearingKernel
    <3>3. Above(regions, Mib + kernelSize)
      BY <1>2, <3>2, ReservedParts
    <3>4. KernelCleared(p)'
      BY <1>1, <2>5, <3>1, <3>3 DEF KernelCleared, ClearingKernel, Owned, Available, Above
    <3> QED BY <3>4 DEF Stage
  <2> QED BY <2>1, <2>3, <2>4, <2>5
<1> QED BY <1>1, <1>5, StageSuffices

LEMMA MregStep == MregInv /\ [MregNext]_mregVars => MregInv'
<1> SUFFICES ASSUME MregInv, [MregNext]_mregVars PROVE MregInv'
  OBVIOUS
<1>1. CASE UNCHANGED mregVars
  <2>1. UNCHANGED <<bootStep, firmware, reported, kernelSize, regions, calls>>
    BY <1>1 DEF mregVars
  <2>2. ASSUME NEW p \in Nat, NEW i \in Nat \ {0}, Ordinary, Parsed(p), Stage(p, i)
        PROVE  \E j \in Nat \ {0} : Stage(p, j)'
    <3>1. Stage(p, i)'
      <4>1. /\ Available' = Available /\ Kernel' = Kernel
            /\ \A q : Owned(regions, q)' <=> Owned(regions, q)
            /\ \A q : Above(regions, q)' <=> Above(regions, q)
            /\ \A r, q : Clear(regions, r, q)' <=> Clear(regions, r, q)
        BY <2>1 DEF Owned, Available, Clear, Above, Kernel
      <4>2. Stage(p, i)' <=> Stage(p, i)
        BY <2>1, <4>1 DEF Stage, Parsing, Adding, ClearingLow, LowCleared, ClearingKernel,
                          KernelCleared
      <4> QED BY <2>2, <4>2
    <3> QED BY <3>1
  <2> QED BY <2>1, <2>2, StageSuffices
<1> QED BY <1>1, ParseKeeps, RemovalsKeep, FixKeeps, EndKeeps DEF MregNext

\* A multiple of the range makes no difference to the remainder.
LEMMA ModShift ==
    ASSUME NEW U \in Nat, U > 0, NEW k \in Int, NEW y \in Int
    PROVE  (U * k + y) % U = y % U
<1>1. PICK z \in Int : z = U * k + y
  <2>1. U * k + y \in Int
    OBVIOUS
  <2> QED BY ONLY <2>1
<1>2. PICK q \in Int, r \in Int : r = z % U /\ 0 <= r /\ r < U /\ z = U * q + r
  <2>1. z \div U \in Int /\ z % U \in Int /\ 0 <= z % U /\ z % U < U /\ z = U * (z \div U) + (z % U)
    BY ONLY U \in Nat, U > 0, z \in Int
  <2> QED BY ONLY <2>1
<1>3. PICK p \in Int, x \in Int : x = y % U /\ 0 <= x /\ x < U /\ y = U * p + x
  <2>1. y \div U \in Int /\ y % U \in Int /\ 0 <= y % U /\ y % U < U /\ y = U * (y \div U) + (y % U)
    BY ONLY U \in Nat, U > 0, y \in Int
  <2> QED BY ONLY <2>1
<1>4. PICK t \in Int : t = (k + p) - q
  <2>1. (k + p) - q \in Int
    OBVIOUS
  <2> QED BY ONLY <2>1
<1>5. U * t = r - x
  <2>1. U * t = (U * k + U * p) - U * q
    BY ONLY <1>4, U \in Nat, k \in Int, p \in Int, q \in Int
  <2>2. PICK e \in Int, f \in Int, g \in Int : e = U * k /\ f = U * p /\ g = U * q
    <3>1. U * k \in Int /\ U * p \in Int /\ U * q \in Int
      BY ONLY U \in Nat, k \in Int, p \in Int, q \in Int
    <3> QED BY ONLY <3>1
  <2>3. PICK h \in Int : h = U * t
    <3>1. U * t \in Int
      BY ONLY U \in Nat, t \in Int
    <3> QED BY ONLY <3>1
  <2>4. z = e + y /\ z = g + r /\ y = f + x /\ h = (e + f) - g
    BY ONLY <1>1, <1>2, <1>3, <2>1, <2>2, <2>3
  <2>5. h = r - x
    BY ONLY <2>4, y \in Int, r \in Int, x \in Int, z \in Int, e \in Int, f \in Int,
            g \in Int, h \in Int
  <2> QED BY ONLY <2>3, <2>5
<1>6. ASSUME t >= 1 PROVE FALSE
  <2>1. U * t >= U /\ U * t \in Int
    BY ONLY <1>6, t \in Int, U \in Nat
  <2> QED BY ONLY <1>2, <1>3, <1>5, <2>1, U \in Nat, r \in Int, x \in Int
<1>7. ASSUME t <= -1 PROVE FALSE
  <2>1. U * t <= U * (-1) /\ U * t \in Int
    BY ONLY <1>7, t \in Int, U \in Nat
  <2>2. U * (-1) = -U
    BY ONLY U \in Nat
  <2> QED BY ONLY <1>2, <1>3, <1>5, <2>1, <2>2, U \in Nat, r \in Int, x \in Int
<1>8. t = 0
  BY ONLY <1>6, <1>7, t \in Int
<1>9. U * t = 0
  BY ONLY <1>8, U \in Nat
<1>10. r = x
  BY ONLY <1>5, <1>9, r \in Int, x \in Int
<1> QED BY ONLY <1>1, <1>2, <1>3, <1>10

\* A number is a multiple of the range and a remainder.
LEMMA Divided ==
    ASSUME NEW U \in Nat, U > 0, NEW x \in Nat
    PROVE  \E q \in Nat, r \in Nat : r = x % U /\ x = U * q + r
<1>1. x \div U \in Nat /\ x % U \in Nat /\ x = U * (x \div U) + (x % U)
  OBVIOUS
<1> QED BY ONLY <1>1

\* Where the entries are page bounded, every region ends at a page and begins
\* at one or behind the kernel image; the alignment leaves none of the latter.
OnPages(t) ==
    /\ (t.start + t.size) % Page = 0
    /\ t.start % Page = 0 \/ t.start = Mib + kernelSize
AllOnPages(m) == \A k \in DOMAIN m : OnPages(m[k])
AllBegin(m) == \A k \in DOMAIN m : m[k].start % Page = 0
PagesInv ==
    Ordinary /\ PageBounded => AllOnPages(regions) /\ (bootStep = "done" => AllBegin(regions))

\* Every region of n is one of m, or what is behind place e of one of m.
Behind(m, n, e) ==
    \A j \in DOMAIN n : \E k \in DOMAIN m :
        \/ n[j] = m[k]
        \/ n[j].start = e /\ n[j].start + n[j].size = m[k].start + m[k].size

LEMMA FixedBehind ==
    ASSUME NEW r, r.start \in Nat, r.size \in Nat, r.start + r.size < U64,
           NEW m \in Seq(Region), NEW i \in DOMAIN m, m[i].start + m[i].size < U64,
           m[i].start >= r.start
    PROVE  Behind(m, Fixed(r, m, i), r.start + r.size)
<1> DEFINE re == r.start + r.size
           ts == m[i].start
           te == m[i].start + m[i].size
<1>1. ts \in Nat /\ m[i].size \in Nat /\ m[i].size > 0 /\ i \in 1 .. Len(m) /\ U64 \in Nat
      /\ m[i] \in Region
  BY RegionParts, Sizes
<1>2. End(r) = re /\ End(m[i]) = te
  <2>1. re \in Nat /\ te \in Nat
    BY <1>1
  <2> QED BY <1>1, <2>1, Unwrapped DEF End
<1>3. CASE re >= te
  <2>1. Fixed(r, m, i) = RemoveAt(m, i)
    BY <1>1, <1>2, <1>3 DEF Fixed
  <2>2. PICK n : n = RemoveAt(m, i)
    OBVIOUS
  <2>3. Shifted(Region, m, i, n)
    BY <1>1, <2>2, RemoveAtPlaces
  <2>4. \A j \in DOMAIN n : Before(i, j) \in DOMAIN m /\ n[j] = m[Before(i, j)]
    BY <2>3 DEF Shifted
  <2> QED BY <2>1, <2>2, <2>4 DEF Behind
<1>4. CASE re < te /\ re > ts
  <2>1. Fixed(r, m, i) = Cut(m, i, (re - ts) % U64, re)
    BY <1>1, <1>2, <1>4 DEF Fixed
  <2>2. PICK s \in Nat : s = re - ts /\ s < m[i].size /\ (re - ts) % U64 = s
    <3>1. re - ts \in Nat /\ re - ts < m[i].size /\ re - ts < U64
      BY <1>1, <1>4
    <3> QED BY <1>1, <3>1, Unwrapped
  <2>3. ~ShouldRemove(s, m[i])
    BY <1>1, <2>2 DEF ShouldRemove
  <2>4. PICK t : t = [Shrunk(s, m[i]) EXCEPT !.start = re]
    OBVIOUS
  <2>5. PICK n : n = [m EXCEPT ![i] = t]
    OBVIOUS
  <2>6. Fixed(r, m, i) = n
    BY <2>1, <2>2, <2>3, <2>4, <2>5 DEF Cut
  <2>7. t.start = re /\ t.size = m[i].size - s
    <3>1. re \in Nat
      OBVIOUS
    <3>3. m[i] \in Region /\ s \in Nat /\ s < m[i].size
      BY <1>1, <2>2
    <3> HIDE DEF re
    <3>2. Lifted(m[i], s, re, t)
      BY ONLY <2>4, <3>1, <3>3, CutRegion
    <3> QED BY <3>2 DEF Lifted
  <2>8. t.start + t.size = te
    <3>1. re \in Nat /\ ts \in Nat /\ m[i].size \in Nat
      BY <1>1
    <3>2. te = ts + m[i].size
      OBVIOUS
    <3> HIDE DEF re, ts, te
    <3> QED BY <2>2, <2>7, <3>1, <3>2
  <2>9. DOMAIN n = DOMAIN m /\ n[i] = t /\ \A j \in DOMAIN m : j # i => n[j] = m[j]
    BY <2>5
  <2> QED BY <2>6, <2>7, <2>8, <2>9 DEF Behind
<1>5. CASE re <= ts
  <2>1. ~(re >= te)
    BY <1>1, <1>5
  <2>2. Fixed(r, m, i) = m
    BY <1>1, <1>2, <1>5, <2>1 DEF Fixed
  <2> QED BY <2>2 DEF Behind
<1> QED BY <1>1, <1>3, <1>4, <1>5

\* A place of a page, the end of the first MiB and of the kernel image.
LEMMA BehindOnPages ==
    ASSUME NEW m, NEW n, NEW e, AllOnPages(m), Behind(m, n, e), e % Page = 0 \/ e = Mib + kernelSize
    PROVE  AllOnPages(n)
BY DEF AllOnPages, OnPages, Behind

LEMMA MultipleOf ==
    ASSUME NEW P \in Nat, P > 0, NEW x \in Nat, x % P = 0
    PROVE  \E q \in Nat : x = P * q
<1>1. PICK q \in Nat, r \in Nat : r = x % P /\ x = P * q + r
  BY Divided
<1>2. P * q \in Nat
  BY ONLY P \in Nat, <1>1
<1> QED BY <1>1, <1>2

LEMMA MultipleRest ==
    ASSUME NEW P \in Nat, P > 0, NEW q \in Int
    PROVE  (P * q) % P = 0
<1>1. (P * q + 0) % P = 0 % P
  BY ONLY ModShift, P \in Nat, P > 0, q \in Int, 0 \in Int
<1>2. P * q + 0 = P * q
  BY ONLY P \in Nat, q \in Int
<1>3. 0 % P = 0
  BY ONLY P \in Nat, P > 0
<1> QED BY ONLY <1>1, <1>2, <1>3

\* A frame that begins before the end of a region of whole pages ends in it.
LEMMA WholeFrame ==
    ASSUME NEW P \in Nat, P > 0, NEW s \in Nat, NEW f \in Nat, NEW e \in Nat,
           s % P = 0, e % P = 0, (f - s) % P = 0, s <= f, f < e
    PROVE  f + P <= e
<1>1. PICK a \in Nat : s = P * a
  BY MultipleOf
<1>2. PICK c \in Nat : e = P * c
  BY MultipleOf
<1>3. PICK x \in Nat : x = f - s
  OBVIOUS
<1>4. PICK b \in Nat : x = P * b
  BY <1>3, MultipleOf
<1>5. PICK g \in Nat : g = a + b
  OBVIOUS
<1>6. f = P * g
  <2>1. P * g = P * a + P * b
    BY ONLY <1>5, P \in Nat, a \in Nat, b \in Nat
  <2>2. P * g \in Nat /\ P * a \in Nat /\ P * b \in Nat
    BY ONLY P \in Nat, g \in Nat, a \in Nat, b \in Nat
  <2> QED BY ONLY <2>1, <2>2, <1>1, <1>3, <1>4, f \in Nat, s \in Nat, x \in Nat
<1>7. ~(c <= g)
  <2>1. ASSUME c <= g PROVE FALSE
    <3>1. PICK d \in Nat : g = c + d
      <4>1. g - c \in Nat /\ g = c + (g - c)
        BY ONLY <2>1, c \in Nat, g \in Nat
      <4> QED BY ONLY <4>1
    <3>2. P * g = P * c + P * d /\ P * c \in Nat /\ P * d \in Nat
      BY ONLY <3>1, P \in Nat, c \in Nat, d \in Nat
    <3> QED BY ONLY <3>2, <1>2, <1>6, f < e
  <2> QED BY <2>1
<1>8. PICK d \in Nat : c = (g + 1) + d
  <2>1. c - (g + 1) \in Nat /\ c = (g + 1) + (c - (g + 1))
    BY ONLY <1>7, c \in Nat, g \in Nat
  <2> QED BY ONLY <2>1
<1>9. P * c = P * g + P + P * d /\ P * g \in Nat /\ P * d \in Nat
  BY ONLY <1>8, P \in Nat, g \in Nat, d \in Nat
<1> QED BY ONLY <1>2, <1>6, <1>9, P \in Nat

\* The aligned start of a region is at a page, and is the start if that is.
LEMMA AlignedStart ==
    ASSUME NEW t, t.start \in Nat
    PROVE  /\ AlignStart(t) \in Nat /\ AlignStart(t) % Page = 0 /\ AlignStart(t) >= t.start
           /\ t.start % Page = 0 => AlignStart(t) = t.start
<1> DEFINE s == t.start
<1>1. PICK P \in Nat : P = Page /\ P > 0
  BY Sizes
<1>2. PICK q \in Nat : q = (s + P - 1) \div P
  <2>1. (s + P - 1) \div P \in Nat
    BY ONLY t.start \in Nat, P \in Nat, <1>1
  <2> QED BY ONLY <2>1
<1>3. AlignStart(t) = q * P /\ q * P = P * q
  <2>1. q * P = P * q
    BY ONLY q \in Nat, P \in Nat
  <2> QED BY <1>1, <1>2, <2>1 DEF AlignStart
<1>4. AlignStart(t) % Page = 0
  BY <1>1, <1>3, MultipleRest
<1>5. AlignStart(t) \in Nat /\ AlignStart(t) >= t.start
  BY AlignUp DEF AlignStart
<1>6. ASSUME t.start % Page = 0 PROVE AlignStart(t) = t.start
  <2>1. PICK a \in Nat : s = P * a
    BY <1>1, <1>6, MultipleOf
  <2>2. s + P - 1 = P * a + (P - 1) /\ P * a \in Nat
    BY ONLY <2>1, P \in Nat, a \in Nat, s \in Nat
  <2>3. PICK z \in Nat : z = s + P - 1 /\ z = P * a + (P - 1)
    BY ONLY <1>1, <2>2
  <2>4. PICK y \in Nat : z = P * q + y /\ y < P
    BY ONLY <1>2, <2>3, P \in Nat, <1>1
  <2>5. q = a
    <3>1. ASSUME q < a PROVE FALSE
      <4>1. PICK d \in Nat : a = (q + 1) + d
        <5>1. a - (q + 1) \in Nat /\ a = (q + 1) + (a - (q + 1))
          BY ONLY <3>1, a \in Nat, q \in Nat
        <5> QED BY ONLY <5>1
      <4>2. P * a = P * q + P + P * d /\ P * q \in Nat /\ P * d \in Nat
        BY ONLY <4>1, P \in Nat, q \in Nat, d \in Nat
      <4> QED BY ONLY <2>3, <2>4, <4>2, P \in Nat, <1>1
    <3>2. ASSUME a < q PROVE FALSE
      <4>1. PICK d \in Nat : q = (a + 1) + d
        <5>1. q - (a + 1) \in Nat /\ q = (a + 1) + (q - (a + 1))
          BY ONLY <3>2, a \in Nat, q \in Nat
        <5> QED BY ONLY <5>1
      <4>2. P * q = P * a + P + P * d /\ P * a \in Nat /\ P * d \in Nat
        BY ONLY <4>1, P \in Nat, a \in Nat, d \in Nat
      <4> QED BY ONLY <2>3, <2>4, <4>2, P \in Nat, <1>1
    <3> QED BY ONLY <3>1, <3>2, q \in Nat, a \in Nat
  <2> QED BY <1>3, <2>1, <2>5
<1> QED BY <1>4, <1>5, <1>6


\* mregmap_align_regs: of regions that begin at different places one at most is
\* not at a page, the only one that can be removed.
LEMMA AlignPages ==
    ASSUME NEW m \in Seq(Region), AllOnPages(m),
           \A i, j \in DOMAIN m : i # j => m[i].start # m[j].start
    PROVE  AllOnPages(AlignRegs(m)) /\ AllBegin(AlignRegs(m))
<1> DEFINE Gap(i) == AlignStart(m[i]) - m[i].start
           Removes(i) == ShouldRemove(Gap(i), m[i])
           Aligned == [i \in DOMAIN m |->
               IF \E j \in 1 .. i : Removes(j) THEN m[i]
               ELSE [Shrunk(Gap(i), m[i]) EXCEPT !.start = AlignStart(m[i])]]
           Gone == CHOOSE i \in DOMAIN m : Removes(i) /\ \A j \in 1 .. i - 1 : ~Removes(j)
           At(t) == t.start % Page = 0 /\ (t.start + t.size) % Page = 0
<1>1. \A i \in DOMAIN m : m[i] \in Region /\ m[i].start \in Nat /\ m[i].size \in Nat /\ m[i].size > 0
                          /\ i \in Nat /\ i >= 1
  BY RegionParts
<1>2. \A i \in DOMAIN m : /\ AlignStart(m[i]) \in Nat /\ AlignStart(m[i]) % Page = 0
                          /\ AlignStart(m[i]) >= m[i].start
                          /\ m[i].start % Page = 0 => AlignStart(m[i]) = m[i].start
  BY <1>1, AlignedStart
<1>3. AlignRegs(m) = IF \E i \in DOMAIN m : Removes(i) THEN RemoveAt(Aligned, Gone) ELSE Aligned
  BY DEF AlignRegs
\* A region that is removed begins behind the kernel image.
<1>4. \A i \in DOMAIN m : Removes(i) => m[i].start % Page # 0 /\ m[i].start = Mib + kernelSize
  <2> TAKE i \in DOMAIN m
  <2>1. ASSUME m[i].start % Page = 0 PROVE ~Removes(i)
    BY <1>1, <1>2, <2>1 DEF ShouldRemove
  <2> QED BY <2>1 DEF AllOnPages, OnPages
<1>5. \A i, j \in DOMAIN m : Removes(j) /\ i # j => m[i].start % Page = 0
  BY <1>4 DEF AllOnPages, OnPages
<1>6. ASSUME NEW i \in DOMAIN m, ~Removes(i) PROVE At(Aligned[i])
  <2>1. CASE \E j \in 1 .. i : Removes(j)
    <3>1. PICK j \in DOMAIN m : Removes(j) /\ i # j
      BY <1>6, <2>1
    <3>2. m[i].start % Page = 0
      BY <1>5, <3>1
    <3>3. Aligned[i] = m[i]
      BY <2>1
    <3> QED BY <3>2, <3>3 DEF AllOnPages, OnPages
  <2>2. CASE ~(\E j \in 1 .. i : Removes(j))
    <3>1. PICK a \in Nat : a = AlignStart(m[i]) /\ a >= m[i].start /\ a % Page = 0
      BY <1>2
    <3>2. PICK g \in Nat : g = Gap(i) /\ a = m[i].start + g
      BY <1>1, <3>1
    <3>3. g < m[i].size
      BY <1>1, <1>6, <3>2 DEF ShouldRemove
    <3>4. PICK u : u = [Shrunk(g, m[i]) EXCEPT !.start = a]
      OBVIOUS
    <3>5. Aligned[i] = u
      BY <2>2, <3>1, <3>2, <3>4
    <3>6. m[i] \in Region
      BY <1>1
    <3>7. u.start = a /\ u.size = m[i].size - g
      <4>1. Lifted(m[i], g, a, u)
        BY ONLY <3>3, <3>4, <3>6, g \in Nat, a \in Nat, CutRegion
      <4> QED BY <4>1 DEF Lifted
    <3>8. u.start + u.size = m[i].start + m[i].size
      BY <1>1, <3>2, <3>7
    <3>9. (m[i].start + m[i].size) % Page = 0
      BY DEF AllOnPages, OnPages
    <3> QED BY <3>1, <3>5, <3>7, <3>8, <3>9
  <2> QED BY <2>1, <2>2
<1>7. DOMAIN Aligned = DOMAIN m /\ Aligned \in Seq(Region)
  <2>1. Drawn(m, AlignRegs(m))
    BY AlignDraws
  <2>2. ASSUME NEW i \in DOMAIN m PROVE Aligned[i] \in Region
    <3>1. CASE \E j \in 1 .. i : Removes(j)
      BY <1>1, <3>1
    <3>2. CASE ~(\E j \in 1 .. i : Removes(j))
      <4>1. PICK a \in Nat, g \in Nat : a = AlignStart(m[i]) /\ g = Gap(i)
        BY <1>1, <1>2
      <4>2. g < m[i].size
        BY <1>1, <3>2, <4>1 DEF ShouldRemove
      <4>3. PICK u : u = [Shrunk(g, m[i]) EXCEPT !.start = a]
        OBVIOUS
      <4>4. Aligned[i] = u
        BY <3>2, <4>1, <4>3
      <4>5. m[i] \in Region
        BY <1>1
      <4>6. Lifted(m[i], g, a, u)
        BY ONLY <4>2, <4>3, <4>5, g \in Nat, a \in Nat, CutRegion
      <4> QED BY <4>4, <4>6 DEF Lifted
    <3> QED BY <3>1, <3>2
  <2>3. DOMAIN m = 1 .. Len(m) /\ Len(m) \in Nat
    OBVIOUS
  <2>4. PICK f : f = Aligned
    OBVIOUS
  <2>5. f = [i \in 1 .. Len(m) |-> f[i]] /\ \A i \in 1 .. Len(m) : f[i] \in Region
    BY <2>2, <2>3, <2>4
  <2>6. f \in Seq(Region) /\ DOMAIN f = 1 .. Len(m)
    BY ONLY <2>3, <2>5
  <2> QED BY <2>3, <2>4, <2>6
<1>8. ASSUME NEW n, \A j \in DOMAIN n : At(n[j]) PROVE AllOnPages(n) /\ AllBegin(n)
  BY <1>8 DEF AllOnPages, AllBegin, OnPages
<1> HIDE DEF Aligned, Removes, Gap, At
<1>9. CASE ~\E i \in DOMAIN m : Removes(i)
  BY <1>3, <1>6, <1>7, <1>8, <1>9
<1>10. CASE \E i \in DOMAIN m : Removes(i)
  <2> DEFINE T == {i \in DOMAIN m : Removes(i)}
  <2>1. T \in SUBSET Nat /\ T # {}
    BY <1>1, <1>10
  <2> HIDE DEF T
  <2>2. PICK g \in T : \A j \in T : g <= j
    BY <2>1, LeastNatural
  <2>3. g \in DOMAIN m /\ Removes(g) /\ \A j \in 1 .. g - 1 : ~Removes(j)
    <3>1. g \in DOMAIN m /\ Removes(g) /\ \A j \in DOMAIN m : Removes(j) => g <= j
      BY <2>2 DEF T
    <3>2. ASSUME NEW j \in 1 .. g - 1 PROVE j \in DOMAIN m /\ ~(g <= j)
      BY <3>1
    <3> QED BY <3>1, <3>2
  <2>4. Gone \in DOMAIN m /\ Removes(Gone)
    BY <2>3
  <2>5. PICK k \in DOMAIN m : k = Gone /\ Removes(k)
    BY <2>4
  <2>6. PICK n : n = RemoveAt(Aligned, k)
    OBVIOUS
  <2>7. AlignRegs(m) = n
    BY <1>3, <1>10, <2>5, <2>6
  <2>8. k \in 1 .. Len(Aligned)
    BY <1>7
  <2>9. Shifted(Region, Aligned, k, n)
    BY <1>7, <2>6, <2>8, RemoveAtPlaces
  <2>10. \A j \in DOMAIN n : Before(k, j) \in DOMAIN m /\ Before(k, j) # k
                             /\ n[j] = Aligned[Before(k, j)]
    BY <1>7, <2>9 DEF Shifted
  <2>11. \A i \in DOMAIN m : i # k => ~Removes(i)
    BY <1>4, <1>5, <2>5
  <2> QED BY <1>6, <1>8, <2>7, <2>10, <2>11
<1> QED BY <1>9, <1>10

\* The regions of an ordinary map begin at different places.
LEMMA OwnedStarts ==
    ASSUME reported \in FirmwareMaps, Ordinary, NEW p, NEW m, Owned(m, p)
    PROVE  \A i, j \in DOMAIN m : i # j => m[i].start # m[j].start
<1> SUFFICES ASSUME NEW i \in DOMAIN m, NEW j \in DOMAIN m, i # j, m[i].start = m[j].start
             PROVE  FALSE
  OBVIOUS
<1>1. PICK a \in Available, b \in Available :
        Within(m[i], reported[a]) /\ Within(m[j], reported[b]) /\ a # b
  BY DEF Owned
<1>2. a \in DOMAIN reported /\ b \in DOMAIN reported /\ m \in Seq(Region)
  BY DEF Owned, Available
<1>3. ~Overlap(reported[a], reported[b])
  BY <1>1, <1>2 DEF Ordinary
<1>4. /\ m[i].start \in Nat /\ m[i].size \in Nat /\ m[i].size > 0
      /\ m[j].start \in Nat /\ m[j].size \in Nat /\ m[j].size > 0
  BY <1>2, RegionParts
<1>5. /\ reported[a].start \in Nat /\ reported[a].size \in Nat
      /\ reported[b].start \in Nat /\ reported[b].size \in Nat
  BY <1>2, ReportedParts
<1> QED BY <1>1, <1>3, <1>4, <1>5 DEF Within, Overlap

\* One pass of the loop for an ordinary map.
LEMMA PassOnPages ==
    ASSUME MregInv, Ordinary, FixRegion \/ SplitRegion, AllOnPages(regions)
    PROVE  AllOnPages(regions')
<1>1. PICK p \in Nat, i \in Nat \ {0} : Parsed(p) /\ Stage(p, i)
  BY DEF MregInv
<1>2. reported \in FirmwareMaps /\ kernelSize \in KernelSizes
  BY DEF MregInv
<1>3. Adding(p, i) \/ ClearingLow(p, i) \/ ClearingKernel(p, i)
  BY <1>1 DEF FixRegion, SplitRegion, Stage, Parsing, LowCleared, KernelCleared
<1>4. regions \in Seq(Region)
  BY <1>3 DEF Adding, ClearingLow, ClearingKernel, Owned
<1>5. ASSUME NEW r, NEW adds, calls = <<CallAt(r, i, adds)>>
      PROVE  /\ i \in DOMAIN regions
             /\ ~Splits(r, regions[i]) => regions' = Fixed(r, regions, i)
  <2>1. Call.region = r /\ Call.place = i
    BY <1>5, OneCall
  <2>2. /\ Call.place <= Len(regions)
        /\ ~Splits(Call.region, regions[Call.place]) =>
             regions' = Fixed(Call.region, regions, Call.place)
    BY DEF FixRegion, SplitRegion
  <2> QED BY <1>4, <2>1, <2>2
<1>6. CASE Adding(p, i)
  <2> DEFINE r == Bare(reported[p])
  <2>1. p \in Available /\ Owned(regions, p - 1) /\ calls = <<CallAt(r, i, TRUE)>>
    BY <1>6 DEF Adding
  <2>2. i \in DOMAIN regions
    BY <1>5, <2>1
  <2>3. /\ r \in Region /\ r.start + r.size < U64 /\ ~Overlap(r, regions[i])
    BY <1>2, <2>1, <2>2, EntryApart
  <2>4. regions[i].start + regions[i].size < U64
    BY <1>2, <2>1, <2>2, OwnedBelow
  <2>5. r.start \in Nat /\ r.size \in Nat /\ r.size > 0
    BY <2>3 DEF Region
  <2> HIDE DEF r
  <2>6. ~Splits(r, regions[i]) /\ Fixed(r, regions, i) = regions
    BY <1>4, <2>2, <2>3, <2>4, <2>5, FixedApart
  <2>7. regions' = regions
    BY <1>5, <2>1, <2>6
  <2> QED BY <2>7
<1>7. ASSUME NEW r \in {Low, Kernel}, Owned(regions, p), Above(regions, r.start),
             calls = <<CallAt(r, i, FALSE)>>, Clear(regions, r, i)
      PROVE  AllOnPages(regions')
  <2>1. i \in DOMAIN regions
    BY <1>5, <1>7
  <2>2. Single(regions, r)
    BY <1>2, <1>7, OwnedSingle
  <2>3. r.start \in Nat /\ r.size \in Nat /\ r.start + r.size < U64
    BY <1>2, <1>7, ReservedParts
  <2>4. regions[i].start + regions[i].size < U64
    BY <1>2, <1>7, <2>1, OwnedBelow
  <2>5. ~Splits(r, regions[i])
    BY <1>4, <1>7, <2>1, <2>2, <2>3, <2>4, FixedCuts
  <2>6. regions' = Fixed(r, regions, i)
    BY <1>5, <1>7, <2>5
  <2>7. regions[i].start >= r.start
    BY <1>7, <2>1 DEF Above
  <2>8. Behind(regions, regions', r.start + r.size)
    BY <1>4, <2>1, <2>3, <2>4, <2>6, <2>7, FixedBehind
  <2>9. (r.start + r.size) % Page = 0 \/ r.start + r.size = Mib + kernelSize
    <3>1. CASE r = Low
      <4>1. r.start + r.size = Mib
        BY <1>2, <3>1, ReservedParts
      <4> QED BY <4>1, MregmapAssumption
    <3>2. CASE r = Kernel
      BY <1>2, <3>2, ReservedParts
    <3> QED BY <1>7, <3>1, <3>2
  <2> QED BY <2>8, <2>9, BehindOnPages
<1>8. CASE ClearingLow(p, i)
  <2>1. Above(regions, Low.start)
    <3>1. \A j \in DOMAIN regions : regions[j].start \in Nat
      BY <1>4, RegionParts
    <3> QED BY <1>2, <3>1, ReservedParts DEF Above
  <2> QED BY <1>7, <1>8, <2>1 DEF ClearingLow
<1>9. CASE ClearingKernel(p, i)
  <2>1. Above(regions, Kernel.start)
    BY <1>2, <1>9, ReservedParts DEF ClearingKernel
  <2> QED BY <1>7, <1>9, <2>1 DEF ClearingKernel
<1> QED BY <1>3, <1>6, <1>8, <1>9

\* The end of a call: an entry of whole pages is added, or nothing.
LEMMA EndOnPages ==
    ASSUME MregInv, Ordinary, PageBounded, EndCall, AllOnPages(regions)
    PROVE  AllOnPages(regions')
<1>1. PICK p \in Nat, i \in Nat \ {0} : Parsed(p) /\ Stage(p, i)
  BY DEF MregInv
<1>2. reported \in FirmwareMaps /\ kernelSize \in KernelSizes
  BY DEF MregInv
<1>3. Adding(p, i) \/ ClearingLow(p, i) \/ ClearingKernel(p, i)
  BY <1>1 DEF EndCall, Stage, Parsing, LowCleared, KernelCleared
<1>4. ASSUME NEW r, NEW adds, calls = <<CallAt(r, i, adds)>>
      PROVE  regions' = IF adds /\ Room(regions) THEN Sorted(Append(regions, r)) ELSE regions
  <2>1. Call.region = r /\ Call.adds = adds
    BY <1>4, OneCall
  <2> QED BY <2>1 DEF EndCall
<1>5. CASE ClearingLow(p, i) \/ ClearingKernel(p, i)
  <2>1. regions' = regions
    BY <1>4, <1>5 DEF ClearingLow, ClearingKernel
  <2> QED BY <2>1
<1>6. CASE Adding(p, i)
  <2> DEFINE r == Bare(reported[p])
             k == Append(regions, r)
  <2>1. p \in Available /\ Owned(regions, p - 1) /\ calls = <<CallAt(r, i, TRUE)>>
    BY <1>6 DEF Adding
  <2>2. r \in Region
    BY <1>2, <2>1, EntryApart
  <2>3. p \in DOMAIN reported /\ r.start = reported[p].start /\ r.size = reported[p].size
    BY <2>1 DEF Available, Bare
  <2>4. reported[p].start \in Nat /\ reported[p].size \in Nat
        /\ reported[p].start % Page = 0 /\ reported[p].size % Page = 0
    BY <1>2, <2>1, <2>3, ReportedParts DEF PageBounded
  <2>5. OnPages(r)
    <3>1. Page \in Nat /\ Page > 0
      BY Sizes
    <3>2. PICK P, s, z : P = Page /\ s = reported[p].start /\ z = reported[p].size
      OBVIOUS
    <3>3. P \in Nat /\ P > 0 /\ s \in Nat /\ z \in Nat /\ s % P = 0 /\ z % P = 0
      BY <2>4, <3>1, <3>2
    <3>4. PICK a \in Nat : s = P * a
      BY <3>3, MultipleOf
    <3>5. PICK b \in Nat : z = P * b
      BY <3>3, MultipleOf
    <3>6. PICK c \in Int : c = a + b
      OBVIOUS
    <3>7. s + z = P * c
      <4>1. P * c = P * a + P * b
        BY ONLY <3>3, <3>6, a \in Nat, b \in Nat
      <4> QED BY ONLY <4>1, <3>4, <3>5
    <3>8. (s + z) % P = 0
      BY <3>3, <3>7, MultipleRest
    <3> QED BY <2>3, <2>4, <3>2, <3>8 DEF OnPages
  <2> HIDE DEF r
  <2>6. regions \in Seq(Region)
    BY <2>1 DEF Owned
  <2>7. k \in Seq(Region) /\ \A j \in DOMAIN k : k[j] = r \/ \E h \in DOMAIN regions : k[j] = regions[h]
    BY <2>2, <2>6
  <2> HIDE DEF k
  <2>8. AllOnPages(k)
    BY <2>5, <2>7 DEF AllOnPages
  <2>9. \A j \in DOMAIN k : k[j].start \in Nat
    BY <2>7, RegionParts
  <2>10. PICK n : n = Sorted(k)
    OBVIOUS
  <2>11. Rearranged(Region, k, n)
    BY <2>7, <2>9, <2>10, SortRearranges
  <2>12. AllOnPages(n)
    BY <2>8, <2>11 DEF AllOnPages, Rearranged
  <2>13. regions' = n \/ regions' = regions
    BY <1>4, <2>1, <2>10 DEF k
  <2> QED BY <2>12, <2>13
<1> QED BY <1>3, <1>5, <1>6

LEMMA PagesStep == MregInv /\ PagesInv /\ [MregNext]_mregVars => PagesInv'
<1> SUFFICES ASSUME MregInv, PagesInv, [MregNext]_mregVars PROVE PagesInv'
  OBVIOUS
<1>1. reported' = reported /\ kernelSize' = kernelSize
  BY DEF MregNext, mregVars, ParseEntry, RemoveLowMemory, RemoveKernel, AlignRegions, FixRegion,
         SplitRegion, EndCall
<1>2. (Ordinary' <=> Ordinary) /\ (PageBounded' <=> PageBounded)
  BY <1>1 DEF Ordinary, PageBounded, Available, Kernel
<1>3. SUFFICES ASSUME Ordinary, PageBounded
               PROVE  AllOnPages(regions)' /\ (bootStep' = "done" => AllBegin(regions)')
  BY <1>2 DEF PagesInv
<1>4. AllOnPages(regions) /\ (bootStep = "done" => AllBegin(regions))
  BY <1>3 DEF PagesInv
<1>5. /\ AllOnPages(regions)' <=> AllOnPages(regions')
      /\ AllBegin(regions)' <=> AllBegin(regions')
  BY <1>1 DEF AllOnPages, AllBegin, OnPages
<1>6. PICK p \in Nat, i \in Nat \ {0} : Parsed(p) /\ Stage(p, i)
  BY <1>3 DEF MregInv
<1>7. bootStep = "done" => calls = <<>>
  BY <1>6 DEF Stage, Parsing, Adding, ClearingLow, LowCleared, ClearingKernel, KernelCleared
<1>8. CASE regions' = regions /\ (bootStep' = "done" => bootStep = "done")
  BY <1>4, <1>5, <1>8
<1>9. CASE AlignRegions
  <2>1. Owned(regions, p) /\ regions' = AlignRegs(regions)
    BY <1>6, <1>9 DEF AlignRegions, Stage, Parsing, Adding, ClearingLow, LowCleared,
                      ClearingKernel, KernelCleared
  <2>2. reported \in FirmwareMaps /\ regions \in Seq(Region)
    BY <2>1 DEF Owned, MregInv
  <2>3. \A k, l \in DOMAIN regions : k # l => regions[k].start # regions[l].start
    BY <1>3, <2>1, <2>2, OwnedStarts
  <2>4. AllOnPages(regions') /\ AllBegin(regions')
    BY <1>4, <2>1, <2>2, <2>3, AlignPages
  <2> QED BY <1>5, <2>4
<1>10. CASE FixRegion \/ SplitRegion
  <2>1. bootStep' # "done"
    BY <1>7, <1>10 DEF FixRegion, SplitRegion
  <2>2. AllOnPages(regions')
    BY <1>3, <1>4, <1>10, PassOnPages
  <2> QED BY <1>5, <2>1, <2>2
<1>11. CASE EndCall
  <2>1. bootStep' # "done"
    BY <1>7, <1>11 DEF EndCall
  <2>2. AllOnPages(regions')
    BY <1>3, <1>4, <1>11, EndOnPages
  <2> QED BY <1>5, <2>1, <2>2
<1>12. ASSUME ParseEntry \/ RemoveLowMemory \/ RemoveKernel \/ UNCHANGED mregVars
       PROVE  regions' = regions /\ (bootStep' = "done" => bootStep = "done")
  BY <1>12 DEF ParseEntry, RemoveLowMemory, RemoveKernel, mregVars
<1> QED BY <1>8, <1>9, <1>10, <1>11, <1>12 DEF MregNext

\* The frames lie in the regions, and those in what the firmware reported.
LEMMA MregInvImplies == MregInv /\ PagesInv => FramesOutsideReserved
<1> SUFFICES ASSUME MregInv, PagesInv, bootStep = "done", Ordinary, NEW f \in Frames
             PROVE  /\ ~Overlap([start |-> f, size |-> Page], Low)
                    /\ ~Overlap([start |-> f, size |-> Page], Kernel)
                    /\ \E i \in Available :
                        /\ f >= reported[i].start /\ f < reported[i].start + reported[i].size
                        /\ PageBounded => f + Page <= reported[i].start + reported[i].size
  BY DEF FramesOutsideReserved
<1>1. PICK p \in Nat, i \in Nat \ {0} : Parsed(p) /\ Stage(p, i)
  BY DEF MregInv
<1>2. Owned(regions, p) /\ Above(regions, Mib + kernelSize)
  BY <1>1 DEF Stage, Parsing, Adding, ClearingLow, LowCleared, ClearingKernel, KernelCleared
<1>3. PICK k \in DOMAIN regions : f \in FramesOf(regions[k])
  BY DEF Frames
<1>4. f \in Nat /\ f >= regions[k].start /\ f < regions[k].start + regions[k].size
      /\ (f - regions[k].start) % Page = 0
  BY <1>3, Sizes DEF FramesOf
<1>5. reported \in FirmwareMaps /\ kernelSize \in KernelSizes /\ regions \in Seq(Region)
  BY <1>2 DEF MregInv, Owned
<1>6. regions[k].start \in Nat /\ regions[k].size \in Nat
  BY <1>5, RegionParts
<1>7. regions[k].start >= Mib + kernelSize
  BY <1>2 DEF Above
<1>8. /\ Low.start = 0 /\ Low.size = Mib /\ Kernel.start = Mib /\ Kernel.size = kernelSize
      /\ Mib \in Nat /\ kernelSize \in Nat /\ Page \in Nat
  BY <1>5, ReservedParts, Sizes
<1>9. f >= Mib + kernelSize
  BY <1>4, <1>6, <1>7, <1>8
<1>10. /\ ~Overlap([start |-> f, size |-> Page], Low)
       /\ ~Overlap([start |-> f, size |-> Page], Kernel)
  BY <1>4, <1>8, <1>9 DEF Overlap
<1>11. PICK a \in Available : Within(regions[k], reported[a])
  BY <1>2 DEF Owned
<1>12. reported[a].start \in Nat /\ reported[a].size \in Nat
  BY <1>5, ReportedParts DEF Available
<1>13. f >= reported[a].start /\ f < reported[a].start + reported[a].size
  BY <1>4, <1>6, <1>11, <1>12 DEF Within
<1>14. ASSUME PageBounded PROVE f + Page <= reported[a].start + reported[a].size
  <2>1. regions[k].start % Page = 0 /\ (regions[k].start + regions[k].size) % Page = 0
    BY <1>14 DEF PagesInv, AllOnPages, OnPages, AllBegin
  <2>2. PICK s \in Nat, e \in Nat : s = regions[k].start /\ e = regions[k].start + regions[k].size
    BY <1>6
  <2>3. s % Page = 0 /\ e % Page = 0 /\ (f - s) % Page = 0 /\ s <= f /\ f < e
    BY <1>4, <1>6, <2>1, <2>2
  <2>4. Page \in Nat /\ Page > 0
    BY Sizes
  <2>5. f + Page <= e
    BY ONLY <2>3, <2>4, WholeFrame, s \in Nat, e \in Nat, <1>4
  <2> QED BY <1>6, <1>11, <1>12, <2>2, <2>4, <2>5, <1>4 DEF Within
<1> QED BY <1>10, <1>13, <1>14

\* For every ordinary firmware map, kernel size, page size and room in the
\* map: no frame handed to the frame allocator touches the first MiB or the
\* kernel image, each begins in memory that was reported available, and is
\* whole in it if the entries begin and end at pages.
THEOREM FramesStayOutsideReserved == MregSpec => []FramesOutsideReserved
<1>1. MregInit => MregInv /\ PagesInv
  <2>1. MregInit => PagesInv
    BY DEF MregInit, PagesInv, AllOnPages
  <2> QED BY <2>1, MregInitial
<1>2. MregInv /\ PagesInv /\ [MregNext]_mregVars => MregInv' /\ PagesInv'
  BY MregStep, PagesStep
<1>3. MregInv /\ PagesInv => FramesOutsideReserved
  BY MregInvImplies
<1> QED BY <1>1, <1>2, <1>3, PTL DEF MregSpec

-----------------------------------------------------------------------------
\* Strings and conversions.
LEMMA Division ==
    ASSUME NEW b \in Nat, b >= 2, NEW k \in Nat
    PROVE  /\ k \div b \in Nat /\ k % b \in 0 .. b - 1 /\ k = (k \div b) * b + (k % b)
           /\ k \div b <= k /\ (k > 0 => k \div b < k)
<1>1. PICK q : q = k \div b
  OBVIOUS
<1>2. PICK x : x = k % b
  OBVIOUS
<1>3. q \in Nat /\ x \in Nat /\ x < b /\ k = b * q + x
  BY <1>1, <1>2
<1>4. q * b = b * q /\ b * q >= 2 * q
  BY ONLY <1>3, b \in Nat, b >= 2
<1>5. q <= k /\ (k > 0 => q < k)
  BY ONLY <1>3, <1>4, k \in Nat
<1> QED BY ONLY <1>1, <1>2, <1>3, <1>4, <1>5, b \in Nat

\* The digits that lltoa finds, as the function that Digits chooses.
FoundEq(f, n, b) == f = [k \in 0 .. n |-> IF k = 0 THEN <<>> ELSE <<k % b>> \o f[k \div b]]

LEMMA FoundExists ==
    ASSUME NEW b \in Nat, b >= 2, NEW n \in Nat
    PROVE  \E f : FoundEq(f, n, b)
<1> DEFINE T == {k \in Nat : ~\E f : FoundEq(f, k, b)}
<1> SUFFICES ASSUME T # {} PROVE FALSE
  OBVIOUS
<1>0. T \in SUBSET Nat
  OBVIOUS
<1>1. PICK x \in T : \A y \in T : x <= y
  <2> HIDE DEF T
  <2> QED BY <1>0, LeastNatural
<1>2. x \in Nat /\ ~\E f : FoundEq(f, x, b)
  OBVIOUS
<1>3. CASE x = 0
  <2>1. PICK g : g = [i \in 0 .. 0 |-> <<>>]
    OBVIOUS
  <2>2. FoundEq(g, 0, b)
    BY ONLY <2>1 DEF FoundEq
  <2> QED BY <1>2, <1>3, <2>2
<1>4. CASE x # 0
  <2>1. x - 1 \in Nat /\ x - 1 \notin T
    BY <1>1, <1>2, <1>4
  <2>2. PICK f : FoundEq(f, x - 1, b)
    BY <2>1
  <2>3. PICK z : z = <<x % b>> \o f[x \div b]
    OBVIOUS
  <2>4. PICK g : g = [i \in 0 .. x |-> IF i = x THEN z ELSE f[i]]
    OBVIOUS
  <2>5. \A i \in 0 .. x - 1 : f[i] = IF i = 0 THEN <<>> ELSE <<i % b>> \o f[i \div b]
    BY ONLY <2>2 DEF FoundEq
  <2>6. ASSUME NEW i \in 0 .. x PROVE g[i] = IF i = 0 THEN <<>> ELSE <<i % b>> \o g[i \div b]
    <3>1. i \div b \in Nat /\ i \div b <= i /\ (i > 0 => i \div b < i)
      BY ONLY <1>2, b \in Nat, b >= 2, i \in 0 .. x, Division
    <3>2. i # 0 => g[i \div b] = f[i \div b]
      <4>1. PICK q : q = i \div b
        OBVIOUS
      <4> QED BY ONLY <1>2, <2>4, <3>1, <4>1, i \in 0 .. x
    <3>3. CASE i = x
      BY ONLY <1>4, <2>3, <2>4, <3>2, <3>3, i \in 0 .. x
    <3>4. CASE i # x
      <4>1. i \in 0 .. x - 1 /\ g[i] = f[i]
        BY ONLY <1>2, <2>4, <3>4, i \in 0 .. x
      <4> QED BY ONLY <2>5, <3>2, <4>1
    <3> QED BY <3>3, <3>4
  <2>7. g = [i \in 0 .. x |-> g[i]]
    BY ONLY <2>4
  <2>8. FoundEq(g, x, b)
    BY ONLY <2>6, <2>7 DEF FoundEq
  <2> QED BY <1>2, <2>8
<1> QED BY <1>3, <1>4

\* The sums a reader makes of the digits s, up to the number n.
Sums(w, s, b, n) ==
    /\ w \in [0 .. Len(s) -> 0 .. n] /\ w[0] = 0 /\ w[Len(s)] = n
    /\ \A i \in 1 .. Len(s) : w[i] = w[i - 1] * b + s[i]
DigitsOf(s, b, n) == s \in Seq(0 .. b - 1) /\ \E w : Sums(w, s, b, n)

\* One more digit.
Turned(S, s, d, t) ==
    /\ t \in Seq(S) /\ Len(t) = Len(s) + 1 /\ t[Len(s) + 1] = d
    /\ \A i \in 1 .. Len(s) : t[i] = Reverse(s)[i]

LEMMA ReverseGrows ==
    ASSUME NEW S, NEW s \in Seq(S), NEW d \in S, NEW t, t = Reverse(<<d>> \o s)
    PROVE  Turned(S, s, d, t) /\ Reverse(s) \in Seq(S) /\ Len(Reverse(s)) = Len(s)
<1>1. PICK u : u = <<d>> \o s
  OBVIOUS
<1>2. u \in Seq(S) /\ Len(u) = Len(s) + 1 /\ u[1] = d /\ \A i \in 1 .. Len(s) : u[i + 1] = s[i]
  BY <1>1
<1>3. Len(s) \in Nat
  OBVIOUS
<1>4. t = [i \in 1 .. Len(s) + 1 |-> u[(Len(s) + 1 - i) + 1]]
  BY ONLY <1>1, <1>2, t = Reverse(<<d>> \o s) DEF Reverse
<1>5. \A i \in 1 .. Len(s) + 1 : u[i] \in S
  BY <1>2
<1>6. t \in [1 .. Len(s) + 1 -> S]
  <2>1. \A i \in 1 .. Len(s) + 1 : (Len(s) + 1 - i) + 1 \in 1 .. Len(s) + 1
    BY ONLY <1>3
  <2> QED BY ONLY <1>4, <1>5, <2>1
<1>7. t \in Seq(S) /\ Len(t) = Len(s) + 1
  <2>1. Len(s) + 1 \in Nat
    BY ONLY <1>3
  <2> QED BY ONLY <1>6, <2>1
<1>8. t[Len(s) + 1] = d
  BY ONLY <1>2, <1>3, <1>4
<1>9. Reverse(s) = [i \in 1 .. Len(s) |-> s[(Len(s) - i) + 1]]
  BY DEF Reverse
<1>10. ASSUME NEW i \in 1 .. Len(s) PROVE t[i] = Reverse(s)[i]
  <2>1. (Len(s) - i) + 1 \in 1 .. Len(s) /\ (Len(s) + 1 - i) + 1 = ((Len(s) - i) + 1) + 1
        /\ i \in 1 .. Len(s) + 1
    BY ONLY <1>3, i \in 1 .. Len(s)
  <2>2. t[i] = u[((Len(s) - i) + 1) + 1]
    BY ONLY <1>4, <2>1
  <2>3. t[i] = s[(Len(s) - i) + 1]
    BY ONLY <1>2, <2>1, <2>2
  <2> QED BY ONLY <1>9, <2>3, i \in 1 .. Len(s)
<1>11. Reverse(s) \in Seq(S) /\ Len(Reverse(s)) = Len(s)
  <2>1. \A i \in 1 .. Len(s) : (Len(s) - i) + 1 \in 1 .. Len(s)
    BY ONLY <1>3
  <2>2. \A i \in 1 .. Len(s) : s[(Len(s) - i) + 1] \in S
    BY <2>1
  <2>3. Reverse(s) \in [1 .. Len(s) -> S]
    BY ONLY <1>9, <2>2
  <2> QED BY ONLY <1>3, <2>3
<1> QED BY ONLY <1>7, <1>8, <1>10, <1>11 DEF Turned

LEMMA DigitAdded ==
    ASSUME NEW b \in Nat, b >= 2, NEW k \in Nat, k > 0,
           NEW s, NEW t, DigitsOf(s, b, k \div b),
           t \in Seq(0 .. b - 1), Len(t) = Len(s) + 1, t[Len(s) + 1] = k % b,
           \A i \in 1 .. Len(s) : t[i] = s[i]
    PROVE  DigitsOf(t, b, k)
<1>1. PICK q : q = k \div b
  OBVIOUS
<1>2. q \in Nat /\ k % b \in 0 .. b - 1 /\ k = q * b + (k % b) /\ q <= k
  BY <1>1, Division
<1>3. s \in Seq(0 .. b - 1) /\ Len(s) \in Nat
  BY DEF DigitsOf
<1>4. PICK w : Sums(w, s, b, q)
  BY <1>1 DEF DigitsOf
<1>5. /\ w \in [0 .. Len(s) -> 0 .. q] /\ w[0] = 0 /\ w[Len(s)] = q
      /\ \A i \in 1 .. Len(s) : w[i] = w[i - 1] * b + s[i]
  BY ONLY <1>4 DEF Sums
<1>6. PICK l \in Nat : l = Len(s)
  BY ONLY <1>3
<1>7. PICK v : v = [i \in 0 .. l + 1 |-> IF i = l + 1 THEN k ELSE w[i]]
  OBVIOUS
<1>8. v \in [0 .. l + 1 -> 0 .. k] /\ v[0] = 0 /\ v[l + 1] = k
  <2>1. ASSUME NEW i \in 0 .. l + 1, i # l + 1 PROVE w[i] \in 0 .. k
    <3>1. i \in 0 .. Len(s)
      BY ONLY <1>6, <2>1, i \in 0 .. l + 1
    <3>2. w[i] \in 0 .. q
      BY ONLY <1>5, <3>1
    <3> QED BY ONLY <1>2, <3>2, k \in Nat
  <2>2. k \in 0 .. k
    OBVIOUS
  <2> QED BY ONLY <1>5, <1>6, <1>7, <2>1, <2>2
<1>9. ASSUME NEW i \in 1 .. l + 1 PROVE v[i] = v[i - 1] * b + t[i]
  <2>1. CASE i = l + 1
    <3>1. v[i] = k /\ v[i - 1] = q /\ t[i] = k % b
      BY ONLY <1>5, <1>6, <1>7, <2>1, t[Len(s) + 1] = k % b
    <3> QED BY ONLY <1>2, <3>1
  <2>2. CASE i # l + 1
    <3>1. i \in 1 .. l /\ i - 1 \in 0 .. l
      BY ONLY <1>6, <2>2, i \in 1 .. l + 1
    <3>2. v[i] = w[i] /\ v[i - 1] = w[i - 1]
      BY ONLY <1>6, <1>7, <3>1
    <3>3. t[i] = s[i]
      BY ONLY <1>6, <3>1, \A j \in 1 .. Len(s) : t[j] = s[j]
    <3> QED BY ONLY <1>5, <1>6, <3>1, <3>2, <3>3
  <2> QED BY ONLY <2>1, <2>2
<1>10. Sums(v, t, b, k)
  BY ONLY <1>6, <1>8, <1>9, Len(t) = Len(s) + 1 DEF Sums
<1> QED BY <1>10 DEF DigitsOf

\* What lltoa and ulltoa write is the number.
LEMMA DigitsExact ==
    ASSUME NEW b \in Nat, b >= 2, NEW n \in Nat
    PROVE  DigitsOf(Digits(n, b), b, n)
<1> DEFINE f == CHOOSE g : FoundEq(g, n, b)
           S == 0 .. b - 1
<1>1. Digits(n, b) = Reverse(f[n])
  BY DEF Digits, FoundEq
<1>2. FoundEq(f, n, b)
  BY FoundExists
<1> HIDE DEF f, S
<1>3. \A k \in 0 .. n : f[k] = IF k = 0 THEN <<>> ELSE <<k % b>> \o f[k \div b]
  BY ONLY <1>2 DEF FoundEq
<1> DEFINE Good(k) == f[k] \in Seq(S) /\ DigitsOf(Reverse(f[k]), b, k)
           T == {k \in Nat : k <= n /\ ~Good(k)}
<1>4. ASSUME T # {} PROVE FALSE
  <2>0. T \in SUBSET Nat
    OBVIOUS
  <2>1. PICK x \in T : \A y \in T : x <= y
    <3> HIDE DEF T
    <3> QED BY <1>4, <2>0, LeastNatural
  <2>2. x \in Nat /\ x <= n /\ ~Good(x) /\ x \in 0 .. n
    OBVIOUS
  <2>3. CASE x = 0
    <3>1. f[x] = <<>>
      BY ONLY <1>3, <2>2, <2>3
    <3>2. PICK r : r = Reverse(f[x])
      OBVIOUS
    <3>3. r \in Seq(0 .. b - 1) /\ Len(r) = 0 /\ f[x] \in Seq(S)
      BY ONLY <3>1, <3>2 DEF Reverse
    <3>4. PICK w : w = [i \in 0 .. 0 |-> 0]
      OBVIOUS
    <3>5. Sums(w, r, b, 0)
      BY ONLY <3>3, <3>4 DEF Sums
    <3>6. DigitsOf(r, b, x)
      BY ONLY <2>3, <3>3, <3>5 DEF DigitsOf
    <3> QED BY ONLY <2>2, <3>2, <3>3, <3>6
  <2>4. CASE x # 0
    <3>1. PICK q : q = x \div b
      OBVIOUS
    <3>2. q \in Nat /\ q < x /\ x % b \in S
      <4>1. x > 0
        BY ONLY <2>2, <2>4
      <4>2. x \div b \in Nat /\ x \div b < x /\ x % b \in 0 .. b - 1
        BY ONLY <2>2, <4>1, b \in Nat, b >= 2, Division
      <4> QED BY ONLY <3>1, <4>2 DEF S
    <3>3. Good(q)
      <4>1. q \notin T
        <5> HIDE DEF T
        <5> QED BY ONLY <2>1, <2>2, <3>2
      <4>2. q <= n
        BY ONLY <2>2, <3>2, n \in Nat
      <4> QED BY ONLY <3>2, <4>1, <4>2
    <3>4. f[x] = <<x % b>> \o f[q]
      BY ONLY <1>3, <2>2, <2>4, <3>1
    <3>5. PICK t : t = Reverse(f[x])
      OBVIOUS
    <3>6. PICK s : s = f[q]
      OBVIOUS
    <3>7. Turned(S, s, x % b, t) /\ Reverse(s) \in Seq(S) /\ Len(Reverse(s)) = Len(s)
      BY ONLY <3>2, <3>3, <3>4, <3>5, <3>6, ReverseGrows
    <3>8. DigitsOf(t, b, x)
      <4>1. PICK r : r = Reverse(s)
        OBVIOUS
      <4>2. DigitsOf(r, b, x \div b)
        BY ONLY <3>1, <3>3, <3>6, <4>1
      <4>3. t \in Seq(0 .. b - 1) /\ Len(t) = Len(r) + 1 /\ t[Len(r) + 1] = x % b
            /\ \A i \in 1 .. Len(r) : t[i] = r[i]
        BY ONLY <3>7, <4>1 DEF Turned, S
      <4>4. x > 0
        BY ONLY <2>2, <2>4
      <4> QED BY ONLY <2>2, <4>2, <4>3, <4>4, b \in Nat, b >= 2, DigitAdded
    <3>9. f[x] \in Seq(S)
      BY ONLY <3>2, <3>3, <3>4
    <3> QED BY ONLY <2>2, <3>5, <3>8, <3>9
  <2> QED BY <2>3, <2>4
<1>5. Good(n)
  BY <1>4
<1> QED BY <1>1, <1>5


\* The sums that are made: NumberOf's, and the conversion of strtoul.
NumberEq(f, s, b) == f = [i \in 0 .. Len(s) |-> IF i = 0 THEN 0 ELSE f[i - 1] * b + s[i]]
ConvertEq(f, s, b) ==
    f = [i \in 0 .. Len(s) |->
            IF i = 0 THEN [out |-> 0, error |-> "none"] ELSE Accumulate(f[i - 1], s[i], b)]

LEMMA NumberExact ==
    ASSUME NEW b \in Nat, NEW n \in Nat, NEW s, DigitsOf(s, b, n)
    PROVE  NumberOf(s, b) = n
<1> DEFINE f == CHOOSE g : NumberEq(g, s, b)
<1>1. NumberOf(s, b) = f[Len(s)]
  BY DEF NumberOf, NumberEq
<1>2. PICK w : Sums(w, s, b, n)
  BY DEF DigitsOf
<1>3. Len(s) \in Nat
  BY DEF DigitsOf
<1>4. /\ w \in [0 .. Len(s) -> 0 .. n] /\ w[0] = 0 /\ w[Len(s)] = n
      /\ \A i \in 1 .. Len(s) : w[i] = w[i - 1] * b + s[i]
  BY ONLY <1>2 DEF Sums
<1>5. NumberEq(w, s, b)
  <2>1. \A i \in 0 .. Len(s) : w[i] = IF i = 0 THEN 0 ELSE w[i - 1] * b + s[i]
    BY ONLY <1>3, <1>4
  <2>2. w = [i \in 0 .. Len(s) |-> w[i]]
    BY ONLY <1>4
  <2> QED BY ONLY <2>1, <2>2 DEF NumberEq
<1>6. NumberEq(f, s, b)
  BY <1>5
<1> HIDE DEF f
<1>7. \A i \in 0 .. Len(s) : f[i] = IF i = 0 THEN 0 ELSE f[i - 1] * b + s[i]
  BY ONLY <1>6 DEF NumberEq
<1> DEFINE T == {i \in Nat : i <= Len(s) /\ f[i] # w[i]}
<1>8. ASSUME T # {} PROVE FALSE
  <2>0. T \in SUBSET Nat
    OBVIOUS
  <2>1. PICK x \in T : \A y \in T : x <= y
    <3> HIDE DEF T
    <3> QED BY <1>8, <2>0, LeastNatural
  <2>2. x \in Nat /\ x <= Len(s) /\ f[x] # w[x] /\ x \in 0 .. Len(s)
    BY <1>3
  <2>3. CASE x = 0
    BY ONLY <1>4, <1>7, <2>2, <2>3
  <2>4. CASE x # 0
    <3>1. x - 1 \in Nat /\ x - 1 \notin T
      BY <2>1, <2>2, <2>4
    <3>2. f[x - 1] = w[x - 1]
      BY <1>3, <2>2, <3>1
    <3>3. x \in 1 .. Len(s)
      BY ONLY <1>3, <2>2, <2>4
    <3> QED BY ONLY <1>4, <1>7, <2>2, <2>4, <3>2, <3>3
  <2> QED BY <2>3, <2>4
<1>9. f[Len(s)] = w[Len(s)]
  BY <1>3, <1>8
<1> QED BY <1>1, <1>4, <1>9

\* What the loop of strtoul computes is one function.
LEMMA ConvertUnique ==
    ASSUME NEW b, NEW s, Len(s) \in Nat, NEW f, NEW v, ConvertEq(f, s, b), ConvertEq(v, s, b)
    PROVE  f[Len(s)] = v[Len(s)]
<1>1. \A i \in 0 .. Len(s) :
        f[i] = IF i = 0 THEN [out |-> 0, error |-> "none"] ELSE Accumulate(f[i - 1], s[i], b)
  BY DEF ConvertEq
<1>2. \A i \in 0 .. Len(s) :
        v[i] = IF i = 0 THEN [out |-> 0, error |-> "none"] ELSE Accumulate(v[i - 1], s[i], b)
  BY DEF ConvertEq
<1> DEFINE T == {i \in Nat : i <= Len(s) /\ f[i] # v[i]}
<1>3. ASSUME T # {} PROVE FALSE
  <2>0. T \in SUBSET Nat
    OBVIOUS
  <2>1. PICK x \in T : \A y \in T : x <= y
    <3> HIDE DEF T
    <3> QED BY <1>3, <2>0, LeastNatural
  <2>2. x \in Nat /\ x <= Len(s) /\ f[x] # v[x] /\ x \in 0 .. Len(s)
    OBVIOUS
  <2>3. CASE x = 0
    BY ONLY <1>1, <1>2, <2>2, <2>3
  <2>4. CASE x # 0
    <3>1. x - 1 \in Nat /\ x - 1 \notin T
      BY <2>1, <2>2, <2>4
    <3>2. f[x - 1] = v[x - 1]
      BY <2>2, <3>1
    <3> QED BY ONLY <1>1, <1>2, <2>2, <2>4, <3>2
  <2> QED BY <2>3, <2>4
<1> QED BY <1>3

\* As long as the number is in range no sum overflows.
LEMMA ConvertExact ==
    ASSUME NEW b \in Nat, b >= 2, NEW n \in Nat, n < ULong, NEW s, DigitsOf(s, b, n)
    PROVE  Converted(s, b) = [out |-> n, error |-> "none"]
<1> DEFINE f == CHOOSE g : ConvertEq(g, s, b)
<1>1. Converted(s, b) = f[Len(s)]
  BY DEF Converted, ConvertEq
<1>2. PICK w : Sums(w, s, b, n)
  BY DEF DigitsOf
<1>3. s \in Seq(0 .. b - 1) /\ Len(s) \in Nat
  BY DEF DigitsOf
<1>4. /\ w \in [0 .. Len(s) -> 0 .. n] /\ w[0] = 0 /\ w[Len(s)] = n
      /\ \A i \in 1 .. Len(s) : w[i] = w[i - 1] * b + s[i]
  BY ONLY <1>2 DEF Sums
<1>5. PICK v : v = [i \in 0 .. Len(s) |-> [out |-> w[i], error |-> "none"]]
  OBVIOUS
<1>6. ULong \in Nat /\ ULong > 0
  BY StdlibAssumption
<1>7. ASSUME NEW i \in 1 .. Len(s) PROVE v[i] = Accumulate(v[i - 1], s[i], b)
  <2>1. i \in 0 .. Len(s) /\ i - 1 \in 0 .. Len(s)
    BY ONLY <1>3, i \in 1 .. Len(s)
  <2>2. PICK x : x = w[i - 1]
    OBVIOUS
  <2>3. PICK y : y = w[i]
    OBVIOUS
  <2>4. PICK d : d = s[i]
    OBVIOUS
  <2>5. x \in 0 .. n /\ y \in 0 .. n
    BY ONLY <1>4, <2>1, <2>2, <2>3
  <2>6. d \in 0 .. b - 1
    BY ONLY <1>3, <2>4, i \in 1 .. Len(s)
  <2>7. y = x * b + d
    BY ONLY <1>4, <2>2, <2>3, <2>4, i \in 1 .. Len(s)
  <2>8. y >= x
    <3>1. x * b >= x
      BY ONLY <2>5, b \in Nat, b >= 2, n \in Nat
    <3>2. PICK z : z = x * b
      OBVIOUS
    <3>3. z \in Int
      BY ONLY <3>2, <2>5, b \in Nat, n \in Nat
    <3> QED BY ONLY <2>5, <2>6, <2>7, <3>1, <3>2, <3>3, b \in Nat, n \in Nat
  <2>9. Unsigned(x * b + d) = y
    <3>1. y % ULong = y
      BY ONLY <1>6, <2>5, n \in Nat, n < ULong
    <3> QED BY ONLY <2>7, <3>1 DEF Unsigned
  <2>10. PICK a : a = [out |-> x, error |-> "none"]
    OBVIOUS
  <2>11. Accumulate(a, d, b) = [out |-> y, error |-> "none"]
    <3>1. a.out = x /\ a.error = "none"
      BY ONLY <2>10
    <3>2. ~(y < a.out)
      BY ONLY <2>5, <2>8, <3>1, n \in Nat
    <3>3. Unsigned(a.out * b + d) = y
      BY ONLY <2>9, <3>1
    <3> QED BY ONLY <3>1, <3>2, <3>3 DEF Accumulate
  <2>12. v[i] = [out |-> y, error |-> "none"] /\ v[i - 1] = a
    BY ONLY <1>5, <2>1, <2>2, <2>3, <2>10
  <2> QED BY ONLY <2>4, <2>11, <2>12
<1>8. ConvertEq(v, s, b)
  <2>1. v[0] = [out |-> 0, error |-> "none"]
    BY ONLY <1>3, <1>4, <1>5
  <2>2. \A i \in 0 .. Len(s) : i = 0 \/ i \in 1 .. Len(s)
    BY ONLY <1>3
  <2>3. \A i \in 0 .. Len(s) :
            v[i] = IF i = 0 THEN [out |-> 0, error |-> "none"] ELSE Accumulate(v[i - 1], s[i], b)
    BY ONLY <1>7, <2>1, <2>2
  <2>4. v = [i \in 0 .. Len(s) |-> v[i]]
    BY ONLY <1>5
  <2> QED BY ONLY <2>3, <2>4 DEF ConvertEq
<1>9. ConvertEq(f, s, b)
  BY <1>8
<1> HIDE DEF f
<1>12. f[Len(s)] = v[Len(s)]
  BY ONLY <1>3, <1>8, <1>9, ConvertUnique
<1> QED BY <1>1, <1>3, <1>4, <1>5, <1>12

\* Any digits amount to a number.
Amounts(w, s, b, k) ==
    /\ w \in [0 .. k -> 0 .. w[k]] /\ w[0] = 0
    /\ \A i \in 1 .. k : w[i] = w[i - 1] * b + s[i]

LEMMA AnyDigits ==
    ASSUME NEW b \in Nat, b >= 2, NEW s \in Seq(0 .. b - 1)
    PROVE  \E n \in Nat : DigitsOf(s, b, n)
<1> DEFINE T == {k \in Nat : k <= Len(s) /\ ~\E w : w[k] \in Nat /\ Amounts(w, s, b, k)}
<1>1. Len(s) \in Nat
  OBVIOUS
<1>2. ASSUME T # {} PROVE FALSE
  <2>0. T \in SUBSET Nat
    OBVIOUS
  <2>1. PICK x \in T : \A y \in T : x <= y
    <3> HIDE DEF T
    <3> QED BY <1>2, <2>0, LeastNatural
  <2>2. x \in Nat /\ x <= Len(s) /\ ~\E w : w[x] \in Nat /\ Amounts(w, s, b, x)
    OBVIOUS
  <2>3. CASE x = 0
    <3>1. PICK w : w = [i \in 0 .. 0 |-> 0]
      OBVIOUS
    <3>2. w[0] = 0 /\ 0 \in Nat
      BY ONLY <3>1
    <3>3. w \in [0 .. 0 -> 0 .. 0] /\ \A i \in 1 .. 0 : w[i] = w[i - 1] * b + s[i]
      BY ONLY <3>1
    <3>4. Amounts(w, s, b, 0)
      BY ONLY <3>2, <3>3 DEF Amounts
    <3> QED BY ONLY <2>2, <2>3, <3>2, <3>4
  <2>4. CASE x # 0
    <3>1. x - 1 \in Nat /\ x - 1 \notin T
      BY <2>1, <2>2, <2>4
    <3>2. PICK w : w[x - 1] \in Nat /\ Amounts(w, s, b, x - 1)
      BY <1>1, <2>2, <3>1
    <3>3. PICK m \in Nat : m = w[x - 1]
      BY ONLY <3>2
    <3>4. PICK d \in Nat : d = s[x]
      <4>1. x \in 1 .. Len(s)
        BY ONLY <1>1, <2>2, <2>4
      <4>2. s[x] \in 0 .. b - 1
        BY ONLY <4>1, s \in Seq(0 .. b - 1)
      <4>3. 0 .. b - 1 \subseteq Nat
        OBVIOUS
      <4> QED BY ONLY <4>2, <4>3
    <3>5. PICK n \in Nat : n = m * b + d /\ m <= n
      <4>1. m * b \in Nat /\ m <= m * b
        BY ONLY m \in Nat, b \in Nat, b >= 2
      <4>2. PICK p \in Nat : p = m * b
        BY ONLY <4>1
      <4> QED BY ONLY <4>1, <4>2, d \in Nat, m \in Nat, p \in Nat
    <3>6. PICK g : g = [i \in 0 .. x |-> IF i = x THEN n ELSE w[i]]
      OBVIOUS
    <3>7. w \in [0 .. x - 1 -> 0 .. m] /\ w[0] = 0
          /\ \A i \in 1 .. x - 1 : w[i] = w[i - 1] * b + s[i]
      BY ONLY <3>2, <3>3 DEF Amounts
    <3>8. g[x] = n /\ \A i \in 0 .. x - 1 : g[i] = w[i]
      BY ONLY <2>2, <3>6
    <3>9. \A i \in 0 .. x - 1 : g[i] \in 0 .. n
      BY ONLY <3>5, <3>7, <3>8, m \in Nat, n \in Nat
    <3>10. \A i \in 0 .. x : i \in 0 .. x - 1 \/ i = x
      BY ONLY <2>2
    <3>11. g \in [0 .. x -> 0 .. n]
      <4>1. \A i \in 0 .. x : g[i] \in 0 .. n
        BY ONLY <3>8, <3>9, <3>10, n \in Nat
      <4>2. g = [i \in 0 .. x |-> g[i]]
        BY ONLY <3>6
      <4> QED BY ONLY <4>1, <4>2
    <3>12. g[0] = 0
      <4>1. 0 \in 0 .. x - 1
        BY ONLY <3>1
      <4> QED BY ONLY <3>7, <3>8, <4>1
    <3>13. ASSUME NEW i \in 1 .. x PROVE g[i] = g[i - 1] * b + s[i]
      <4>1. CASE i = x
        <5>1. x - 1 \in 0 .. x - 1
          BY ONLY <3>1
        <5> QED BY ONLY <3>3, <3>4, <3>5, <3>8, <4>1, <5>1
      <4>2. CASE i # x
        <5>1. i \in 1 .. x - 1 /\ i \in 0 .. x - 1 /\ i - 1 \in 0 .. x - 1
          BY ONLY <2>2, <4>2, i \in 1 .. x
        <5> QED BY ONLY <3>7, <3>8, <5>1
      <4> QED BY ONLY <4>1, <4>2
    <3>14. Amounts(g, s, b, x)
      BY ONLY <3>8, <3>11, <3>12, <3>13 DEF Amounts
    <3> QED BY ONLY <2>2, <3>8, <3>14, n \in Nat
  <2> QED BY <2>3, <2>4
<1>3. Len(s) \notin T
  BY <1>2
<1>4. PICK w : w[Len(s)] \in Nat /\ Amounts(w, s, b, Len(s))
  BY <1>1, <1>3
<1>5. PICK n \in Nat : n = w[Len(s)]
  BY ONLY <1>4
<1>6. Sums(w, s, b, n)
  BY ONLY <1>4, <1>5 DEF Amounts, Sums
<1> QED BY ONLY <1>6, s \in Seq(0 .. b - 1), n \in Nat DEF DigitsOf

SumOf(U, x, b, d, r, y, z) == r = x % U /\ y = x * b + d /\ z = r * b + d

LEMMA ModSum ==
    ASSUME NEW U \in Nat, U > 0, NEW x \in Nat, NEW b \in Nat, NEW d \in Nat, NEW r,
           NEW y, NEW z, SumOf(U, x, b, d, r, y, z)
    PROVE  z % U = y % U
<1>0. r = x % U /\ y = x * b + d /\ z = r * b + d
  BY DEF SumOf
<1>1. PICK q \in Nat : r \in Nat /\ x = U * q + r
  BY ONLY <1>0, Divided, U \in Nat, U > 0, x \in Nat
<1>2. x * b + d = U * (q * b) + (r * b + d)
  <2>1. x * b = U * (q * b) + r * b
    BY ONLY <1>1, U \in Nat, x \in Nat, b \in Nat, q \in Nat
  <2>2. PICK e \in Int, f \in Int : e = U * (q * b) /\ f = r * b
    <3>1. U * (q * b) \in Int /\ r * b \in Int
      BY ONLY <1>1, U \in Nat, b \in Nat, q \in Nat
    <3> QED BY ONLY <3>1
  <2> QED BY ONLY <2>1, <2>2, d \in Nat
<1>3. (U * (q * b) + (r * b + d)) % U = (r * b + d) % U
  <2>1. q * b \in Int /\ r * b + d \in Int
    BY ONLY <1>1, b \in Nat, q \in Nat, d \in Nat
  <2> QED BY ONLY <2>1, ModShift, U \in Nat, U > 0
<1> QED BY ONLY <1>0, <1>2, <1>3

LEMMA ModMinus ==
    ASSUME NEW U \in Nat, U > 0, NEW x \in Nat, NEW r, r = x % U
    PROVE  (-r) % U = (-x) % U
<1>1. PICK q \in Nat : r \in Nat /\ x = U * q + r
  BY ONLY Divided, U \in Nat, U > 0, x \in Nat, r = x % U
<1>2. -x = U * (-q) + (-r)
  <2>1. U * (-q) = -(U * q)
    BY ONLY U \in Nat, q \in Nat
  <2>2. PICK e \in Int : e = U * q
    <3>1. U * q \in Int
      BY ONLY U \in Nat, q \in Nat
    <3> QED BY ONLY <3>1
  <2> QED BY ONLY <1>1, <2>1, <2>2, x \in Nat
<1>3. (U * (-q) + (-r)) % U = (-r) % U
  <2>1. -q \in Int /\ -r \in Int
    BY ONLY <1>1, q \in Nat
  <2> QED BY ONLY <2>1, ModShift, U \in Nat, U > 0
<1> QED BY ONLY <1>2, <1>3

\* strtoul's loop over any digits: the number modulo the range, or an error
\* that a number out of range has caused.
LEMMA ConvertAny ==
    ASSUME NEW b \in Nat, b >= 2, NEW n \in Nat, NEW s, DigitsOf(s, b, n)
    PROVE  \/ Converted(s, b) = [out |-> n % ULong, error |-> "none"]
           \/ n >= ULong /\ Converted(s, b) = [out |-> ULong - 1, error |-> "ERANGE"]
<1> DEFINE f == CHOOSE g : ConvertEq(g, s, b)
<1>1. Converted(s, b) = f[Len(s)]
  BY DEF Converted, ConvertEq
<1>2. PICK w : Sums(w, s, b, n)
  BY DEF DigitsOf
<1>3. s \in Seq(0 .. b - 1) /\ Len(s) \in Nat
  BY DEF DigitsOf
<1>4. /\ w \in [0 .. Len(s) -> 0 .. n] /\ w[0] = 0 /\ w[Len(s)] = n
      /\ \A i \in 1 .. Len(s) : w[i] = w[i - 1] * b + s[i]
  BY ONLY <1>2 DEF Sums
<1>u. ULong \in Nat /\ ULong > 0
  BY StdlibAssumption
<1> DEFINE Wraps(j) == w[j] % ULong < w[j - 1] % ULong
<1>5. PICK v : v = [i \in 0 .. Len(s) |->
                      IF \E j \in 1 .. i : Wraps(j) THEN [out |-> ULong - 1, error |-> "ERANGE"]
                      ELSE [out |-> w[i] % ULong, error |-> "none"]]
  OBVIOUS
<1>6. ASSUME NEW i \in 1 .. Len(s)
      PROVE  /\ v[i] = Accumulate(v[i - 1], s[i], b)
             /\ Wraps(i) => n >= ULong
  <2>1. i \in 0 .. Len(s) /\ i - 1 \in 0 .. Len(s) /\ i \in Nat /\ i \in 1 .. i
    BY ONLY <1>3, i \in 1 .. Len(s)
  <2>2. PICK x \in Nat : x = w[i - 1] /\ x <= n
    BY ONLY <1>4, <2>1, n \in Nat
  <2>3. PICK y \in Nat : y = w[i] /\ y <= n
    BY ONLY <1>4, <2>1, n \in Nat
  <2>4. PICK d \in Nat : d = s[i]
    <3>1. s[i] \in 0 .. b - 1
      BY ONLY <1>3, i \in 1 .. Len(s)
    <3>2. 0 .. b - 1 \subseteq Nat
      BY ONLY b \in Nat
    <3> QED BY ONLY <3>1, <3>2
  <2>5. y = x * b + d
    BY ONLY <1>4, <2>2, <2>3, <2>4, i \in 1 .. Len(s)
  <2>6. y >= x
    <3>1. x * b \in Nat /\ x * b >= x
      BY ONLY x \in Nat, b \in Nat, b >= 2
    <3>2. PICK z \in Nat : z = x * b
      BY ONLY <3>1
    <3> QED BY ONLY <2>5, <3>1, <3>2, x \in Nat, y \in Nat, z \in Nat, d \in Nat
  <2>7. Unsigned((x % ULong) * b + d) = y % ULong
    <3>1. PICK r : r = x % ULong
      OBVIOUS
    <3>2. PICK z : z = r * b + d
      OBVIOUS
    <3>3. SumOf(ULong, x, b, d, r, y, z)
      BY ONLY <2>5, <3>1, <3>2 DEF SumOf
    <3>4. z % ULong = y % ULong
      BY ONLY <1>u, <3>3, ModSum, x \in Nat, b \in Nat, d \in Nat
    <3> QED BY ONLY <3>1, <3>2, <3>4 DEF Unsigned
  <2>8. Wraps(i) <=> y % ULong < x % ULong
    BY ONLY <2>2, <2>3
  <2>9. ASSUME y % ULong < x % ULong, n < ULong PROVE FALSE
    <3>1. x < ULong /\ y < ULong
      BY ONLY <1>u, <2>2, <2>3, <2>9, x \in Nat, y \in Nat, n \in Nat
    <3>2. PICK U \in Nat : U = ULong /\ U > 0
      BY ONLY <1>u
    <3>3. x % U = x /\ y % U = y
      BY ONLY <3>1, <3>2, x \in Nat, y \in Nat, U \in Nat
    <3> QED BY ONLY <2>6, <2>9, <3>2, <3>3, x \in Nat, y \in Nat
  <2>e. Wraps(i) => n >= ULong
    BY ONLY <1>u, <2>8, <2>9, n \in Nat
  <2>10. (\E j \in 1 .. i : Wraps(j)) <=> (\E j \in 1 .. i - 1 : Wraps(j)) \/ Wraps(i)
    <3>1. \A j \in 1 .. i : j \in 1 .. i - 1 \/ j = i
      BY ONLY <2>1
    <3>2. \A j \in 1 .. i - 1 : j \in 1 .. i
      BY ONLY <2>1
    <3> HIDE DEF Wraps
    <3> QED BY ONLY <2>1, <3>1, <3>2
  <2>11. v[i] = IF \E j \in 1 .. i : Wraps(j) THEN [out |-> ULong - 1, error |-> "ERANGE"]
                ELSE [out |-> y % ULong, error |-> "none"]
    BY ONLY <1>5, <2>1, <2>3
  <2>12. v[i - 1] = IF \E j \in 1 .. i - 1 : Wraps(j)
                    THEN [out |-> ULong - 1, error |-> "ERANGE"]
                    ELSE [out |-> x % ULong, error |-> "none"]
    BY ONLY <1>5, <2>1, <2>2
  <2> HIDE DEF Wraps
  <2>13. CASE \E j \in 1 .. i - 1 : Wraps(j)
    <3>1. PICK a : a = [out |-> ULong - 1, error |-> "ERANGE"]
      OBVIOUS
    <3>2. a.error = "ERANGE" /\ "ERANGE" # "none"
      BY ONLY <3>1
    <3>3. Accumulate(a, d, b) = a
      BY ONLY <3>2 DEF Accumulate
    <3>4. v[i] = a /\ v[i - 1] = a
      BY ONLY <2>10, <2>11, <2>12, <2>13, <3>1
    <3> QED BY ONLY <2>4, <2>e, <3>3, <3>4
  <2>14. CASE ~\E j \in 1 .. i - 1 : Wraps(j)
    <3>1. PICK a : a = [out |-> x % ULong, error |-> "none"]
      OBVIOUS
    <3>2. a.out = x % ULong /\ a.error = "none"
      BY ONLY <3>1
    <3>3. Accumulate(a, d, b) = IF y % ULong < x % ULong
                                THEN [out |-> ULong - 1, error |-> "ERANGE"]
                                ELSE [out |-> y % ULong, error |-> "none"]
      BY ONLY <2>7, <3>2 DEF Accumulate
    <3>4. v[i] = Accumulate(a, d, b) /\ v[i - 1] = a
      BY ONLY <2>8, <2>10, <2>11, <2>12, <2>14, <3>1, <3>3
    <3> QED BY ONLY <2>4, <2>e, <3>4
  <2> QED BY ONLY <2>13, <2>14
<1>7. ConvertEq(v, s, b)
  <2>1. v[0] = [out |-> 0, error |-> "none"]
    <3>1. 0 \in 0 .. Len(s) /\ 1 .. 0 = {} /\ 0 % ULong = 0
      BY ONLY <1>3, <1>u
    <3> HIDE DEF Wraps
    <3> QED BY ONLY <1>4, <1>5, <3>1
  <2>2. \A i \in 0 .. Len(s) : i = 0 \/ i \in 1 .. Len(s)
    BY ONLY <1>3
  <2>3. \A i \in 0 .. Len(s) :
            v[i] = IF i = 0 THEN [out |-> 0, error |-> "none"] ELSE Accumulate(v[i - 1], s[i], b)
    BY ONLY <1>6, <2>1, <2>2
  <2>4. v = [i \in 0 .. Len(s) |-> v[i]]
    BY ONLY <1>5
  <2> QED BY ONLY <2>3, <2>4 DEF ConvertEq
<1>8. ConvertEq(f, s, b)
  BY <1>7
<1> HIDE DEF f
<1>9. f[Len(s)] = v[Len(s)]
  BY ONLY <1>3, <1>7, <1>8, ConvertUnique
<1>10. v[Len(s)] = IF \E j \in 1 .. Len(s) : Wraps(j)
                   THEN [out |-> ULong - 1, error |-> "ERANGE"]
                   ELSE [out |-> n % ULong, error |-> "none"]
  <2>1. Len(s) \in 0 .. Len(s)
    BY ONLY <1>3
  <2> HIDE DEF Wraps
  <2> QED BY ONLY <1>4, <1>5, <2>1
<1> HIDE DEF Wraps
<1> QED BY ONLY <1>1, <1>6, <1>9, <1>10

LEMMA LeastIs ==
    ASSUME NEW S \in SUBSET Int, NEW m \in S, \A x \in S : m <= x
    PROVE  Min(S) = m
<1> DEFINE z == CHOOSE x \in S : \A y \in S : x <= y
<1>1. z \in S /\ \A y \in S : z <= y
  OBVIOUS
<1>2. Min(S) = z
  BY DEF Min
<1> HIDE DEF z
<1>3. z <= m /\ m <= z /\ z \in Int /\ m \in Int
  BY <1>1
<1> QED BY ONLY <1>2, <1>3

LEMMA SameSeq ==
    ASSUME NEW S, NEW a \in Seq(S), NEW b \in Seq(S), Len(a) = Len(b),
           \A i \in 1 .. Len(a) : a[i] = b[i]
    PROVE  a = b
OBVIOUS

\* c is a and then b.
JoinedOf(S, a, b, c) ==
    /\ c \in Seq(S) /\ Len(c) = Len(a) + Len(b)
    /\ \A i \in 1 .. Len(a) : c[i] = a[i]
    /\ \A i \in 1 .. Len(b) : c[i + Len(a)] = b[i]

LEMMA Joined ==
    ASSUME NEW S, NEW a \in Seq(S), NEW b \in Seq(S), NEW c, c = a \o b
    PROVE  JoinedOf(S, a, b, c)
BY DEF JoinedOf

\* c is the part of s from i on, of length n.
PartOf(S, s, i, n, c) ==
    /\ c \in Seq(S) /\ Len(c) = n
    /\ \A k \in 1 .. n : c[k] = s[k + i - 1]

LEMMA Part ==
    ASSUME NEW S, NEW s \in Seq(S), NEW i \in Nat, i >= 1, NEW j \in Nat, j <= Len(s), j >= i - 1,
           NEW c, c = SubSeq(s, i, j)
    PROVE  PartOf(S, s, i, j - i + 1, c)
<1>1. PICK n \in Nat : n = j - i + 1
  OBVIOUS
<1>2. c = [k \in 1 .. n |-> s[k + i - 1]]
  <2>1. c = [k \in 1 .. (1 + j) - i |-> s[(i + k) - 1]]
    OBVIOUS
  <2>2. (1 + j) - i = n
    BY ONLY <1>1, i \in Nat, j \in Nat
  <2>3. \A k \in 1 .. n : (i + k) - 1 = k + i - 1
    BY ONLY i \in Nat, n \in Nat
  <2> QED BY ONLY <2>1, <2>2, <2>3
<1>3. Len(s) \in Nat
  OBVIOUS
<1>4. \A k \in 1 .. n : k + i - 1 \in 1 .. Len(s)
  BY ONLY <1>1, <1>3, n \in Nat, i \in Nat, i >= 1, j \in Nat, j <= Len(s)
<1>5. \A k \in 1 .. n : s[k + i - 1] \in S
  BY <1>4
<1>6. c \in [1 .. n -> S]
  BY ONLY <1>2, <1>5
<1>7. c \in Seq(S) /\ Len(c) = n
  BY ONLY <1>6, n \in Nat
<1> QED BY ONLY <1>1, <1>2, <1>7 DEF PartOf

LEMMA WholePart ==
    ASSUME NEW S, NEW s \in Seq(S), NEW d \in Seq(S), Len(d) <= Len(s),
           \A i \in 1 .. Len(d) : s[i] = d[i]
    PROVE  SubSeq(s, 1, Len(d)) = d
<1>1. PICK c : c = SubSeq(s, 1, Len(d))
  OBVIOUS
<1>2. Len(d) \in Nat /\ Len(s) \in Nat
  OBVIOUS
<1>3. PartOf(S, s, 1, Len(d) - 1 + 1, c)
  <2>1. 1 \in Nat /\ 1 >= 1 /\ Len(d) >= 1 - 1
    BY ONLY <1>2
  <2> QED BY <1>1, <1>2, <2>1, Part
<1>4. Len(d) - 1 + 1 = Len(d) /\ \A k \in 1 .. Len(d) : k + 1 - 1 = k
  BY ONLY <1>2
<1>5. c \in Seq(S) /\ Len(c) = Len(d) /\ \A k \in 1 .. Len(d) : c[k] = s[k]
  BY ONLY <1>3, <1>4 DEF PartOf
<1>6. c = d
  BY <1>5, SameSeq
<1> QED BY <1>1, <1>6

\* strtoul stops where the digits do.
LEMMA PrefixOfDigits ==
    ASSUME NEW b \in Nat, NEW d \in Seq(0 .. b - 1), NEW tail \in Seq(Nat),
           DigitPrefix(tail, b) = <<>>, NEW t, t = d \o tail
    PROVE  DigitPrefix(t, b) = d
<1>0. d \in Seq(Nat) /\ Len(d) \in Nat /\ Len(tail) \in Nat
  <2>1. 0 .. b - 1 \subseteq Nat
    OBVIOUS
  <2> QED BY <2>1
<1>1. t \in Seq(Nat) /\ Len(t) = Len(d) + Len(tail)
      /\ (\A i \in 1 .. Len(d) : t[i] = d[i]) /\ (\A i \in 1 .. Len(tail) : t[i + Len(d)] = tail[i])
  <2>1. JoinedOf(Nat, d, tail, t)
    BY ONLY <1>0, Joined, t = d \o tail, tail \in Seq(Nat)
  <2> QED BY ONLY <2>1 DEF JoinedOf
<1>2. \A i \in 1 .. Len(d) : t[i] \in 0 .. b - 1
  BY <1>1
<1> DEFINE N == {i \in 1 .. Len(t) : ~IsBaseDigit(t[i], b)}
           M == {i \in 1 .. Len(tail) : ~IsBaseDigit(tail[i], b)}
<1>3. DigitPrefix(t, b) = IF N = {} THEN t ELSE SubSeq(t, 1, Min(N) - 1)
  BY DEF DigitPrefix
<1>4. <<>> = IF M = {} THEN tail ELSE SubSeq(tail, 1, Min(M) - 1)
  BY DEF DigitPrefix
<1>5. M \in SUBSET Nat /\ N \in SUBSET Int /\ M \subseteq 1 .. Len(tail)
  BY ONLY <1>0, <1>1
<1>6. \A i \in N : i > Len(d)
  BY ONLY <1>0, <1>1, <1>2 DEF IsBaseDigit
<1>7. CASE M = {}
  <2>1. tail = <<>>
    BY ONLY <1>4, <1>7
  <2>2. Len(t) = Len(d)
    BY ONLY <1>0, <1>1, <2>1
  <2>3. N = {}
    <3>1. \A i \in N : i \in 1 .. Len(d)
      BY ONLY <2>2
    <3> HIDE DEF N
    <3> QED BY ONLY <1>0, <1>6, <3>1
  <2>4. t = d
    BY ONLY <1>0, <1>1, <2>2, SameSeq
  <2> QED BY ONLY <1>3, <2>3, <2>4
<1>8. CASE M # {}
  <2>1. PICK m \in M : \A x \in M : m <= x
    <3> HIDE DEF M
    <3> QED BY ONLY <1>5, <1>8, LeastNatural
  <2>2. Min(M) = m
    <3> HIDE DEF M
    <3>1. M \in SUBSET Int
      BY ONLY <1>5
    <3> QED BY ONLY <2>1, <3>1, LeastIs
  <2>3. m \in 1 .. Len(tail) /\ ~IsBaseDigit(tail[m], b)
    OBVIOUS
  <2>4. m = 1
    <3>1. PICK c : c = SubSeq(tail, 1, m - 1)
      OBVIOUS
    <3>2. c = <<>>
      <4> HIDE DEF M
      <4> QED BY ONLY <1>4, <1>8, <2>2, <3>1
    <3>3. m - 1 \in Nat /\ m - 1 <= Len(tail) /\ m - 1 >= 1 - 1 /\ 1 \in Nat /\ 1 >= 1
      BY ONLY <1>0, <2>3
    <3>4. PartOf(Nat, tail, 1, (m - 1) - 1 + 1, c)
      BY ONLY <3>1, <3>3, tail \in Seq(Nat), Part
    <3>5. Len(c) = (m - 1) - 1 + 1
      BY ONLY <3>4 DEF PartOf
    <3>6. Len(c) = 0
      BY ONLY <3>2
    <3> QED BY ONLY <2>3, <3>5, <3>6, <1>0
  <2>5. Len(d) + 1 \in N
    <3>1. Len(d) + 1 \in 1 .. Len(t) /\ 1 \in 1 .. Len(tail) /\ 1 + Len(d) = Len(d) + 1
      BY ONLY <1>0, <1>1, <2>3, <2>4
    <3>2. t[Len(d) + 1] = tail[1]
      BY ONLY <1>1, <3>1
    <3> QED BY ONLY <2>3, <2>4, <3>1, <3>2
  <2>6. Min(N) = Len(d) + 1
    <3>1. \A x \in N : Len(d) + 1 <= x
      <4> HIDE DEF N
      <4> QED BY ONLY <1>0, <1>5, <1>6
    <3> HIDE DEF N
    <3> QED BY ONLY <1>5, <2>5, <3>1, LeastIs
  <2>7. DigitPrefix(t, b) = SubSeq(t, 1, Len(d))
    <3>1. Min(N) - 1 = Len(d)
      BY ONLY <1>0, <2>6
    <3> HIDE DEF N
    <3> QED BY ONLY <1>3, <2>5, <3>1
  <2>8. SubSeq(t, 1, Len(d)) = d
    <3>1. Len(d) <= Len(t)
      BY ONLY <1>0, <1>1
    <3> QED BY ONLY <1>0, <1>1, <3>1, WholePart
  <2> QED BY ONLY <2>7, <2>8
<1> QED BY ONLY <1>7, <1>8

\* Spaces are passed over.
LEMMA SkipOne ==
    ASSUME NEW u \in Seq(Nat), u # <<>>, u[1] # Space, NEW s, s = <<Space>> \o u
    PROVE  SkipSpace(s) = u
<1>0. Len(u) \in Nat /\ Len(u) > 0
  OBVIOUS
<1>1. s \in Seq(Nat) /\ Len(s) = Len(u) + 1 /\ s[1] = Space
      /\ \A i \in 1 .. Len(u) : s[i + 1] = u[i]
  BY DEF Space
<1> DEFINE N == {i \in 1 .. Len(s) : s[i] # Space}
<1>2. SkipSpace(s) = IF N = {} THEN <<>> ELSE SubSeq(s, Min(N), Len(s))
  BY DEF SkipSpace
<1>3. 2 \in N
  <2>1. 1 \in 1 .. Len(u) /\ 1 + 1 = 2 /\ 2 \in 1 .. Len(s)
    BY ONLY <1>0, <1>1
  <2>2. s[2] = u[1]
    BY ONLY <1>1, <2>1
  <2> QED BY <2>1, <2>2
<1>4. N \in SUBSET Int /\ \A x \in N : 2 <= x
  BY ONLY <1>0, <1>1
<1> HIDE DEF N
<1>5. Min(N) = 2
  BY ONLY <1>3, <1>4, LeastIs
<1>6. PICK c : c = SubSeq(s, 2, Len(s))
  OBVIOUS
<1>7. 2 \in Nat /\ 2 >= 1 /\ Len(s) \in Nat /\ Len(s) <= Len(s) /\ Len(s) >= 2 - 1
  BY ONLY <1>0, <1>1
<1>8. PartOf(Nat, s, 2, Len(s) - 2 + 1, c)
  BY ONLY <1>1, <1>6, <1>7, Part
<1>9. Len(s) - 2 + 1 = Len(u) /\ \A k \in 1 .. Len(u) : k + 2 - 1 = k + 1
  BY ONLY <1>0, <1>1
<1>10. c \in Seq(Nat) /\ Len(c) = Len(u) /\ \A k \in 1 .. Len(u) : c[k] = u[k]
  BY ONLY <1>1, <1>8, <1>9 DEF PartOf
<1>11. c = u
  BY ONLY <1>10, SameSeq, u \in Seq(Nat)
<1> QED BY ONLY <1>2, <1>3, <1>5, <1>6, <1>11

LEMMA SkipNone ==
    ASSUME NEW u \in Seq(Nat), u # <<>>, u[1] # Space
    PROVE  SkipSpace(u) = u
<1>0. Len(u) \in Nat /\ Len(u) > 0
  OBVIOUS
<1> DEFINE N == {i \in 1 .. Len(u) : u[i] # Space}
<1>1. SkipSpace(u) = IF N = {} THEN <<>> ELSE SubSeq(u, Min(N), Len(u))
  BY DEF SkipSpace
<1>2. 1 \in N /\ N \in SUBSET Int /\ \A x \in N : 1 <= x
  BY <1>0
<1> HIDE DEF N
<1>3. Min(N) = 1
  BY ONLY <1>2, LeastIs
<1>4. SubSeq(u, 1, Len(u)) = u
  BY ONLY <1>0, WholePart, u \in Seq(Nat)
<1> QED BY ONLY <1>1, <1>2, <1>3, <1>4


\* What is left of a string after spaces and a sign is a string, and the
\* digits in front of it are digits.
LEMMA SkipSpaceType ==
    ASSUME NEW s \in Seq(Nat)
    PROVE  SkipSpace(s) \in Seq(Nat)
<1> DEFINE N == {i \in 1 .. Len(s) : s[i] # Space}
<1>1. SkipSpace(s) = IF N = {} THEN <<>> ELSE SubSeq(s, Min(N), Len(s))
  BY DEF SkipSpace
<1>2. N \in SUBSET Nat /\ N \subseteq 1 .. Len(s) /\ Len(s) \in Nat /\ N \in SUBSET Int
  OBVIOUS
<1> HIDE DEF N
<1>3. CASE N = {}
  <2>1. <<>> \in Seq(Nat)
    OBVIOUS
  <2> QED BY ONLY <1>1, <1>3, <2>1
<1>4. CASE N # {}
  <2>1. PICK m \in N : \A x \in N : m <= x
    BY ONLY <1>2, <1>4, LeastNatural
  <2>2. Min(N) = m /\ m \in 1 .. Len(s)
    BY ONLY <1>2, <2>1, LeastIs
  <2>3. PICK c : c = SubSeq(s, m, Len(s))
    OBVIOUS
  <2>4. m \in Nat /\ m >= 1 /\ Len(s) <= Len(s) /\ Len(s) >= m - 1
    BY ONLY <1>2, <2>2
  <2>5. PartOf(Nat, s, m, Len(s) - m + 1, c)
    BY ONLY <1>2, <2>3, <2>4, Part, s \in Seq(Nat)
  <2>6. c \in Seq(Nat)
    BY ONLY <2>5 DEF PartOf
  <2> QED BY ONLY <1>1, <1>4, <2>2, <2>3, <2>6
<1> QED BY ONLY <1>3, <1>4

LEMMA AfterSignType ==
    ASSUME NEW s \in Seq(Nat)
    PROVE  AfterSign(s) \in Seq(Nat)
<1>1. PICK t \in Seq(Nat) : t = SkipSpace(s)
  BY SkipSpaceType
<1>2. t # <<>> => Tail(t) \in Seq(Nat)
  BY ONLY t \in Seq(Nat)
<1> QED BY ONLY <1>1, <1>2 DEF AfterSign, IsNegative

LEMMA DigitPrefixType ==
    ASSUME NEW b \in Nat, NEW t \in Seq(Nat)
    PROVE  DigitPrefix(t, b) \in Seq(0 .. b - 1)
<1> DEFINE N == {i \in 1 .. Len(t) : ~IsBaseDigit(t[i], b)}
<1>1. DigitPrefix(t, b) = IF N = {} THEN t ELSE SubSeq(t, 1, Min(N) - 1)
  BY DEF DigitPrefix
<1>2. N \in SUBSET Nat /\ N \subseteq 1 .. Len(t) /\ Len(t) \in Nat /\ N \in SUBSET Int
  OBVIOUS
<1>3. \A i \in 1 .. Len(t) : i \notin N => t[i] \in 0 .. b - 1
  BY DEF IsBaseDigit
<1> HIDE DEF N
<1>4. CASE N = {}
  <2>1. \A i \in 1 .. Len(t) : t[i] \in 0 .. b - 1
    BY ONLY <1>3, <1>4
  <2>2. t = [i \in 1 .. Len(t) |-> t[i]]
    BY ONLY t \in Seq(Nat)
  <2>3. t \in [1 .. Len(t) -> 0 .. b - 1]
    BY ONLY <2>1, <2>2
  <2>4. t \in Seq(0 .. b - 1)
    BY ONLY <1>2, <2>3
  <2> QED BY ONLY <1>1, <1>4, <2>4
<1>5. CASE N # {}
  <2>1. PICK m \in N : \A x \in N : m <= x
    BY ONLY <1>2, <1>5, LeastNatural
  <2>2. Min(N) = m /\ m \in 1 .. Len(t)
    BY ONLY <1>2, <2>1, LeastIs
  <2>3. PICK l \in Nat : l = m - 1 /\ l <= Len(t)
    <3>1. m - 1 \in Nat /\ m - 1 <= Len(t)
      BY ONLY <1>2, <2>2
    <3> QED BY ONLY <3>1
  <2>4. PICK c : c = SubSeq(t, 1, l)
    OBVIOUS
  <2>5. PartOf(Nat, t, 1, l - 1 + 1, c)
    <3>1. 1 \in Nat /\ 1 >= 1 /\ l >= 1 - 1
      BY ONLY l \in Nat
    <3> QED BY ONLY <2>3, <2>4, <3>1, Part, t \in Seq(Nat), l \in Nat
  <2>6. c \in Seq(Nat) /\ Len(c) = l /\ \A k \in 1 .. l : c[k] = t[k]
    <3>1. l - 1 + 1 = l /\ \A k \in 1 .. l : k + 1 - 1 = k
      BY ONLY l \in Nat
    <3> QED BY ONLY <2>5, <3>1 DEF PartOf
  <2>7. ASSUME NEW k \in 1 .. l PROVE c[k] \in 0 .. b - 1
    <3>1. k \in 1 .. Len(t) /\ ~(m <= k)
      BY ONLY <1>2, <2>2, <2>3, k \in 1 .. l
    <3>2. k \notin N
      BY ONLY <2>1, <3>1
    <3> QED BY ONLY <1>3, <2>6, <3>1, <3>2, k \in 1 .. l
  <2>8. c = [i \in 1 .. l |-> c[i]]
    BY ONLY <2>6
  <2>9. c \in [1 .. l -> 0 .. b - 1]
    BY ONLY <2>7, <2>8
  <2>10. c \in Seq(0 .. b - 1)
    BY ONLY <2>9, l \in Nat
  <2> QED BY ONLY <1>1, <1>5, <2>2, <2>3, <2>4, <2>10
<1> QED BY ONLY <1>4, <1>5

\* strtoul of any string.
ReadAny(s, d, m, back) ==
    /\ back.error = "EINVAL" <=> d = <<>>
    /\ back.error = "ERANGE" => m >= ULong /\ back.out = ULong - 1
    /\ back.error = "none" =>
        /\ back.out = Unsigned(IF IsNegative(s) THEN -m ELSE m)
        /\ back.rest = Len(AfterSign(s)) - Len(d)

LEMMA StrtoulAny ==
    ASSUME NEW b \in 2 .. 32, NEW s \in Seq(Nat),
           NEW d, d = DigitPrefix(AfterSign(s), b), NEW m, m = NumberOf(d, b),
           NEW back, back = Strtoul(s, b)
    PROVE  ReadAny(s, d, m, back)
<1>1. b \in Nat /\ b >= 2
  BY ONLY b \in 2 .. 32
<1>2. d \in Seq(0 .. b - 1)
  BY ONLY <1>1, AfterSignType, DigitPrefixType, s \in Seq(Nat), d = DigitPrefix(AfterSign(s), b)
<1>3. PICK n \in Nat : DigitsOf(d, b, n)
  BY ONLY <1>1, <1>2, AnyDigits
<1>4. m = n
  BY ONLY <1>1, <1>3, NumberExact, m = NumberOf(d, b)
<1>5. PICK r : r = Converted(d, b)
  OBVIOUS
<1>6. \/ r = [out |-> n % ULong, error |-> "none"]
      \/ n >= ULong /\ r = [out |-> ULong - 1, error |-> "ERANGE"]
  BY ONLY <1>1, <1>3, <1>5, ConvertAny
<1>7. CASE d = <<>>
  <2>1. back = [out |-> 0, error |-> "EINVAL", rest |-> Len(s)]
    BY ONLY <1>7, d = DigitPrefix(AfterSign(s), b), back = Strtoul(s, b) DEF Strtoul
  <2>2. back.error = "EINVAL"
    BY ONLY <2>1
  <2> QED BY ONLY <1>7, <2>2 DEF ReadAny
<1>8. CASE d # <<>> /\ r = [out |-> n % ULong, error |-> "none"]
  <2>1. r.out = n % ULong /\ r.error = "none"
    BY ONLY <1>8
  <2>2. back = [out |-> IF IsNegative(s) THEN Unsigned(-r.out) ELSE r.out,
                error |-> "none", rest |-> Len(AfterSign(s)) - Len(d)]
    BY ONLY <1>5, <1>8, <2>1, d = DigitPrefix(AfterSign(s), b), back = Strtoul(s, b) DEF Strtoul
  <2>3. back.error = "none" /\ back.rest = Len(AfterSign(s)) - Len(d)
        /\ back.out = IF IsNegative(s) THEN Unsigned(-r.out) ELSE r.out
    BY ONLY <2>2
  <2>4. Unsigned(-r.out) = Unsigned(-m) /\ r.out = Unsigned(m)
    <3>1. ULong \in Nat /\ ULong > 0
      BY StdlibAssumption
    <3>2. PICK k : k = n % ULong
      OBVIOUS
    <3>3. (-k) % ULong = (-n) % ULong
      BY ONLY <3>1, <3>2, ModMinus, n \in Nat
    <3> QED BY ONLY <1>4, <2>1, <3>2, <3>3 DEF Unsigned
  <2> QED BY ONLY <1>8, <2>3, <2>4 DEF ReadAny
<1>9. CASE d # <<>> /\ n >= ULong /\ r = [out |-> ULong - 1, error |-> "ERANGE"]
  <2>1. r.out = ULong - 1 /\ r.error = "ERANGE"
    BY ONLY <1>9
  <2>2. back = [out |-> r.out, error |-> r.error, rest |-> Len(s)]
    BY ONLY <1>5, <1>9, <2>1, d = DigitPrefix(AfterSign(s), b), back = Strtoul(s, b) DEF Strtoul
  <2>3. back.error = "ERANGE" /\ back.out = ULong - 1
    BY ONLY <2>1, <2>2
  <2> QED BY ONLY <1>4, <1>9, <2>3 DEF ReadAny
<1> QED BY ONLY <1>6, <1>7, <1>8, <1>9

\* A number that was written is read back, whatever follows it.
ReadAs(s, b, n, tail) ==
    Strtoul(s, b) = [out   |-> IF IsNegative(s) THEN Unsigned(-n) ELSE n,
                     error |-> "none", rest |-> Len(tail)]

LEMMA ReadBack ==
    ASSUME NEW b \in Nat, b >= 2, NEW n \in Nat, n < ULong, NEW d, DigitsOf(d, b, n), d # <<>>,
           NEW tail \in Seq(Nat), DigitPrefix(tail, b) = <<>>,
           NEW s, AfterSign(s) = d \o tail
    PROVE  ReadAs(s, b, n, tail)
<1>1. d \in Seq(0 .. b - 1) /\ Len(d) \in Nat
  BY DEF DigitsOf
<1>2. d \in Seq(Nat)
  <2>1. 0 .. b - 1 \subseteq Nat
    OBVIOUS
  <2> QED BY <1>1, <2>1
<1>3. DigitPrefix(AfterSign(s), b) = d
  <2>1. PICK t : t = d \o tail
    OBVIOUS
  <2>2. DigitPrefix(t, b) = d
    BY ONLY <1>1, <2>1, PrefixOfDigits, b \in Nat, tail \in Seq(Nat), DigitPrefix(tail, b) = <<>>
  <2> QED BY ONLY <2>1, <2>2, AfterSign(s) = d \o tail
<1>4. Converted(d, b) = [out |-> n, error |-> "none"]
  BY ConvertExact
<1>5. Len(AfterSign(s)) - Len(d) = Len(tail)
  <2>1. Len(d \o tail) = Len(d) + Len(tail) /\ Len(tail) \in Nat
    BY <1>2
  <2> QED BY ONLY <1>1, <2>1, AfterSign(s) = d \o tail
<1>6. PICK r : r = [out |-> n, error |-> "none"]
  OBVIOUS
<1>7. r.out = n /\ r.error = "none"
  BY ONLY <1>6
<1>8. Strtoul(s, b) = [out   |-> IF IsNegative(s) THEN Unsigned(-r.out) ELSE r.out,
                       error |-> "none", rest |-> Len(AfterSign(s)) - Len(d)]
  BY ONLY <1>3, <1>4, <1>6, <1>7, d # <<>> DEF Strtoul
<1> QED BY ONLY <1>5, <1>7, <1>8 DEF ReadAs

LEMMA WrittenDigits ==
    ASSUME NEW b, NEW n, n # 0, NEW s, DigitsOf(s, b, n)
    PROVE  s # <<>>
<1> SUFFICES ASSUME s = <<>> PROVE FALSE
  OBVIOUS
<1>1. Len(s) = 0
  OBVIOUS
<1>2. PICK w : Sums(w, s, b, n)
  BY DEF DigitsOf
<1> QED BY ONLY <1>1, <1>2, n # 0 DEF Sums

LEMMA UltoaExact ==
    ASSUME NEW b \in Nat, b >= 2, NEW n \in Nat
    PROVE  DigitsOf(Ultoa(n, b), b, n) /\ Ultoa(n, b) # <<>>
<1>1. CASE n = 0
  <2>1. PICK s : s = <<0>>
    OBVIOUS
  <2>2. s \in Seq(0 .. b - 1) /\ Len(s) = 1 /\ s[1] = 0 /\ s # <<>>
    <3>1. 0 \in 0 .. b - 1
      OBVIOUS
    <3> QED BY ONLY <2>1, <3>1
  <2>3. PICK w : w = [i \in 0 .. 1 |-> 0]
    OBVIOUS
  <2>4. Sums(w, s, b, 0)
    <3>1. w \in [0 .. 1 -> 0 .. 0] /\ w[0] = 0 /\ w[1] = 0
      BY ONLY <2>3
    <3>2. \A i \in 1 .. 1 : i = 1 /\ 1 - 1 = 0 /\ 0 = 0 * b + 0
      BY ONLY b \in Nat
    <3> QED BY ONLY <2>2, <3>1, <3>2 DEF Sums
  <2>5. DigitsOf(s, b, 0)
    BY ONLY <2>2, <2>4 DEF DigitsOf
  <2> QED BY ONLY <1>1, <2>1, <2>2, <2>5 DEF Ultoa
<1>2. CASE n # 0
  <2>1. Ultoa(n, b) = Digits(n, b)
    BY <1>2 DEF Ultoa
  <2>2. DigitsOf(Digits(n, b), b, n)
    BY DigitsExact
  <2>3. Digits(n, b) # <<>>
    BY <1>2, <2>2, WrittenDigits
  <2> QED BY ONLY <2>1, <2>2, <2>3
<1> QED BY ONLY <1>1, <1>2

\* A digit is neither a space nor a sign.
LEMMA FirstDigit ==
    ASSUME NEW b \in 2 .. 32, NEW n, NEW d, DigitsOf(d, b, n), d # <<>>,
           NEW tail \in Seq(Nat), NEW u, u = d \o tail
    PROVE  u \in Seq(Nat) /\ u # <<>> /\ Head(u) = u[1] /\ u[1] # Space /\ u[1] # Minus
<1>1. d \in Seq(0 .. b - 1)
  BY DEF DigitsOf
<1>2. d \in Seq(Nat) /\ Len(d) \in Nat /\ Len(d) > 0
  <2>1. 0 .. b - 1 \subseteq Nat
    OBVIOUS
  <2> QED BY <1>1, <2>1
<1>3. u \in Seq(Nat) /\ Len(u) = Len(d) + Len(tail) /\ \A i \in 1 .. Len(d) : u[i] = d[i]
  <2>1. JoinedOf(Nat, d, tail, u)
    BY ONLY <1>2, Joined, u = d \o tail, tail \in Seq(Nat)
  <2> QED BY ONLY <2>1 DEF JoinedOf
<1>4. 1 \in 1 .. Len(d)
  BY ONLY <1>2
<1>5. u[1] \in 0 .. b - 1
  BY <1>1, <1>3, <1>4
<1>6. Len(u) > 0
  <2>1. Len(tail) \in Nat
    OBVIOUS
  <2> QED BY ONLY <1>2, <1>3, <2>1
<1>7. u # <<>>
  BY ONLY <1>6
<1> QED BY <1>3, <1>5, <1>7 DEF Space, Minus

\* strtoul after ultoa.
LEMMA UnsignedBack ==
    ASSUME NEW b \in 2 .. 32, NEW n \in 0 .. ULong - 1, NEW tail \in Seq(Nat),
           DigitPrefix(tail, b) = <<>>
    PROVE  Strtoul(<<Space>> \o Ultoa(n, b) \o tail, b)
            = [out |-> n, error |-> "none", rest |-> Len(tail)]
<1>1. ULong \in Nat /\ n \in Nat /\ n < ULong /\ b \in Nat /\ b >= 2
  BY StdlibAssumption
<1>2. PICK d : d = Ultoa(n, b)
  OBVIOUS
<1>3. DigitsOf(d, b, n) /\ d # <<>>
  BY ONLY <1>1, <1>2, UltoaExact
<1>4. PICK u : u = d \o tail
  OBVIOUS
<1>5. u \in Seq(Nat) /\ u # <<>> /\ Head(u) = u[1] /\ u[1] # Space /\ u[1] # Minus
  BY ONLY <1>3, <1>4, b \in 2 .. 32, tail \in Seq(Nat), FirstDigit
<1>6. PICK s : s = <<Space>> \o u
  OBVIOUS
<1>7. <<Space>> \o d \o tail = s
  <2>1. d \in Seq(0 .. b - 1)
    BY ONLY <1>3 DEF DigitsOf
  <2>2. 0 .. b - 1 \subseteq Nat
    OBVIOUS
  <2>3. d \in Seq(Nat)
    BY ONLY <2>1, <2>2
  <2>4. Space \in Nat
    BY DEF Space
  <2> QED BY ONLY <1>4, <1>6, <2>3, <2>4, tail \in Seq(Nat)
<1>8. SkipSpace(s) = u
  BY ONLY <1>5, <1>6, SkipOne
<1>9. ~IsNegative(s) /\ AfterSign(s) = d \o tail
  BY ONLY <1>4, <1>5, <1>8 DEF IsNegative, AfterSign
<1>10. ReadAs(s, b, n, tail)
  BY ONLY <1>1, <1>3, <1>9, tail \in Seq(Nat), DigitPrefix(tail, b) = <<>>, ReadBack
<1> QED BY ONLY <1>2, <1>7, <1>9, <1>10 DEF ReadAs


\* Numbers below zero, modulo the range.
LEMMA Wrapped ==
    ASSUME NEW U \in Nat, NEW n \in Int, n < 0, -U < n
    PROVE  n % U = n + U
<1>1. PICK q : q = n \div U
  OBVIOUS
<1>2. PICK x : x = n % U
  OBVIOUS
<1>3. U > 0
  OBVIOUS
<1>4. q \in Int /\ x \in Int /\ 0 <= x /\ x < U /\ n = U * q + x
  BY <1>1, <1>2, <1>3
<1>5. q < 0
  <2> SUFFICES ASSUME q >= 0 PROVE FALSE
    BY <1>4
  <2>1. U * q >= 0
    BY <1>4
  <2> QED BY <1>4, <2>1
<1>6. q > -2
  <2> SUFFICES ASSUME q <= -2 PROVE FALSE
    BY <1>4
  <2>1. U * q <= U * (-2)
    BY <1>4
  <2> QED BY <1>4, <2>1
<1>7. q = -1
  BY <1>4, <1>5, <1>6
<1>8. U * q = -U
  BY <1>7
<1> QED BY <1>2, <1>4, <1>8

LEMMA NoTail ==
    ASSUME NEW b
    PROVE  DigitPrefix(<<>>, b) = <<>>
BY DEF DigitPrefix

LEMMA SameWithout ==
    ASSUME NEW S, NEW d \in Seq(S)
    PROVE  d \o <<>> = d
OBVIOUS

\* strtol after ltoa.
LEMMA SignedBack ==
    ASSUME NEW b \in 2 .. 32, NEW n \in 1 - (ULong \div 2) .. (ULong \div 2) - 1
    PROVE  Strtol(Ltoa(n, b), b) = [out |-> n, error |-> "none", rest |-> 0]
<1>1. PICK h \in Nat : h = ULong \div 2 /\ ULong = 2 * h /\ h > 0
  <2>1. PICK h : h = ULong \div 2
    OBVIOUS
  <2>2. h \in Nat /\ ULong = 2 * h /\ h > 0
    BY <2>1, StdlibAssumption
  <2> QED BY <2>1, <2>2
<1>2. n \in Int /\ n > -h /\ n < h /\ b \in Nat /\ b >= 2 /\ ULong \in Nat
  BY <1>1
<1>e. PICK e : e = <<>>
  OBVIOUS
<1>3. e \in Seq(Nat) /\ DigitPrefix(e, b) = <<>> /\ Len(e) = 0
  <2>1. <<>> \in Seq(Nat) /\ DigitPrefix(<<>>, b) = <<>> /\ Len(<<>>) = 0
    BY NoTail
  <2> QED BY ONLY <1>e, <2>1
<1>4. PICK s : s = Ltoa(n, b)
  OBVIOUS
<1>5. ASSUME NEW r, NEW m, r = [out |-> m, error |-> "none", rest |-> 0],
             Strtoul(s, b) = r, Signed(m) = n
      PROVE  Strtol(s, b) = [out |-> n, error |-> "none", rest |-> 0]
  BY ONLY <1>5 DEF Strtol
<1>6. CASE n >= 0
  <2>1. s = Ultoa(n, b)
    BY <1>2, <1>4, <1>6 DEF Ltoa, Ultoa
  <2>2. n \in Nat
    BY ONLY <1>2, <1>6
  <2>3. DigitsOf(s, b, n) /\ s # <<>>
    BY ONLY <1>2, <2>1, <2>2, UltoaExact
  <2>4. s \in Seq(0 .. b - 1)
    BY ONLY <2>3 DEF DigitsOf
  <2>5. s \o e = s
    BY ONLY <1>e, <2>4, SameWithout
  <2>6. s \in Seq(Nat) /\ s # <<>> /\ Head(s) = s[1] /\ s[1] # Space /\ s[1] # Minus
    <3>1. PICK u : u = s \o e
      OBVIOUS
    <3>2. u \in Seq(Nat) /\ u # <<>> /\ Head(u) = u[1] /\ u[1] # Space /\ u[1] # Minus
      BY ONLY <1>3, <2>3, <3>1, b \in 2 .. 32, FirstDigit
    <3> QED BY ONLY <2>5, <3>1, <3>2
  <2>7. SkipSpace(s) = s
    BY ONLY <2>6, SkipNone
  <2>8. ~IsNegative(s) /\ AfterSign(s) = s \o e
    BY ONLY <2>5, <2>6, <2>7 DEF IsNegative, AfterSign
  <2>9. n < ULong
    BY ONLY <1>1, <1>2
  <2>10. ReadAs(s, b, n, e)
    BY ONLY <1>2, <1>3, <2>2, <2>3, <2>8, <2>9, ReadBack
  <2>11. Strtoul(s, b) = [out |-> n, error |-> "none", rest |-> 0]
    BY ONLY <1>3, <2>8, <2>10 DEF ReadAs
  <2>12. n % ULong = n
    BY ONLY <1>2, <2>2, <2>9
  <2>13. Signed(n) = n
    BY ONLY <1>1, <1>2, <2>12 DEF Signed, Unsigned
  <2> QED BY ONLY <1>4, <1>5, <2>11, <2>13
<1>7. CASE n < 0
  <2>1. PICK k \in Nat : k = -n /\ k < h /\ k > 0 /\ -k = n
    <3>1. -n \in Nat /\ -n < h /\ -n > 0 /\ -(-n) = n
      BY ONLY <1>1, <1>2, <1>7
    <3> QED BY ONLY <3>1
  <2>2. PICK d : d = Digits(k, b)
    OBVIOUS
  <2>3. s = <<Minus>> \o d
    BY ONLY <1>2, <1>4, <1>7, <2>1, <2>2 DEF Ltoa
  <2>4. DigitsOf(d, b, k)
    BY ONLY <1>2, <2>1, <2>2, DigitsExact
  <2>5. d # <<>>
    BY ONLY <2>1, <2>4, WrittenDigits
  <2>6. d \in Seq(0 .. b - 1)
    BY ONLY <2>4 DEF DigitsOf
  <2>7. d \in Seq(Nat)
    <3>1. 0 .. b - 1 \subseteq Nat
      BY ONLY <1>2
    <3> QED BY ONLY <2>6, <3>1
  <2>8. s \in Seq(Nat) /\ s # <<>> /\ s[1] = Minus /\ Head(s) = Minus /\ Tail(s) = d
    <3>1. Minus \in Nat
      BY DEF Minus
    <3> QED BY ONLY <2>3, <2>7, <3>1
  <2>9. SkipSpace(s) = s
    <3>1. Minus # Space
      BY DEF Minus, Space
    <3> QED BY ONLY <2>8, <3>1, SkipNone
  <2>10. IsNegative(s) /\ AfterSign(s) = d \o e
    <3>1. d \o e = d
      BY ONLY <1>e, <2>7, SameWithout
    <3> QED BY ONLY <2>8, <2>9, <3>1 DEF IsNegative, AfterSign
  <2>11. k < ULong
    BY ONLY <1>1, <2>1
  <2>12. ReadAs(s, b, k, e)
    BY ONLY <1>2, <1>3, <2>1, <2>4, <2>5, <2>10, <2>11, ReadBack
  <2>13. Unsigned(-k) = n + ULong
    <3>1. -ULong < n
      BY ONLY <1>1, <1>2
    <3>2. n % ULong = n + ULong
      BY ONLY <1>2, <1>7, <3>1, Wrapped
    <3> QED BY ONLY <2>1, <3>2 DEF Unsigned
  <2>14. Strtoul(s, b) = [out |-> n + ULong, error |-> "none", rest |-> 0]
    BY ONLY <1>3, <2>10, <2>12, <2>13 DEF ReadAs
  <2>15. (n + ULong) % ULong = n + ULong
    <3>1. n + ULong \in Nat /\ n + ULong < ULong
      BY ONLY <1>1, <1>2, <1>7
    <3> QED BY ONLY <1>2, <3>1
  <2>16. Signed(n + ULong) = n
    <3>1. n + ULong >= ULong \div 2 /\ (n + ULong) - ULong = n
      BY ONLY <1>1, <1>2
    <3> QED BY ONLY <2>15, <3>1 DEF Signed, Unsigned
  <2> QED BY ONLY <1>4, <1>5, <2>14, <2>16
<1> QED BY ONLY <1>2, <1>4, <1>6, <1>7


\* memcmp and strcmp.
LEMMA MemcmpExact ==
    ASSUME NEW a \in Seq(Nat), NEW b \in Seq(Nat), NEW n \in Nat, n <= Len(a), n <= Len(b)
    PROVE  /\ Memcmp(a, b, n) \in Int
           /\ Memcmp(a, b, n) = 0 <=> \A i \in 1 .. n : a[i] = b[i]
           /\ Memcmp(b, a, n) = 0 - Memcmp(a, b, n)
<1> DEFINE D == {i \in 1 .. n : a[i] # b[i]}
           E == {i \in 1 .. n : b[i] # a[i]}
<1>1. D = E /\ D \in SUBSET Nat /\ D \in SUBSET Int
  OBVIOUS
<1>2. Memcmp(a, b, n) = IF D = {} THEN 0 ELSE a[Min(D)] - b[Min(D)]
  BY DEF Memcmp
<1>3. Memcmp(b, a, n) = IF E = {} THEN 0 ELSE b[Min(E)] - a[Min(E)]
  BY DEF Memcmp
<1>4. CASE D = {}
  <2>1. \A i \in 1 .. n : a[i] = b[i]
    BY <1>4
  <2>2. Memcmp(a, b, n) = 0 /\ Memcmp(b, a, n) = 0
    <3> HIDE DEF D, E
    <3> QED BY ONLY <1>1, <1>2, <1>3, <1>4
  <2>3. 0 - 0 = 0 /\ 0 \in Int
    OBVIOUS
  <2> QED BY ONLY <2>1, <2>2, <2>3
<1>5. CASE D # {}
  <2>1. PICK m \in D : \A x \in D : m <= x
    <3> HIDE DEF D
    <3> QED BY <1>1, <1>5, LeastNatural
  <2>2. Min(D) = m
    <3> HIDE DEF D
    <3> QED BY ONLY <1>1, <2>1, LeastIs
  <2>3. m \in 1 .. n /\ a[m] # b[m]
    OBVIOUS
  <2>4. a[m] \in Nat /\ b[m] \in Nat
    <3>1. m \in 1 .. Len(a) /\ m \in 1 .. Len(b)
      BY <2>3
    <3>2. \A i \in 1 .. Len(a) : a[i] \in Nat
      BY ONLY a \in Seq(Nat)
    <3>3. \A i \in 1 .. Len(b) : b[i] \in Nat
      BY ONLY b \in Seq(Nat)
    <3> QED BY ONLY <3>1, <3>2, <3>3
  <2>5. Memcmp(a, b, n) = a[m] - b[m] /\ Memcmp(b, a, n) = b[m] - a[m]
    <3> HIDE DEF D, E
    <3> QED BY ONLY <1>1, <1>2, <1>3, <1>5, <2>2
  <2>6. PICK x \in Nat : x = a[m]
    BY <2>4
  <2>7. PICK y \in Nat : y = b[m]
    BY <2>4
  <2>8. Memcmp(a, b, n) = x - y /\ Memcmp(b, a, n) = y - x /\ x # y
    BY ONLY <2>3, <2>5, <2>6, <2>7
  <2>9. ~\A i \in 1 .. n : a[i] = b[i]
    BY ONLY <2>3
  <2>10. x - y \in Int /\ x - y # 0 /\ y - x = 0 - (x - y)
    BY ONLY <2>8, x \in Nat, y \in Nat
  <2> QED BY ONLY <2>8, <2>9, <2>10
<1> QED BY ONLY <1>4, <1>5

LEMMA StrcmpExact ==
    ASSUME NEW a \in Seq(Nat), NEW b \in Seq(Nat)
    PROVE  /\ Strcmp(a, b) = 0 <=> a = b
           /\ Strcmp(a, b) > 0 <=> Strcmp(b, a) < 0
<1>1. Len(a) \in Nat /\ Len(b) \in Nat
  OBVIOUS
<1>2. CASE Len(a) > Len(b)
  <2>1. Strcmp(a, b) = 1 /\ Strcmp(b, a) = -1
    BY ONLY <1>1, <1>2 DEF Strcmp
  <2>2. a # b
    BY ONLY <1>1, <1>2
  <2> QED BY ONLY <2>1, <2>2
<1>3. CASE Len(a) < Len(b)
  <2>1. Strcmp(a, b) = -1 /\ Strcmp(b, a) = 1
    BY ONLY <1>1, <1>3 DEF Strcmp
  <2>2. a # b
    BY ONLY <1>1, <1>3
  <2> QED BY ONLY <2>1, <2>2
<1>4. CASE Len(a) = Len(b)
  <2>1. Strcmp(a, b) = Memcmp(a, b, Len(a)) /\ Strcmp(b, a) = Memcmp(b, a, Len(a))
    BY ONLY <1>1, <1>4 DEF Strcmp
  <2>2. /\ Memcmp(a, b, Len(a)) \in Int
        /\ Memcmp(a, b, Len(a)) = 0 <=> \A i \in 1 .. Len(a) : a[i] = b[i]
        /\ Memcmp(b, a, Len(a)) = 0 - Memcmp(a, b, Len(a))
    <3>1. Len(a) <= Len(a) /\ Len(a) <= Len(b)
      BY ONLY <1>1, <1>4
    <3> QED BY ONLY <1>1, <3>1, a \in Seq(Nat), b \in Seq(Nat), MemcmpExact
  <2>3. (\A i \in 1 .. Len(a) : a[i] = b[i]) <=> a = b
    BY <1>4, SameSeq
  <2>4. PICK x \in Int : x = Memcmp(a, b, Len(a))
    BY ONLY <2>2
  <2>5. x > 0 <=> 0 - x < 0
    BY ONLY x \in Int
  <2> QED BY ONLY <2>1, <2>2, <2>3, <2>4, <2>5
<1> QED BY ONLY <1>1, <1>2, <1>3, <1>4

\* memcmp finds the first byte that is greater, so it orders as strings do.
LEMMA MemcmpGreater ==
    ASSUME NEW a \in Seq(Nat), NEW b \in Seq(Nat), NEW n \in Nat, n <= Len(a), n <= Len(b)
    PROVE  Memcmp(a, b, n) > 0 <=>
            \E m \in 1 .. n : a[m] > b[m] /\ \A i \in 1 .. m - 1 : a[i] = b[i]
<1> DEFINE D == {i \in 1 .. n : a[i] # b[i]}
<1>1. D \in SUBSET Nat /\ D \in SUBSET Int /\ D \subseteq 1 .. n
      /\ \A i \in 1 .. n : i \in D <=> a[i] # b[i]
  OBVIOUS
<1>2. Memcmp(a, b, n) = IF D = {} THEN 0 ELSE a[Min(D)] - b[Min(D)]
  BY DEF Memcmp
<1>3. \A i \in 1 .. n : a[i] \in Nat /\ b[i] \in Nat
  <2>1. \A i \in 1 .. n : i \in 1 .. Len(a) /\ i \in 1 .. Len(b)
    OBVIOUS
  <2> QED BY <2>1
<1> HIDE DEF D
<1>4. CASE D = {}
  <2>1. Memcmp(a, b, n) = 0
    BY ONLY <1>2, <1>4
  <2>2. \A m \in 1 .. n : ~(a[m] > b[m])
    BY ONLY <1>1, <1>3, <1>4
  <2> QED BY ONLY <2>1, <2>2
<1>5. CASE D # {}
  <2>1. PICK m \in D : \A x \in D : m <= x
    BY ONLY <1>1, <1>5, LeastNatural
  <2>2. Min(D) = m
    BY ONLY <1>1, <2>1, LeastIs
  <2>3. m \in 1 .. n /\ a[m] # b[m]
    BY ONLY <1>1, m \in D
  <2>4. PICK x \in Nat : x = a[m]
    BY ONLY <1>3, <2>3
  <2>5. PICK y \in Nat : y = b[m]
    BY ONLY <1>3, <2>3
  <2>6. Memcmp(a, b, n) > 0 <=> a[m] > b[m]
    <3>1. Memcmp(a, b, n) = x - y
      BY ONLY <1>2, <1>5, <2>2, <2>4, <2>5
    <3>2. x - y > 0 <=> x > y
      BY ONLY x \in Nat, y \in Nat
    <3> QED BY ONLY <2>4, <2>5, <3>1, <3>2
  <2>7. \A i \in 1 .. m - 1 : a[i] = b[i]
    <3>1. \A i \in 1 .. m - 1 : i \in 1 .. n /\ ~(m <= i)
      BY ONLY <2>3, n \in Nat
    <3> QED BY ONLY <1>1, <2>1, <3>1
  <2>8. ASSUME NEW k \in 1 .. n, a[k] > b[k], \A i \in 1 .. k - 1 : a[i] = b[i]
        PROVE  k = m
    <3>1. k \in D
      BY ONLY <1>1, <1>3, <2>8, k \in 1 .. n
    <3>2. m <= k
      BY ONLY <2>1, <3>1
    <3>3. ~(m < k)
      <4> SUFFICES ASSUME m < k PROVE FALSE
        OBVIOUS
      <4>1. m \in 1 .. k - 1
        BY ONLY <2>3, k \in 1 .. n, m < k, n \in Nat
      <4> QED BY ONLY <2>3, <2>8, <4>1
    <3> QED BY ONLY <2>3, <3>2, <3>3, k \in 1 .. n, n \in Nat
  <2> QED BY ONLY <2>3, <2>6, <2>7, <2>8
<1> QED BY ONLY <1>4, <1>5

LEMMA StrcmpTransitive ==
    ASSUME NEW a \in Seq(Nat), NEW b \in Seq(Nat), NEW c \in Seq(Nat),
           Strcmp(a, b) > 0, Strcmp(b, c) > 0
    PROVE  Strcmp(a, c) > 0
<1>1. Len(a) \in Nat /\ Len(b) \in Nat /\ Len(c) \in Nat
  OBVIOUS
<1>2. ASSUME NEW x \in Seq(Nat), NEW y \in Seq(Nat)
      PROVE  Strcmp(x, y) > 0 <=>
              \/ Len(x) > Len(y)
              \/ Len(x) = Len(y) /\ \E m \in 1 .. Len(x) :
                                      x[m] > y[m] /\ \A i \in 1 .. m - 1 : x[i] = y[i]
  <2>1. Len(x) \in Nat /\ Len(y) \in Nat
    OBVIOUS
  <2>2. CASE Len(x) > Len(y)
    BY ONLY <2>1, <2>2 DEF Strcmp
  <2>3. CASE Len(x) < Len(y)
    <3>1. Strcmp(x, y) = -1 /\ ~(-1 > 0)
      BY ONLY <2>1, <2>3 DEF Strcmp
    <3> QED BY ONLY <2>1, <2>3, <3>1
  <2>4. CASE Len(x) = Len(y)
    <3>1. Strcmp(x, y) = Memcmp(x, y, Len(x))
      BY ONLY <2>1, <2>4 DEF Strcmp
    <3>2. Len(x) <= Len(x) /\ Len(x) <= Len(y) /\ ~(Len(x) > Len(y))
      BY ONLY <2>1, <2>4
    <3>3. Memcmp(x, y, Len(x)) > 0 <=>
            \E m \in 1 .. Len(x) : x[m] > y[m] /\ \A i \in 1 .. m - 1 : x[i] = y[i]
      BY ONLY <2>1, <3>2, MemcmpGreater, x \in Seq(Nat), y \in Seq(Nat)
    <3> QED BY ONLY <2>4, <3>1, <3>2, <3>3
  <2> QED BY ONLY <2>1, <2>2, <2>3, <2>4
<1>3. \/ Len(a) > Len(b)
      \/ Len(a) = Len(b) /\ \E m \in 1 .. Len(a) :
                              a[m] > b[m] /\ \A i \in 1 .. m - 1 : a[i] = b[i]
  BY ONLY <1>2, a \in Seq(Nat), b \in Seq(Nat), Strcmp(a, b) > 0
<1>4. \/ Len(b) > Len(c)
      \/ Len(b) = Len(c) /\ \E m \in 1 .. Len(b) :
                              b[m] > c[m] /\ \A i \in 1 .. m - 1 : b[i] = c[i]
  BY ONLY <1>2, b \in Seq(Nat), c \in Seq(Nat), Strcmp(b, c) > 0
<1>5. CASE Len(a) > Len(b) \/ Len(b) > Len(c)
  <2>1. Len(a) > Len(c)
    BY ONLY <1>1, <1>3, <1>4, <1>5
  <2> QED BY ONLY <1>2, <2>1, a \in Seq(Nat), c \in Seq(Nat)
<1>6. CASE ~(Len(a) > Len(b) \/ Len(b) > Len(c))
  <2>1. Len(a) = Len(b) /\ Len(b) = Len(c)
    BY ONLY <1>3, <1>4, <1>6
  <2>2. PICK m \in 1 .. Len(a) : a[m] > b[m] /\ \A i \in 1 .. m - 1 : a[i] = b[i]
    BY ONLY <1>3, <1>6
  <2>3. PICK k \in 1 .. Len(a) : b[k] > c[k] /\ \A i \in 1 .. k - 1 : b[i] = c[i]
    BY ONLY <1>4, <1>6, <2>1
  <2>4. \A i \in 1 .. Len(a) : a[i] \in Nat /\ b[i] \in Nat /\ c[i] \in Nat
    <3>1. \A i \in 1 .. Len(a) : i \in 1 .. Len(b) /\ i \in 1 .. Len(c)
      BY ONLY <2>1
    <3>2. (\A i \in 1 .. Len(a) : a[i] \in Nat) /\ (\A i \in 1 .. Len(b) : b[i] \in Nat)
          /\ (\A i \in 1 .. Len(c) : c[i] \in Nat)
      BY ONLY Elements, a \in Seq(Nat), b \in Seq(Nat), c \in Seq(Nat)
    <3> QED BY ONLY <3>1, <3>2
  <2>5. PICK p \in 1 .. Len(a) : p = IF m <= k THEN m ELSE k
    OBVIOUS
  <2>6. \A i \in 1 .. p - 1 : a[i] = c[i]
    <3>1. \A i \in 1 .. p - 1 : i \in 1 .. m - 1 /\ i \in 1 .. k - 1
      BY ONLY <1>1, <2>5, m \in 1 .. Len(a), k \in 1 .. Len(a)
    <3> QED BY ONLY <2>2, <2>3, <3>1
  <2>7. a[p] > c[p]
    <3>1. CASE m < k
      <4>1. m \in 1 .. k - 1 /\ p = m
        BY ONLY <1>1, <2>5, <3>1, m \in 1 .. Len(a), k \in 1 .. Len(a)
      <4> QED BY ONLY <2>2, <2>3, <4>1
    <3>2. CASE k < m
      <4>1. k \in 1 .. m - 1 /\ p = k
        BY ONLY <1>1, <2>5, <3>2, m \in 1 .. Len(a), k \in 1 .. Len(a)
      <4> QED BY ONLY <2>2, <2>3, <4>1
    <3>3. CASE k = m
      <4>1. p = m
        BY ONLY <2>5, <3>3
      <4>2. a[m] > b[m] /\ b[m] > c[m]
        BY ONLY <2>2, <2>3, <3>3
      <4>3. a[m] \in Nat /\ b[m] \in Nat /\ c[m] \in Nat
        BY ONLY <2>4, m \in 1 .. Len(a)
      <4> QED BY ONLY <4>1, <4>2, <4>3
    <3> QED BY ONLY <1>1, <3>1, <3>2, <3>3, m \in 1 .. Len(a), k \in 1 .. Len(a)
  <2> QED BY ONLY <1>2, <2>1, <2>6, <2>7, p \in 1 .. Len(a), a \in Seq(Nat), c \in Seq(Nat)
<1> QED BY ONLY <1>5, <1>6

\* strstr: a match at i is a way to take the string apart.
LEMMA MatchIsPart ==
    ASSUME NEW a \in Seq(Nat), NEW b \in Seq(Nat), NEW i \in 1 .. Len(a) - Len(b) + 1
    PROVE  Memcmp(SubSeq(a, i, Len(a)), b, Len(b)) = 0
             <=> \A k \in 1 .. Len(b) : a[k + i - 1] = b[k]
<1>1. Len(a) \in Nat /\ Len(b) \in Nat /\ i \in Nat /\ i >= 1 /\ i + Len(b) <= Len(a) + 1
  OBVIOUS
<1>2. PICK c : c = SubSeq(a, i, Len(a))
  OBVIOUS
<1>3. PartOf(Nat, a, i, Len(a) - i + 1, c)
  <2>1. Len(a) >= i - 1 /\ Len(a) <= Len(a)
    BY ONLY <1>1
  <2> QED BY ONLY <1>1, <1>2, <2>1, a \in Seq(Nat), Part
<1>4. c \in Seq(Nat) /\ Len(c) = Len(a) - i + 1 /\ \A k \in 1 .. Len(a) - i + 1 : c[k] = a[k + i - 1]
  BY ONLY <1>3 DEF PartOf
<1>5. Len(b) <= Len(c) /\ Len(b) <= Len(b)
  BY ONLY <1>1, <1>4
<1>6. Memcmp(c, b, Len(b)) = 0 <=> \A k \in 1 .. Len(b) : c[k] = b[k]
  <2>1. PICK n : n = Len(b)
    OBVIOUS
  <2>2. c \in Seq(Nat) /\ n \in Nat /\ n <= Len(c) /\ n <= Len(b)
    BY ONLY <1>1, <1>4, <1>5, <2>1
  <2>3. Memcmp(c, b, n) = 0 <=> \A k \in 1 .. n : c[k] = b[k]
    BY ONLY <2>2, MemcmpExact, b \in Seq(Nat), Zenon
  <2> QED BY ONLY <2>1, <2>3
<1>7. \A k \in 1 .. Len(b) : c[k] = a[k + i - 1]
  <2>1. \A k \in 1 .. Len(b) : k \in 1 .. Len(a) - i + 1
    BY ONLY <1>1
  <2> QED BY ONLY <1>4, <2>1
<1> QED BY ONLY <1>2, <1>6, <1>7

MatchesAt(a, b, i) ==
    i \in 1 .. Len(a) - Len(b) + 1 /\ \A k \in 1 .. Len(b) : a[k + i - 1] = b[k]

LEMMA StrstrFinds ==
    ASSUME NEW a \in Seq(Nat), NEW b \in Seq(Nat), NEW at, at = Strstr(a, b)
    PROVE  /\ at # 0 => MatchesAt(a, b, at)
           /\ \A i \in 1 .. Len(a) - Len(b) + 1 : MatchesAt(a, b, i) => at \in 1 .. i
<1> DEFINE At == {i \in 1 .. Len(a) - Len(b) + 1 :
                    Memcmp(SubSeq(a, i, Len(a)), b, Len(b)) = 0}
<1>1. at = IF At = {} THEN 0 ELSE Min(At)
  BY DEF Strstr
<1>2. \A i \in 1 .. Len(a) - Len(b) + 1 : i \in At <=> MatchesAt(a, b, i)
  BY MatchIsPart DEF MatchesAt
<1>3. Len(a) \in Nat /\ Len(b) \in Nat
  OBVIOUS
<1>4. At \in SUBSET Nat /\ At \in SUBSET Int /\ 0 \notin At /\ At \subseteq 1 .. Len(a) - Len(b) + 1
  BY ONLY <1>3
<1> HIDE DEF At
<1>5. CASE At = {}
  BY ONLY <1>1, <1>2, <1>5
<1>6. CASE At # {}
  <2>1. PICK m \in At : \A x \in At : m <= x
    BY ONLY <1>4, <1>6, LeastNatural
  <2>2. at = m /\ m \in Nat /\ m # 0 /\ m \in 1 .. Len(a) - Len(b) + 1
    BY ONLY <1>1, <1>4, <1>6, <2>1, LeastIs
  <2>3. ASSUME NEW i \in 1 .. Len(a) - Len(b) + 1, MatchesAt(a, b, i) PROVE at \in 1 .. i
    <3>1. m <= i
      BY ONLY <1>2, <2>1, <2>3, i \in 1 .. Len(a) - Len(b) + 1
    <3> QED BY ONLY <1>3, <2>2, <3>1, i \in 1 .. Len(a) - Len(b) + 1
  <2> QED BY ONLY <1>2, <2>2, <2>3, m \in At
<1> QED BY ONLY <1>5, <1>6

LEMMA StringsAre ==
    ASSUME NEW s \in Strings
    PROVE  s \in Seq(Nat) /\ Len(s) \in Nat
             /\ \A i \in 1 .. Len(s), j \in 1 .. Len(s) : SubSeq(s, i, j) \in Strings \cup {<<>>}
<1>1. s \in Seq(Nat) /\ \A i \in 1 .. Len(s), j \in 1 .. Len(s) : SubSeq(s, i, j) \in Strings \cup {<<>>}
  BY StdlibAssumption
<1> QED BY <1>1


\* strstr finds what can be taken out of the string.
FoundFirst(a, b, at) ==
    /\ at # 0 <=> \E p, q \in Strings \cup {<<>>} : a = p \o b \o q /\ at = Len(p) + 1
    /\ \A p, q \in Strings \cup {<<>>} : a = p \o b \o q => at \in 1 .. Len(p) + 1

LEMMA StrstrExact ==
    ASSUME NEW a \in Strings, NEW b \in Strings, NEW at, at = Strstr(a, b)
    PROVE  FoundFirst(a, b, at)
<1>1. a \in Seq(Nat) /\ Len(a) \in Nat /\ b \in Seq(Nat) /\ Len(b) \in Nat
  BY StringsAre
<1>2. ASSUME NEW i \in 1 .. Len(a) - Len(b) + 1, \A k \in 1 .. Len(b) : a[k + i - 1] = b[k]
      PROVE  \E p, q \in Strings \cup {<<>>} : a = p \o b \o q /\ i = Len(p) + 1
  <2>1. i \in Nat /\ i >= 1 /\ i + Len(b) <= Len(a) + 1
    BY ONLY <1>1, i \in 1 .. Len(a) - Len(b) + 1
  <2>2. PICK p : p = SubSeq(a, 1, i - 1)
    OBVIOUS
  <2>3. PICK q : q = SubSeq(a, i + Len(b), Len(a))
    OBVIOUS
  <2>4. p \in Seq(Nat) /\ Len(p) = i - 1 /\ \A k \in 1 .. i - 1 : p[k] = a[k]
    <3>1. 1 \in Nat /\ 1 >= 1 /\ i - 1 \in Nat /\ i - 1 <= Len(a) /\ i - 1 >= 1 - 1
          /\ i - 1 - 1 + 1 = i - 1 /\ \A k \in 1 .. i - 1 : k + 1 - 1 = k
      BY ONLY <1>1, <2>1
    <3>2. PartOf(Nat, a, 1, i - 1 - 1 + 1, p)
      BY ONLY <1>1, <2>2, <3>1, Part
    <3> QED BY ONLY <3>1, <3>2 DEF PartOf
  <2>5. q \in Seq(Nat) /\ Len(q) = Len(a) - (i + Len(b)) + 1
        /\ \A k \in 1 .. Len(a) - (i + Len(b)) + 1 : q[k] = a[k + (i + Len(b)) - 1]
    <3>1. i + Len(b) \in Nat /\ i + Len(b) >= 1 /\ Len(a) <= Len(a) /\ Len(a) >= (i + Len(b)) - 1
      BY ONLY <1>1, <2>1
    <3>2. PartOf(Nat, a, i + Len(b), Len(a) - (i + Len(b)) + 1, q)
      BY ONLY <1>1, <2>3, <3>1, Part
    <3> QED BY ONLY <3>2 DEF PartOf
  <2>6. p \in Strings \cup {<<>>}
    <3>1. CASE i = 1
      <4>1. Len(p) = 0
        BY ONLY <2>4, <3>1
      <4> QED BY ONLY <2>4, <4>1
    <3>2. CASE i # 1
      <4>1. 1 \in 1 .. Len(a) /\ i - 1 \in 1 .. Len(a)
        BY ONLY <1>1, <2>1, <3>2
      <4> QED BY <2>2, <4>1, StringsAre
    <3> QED BY ONLY <3>1, <3>2
  <2>7. q \in Strings \cup {<<>>}
    <3>1. CASE i + Len(b) > Len(a)
      <4>1. Len(q) = 0
        <5>1. \A x, y, z \in Nat : z + y <= x + 1 /\ z + y > x => x - (z + y) + 1 = 0
          OBVIOUS
        <5>2. Len(a) - (i + Len(b)) + 1 = 0
          BY ONLY <1>1, <2>1, <3>1, <5>1
        <5> QED BY ONLY <2>5, <5>2
      <4> QED BY ONLY <2>5, <4>1
    <3>2. CASE ~(i + Len(b) > Len(a))
      <4>1. i + Len(b) \in 1 .. Len(a) /\ Len(a) \in 1 .. Len(a)
        BY ONLY <1>1, <2>1, <3>2
      <4> QED BY <2>3, <4>1, StringsAre
    <3> QED BY ONLY <3>1, <3>2
  <2>8. a = p \o b \o q
    <3>1. PICK c : c = p \o b
      OBVIOUS
    <3>2. c \in Seq(Nat) /\ Len(c) = Len(p) + Len(b) /\ (\A k \in 1 .. Len(p) : c[k] = p[k])
          /\ (\A k \in 1 .. Len(b) : c[k + Len(p)] = b[k])
      <4>1. JoinedOf(Nat, p, b, c)
        BY ONLY <1>1, <2>4, <3>1, Joined
      <4> QED BY ONLY <4>1 DEF JoinedOf
    <3>3. PICK d : d = c \o q
      OBVIOUS
    <3>4. d \in Seq(Nat) /\ Len(d) = Len(c) + Len(q) /\ (\A k \in 1 .. Len(c) : d[k] = c[k])
          /\ (\A k \in 1 .. Len(q) : d[k + Len(c)] = q[k])
      <4>1. JoinedOf(Nat, c, q, d)
        BY ONLY <2>5, <3>2, <3>3, Joined
      <4> QED BY ONLY <4>1 DEF JoinedOf
    <3>5. Len(a) = Len(d)
      BY ONLY <1>1, <2>1, <2>4, <2>5, <3>2, <3>4
    <3>6. ASSUME NEW k \in 1 .. Len(a) PROVE a[k] = d[k]
      <4>1. CASE k \in 1 .. i - 1
        <5>1. k \in 1 .. Len(p) /\ k \in 1 .. Len(c)
          BY ONLY <1>1, <2>1, <2>4, <3>2, <4>1
        <5> QED BY ONLY <2>4, <3>2, <3>4, <4>1, <5>1
      <4>2. CASE k \in i .. i + Len(b) - 1
        <5>1. PICK j : j = k - i + 1
          OBVIOUS
        <5>2. j \in 1 .. Len(b) /\ j + i - 1 = k /\ j + Len(p) = k /\ k \in 1 .. Len(c)
          BY ONLY <1>1, <2>1, <2>4, <3>2, <4>2, <5>1
        <5>3. a[k] = b[j]
          BY ONLY <1>2, <5>2
        <5>4. c[k] = b[j]
          BY ONLY <3>2, <5>2
        <5> QED BY ONLY <3>4, <5>2, <5>3, <5>4
      <4>3. CASE k \in i + Len(b) .. Len(a)
        <5>1. PICK j : j = k - (i + Len(b)) + 1
          OBVIOUS
        <5>2. j \in 1 .. Len(a) - (i + Len(b)) + 1 /\ j + (i + Len(b)) - 1 = k /\ j + Len(c) = k
              /\ j \in 1 .. Len(q)
          BY ONLY <1>1, <2>1, <2>4, <2>5, <3>2, <4>3, <5>1
        <5>3. q[j] = a[k]
          BY ONLY <2>5, <5>2
        <5>4. d[k] = q[j]
          BY ONLY <3>4, <5>2
        <5> QED BY ONLY <5>3, <5>4
      <4>4. k \in 1 .. i - 1 \/ k \in i .. i + Len(b) - 1 \/ k \in i + Len(b) .. Len(a)
        BY ONLY <1>1, <2>1, k \in 1 .. Len(a)
      <4> QED BY ONLY <4>1, <4>2, <4>3, <4>4
    <3>7. a = d
      BY ONLY <1>1, <3>4, <3>5, <3>6, SameSeq
    <3> QED BY ONLY <3>1, <3>3, <3>7
  <2>9. i = Len(p) + 1
    BY ONLY <2>1, <2>4
  <2> QED BY ONLY <2>6, <2>7, <2>8, <2>9
<1>3. ASSUME NEW p \in Strings \cup {<<>>}, NEW q \in Strings \cup {<<>>}, a = p \o b \o q
      PROVE  MatchesAt(a, b, Len(p) + 1)
  <2>1. p \in Seq(Nat) /\ q \in Seq(Nat)
    <3>1. <<>> \in Seq(Nat)
      OBVIOUS
    <3> QED BY <3>1, StringsAre
  <2>2. Len(p) \in Nat /\ Len(q) \in Nat
    BY ONLY <2>1
  <2>3. PICK c : c = p \o b
    OBVIOUS
  <2>4. c \in Seq(Nat) /\ Len(c) = Len(p) + Len(b)
        /\ (\A k \in 1 .. Len(b) : c[k + Len(p)] = b[k])
    <3>1. JoinedOf(Nat, p, b, c)
      BY ONLY <1>1, <2>1, <2>3, Joined
    <3> QED BY ONLY <3>1 DEF JoinedOf
  <2>5. Len(a) = Len(c) + Len(q) /\ (\A k \in 1 .. Len(c) : a[k] = c[k])
    <3>1. JoinedOf(Nat, c, q, a)
      BY ONLY <1>3, <2>1, <2>3, <2>4, Joined
    <3> QED BY ONLY <3>1 DEF JoinedOf
  <2>6. PICK i : i = Len(p) + 1
    OBVIOUS
  <2>7. i \in 1 .. Len(a) - Len(b) + 1
    <3>1. \A x, y, z \in Nat : x + 1 \in 1 .. ((x + y) + z) - y + 1
      OBVIOUS
    <3>2. Len(a) = (Len(p) + Len(b)) + Len(q)
      BY ONLY <2>4, <2>5
    <3>3. Len(p) + 1 \in 1 .. ((Len(p) + Len(b)) + Len(q)) - Len(b) + 1
      BY ONLY <1>1, <2>2, <3>1
    <3> QED BY ONLY <2>6, <3>2, <3>3
  <2>8. ASSUME NEW k \in 1 .. Len(b) PROVE a[k + i - 1] = b[k]
    <3>1. k + i - 1 = k + Len(p) /\ k + Len(p) \in 1 .. Len(c)
      BY ONLY <1>1, <2>2, <2>4, <2>6, k \in 1 .. Len(b)
    <3> QED BY ONLY <2>4, <2>5, <3>1, k \in 1 .. Len(b)
  <2>9. MatchesAt(a, b, i)
    BY ONLY <2>7, <2>8 DEF MatchesAt
  <2> QED BY ONLY <2>6, <2>9
<1>4. /\ at # 0 => MatchesAt(a, b, at)
      /\ \A i \in 1 .. Len(a) - Len(b) + 1 : MatchesAt(a, b, i) => at \in 1 .. i
  BY ONLY <1>1, StrstrFinds, at = Strstr(a, b)
<1>5. at # 0 => \E p, q \in Strings \cup {<<>>} : a = p \o b \o q /\ at = Len(p) + 1
  BY ONLY <1>2, <1>4 DEF MatchesAt
<1>6. ASSUME NEW p \in Strings \cup {<<>>}, NEW q \in Strings \cup {<<>>}, a = p \o b \o q
      PROVE  at \in 1 .. Len(p) + 1
  <2>1. MatchesAt(a, b, Len(p) + 1)
    BY ONLY <1>3, <1>6, p \in Strings \cup {<<>>}, q \in Strings \cup {<<>>}
  <2>2. Len(p) + 1 \in 1 .. Len(a) - Len(b) + 1
    BY ONLY <2>1 DEF MatchesAt
  <2> QED BY ONLY <1>4, <2>1, <2>2
<1>7. ASSUME NEW p \in Strings \cup {<<>>}, NEW q \in Strings \cup {<<>>}, a = p \o b \o q
      PROVE  at # 0
  <2>1. at \in 1 .. Len(p) + 1
    BY ONLY <1>6, <1>7, p \in Strings \cup {<<>>}, q \in Strings \cup {<<>>}
  <2> QED BY ONLY <2>1
<1> QED BY ONLY <1>5, <1>6, <1>7 DEF FoundFirst

\* strcat.
LEMMA StrcatExact ==
    ASSUME NEW a \in Seq(Nat), NEW b \in Seq(Nat)
    PROVE  IsPrefix(a, Strcat(a, b)) /\ Len(Strcat(a, b)) = Len(a) + Len(b)
<1>1. Len(a) \in Nat /\ Len(b) \in Nat
  OBVIOUS
<1>2. SubSeq(b, 1, Len(b)) = b /\ SubSeq(a, 1, Len(a)) = a
  BY WholePart
<1>3. Smaller(Len(b), Len(b)) = Len(b)
  BY DEF Smaller
<1>4. PICK c : c = a \o b
  OBVIOUS
<1>5. Strcat(a, b) = c
  BY ONLY <1>2, <1>3, <1>4 DEF Strcat, Strncat
<1>6. c \in Seq(Nat) /\ Len(c) = Len(a) + Len(b) /\ \A k \in 1 .. Len(a) : c[k] = a[k]
  <2>1. JoinedOf(Nat, a, b, c)
    BY ONLY <1>4, Joined, a \in Seq(Nat), b \in Seq(Nat)
  <2> QED BY ONLY <2>1 DEF JoinedOf
<1>7. Len(a) <= Len(c)
  BY ONLY <1>1, <1>6
<1>8. SubSeq(c, 1, Len(a)) = a
  BY ONLY <1>6, <1>7, WholePart, a \in Seq(Nat)
<1> QED BY ONLY <1>2, <1>5, <1>6, <1>7, <1>8 DEF IsPrefix


\* strchr and strrchr.
LEMMA GreatestIs ==
    ASSUME NEW n \in Nat, NEW S \in SUBSET (1 .. n), S # {}
    PROVE  Max(S) \in S /\ \A x \in S : x <= Max(S)
<1> DEFINE T == {y \in Nat : n - y \in S}
<1>1. T \in SUBSET Nat
  OBVIOUS
<1>2. PICK s \in S : TRUE
  OBVIOUS
<1>3. n - s \in Nat /\ n - (n - s) = s
  BY <1>2
<1>4. T # {}
  BY <1>2, <1>3
<1>5. PICK m \in T : \A y \in T : m <= y
  <2> HIDE DEF T
  <2> QED BY ONLY <1>1, <1>4, LeastNatural
<1>6. n - m \in S /\ m \in Nat
  OBVIOUS
<1>7. ASSUME NEW x \in S PROVE n - m >= x
  <2>1. n - x \in Nat /\ n - (n - x) = x
    OBVIOUS
  <2>2. n - x \in T
    BY <2>1
  <2>3. m <= n - x
    <3> HIDE DEF T
    <3> QED BY ONLY <1>5, <2>2
  <2>4. x \in Nat
    OBVIOUS
  <2> QED BY ONLY <1>6, <2>1, <2>3, <2>4, n \in Nat
<1>8. \E x \in S : \A y \in S : x >= y
  BY ONLY <1>6, <1>7
<1>9. Max(S) \in S /\ \A y \in S : Max(S) >= y
  BY ONLY <1>8 DEF Max
<1>10. \A x \in S : x \in Int
  OBVIOUS
<1> QED BY ONLY <1>9, <1>10

LEMMA LeastOf ==
    ASSUME NEW n \in Nat, NEW S \in SUBSET (1 .. n), S # {}
    PROVE  Min(S) \in S /\ \A x \in S : Min(S) <= x
<1>1. S \in SUBSET Nat
  OBVIOUS
<1>2. \E x \in S : \A y \in S : x <= y
  BY <1>1, LeastNatural
<1> QED BY ONLY <1>2 DEF Min

LEMMA SearchExact ==
    ASSUME NEW s \in Seq(Nat), NEW c, NEW first, NEW last,
           first = Strchr(s, c), last = Strrchr(s, c)
    PROVE  /\ first # 0 => s[first] = c /\ first <= last
           /\ c # Nul => (first = 0 <=> last = 0) /\ (last # 0 => s[last] = c)
           /\ c = Nul => first = 0 /\ last = Len(s) + 1
           /\ \A i \in 1 .. Len(s) : s[i] = c => i \in first .. last
<1> DEFINE I == {i \in 1 .. Len(s) : s[i] = c}
<1>1. first = IF I # {} THEN Min(I) ELSE 0
  BY DEF Strchr, SelectInSeq
<1>2. last = IF c = Nul THEN Len(s) + 1 ELSE IF I # {} THEN Max(I) ELSE 0
  BY DEF Strrchr, SelectLastInSeq
<1>3. Len(s) \in Nat
  OBVIOUS
<1>4. c = Nul => I = {}
  <2> SUFFICES ASSUME c = Nul, NEW i \in I PROVE FALSE
    OBVIOUS
  <2>1. s[i] \in Nat /\ s[i] = c
    OBVIOUS
  <2> QED BY <2>1 DEF Nul
<1>5. I \in SUBSET (1 .. Len(s)) /\ \A i \in 1 .. Len(s) : s[i] = c <=> i \in I
  OBVIOUS
<1> HIDE DEF I
<1>6. CASE I = {}
  <2>1. first = 0 /\ \A i \in 1 .. Len(s) : s[i] # c
    BY ONLY <1>1, <1>5, <1>6
  <2>2. (c # Nul => last = 0) /\ (c = Nul => last = Len(s) + 1)
    BY ONLY <1>2, <1>6
  <2> QED BY ONLY <2>1, <2>2
<1>7. CASE I # {}
  <2>1. Min(I) \in I /\ \A x \in I : Min(I) <= x
    BY ONLY <1>3, <1>5, <1>7, LeastOf
  <2>2. Max(I) \in I /\ \A x \in I : x <= Max(I)
    BY ONLY <1>3, <1>5, <1>7, GreatestIs
  <2>3. first = Min(I) /\ last = Max(I) /\ c # Nul
    BY ONLY <1>1, <1>2, <1>4, <1>7
  <2>4. first \in I /\ last \in I /\ \A x \in I : first <= x /\ x <= last
    BY ONLY <2>1, <2>2, <2>3
  <2>5. \A x \in I : x \in Nat /\ x # 0
    BY ONLY <1>5, <1>3
  <2>6. s[first] = c /\ s[last] = c
    BY ONLY <1>5, <2>4
  <2>7. first <= last
    BY ONLY <2>4
  <2>8. first # 0 /\ last # 0
    BY ONLY <2>4, <2>5
  <2>9. \A i \in I : i \in first .. last
    BY ONLY <2>4, <2>5
  <2> QED BY ONLY <1>5, <2>3, <2>6, <2>7, <2>8, <2>9
<1> QED BY ONLY <1>6, <1>7

\* strnlen counts what strncpy copies.
LEMMA CopyExact ==
    ASSUME NEW s \in Seq(Nat), NEW n \in Nat, NEW copy, copy = Strncpy(s, n)
    PROVE  Strnlen(s, n) = Cardinality({i \in 1 .. n : copy[i] # Nul})
<1>1. Len(s) \in Nat
  OBVIOUS
<1>2. PICK k \in Nat : k = Strnlen(s, n) /\ k <= n /\ k <= Len(s) /\ (k = n \/ k = Len(s))
  <2>1. Strnlen(s, n) = IF Len(s) > n THEN n ELSE Len(s)
    BY DEF Strnlen, Smaller
  <2> QED BY ONLY <1>1, <2>1, n \in Nat
<1>3. \A i \in 1 .. n : copy[i] = IF i <= Len(s) THEN s[i] ELSE Nul
  BY DEF Strncpy
<1>4. ASSUME NEW i \in 1 .. n PROVE copy[i] # Nul <=> i <= k
  <2>1. CASE i <= Len(s)
    <3>1. s[i] \in Nat
      <4>1. i \in 1 .. Len(s)
        BY ONLY <1>1, <2>1, n \in Nat, i \in 1 .. n
      <4> QED BY ONLY <4>1, s \in Seq(Nat)
    <3>2. copy[i] # Nul
      BY ONLY <1>3, <2>1, <3>1, i \in 1 .. n DEF Nul
    <3>3. i <= k
      BY ONLY <1>1, <1>2, <2>1, n \in Nat, i \in 1 .. n
    <3> QED BY ONLY <3>2, <3>3
  <2>2. CASE ~(i <= Len(s))
    <3>1. copy[i] = Nul
      BY ONLY <1>3, <2>2, i \in 1 .. n
    <3>2. ~(i <= k)
      BY ONLY <1>1, <1>2, <2>2, n \in Nat, i \in 1 .. n
    <3> QED BY ONLY <3>1, <3>2
  <2> QED BY ONLY <2>1, <2>2
<1>5. {i \in 1 .. n : copy[i] # Nul} = 1 .. k
  <2>1. \A i \in 1 .. k : i \in 1 .. n /\ i <= k
    BY ONLY <1>2, n \in Nat
  <2>2. \A i \in 1 .. n : i <= k => i \in 1 .. k
    BY ONLY <1>2, n \in Nat
  <2> QED BY ONLY <1>4, <2>1, <2>2
<1>6. Cardinality(1 .. k) = k
  <2>1. Cardinality(1 .. k) = IF 1 > k THEN 0 ELSE k - 1 + 1
    BY FS_Interval
  <2> QED BY ONLY <2>1, k \in Nat
<1> QED BY ONLY <1>2, <1>5, <1>6

-----------------------------------------------------------------------------
\* What ltoa and ultoa write is the number in that base, for every base and
\* every number in range, and strtol and strtoul read it back; strtoul gives
\* every other string its number modulo the range or the error it has; strcmp
\* is a total order; strstr, strchr and strrchr find the occurrences they are
\* to find; strncpy copies what strnlen counts.
THEOREM StringsAlwaysExact == StdlibSpec => []StringsExact
<1>1. StdlibInit => StringsExact
  BY DEF StdlibInit, NoCall, StringsExact, NumbersExact, OverflowExact, ComparisonExact, SearchesExact
<1>2. StringsExact /\ [StdlibNext]_call => StringsExact'
  <2> SUFFICES ASSUME StringsExact, [StdlibNext]_call PROVE StringsExact'
    OBVIOUS
  <2>1. CASE UNCHANGED call
    BY <2>1 DEF StringsExact, NumbersExact, OverflowExact, ComparisonExact, SearchesExact, Amount
  <2>2. CASE call' = NoCall
    BY <2>2 DEF NoCall, StringsExact, NumbersExact, OverflowExact, ComparisonExact, SearchesExact
  <2>3. ASSUME CallString PROVE StringsExact'
    <3>1. PICK a \in Strings, b \in Strings :
            call' = [fn |-> "string", a |-> a, b |-> b, cmp |-> Strcmp(a, b),
                     rev |-> Strcmp(b, a), cat |-> Strcat(a, b), at |-> Strstr(a, b)]
      BY <2>3 DEF CallString
    <3>2. a \in Seq(Nat) /\ b \in Seq(Nat)
      BY StringsAre
    <3>3. (Strcmp(a, b) = 0 <=> a = b) /\ (Strcmp(a, b) > 0 <=> Strcmp(b, a) < 0)
      BY ONLY <3>2, StrcmpExact
    <3>t. \A c \in Strings : Strcmp(a, b) > 0 /\ Strcmp(b, c) > 0 => Strcmp(a, c) > 0
      <4>1. \A c \in Strings : c \in Seq(Nat)
        BY StringsAre
      <4> QED BY ONLY <3>2, <4>1, StrcmpTransitive
    <3>a. PICK at : at = Strstr(a, b)
      OBVIOUS
    <3>4. FoundFirst(a, b, at)
      BY ONLY <3>a, StrstrExact, a \in Strings, b \in Strings
    <3>5. IsPrefix(a, Strcat(a, b)) /\ Len(Strcat(a, b)) = Len(a) + Len(b)
      BY ONLY <3>2, StrcatExact
    <3>6. /\ call'.fn = "string" /\ call'.a = a /\ call'.b = b /\ call'.cmp = Strcmp(a, b)
          /\ call'.rev = Strcmp(b, a) /\ call'.cat = Strcat(a, b) /\ call'.at = at
      BY ONLY <3>1, <3>a
    <3>7. ComparisonExact'
      BY ONLY <3>3, <3>t, <3>4, <3>5, <3>6 DEF ComparisonExact, FoundFirst
    <3> QED BY ONLY <3>6, <3>7 DEF StringsExact, NumbersExact, OverflowExact, SearchesExact
  <2>4. ASSUME CallSearch PROVE StringsExact'
    <3>1. PICK s \in Strings, c \in {0, 1, Minus, Nul}, n \in 0 .. 3 :
            call' = [fn |-> "search", s |-> s, c |-> c, n |-> n,
                     first |-> Strchr(s, c), last |-> Strrchr(s, c),
                     copy |-> Strncpy(s, n), len |-> Strnlen(s, n)]
      BY <2>4 DEF CallSearch
    <3>2. s \in Seq(Nat) /\ n \in Nat
      BY StringsAre
    <3>3. PICK first : first = Strchr(s, c)
      OBVIOUS
    <3>4. PICK last : last = Strrchr(s, c)
      OBVIOUS
    <3>5. /\ first # 0 => s[first] = c /\ first <= last
          /\ c # Nul => (first = 0 <=> last = 0) /\ (last # 0 => s[last] = c)
          /\ c = Nul => first = 0 /\ last = Len(s) + 1
          /\ \A i \in 1 .. Len(s) : s[i] = c => i \in first .. last
      BY ONLY <3>2, <3>3, <3>4, SearchExact
    <3>6. PICK copy : copy = Strncpy(s, n)
      OBVIOUS
    <3>7. Strnlen(s, n) = Cardinality({i \in 1 .. n : copy[i] # Nul})
      BY ONLY <3>2, <3>6, CopyExact
    <3>8. /\ call'.fn = "search" /\ call'.s = s /\ call'.c = c /\ call'.n = n
          /\ call'.first = first /\ call'.last = last /\ call'.copy = copy
          /\ call'.len = Strnlen(s, n)
      BY ONLY <3>1, <3>3, <3>4, <3>6
    <3>9. SearchesExact'
      BY ONLY <3>5, <3>7, <3>8 DEF SearchesExact
    <3> QED BY ONLY <3>8, <3>9 DEF StringsExact, NumbersExact, OverflowExact, ComparisonExact
  <2>5. ASSUME CallUnsigned PROVE StringsExact'
    <3>1. PICK n \in 0 .. ULong - 1, b \in Bases, s \in Strings :
            call' = [fn |-> "unsigned", n |-> n, tail |-> s, base |-> b,
                     text |-> Ultoa(n, b), back |-> Strtoul(<<Space>> \o Ultoa(n, b) \o s, b)]
      BY <2>5 DEF CallUnsigned
    <3>2. s \in Seq(Nat)
      BY StringsAre
    <3>3. b \in 2 .. 32 /\ b \in Nat /\ b >= 2 /\ n \in Nat
      BY StdlibAssumption
    <3>4. DigitsOf(Ultoa(n, b), b, n)
      BY ONLY <3>3, UltoaExact
    <3>5. NumberOf(Ultoa(n, b), b) = n
      BY ONLY <3>3, <3>4, NumberExact
    <3>6. DigitPrefix(s, b) = <<>> =>
            Strtoul(<<Space>> \o Ultoa(n, b) \o s, b) = [out |-> n, error |-> "none", rest |-> Len(s)]
      BY ONLY <3>2, <3>3, UnsignedBack, n \in 0 .. ULong - 1
    <3>7. /\ call'.fn = "unsigned" /\ call'.n = n /\ call'.tail = s /\ call'.base = b
          /\ call'.text = Ultoa(n, b) /\ call'.back = Strtoul(<<Space>> \o Ultoa(n, b) \o s, b)
      BY ONLY <3>1
    <3>8. NumbersExact'
      BY ONLY <3>5, <3>6, <3>7 DEF NumbersExact
    <3> QED BY ONLY <3>7, <3>8 DEF StringsExact, OverflowExact, ComparisonExact, SearchesExact
  <2>6. ASSUME CallSigned PROVE StringsExact'
    <3>1. PICK n \in 1 - ULong \div 2 .. ULong \div 2 - 1, b \in Bases :
            call' = [fn |-> "signed", n |-> n, base |-> b,
                     text |-> Ltoa(n, b), back |-> Strtol(Ltoa(n, b), b)]
      BY <2>6 DEF CallSigned
    <3>2. b \in 2 .. 32
      BY StdlibAssumption
    <3>3. Strtol(Ltoa(n, b), b) = [out |-> n, error |-> "none", rest |-> 0]
      BY <3>2, SignedBack
    <3>4. call'.fn = "signed" /\ call'.n = n /\ call'.back = Strtol(Ltoa(n, b), b)
      BY ONLY <3>1
    <3> QED BY ONLY <3>3, <3>4
                DEF StringsExact, NumbersExact, OverflowExact, ComparisonExact, SearchesExact
  <2>7. ASSUME CallNumber PROVE StringsExact'
    <3>1. PICK s \in Strings, b \in Bases :
            call' = [fn |-> "number", s |-> s, base |-> b, back |-> Strtoul(s, b)]
      BY <2>7 DEF CallNumber
    <3>2. s \in Seq(Nat) /\ b \in 2 .. 32
      BY StringsAre, StdlibAssumption
    <3>3. PICK d : d = DigitPrefix(AfterSign(s), b)
      OBVIOUS
    <3>4. PICK m : m = NumberOf(d, b)
      OBVIOUS
    <3>5. PICK back : back = Strtoul(s, b)
      OBVIOUS
    <3>6. ReadAny(s, d, m, back)
      BY ONLY <3>2, <3>3, <3>4, <3>5, StrtoulAny
    <3>7. call'.fn = "number" /\ call'.s = s /\ call'.base = b /\ call'.back = back
      BY ONLY <3>1, <3>5
    <3>8. OverflowExact'
      BY ONLY <3>3, <3>4, <3>6, <3>7 DEF OverflowExact, Amount, ReadAny
    <3> QED BY ONLY <3>7, <3>8 DEF StringsExact, NumbersExact, ComparisonExact, SearchesExact
  <2> QED BY <2>1, <2>2, <2>3, <2>4, <2>5, <2>6, <2>7 DEF StdlibNext
<1> QED BY <1>1, <1>2, PTL DEF StdlibSpec
=============================================================================
