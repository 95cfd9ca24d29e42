----------------------- MODULE ResourceTracker_proofs -----------------------
(***************************************************************************)
(* Proofs about ResourceTracker:                                           *)
(*   PoolInv     any hash: the free list, the count and the slots are      *)
(*               exact whatever the guest adds and removes; and a step     *)
(*               disturbs only the look-ups that pass a slot it empties;   *)
(*   FoundInv    the look-ups are exact: each live handle is found, has    *)
(*               one entry, and no other handle is found.  Adds keep it    *)
(*               while the table has room, removals unless they empty a    *)
(*               slot that the search for another handle passes; as long   *)
(*               as it holds, the tracker is the table of handles that     *)
(*               HandleTable specifies, however the handles collide.       *)
(***************************************************************************)
EXTENDS ResourceTracker, ModArith, FunctionTheorems, FiniteSetTheorems,
        SequenceTheorems, WellFoundedInduction

USE DEF NextFree, FreedLink, Release, ClearSlot, CountAfterRemove

-----------------------------------------------------------------------------
(* Any hash. *)

\* The parts hold together: what add takes and remove returns is described by
\* the free list, and CountExact by what they do to InUse.
PoolInv ==
    /\ TypeOK
    /\ FreeListExact
    /\ SlotsExact
    /\ CountExact

\* A probe looks at a slot of the table.
LEMMA ProbeInTable ==
    ASSUME NEW h \in Handles, NEW p \in HashSlot
    PROVE  ProbeSlot(h, p) \in HashSlot
<1>1. Hash[h] \in 0 .. HashSize - 1 /\ p \in 0 .. HashSize - 1
  BY TrackerAssumption DEF HashSlot
<1>2. Hash[h] + p \in Nat /\ HashSize \in Nat \ {0}
  BY <1>1, TrackerAssumption
<1>3. (Hash[h] + p) % HashSize \in 0 .. HashSize - 1
  BY <1>2, SMT
<1> QED BY <1>3 DEF ProbeSlot, HashSlot

\* The entries in use are finitely many.
LEMMA InUseFinite == IsFiniteSet(InUse)
<1>1. IsFiniteSet(Index)
  BY FS_Interval, TrackerAssumption DEF Index
<1>2. InUse \subseteq Index
  BY DEF InUse
<1> QED BY <1>1, <1>2, FS_Subset

\* The initial state.
LEMMA PoolInit == Init => PoolInv
<1> SUFFICES ASSUME Init PROVE PoolInv
  OBVIOUS
<1> USE TrackerAssumption DEF Index, HashSlot, EMPTY
<1>1. freeList \in Seq(Index) /\ Len(freeList) = MaxEntries
  <2>1. freeList = [n \in 1 .. MaxEntries |-> n - 1]
    BY DEF Init
  <2>2. freeList \in [1 .. MaxEntries -> Index]
    BY <2>1
  <2>3. freeList \in UNION {[1 .. n -> Index] : n \in Nat}
    BY <2>2
  <2>4. freeList \in Seq(Index)
    BY <2>3, SeqDef, Zenon
  <2> QED BY <2>1, <2>4
<1>2. TypeOK
  BY <1>1 DEF Init, TypeOK
<1>3. \A n \in 1 .. Len(freeList) : freeList[n] = n - 1
  BY <1>1 DEF Init
<1>4. InUse = {}
  BY DEF Init, InUse
<1>5. FreeListExact
  <2>1. free_head = freeList[1] /\ freeList # <<>>
    <3>1. 1 \in 1 .. Len(freeList) /\ 1 - 1 = 0
      BY <1>1
    <3>2. freeList[1] = 0
      BY <1>3, <3>1
    <3>3. freeList # <<>>
      BY <1>1
    <3> QED BY <3>2, <3>3 DEF Init
  <2>2. ASSUME NEW n \in 1 .. Len(freeList)
        PROVE  entries[freeList[n]].ref_count =
                  IF n = Len(freeList) THEN EMPTY ELSE freeList[n + 1]
    <3>1. freeList[n] = n - 1 /\ n - 1 \in Index
      BY <1>1, <1>3
    <3>2. entries[n - 1].ref_count = IF n - 1 = MaxEntries - 1 THEN EMPTY ELSE n
      BY <3>1 DEF Init
    <3>3. n # Len(freeList) => freeList[n + 1] = n
      BY <1>1, <1>3
    <3> QED BY <1>1, <3>1, <3>2, <3>3
  <2>3. {freeList[n] : n \in 1 .. Len(freeList)} = Index \ InUse
    <3>1. ASSUME NEW i \in Index PROVE \E n \in 1 .. Len(freeList) : freeList[n] = i
      <4>1. i + 1 \in 1 .. Len(freeList) /\ (i + 1) - 1 = i
        BY <1>1
      <4> QED BY <1>3, <4>1
    <3>2. ASSUME NEW n \in 1 .. Len(freeList) PROVE freeList[n] \in Index
      BY <1>1
    <3> QED BY <1>4, <3>1, <3>2
  <2>4. ASSUME NEW m \in 1 .. Len(freeList), NEW n \in 1 .. Len(freeList),
               freeList[m] = freeList[n]
        PROVE  m = n
    <3>1. m - 1 = n - 1
      BY <1>3, <2>4
    <3> QED BY <1>1, <3>1
  <2>5. free_head = IF freeList = <<>> THEN EMPTY ELSE freeList[1]
    BY <2>1
  <2> QED BY <2>2, <2>3, <2>4, <2>5 DEF FreeListExact
<1>6. SlotsExact
  BY DEF Init, SlotsExact
<1>7. CountExact
  BY <1>4, FS_EmptySet DEF Init, CountExact
<1> QED BY <1>2, <1>5, <1>6, <1>7 DEF PoolInv

\* Taking an entry off the free list keeps the list exact and the count.
LEMMA TakeKeepsPool ==
    ASSUME PoolInv, NEW h \in Handles, CanAdd(h), TakeEntry(h)
    PROVE  /\ free_head \in Index \ InUse
           /\ InUse' = InUse \cup {free_head}
           /\ entries' \in [Index -> [handle    : Handles,
                                     ref_count : Index \cup {EMPTY, 1},
                                     in_use    : BOOLEAN]]
           /\ free_head' \in Index \cup {EMPTY}
           /\ entry_count' \in Nat
           /\ live' \subseteq Handles \ {InvalidHandle}
           /\ freeList' \in Seq(Index)
           /\ FreeListExact'
           /\ CountExact'
<1> DEFINE n == Len(freeList)
<1>1. /\ freeList \in Seq(Index) /\ freeList # <<>> /\ n \in Nat /\ n >= 1
      /\ free_head = freeList[1]
  BY DEF PoolInv, TypeOK, FreeListExact, CanAdd
<1>2. free_head \in Index \ InUse
  BY <1>1 DEF PoolInv, FreeListExact
<1>3. entries' = [entries EXCEPT ![free_head] =
                    [handle |-> h, ref_count |-> 1, in_use |-> TRUE]]
      /\ entries \in [Index -> [handle    : Handles,
                                ref_count : Index \cup {EMPTY, 1},
                                in_use    : BOOLEAN]]
  BY DEF TakeEntry, PoolInv, TypeOK
<1>4. InUse' = InUse \cup {free_head}
  BY <1>2, <1>3 DEF InUse
<1>5. /\ freeList' = Tail(freeList) /\ freeList' \in Seq(Index)
      /\ Len(freeList') = n - 1
      /\ \A m \in 1 .. n - 1 : freeList'[m] = freeList[m + 1]
  BY <1>1, HeadTailProperties DEF TakeEntry
<1>6. entries[free_head].ref_count = IF n = 1 THEN EMPTY ELSE freeList[2]
  <2>1. 1 \in 1 .. Len(freeList)
    BY <1>1
  <2>2. entries[freeList[1]].ref_count =
            IF 1 = Len(freeList) THEN EMPTY ELSE freeList[1 + 1]
    BY <2>1 DEF PoolInv, FreeListExact
  <2> QED BY <1>1, <2>2
<1>7. free_head' = IF freeList' = <<>> THEN EMPTY ELSE freeList'[1]
  <2>1. free_head' = entries[free_head].ref_count
    BY DEF TakeEntry
  <2>2. CASE n = 1
    BY <1>5, <1>6, <2>1, <2>2
  <2>3. CASE n > 1
    <3>1. freeList' # <<>> /\ freeList'[1] = freeList[1 + 1]
      BY <1>1, <1>5, <2>3
    <3> QED BY <1>6, <2>1, <2>3, <3>1
  <2> QED BY <1>1, <2>2, <2>3
<1>8. \A k, m \in 1 .. n : freeList[k] = freeList[m] => k = m
  BY DEF PoolInv, FreeListExact
<1>9. ASSUME NEW m \in 1 .. n - 1
      PROVE  /\ freeList'[m] = freeList[m + 1] /\ freeList'[m] # free_head
             /\ entries'[freeList'[m]].ref_count =
                    IF m = n - 1 THEN EMPTY ELSE freeList'[m + 1]
  <2>1. m + 1 \in 1 .. n /\ 1 \in 1 .. n /\ m + 1 # 1
        /\ freeList'[m] = freeList[m + 1]
    BY <1>1, <1>5
  <2>2. freeList[m + 1] # freeList[1] /\ freeList[m + 1] \in Index
    BY <1>1, <1>8, <2>1
  <2>3. entries'[freeList'[m]].ref_count = entries[freeList[m + 1]].ref_count
    BY <1>1, <1>3, <2>1, <2>2
  <2>4. entries[freeList[m + 1]].ref_count =
            IF m + 1 = n THEN EMPTY ELSE freeList[(m + 1) + 1]
    BY <2>1 DEF PoolInv, FreeListExact
  <2>5. m # n - 1 => freeList'[m + 1] = freeList[(m + 1) + 1]
    <3>1. m # n - 1 => m + 1 \in 1 .. n - 1
      BY <1>1
    <3> QED BY <1>5, <3>1
  <2> QED BY <1>1, <2>1, <2>2, <2>3, <2>4, <2>5
<1>10. \A k, m \in 1 .. n - 1 : freeList'[k] = freeList'[m] => k = m
  <2> SUFFICES ASSUME NEW k \in 1 .. n - 1, NEW m \in 1 .. n - 1,
                      freeList'[k] = freeList'[m]
               PROVE  k = m
    OBVIOUS
  <2>1. k + 1 \in 1 .. n /\ m + 1 \in 1 .. n
        /\ freeList[k + 1] = freeList[m + 1]
    BY <1>1, <1>5
  <2>2. k + 1 = m + 1
    BY <1>8, <2>1
  <2> QED BY <2>2
<1>11. {freeList'[m] : m \in 1 .. n - 1} = Index \ InUse'
  <2>1. ASSUME NEW i \in Index \ InUse' PROVE \E m \in 1 .. n - 1 : freeList'[m] = i
    <3>1. i \in Index \ InUse /\ i # free_head
      BY <1>4
    <3>2. PICK m \in 1 .. n : freeList[m] = i
      BY <3>1 DEF PoolInv, FreeListExact
    <3>3. m # 1 /\ m - 1 \in 1 .. n - 1 /\ (m - 1) + 1 = m
      BY <1>1, <3>1, <3>2
    <3> QED BY <1>5, <3>2, <3>3
  <2>2. ASSUME NEW m \in 1 .. n - 1 PROVE freeList'[m] \in Index \ InUse'
    <3>1. freeList'[m] = freeList[m + 1] /\ freeList'[m] # free_head
          /\ m + 1 \in 1 .. n
      BY <1>1, <1>9
    <3>2. freeList[m + 1] \in Index \ InUse
      BY <3>1 DEF PoolInv, FreeListExact
    <3> QED BY <1>4, <3>1, <3>2
  <2> QED BY <2>1, <2>2
<1>12. FreeListExact'
  BY <1>5, <1>7, <1>9, <1>10, <1>11 DEF FreeListExact, EMPTY
<1>13. CountExact'
  <2>1. Cardinality(InUse') = Cardinality(InUse) + 1
    BY <1>2, <1>4, InUseFinite, FS_AddElement
  <2> QED BY <2>1 DEF PoolInv, CountExact, TakeEntry
<1>14. entries' \in [Index -> [handle    : Handles,
                              ref_count : Index \cup {EMPTY, 1},
                              in_use    : BOOLEAN]]
  BY <1>2, <1>3
<1>15. free_head' \in Index \cup {EMPTY}
  <2>1. 1 \in 1 .. n - 1 => freeList'[1] \in Index
    BY <1>5
  <2>2. freeList' # <<>> => 1 \in 1 .. n - 1
    BY <1>1, <1>5, EmptySeq
  <2> QED BY <1>7, <2>1, <2>2
<1>16. entry_count' \in Nat /\ live' \subseteq Handles \ {InvalidHandle}
  BY DEF TakeEntry, CanAdd, PoolInv, TypeOK
<1> QED BY <1>2, <1>4, <1>5, <1>12, <1>13, <1>14, <1>15, <1>16

\* Removal returns the entry to the pool and leaves the slots exact.
LEMMA RemoveKeepsPool ==
    ASSUME PoolInv, NEW h \in Handles, Remove(h)
    PROVE  PoolInv'
<1>1. PICK p \in HashSlot :
        /\ FoundAt(h, p)
        /\ entries' = [entries EXCEPT ![hash_table[ProbeSlot(h, p)]] =
                         [handle    |-> InvalidHandle,
                          ref_count |-> free_head,
                          in_use    |-> FALSE]]
        /\ free_head' = hash_table[ProbeSlot(h, p)]
        /\ freeList' = <<hash_table[ProbeSlot(h, p)]>> \o freeList
        /\ hash_table' = [hash_table EXCEPT ![ProbeSlot(h, p)] = EMPTY]
  BY DEF Remove
<1> DEFINE slot == ProbeSlot(h, p)
           idx  == hash_table[slot]
           n    == Len(freeList)
<1>2. slot \in HashSlot /\ idx # EMPTY
  BY <1>1, ProbeInTable DEF FoundAt, Hits
<1>3. idx \in Index /\ idx \in InUse
  BY <1>2 DEF PoolInv, SlotsExact, InUse
<1>4. /\ entries \in [Index -> [handle    : Handles,
                               ref_count : Index \cup {EMPTY, 1},
                               in_use    : BOOLEAN]]
      /\ hash_table \in [HashSlot -> Index \cup {EMPTY}]
      /\ free_head \in Index \cup {EMPTY}
      /\ freeList \in Seq(Index) /\ n \in Nat /\ entry_count \in Nat
      /\ live \subseteq Handles \ {InvalidHandle}
  BY DEF PoolInv, TypeOK
<1>5. /\ freeList' \in Seq(Index) /\ Len(freeList') = n + 1
      /\ freeList'[1] = idx
      /\ \A m \in 2 .. n + 1 : freeList'[m] = freeList[m - 1]
  <2>1. <<idx>> \in Seq(Index) /\ Len(<<idx>>) = 1 /\ <<idx>>[1] = idx
    BY <1>3
  <2>2. /\ freeList' \in Seq(Index) /\ Len(freeList') = 1 + n
        /\ \A m \in 1 .. 1 + n :
              freeList'[m] = IF m <= 1 THEN <<idx>>[m] ELSE freeList[m - 1]
    BY <1>1, <1>4, <2>1, ConcatProperties
  <2> QED BY <1>4, <2>1, <2>2
<1> HIDE DEF slot, idx
<1>6. /\ entries' = [entries EXCEPT ![idx] = [handle    |-> InvalidHandle,
                                            ref_count |-> free_head,
                                            in_use    |-> FALSE]]
      /\ free_head' = idx
      /\ hash_table' = [hash_table EXCEPT ![slot] = EMPTY]
  BY <1>1 DEF slot, idx
<1>7. InUse' = InUse \ {idx}
  BY <1>3, <1>4, <1>6 DEF InUse
<1>8. \A m \in 1 .. n : freeList[m] \in Index \ InUse
  BY DEF PoolInv, FreeListExact
<1>9. FreeListExact'
  <2>1. free_head' = IF freeList' = <<>> THEN EMPTY ELSE freeList'[1]
    <3>1. freeList' # <<>>
      BY <1>4, <1>5
    <3> QED BY <1>5, <1>6, <3>1
  <2>2. ASSUME NEW m \in 1 .. n + 1
        PROVE  entries'[freeList'[m]].ref_count =
                   IF m = n + 1 THEN EMPTY ELSE freeList'[m + 1]
    <3>1. CASE m = 1
      <4>1. entries'[idx].ref_count = free_head
        BY <1>3, <1>4, <1>6
      <4>2. free_head = IF freeList = <<>> THEN EMPTY ELSE freeList[1]
        BY DEF PoolInv, FreeListExact
      <4>3. freeList = <<>> <=> n = 0
        BY <1>4, EmptySeq
      <4>4. n # 0 => freeList'[2] = freeList[1]
        BY <1>4, <1>5
      <4> QED BY <1>4, <1>5, <3>1, <4>1, <4>2, <4>3, <4>4
    <3>2. CASE m \in 2 .. n + 1
      <4>1. m - 1 \in 1 .. n /\ freeList'[m] = freeList[m - 1]
        BY <1>4, <1>5, <3>2
      <4>2. freeList[m - 1] # idx /\ freeList[m - 1] \in Index
        BY <1>3, <1>8, <4>1
      <4>3. entries'[freeList'[m]].ref_count = entries[freeList[m - 1]].ref_count
        BY <1>4, <1>6, <4>1, <4>2
      <4>4. entries[freeList[m - 1]].ref_count =
                IF m - 1 = n THEN EMPTY ELSE freeList[(m - 1) + 1]
        BY <4>1 DEF PoolInv, FreeListExact
      <4>5. m # n + 1 => freeList'[m + 1] = freeList[(m - 1) + 1]
        <5>1. m # n + 1 => m + 1 \in 2 .. n + 1 /\ (m + 1) - 1 = (m - 1) + 1
          BY <1>4, <3>2
        <5> QED BY <1>5, <5>1
      <4> QED BY <1>4, <3>2, <4>3, <4>4, <4>5
    <3> QED BY <1>4, <3>1, <3>2
  <2>3. ASSUME NEW k \in 1 .. n + 1, NEW m \in 1 .. n + 1,
               freeList'[k] = freeList'[m]
        PROVE  k = m
    <3>1. \A j \in 2 .. n + 1 : freeList'[j] # idx /\ j - 1 \in 1 .. n
      BY <1>3, <1>4, <1>5, <1>8
    <3>2. CASE k = 1 \/ m = 1
      BY <1>4, <1>5, <2>3, <3>1, <3>2
    <3>3. CASE k \in 2 .. n + 1 /\ m \in 2 .. n + 1
      <4>1. freeList[k - 1] = freeList[m - 1]
        BY <1>5, <2>3, <3>3
      <4>2. k - 1 = m - 1
        BY <3>1, <3>3, <4>1 DEF PoolInv, FreeListExact
      <4> QED BY <3>3, <4>2
    <3> QED BY <1>4, <3>2, <3>3
  <2>4. {freeList'[m] : m \in 1 .. n + 1} = Index \ InUse'
    <3>1. ASSUME NEW i \in Index \ InUse'
          PROVE  \E m \in 1 .. n + 1 : freeList'[m] = i
      <4>1. CASE i = idx
        <5>1. 1 \in 1 .. n + 1
          BY <1>4
        <5> QED BY <1>5, <4>1, <5>1
      <4>2. CASE i \in Index \ InUse
        <5>1. PICK m \in 1 .. n : freeList[m] = i
          BY <4>2 DEF PoolInv, FreeListExact
        <5>2. m + 1 \in 2 .. n + 1 /\ m + 1 \in 1 .. n + 1 /\ (m + 1) - 1 = m
          BY <1>4
        <5> QED BY <1>5, <5>1, <5>2
      <4> QED BY <1>7, <4>1, <4>2
    <3>2. ASSUME NEW m \in 1 .. n + 1 PROVE freeList'[m] \in Index \ InUse'
      <4>1. CASE m = 1
        BY <1>3, <1>5, <1>7, <4>1
      <4>2. CASE m \in 2 .. n + 1
        <5>1. m - 1 \in 1 .. n
          BY <1>4, <4>2
        <5> QED BY <1>5, <1>7, <1>8, <4>2, <5>1
      <4> QED BY <1>4, <4>1, <4>2
    <3> QED BY <3>1, <3>2
  <2> QED BY <1>5, <2>1, <2>2, <2>3, <2>4 DEF FreeListExact, EMPTY
<1>10. SlotsExact'
  <2>1. \A s \in HashSlot : hash_table'[s] # EMPTY =>
            hash_table'[s] = hash_table[s] /\ s # slot
    BY <1>2, <1>4, <1>6
  <2>2. \A s \in HashSlot : hash_table[s] = idx => s = slot
    BY <1>2, <1>4 DEF PoolInv, SlotsExact, idx
  <2>3. ASSUME NEW s \in HashSlot, hash_table'[s] # EMPTY
        PROVE  hash_table'[s] \in InUse'
    BY <1>7, <2>1, <2>2, <2>3 DEF PoolInv, SlotsExact
  <2>4. ASSUME NEW s \in HashSlot, NEW t \in HashSlot,
               hash_table'[s] = hash_table'[t], hash_table'[s] # EMPTY
        PROVE  s = t
    BY <2>1, <2>4 DEF PoolInv, SlotsExact
  <2> QED BY <2>3, <2>4 DEF SlotsExact, EMPTY
<1>11. CountExact' /\ entry_count' \in Nat
  <2>1. Cardinality(InUse') = Cardinality(InUse) - 1
        /\ Cardinality(InUse') \in Nat
    <3>1. IsFiniteSet(InUse')
      BY <1>7, InUseFinite, FS_RemoveElement
    <3> QED BY <1>3, <1>7, <3>1, InUseFinite, FS_RemoveElement, FS_CardinalityType
  <2> QED BY <2>1 DEF PoolInv, CountExact, Remove
<1>12. TypeOK'
  <2>1. entries' \in [Index -> [handle    : Handles,
                               ref_count : Index \cup {EMPTY, 1},
                               in_use    : BOOLEAN]]
    BY <1>3, <1>4, <1>6, TrackerAssumption
  <2>2. hash_table' \in [HashSlot -> Index \cup {EMPTY}]
    BY <1>2, <1>4, <1>6
  <2>3. live' \subseteq Handles \ {InvalidHandle}
    BY <1>4 DEF Remove
  <2> QED BY <1>3, <1>5, <1>6, <1>11, <2>1, <2>2, <2>3 DEF TypeOK, EMPTY
<1> QED BY <1>9, <1>10, <1>11, <1>12 DEF PoolInv

\* Both forms of add take an entry; the indexed one fills an empty slot with it.
LEMMA AddKeepsPool ==
    ASSUME PoolInv, NEW h \in Handles, Add(h) \/ AddUnindexed(h)
    PROVE  PoolInv'
<1>1. CanAdd(h) /\ TakeEntry(h)
  BY DEF Add, AddUnindexed
<1>2. /\ free_head \in Index \ InUse
      /\ InUse' = InUse \cup {free_head}
      /\ FreeListExact' /\ CountExact'
  BY <1>1, TakeKeepsPool
<1>3. hash_table \in [HashSlot -> Index \cup {EMPTY}]
  BY DEF PoolInv, TypeOK
<1>4. \/ UNCHANGED hash_table
      \/ \E s \in HashSlot :
            /\ hash_table[s] = EMPTY
            /\ hash_table' = [hash_table EXCEPT ![s] = free_head]
  <2>1. CASE AddUnindexed(h)
    BY <2>1 DEF AddUnindexed
  <2>2. CASE Add(h)
    BY <2>2, ProbeInTable DEF Add, InsertAt, Stops
  <2> QED BY <2>1, <2>2
<1>5. SlotsExact' /\ hash_table' \in [HashSlot -> Index \cup {EMPTY}]
  <2>1. CASE UNCHANGED hash_table
    BY <1>2, <1>3, <2>1 DEF PoolInv, SlotsExact, EMPTY
  <2>2. ASSUME NEW s \in HashSlot, hash_table[s] = EMPTY,
               hash_table' = [hash_table EXCEPT ![s] = free_head]
        PROVE  SlotsExact' /\ hash_table' \in [HashSlot -> Index \cup {EMPTY}]
    <3>1. hash_table'[s] = free_head
          /\ \A t \in HashSlot \ {s} : hash_table'[t] = hash_table[t]
      BY <1>3, <2>2
    <3>2. \A t \in HashSlot : hash_table[t] # EMPTY => hash_table[t] # free_head
      BY <1>2 DEF PoolInv, SlotsExact
    <3>3. \A t \in HashSlot : hash_table'[t] # EMPTY => hash_table'[t] \in InUse'
      BY <1>2, <3>1 DEF PoolInv, SlotsExact
    <3>4. ASSUME NEW t \in HashSlot, NEW u \in HashSlot,
                 hash_table'[t] = hash_table'[u], hash_table'[t] # EMPTY
          PROVE  t = u
      BY <3>1, <3>2, <3>4 DEF PoolInv, SlotsExact
    <3>5. hash_table' \in [HashSlot -> Index \cup {EMPTY}]
      BY <1>2, <1>3, <2>2
    <3> QED BY <3>3, <3>4, <3>5 DEF SlotsExact, EMPTY
  <2> QED BY <1>4, <2>1, <2>2
<1>6. TypeOK'
  BY <1>1, <1>5, TakeKeepsPool DEF TypeOK, EMPTY
<1> QED BY <1>2, <1>5, <1>6 DEF PoolInv

\* Every step keeps the pool.
LEMMA PoolStep == PoolInv /\ [Next]_vars => PoolInv'
<1> SUFFICES ASSUME PoolInv, [Next]_vars PROVE PoolInv'
  OBVIOUS
<1>1. ASSUME NEW h \in Handles, RemoveMiss(h) PROVE PoolInv'
  BY <1>1 DEF RemoveMiss, PoolInv, TypeOK, FreeListExact, SlotsExact,
              CountExact, InUse
<1>2. CASE UNCHANGED vars
  BY <1>2 DEF vars, PoolInv, TypeOK, FreeListExact, SlotsExact, CountExact, InUse
<1> QED BY <1>1, <1>2, AddKeepsPool, RemoveKeepsPool DEF Next

\* Whatever the guest adds and removes and however its handles hash, the free
\* list is exactly the unused entries, no slot refers to a freed entry, and the
\* count is right (gravity_resource_tracker_add, _remove, _count).
THEOREM PoolCorrect ==
    Spec => [](TypeOK /\ FreeListExact /\ SlotsExact /\ CountExact)
<1>1. PoolInv => TypeOK /\ FreeListExact /\ SlotsExact /\ CountExact
  BY DEF PoolInv
<1> QED BY <1>1, PoolInit, PoolStep, PTL DEF Spec

-----------------------------------------------------------------------------
(* A table smaller than the pool. *)

\* The probes for a handle visit every slot.
LEMMA ProbesCover ==
    ASSUME NEW h \in Handles, NEW s \in HashSlot
    PROVE  \E p \in HashSlot : ProbeSlot(h, p) = s
<1> DEFINE a == Hash[h]
           p == IF s >= a THEN s - a ELSE s - a + HashSize
<1>1. a \in 0 .. HashSize - 1 /\ s \in 0 .. HashSize - 1 /\ HashSize \in Nat \ {0}
  BY TrackerAssumption DEF HashSlot
<1>2. p \in HashSlot
  BY <1>1 DEF HashSlot
<1>3. (a + p) % HashSize = s
  <2>1. a + p = HashSize * 0 + s \/ a + p = HashSize * 1 + s
    BY <1>1
  <2>2. a + p \in Int /\ 0 \in Int /\ 1 \in Int
    BY <1>1
  <2> HIDE DEF a, p
  <2> QED BY <1>1, <2>1, <2>2, ModUnique
<1> QED BY <1>2, <1>3 DEF ProbeSlot

\* An add finds no empty slot only when every slot has an entry of its own.
LEMMA FullTable ==
    ASSUME PoolInv, NEW h \in Handles, \A p \in HashSlot : ~ Stops(h, p)
    PROVE  HashSize <= entry_count
<1>1. \A s \in HashSlot : hash_table[s] # EMPTY
  BY ProbesCover DEF Stops
<1> DEFINE f == [s \in HashSlot |-> hash_table[s]]
<1>2. f \in Injection(HashSlot, InUse)
  <2>1. f \in [HashSlot -> InUse]
    BY <1>1 DEF PoolInv, SlotsExact
  <2>2. \A s, t \in HashSlot : f[s] = f[t] => s = t
    BY <1>1 DEF PoolInv, SlotsExact
  <2> QED BY <2>1, <2>2, Fun_IsInj, Zenon
<1>3. Cardinality(HashSlot) = HashSize
  BY FS_Interval, TrackerAssumption DEF HashSlot
<1>4. Cardinality(HashSlot) <= Cardinality(InUse)
  BY <1>2, InUseFinite, FS_Injection
<1> QED BY <1>3, <1>4 DEF PoolInv, CountExact

\* For every hash and every size, however few slots the table has for its pool:
\* until there are as many entries as slots, no step leaves an entry without one
\* (gravity_resource_tracker_add, _remove).
THEOREM NoneLeftOut == Spec => IndexedUntilFull
<1>1. PoolInv /\ [Next]_vars =>
        [AllIndexed /\ entry_count < HashSize => AllIndexed']_vars
  <2> SUFFICES ASSUME PoolInv, AllIndexed, entry_count < HashSize, [Next]_vars
               PROVE  AllIndexed'
    OBVIOUS
  <2>t. hash_table \in [HashSlot -> Index \cup {EMPTY}]
    BY DEF PoolInv, TypeOK
  <2>1. ASSUME NEW h \in Handles, Add(h) PROVE AllIndexed'
    <3>1. PICK p \in HashSlot :
             /\ hash_table[ProbeSlot(h, p)] = EMPTY
             /\ hash_table' = [hash_table EXCEPT ![ProbeSlot(h, p)] = free_head]
      BY <2>1 DEF Add, InsertAt, Stops
    <3>2. ProbeSlot(h, p) \in HashSlot
      BY ProbeInTable
    <3>3. InUse' = InUse \cup {free_head} /\ EMPTY \notin InUse
      BY <2>1, TakeKeepsPool, TrackerAssumption DEF Add, InUse, Index, EMPTY
    <3>4. hash_table'[ProbeSlot(h, p)] = free_head
      BY <2>t, <3>1, <3>2
    <3>5. ASSUME NEW i \in InUse PROVE \E s \in HashSlot : hash_table'[s] = i
      <4>1. PICK s \in HashSlot : hash_table[s] = i
        BY DEF AllIndexed
      <4>2. s # ProbeSlot(h, p)
        BY <3>1, <3>3, <4>1
      <4> QED BY <2>t, <3>1, <4>1, <4>2
    <3> QED BY <3>2, <3>3, <3>4, <3>5 DEF AllIndexed
  <2>2. ASSUME NEW h \in Handles, AddUnindexed(h) PROVE AllIndexed'
    <3>1. HashSize <= entry_count
      BY <2>2, FullTable DEF AddUnindexed
    <3> QED BY <3>1, TrackerAssumption DEF PoolInv, TypeOK
  <2>3. ASSUME NEW h \in Handles, Remove(h) PROVE AllIndexed'
    <3>1. PICK p \in HashSlot :
            /\ FoundAt(h, p)
            /\ entries' = [entries EXCEPT ![hash_table[ProbeSlot(h, p)]] =
                             [handle    |-> InvalidHandle,
                              ref_count |-> free_head,
                              in_use    |-> FALSE]]
            /\ hash_table' = [hash_table EXCEPT ![ProbeSlot(h, p)] = EMPTY]
      BY <2>3 DEF Remove
    <3> DEFINE idx == hash_table[ProbeSlot(h, p)]
    <3>2. ProbeSlot(h, p) \in HashSlot /\ idx \in Index
      BY <2>t, <3>1, ProbeInTable DEF FoundAt, Hits
    <3>3. InUse' = InUse \ {idx}
      <4>1. entries \in [Index -> [handle    : Handles,
                                  ref_count : Index \cup {EMPTY, 1},
                                  in_use    : BOOLEAN]]
        BY DEF PoolInv, TypeOK
      <4> QED BY <3>1, <3>2, <4>1 DEF InUse
    <3>4. ASSUME NEW i \in InUse' PROVE \E s \in HashSlot : hash_table'[s] = i
      <4>1. i \in InUse /\ i # idx
        BY <3>3
      <4>2. PICK s \in HashSlot : hash_table[s] = i
        BY <4>1 DEF AllIndexed
      <4> QED BY <2>t, <3>1, <4>1, <4>2
    <3> QED BY <3>4 DEF AllIndexed
  <2>4. ASSUME NEW h \in Handles, RemoveMiss(h) PROVE AllIndexed'
    BY <2>4 DEF RemoveMiss, AllIndexed, InUse
  <2>5. CASE UNCHANGED vars
    BY <2>5 DEF vars, AllIndexed, InUse
  <2> QED BY <2>1, <2>2, <2>3, <2>4, <2>5 DEF Next
<1> QED BY <1>1, PoolInit, PoolStep, PTL DEF Spec, IndexedUntilFull

-----------------------------------------------------------------------------
(* Any hash: which look-ups a step can disturb. *)

\* One of the probes that satisfy a condition is the first.
LEMMA LeastProbe ==
    ASSUME NEW probes \in SUBSET HashSlot, probes # {}
    PROVE  \E p \in probes : \A q \in probes : p <= q
<1>1. HashSlot \subseteq Nat
  BY TrackerAssumption DEF HashSlot
<1>2. PICK p \in probes : \A q \in probes : ~ (<<q, p>> \in OpToRel(<, Nat))
  BY <1>1, NatLessThanWellFounded, WFMin
<1>3. ASSUME NEW q \in probes PROVE p <= q
  <2>1. <<q, p>> \in Nat \X Nat /\ <<q, p>>[1] = q /\ <<q, p>>[2] = p
    BY <1>1
  <2>2. q < p => <<q, p>> \in OpToRel(<, Nat)
    BY <2>1, Zenon DEF OpToRel
  <2>3. ~ (q < p)
    BY <1>2, <2>2, Zenon
  <2> QED BY <1>1, <2>3
<1> QED BY <1>3

\* A hit with no empty slot before it is enough for a search to succeed.
LEMMA HitIsFound ==
    ASSUME NEW h \in Handles, h # InvalidHandle, NEW p \in HashSlot,
           Hits(h, p), \A q \in HashSlot : q < p => ~ Stops(h, q)
    PROVE  Found(h)
<1> DEFINE hits == {q \in HashSlot : Hits(h, q)}
<1>1. PICK r \in hits : \A q \in hits : r <= q
  <2>1. p \in hits /\ hits \in SUBSET HashSlot
    OBVIOUS
  <2> HIDE DEF hits
  <2> QED BY <2>1, LeastProbe
<1>2. \A q, t \in HashSlot : q \in Int /\ t \in Int
  BY TrackerAssumption DEF HashSlot
<1>3. \A q \in HashSlot : q < r => ~ Hits(h, q)
  BY <1>1, <1>2
<1>4. r <= p
  BY <1>1
<1>5. \A q \in HashSlot : q < r => ~ Stops(h, q)
  BY <1>2, <1>4
<1> QED BY <1>1, <1>3, <1>5 DEF Found, FoundAt

\* A search looks at entries in use only, and never at an empty slot before it
\* succeeds.
LEMMA SearchedInUse ==
    ASSUME PoolInv, NEW h \in Handles, NEW p \in HashSlot, FoundAt(h, p),
           NEW q \in HashSlot, q <= p
    PROVE  /\ ProbeSlot(h, q) \in HashSlot
           /\ hash_table[ProbeSlot(h, q)] # EMPTY
           /\ hash_table[ProbeSlot(h, q)] \in InUse
<1>1. ProbeSlot(h, q) \in HashSlot
  BY ProbeInTable
<1>2. q < p \/ q = p
  BY TrackerAssumption DEF HashSlot
<1>3. hash_table[ProbeSlot(h, q)] # EMPTY
  BY <1>2 DEF FoundAt, Hits, Stops
<1> QED BY <1>1, <1>3 DEF PoolInv, SlotsExact

\* A search that sees the same slots and the same entries has the same result.
LEMMA SameSearch ==
    ASSUME NEW h \in Handles, NEW p \in HashSlot, FoundAt(h, p),
           \A q \in HashSlot : q <= p =>
              LET s == ProbeSlot(h, q)
              IN  /\ hash_table'[s] = hash_table[s]
                  /\ entries'[hash_table[s]] = entries[hash_table[s]]
    PROVE  FoundAt(h, p)'
<1>1. p <= p /\ \A q \in HashSlot : q < p => q <= p
  BY TrackerAssumption DEF HashSlot
<1>2. Hits(h, p)'
  BY <1>1 DEF FoundAt, Hits, ProbeSlot
<1>3. ASSUME NEW q \in HashSlot, q < p PROVE ~ Hits(h, q)' /\ ~ Stops(h, q)'
  <2>1. /\ hash_table'[ProbeSlot(h, q)] = hash_table[ProbeSlot(h, q)]
        /\ entries'[hash_table[ProbeSlot(h, q)]] = entries[hash_table[ProbeSlot(h, q)]]
    BY <1>1, <1>3
  <2>2. ~ Hits(h, q) /\ ~ Stops(h, q)
    BY <1>3 DEF FoundAt
  <2> QED BY <2>1, <2>2 DEF Hits, Stops, ProbeSlot
<1> QED BY <1>2, <1>3 DEF FoundAt

\* An add changes neither a slot that was taken nor an entry that was in use.
LEMMA AddKeepsOthers ==
    ASSUME PoolInv, NEW k \in Handles, Add(k) \/ AddUnindexed(k)
    PROVE  /\ \A s \in HashSlot : hash_table[s] # EMPTY => hash_table'[s] = hash_table[s]
           /\ \A i \in InUse : entries'[i] = entries[i]
<1>1. CanAdd(k) /\ TakeEntry(k)
  BY DEF Add, AddUnindexed
<1>2. free_head \in Index \ InUse
  BY <1>1, TakeKeepsPool
<1>3. \A i \in InUse : entries'[i] = entries[i]
  BY <1>1, <1>2 DEF TakeEntry, InUse, PoolInv, TypeOK
<1>4. hash_table \in [HashSlot -> Index \cup {EMPTY}]
  BY DEF PoolInv, TypeOK
<1>5. CASE AddUnindexed(k)
  BY <1>3, <1>5 DEF AddUnindexed
<1>6. CASE Add(k)
  <2>1. PICK p \in HashSlot :
          /\ hash_table[ProbeSlot(k, p)] = EMPTY
          /\ hash_table' = [hash_table EXCEPT ![ProbeSlot(k, p)] = free_head]
    BY <1>6 DEF Add, InsertAt, Stops
  <2> QED BY <1>3, <1>4, <2>1
<1> QED BY <1>5, <1>6

\* A remove changes no slot but the one it empties, and only that slot's entry.
LEMMA RemoveKeepsOthers ==
    ASSUME PoolInv, NEW k \in Handles, Remove(k)
    PROVE  \A s \in HashSlot : hash_table[s] # EMPTY /\ hash_table'[s] # EMPTY =>
              /\ hash_table'[s] = hash_table[s]
              /\ entries'[hash_table[s]] = entries[hash_table[s]]
<1>1. PICK p \in HashSlot :
        /\ FoundAt(k, p)
        /\ entries' = [entries EXCEPT ![hash_table[ProbeSlot(k, p)]] =
                         [handle    |-> InvalidHandle,
                          ref_count |-> free_head,
                          in_use    |-> FALSE]]
        /\ hash_table' = [hash_table EXCEPT ![ProbeSlot(k, p)] = EMPTY]
  BY DEF Remove
<1> DEFINE c == ProbeSlot(k, p)
<1>2. c \in HashSlot /\ hash_table \in [HashSlot -> Index \cup {EMPTY}]
      /\ entries \in [Index -> [handle    : Handles,
                               ref_count : Index \cup {EMPTY, 1},
                               in_use    : BOOLEAN]]
  BY ProbeInTable DEF PoolInv, TypeOK
<1>3. ASSUME NEW s \in HashSlot, hash_table[s] # EMPTY, hash_table'[s] # EMPTY
      PROVE  /\ hash_table'[s] = hash_table[s]
             /\ entries'[hash_table[s]] = entries[hash_table[s]]
  <2>1. s # c /\ hash_table'[s] = hash_table[s]
    BY <1>1, <1>2, <1>3
  <2>2. hash_table[s] # hash_table[c]
    BY <1>2, <1>3, <2>1 DEF PoolInv, SlotsExact
  <2>3. hash_table[s] \in Index
    BY <1>2, <1>3
  <2> QED BY <1>1, <1>2, <2>1, <2>2, <2>3
<1> QED BY <1>3

\* What a step must not touch to leave a look-up alone.
LEMMA KeptByStep ==
    ASSUME PoolInv, [Next]_vars, NEW h \in Handles, NEW p \in HashSlot,
           FoundAt(h, p),
           \A q \in HashSlot : q <= p => hash_table'[ProbeSlot(h, q)] # EMPTY
    PROVE  /\ FoundAt(h, p)'
           /\ hash_table'[ProbeSlot(h, p)] = hash_table[ProbeSlot(h, p)]
<1>1. ASSUME NEW q \in HashSlot, q <= p
      PROVE  LET s == ProbeSlot(h, q)
             IN  /\ hash_table'[s] = hash_table[s]
                 /\ entries'[hash_table[s]] = entries[hash_table[s]]
  <2> DEFINE s == ProbeSlot(h, q)
  <2>1. /\ s \in HashSlot /\ hash_table[s] # EMPTY /\ hash_table[s] \in InUse
        /\ hash_table'[s] # EMPTY
    BY <1>1, SearchedInUse
  <2> HIDE DEF s
  <2>2. ASSUME NEW k \in Handles, Add(k) \/ AddUnindexed(k)
        PROVE  /\ hash_table'[s] = hash_table[s]
               /\ entries'[hash_table[s]] = entries[hash_table[s]]
    BY <2>1, <2>2, AddKeepsOthers
  <2>3. ASSUME NEW k \in Handles, Remove(k)
        PROVE  /\ hash_table'[s] = hash_table[s]
               /\ entries'[hash_table[s]] = entries[hash_table[s]]
    BY <2>1, <2>3, RemoveKeepsOthers
  <2>4. ASSUME UNCHANGED vars \/ \E k \in Handles : RemoveMiss(k)
        PROVE  /\ hash_table'[s] = hash_table[s]
               /\ entries'[hash_table[s]] = entries[hash_table[s]]
    BY <2>4 DEF RemoveMiss, vars
  <2>5. /\ hash_table'[s] = hash_table[s]
        /\ entries'[hash_table[s]] = entries[hash_table[s]]
    <3>1. CASE UNCHANGED vars
      BY <2>4, <3>1
    <3>2. ASSUME NEW k \in Handles,
                 Add(k) \/ AddUnindexed(k) \/ Remove(k) \/ RemoveMiss(k)
          PROVE  /\ hash_table'[s] = hash_table[s]
                 /\ entries'[hash_table[s]] = entries[hash_table[s]]
      BY <2>2, <2>3, <2>4, <3>2
    <3> QED BY <3>1, <3>2 DEF Next
  <2> QED BY <2>5 DEF s
<1>2. FoundAt(h, p)'
  BY <1>1, SameSearch
<1>3. p <= p
  BY TrackerAssumption DEF HashSlot
<1> QED BY <1>1, <1>2, <1>3

\* For every hash, however its handles collide, no add takes a found handle
\* from its entry, and no remove but one that empties a slot that handle's
\* search looks at (gravity_resource_tracker_add, _get, _remove).
THEOREM LookupsKept == Spec => LookupKept
<1>1. PoolInv /\ [Next]_vars =>
        [\A h \in Handles, p \in HashSlot :
            /\ FoundAt(h, p)
            /\ \A q \in HashSlot :
                  q <= p => hash_table'[ProbeSlot(h, q)] # EMPTY
            => /\ FoundAt(h, p)'
               /\ hash_table'[ProbeSlot(h, p)] = hash_table[ProbeSlot(h, p)]]_vars
  BY KeptByStep
<1> QED BY <1>1, PoolInit, PoolStep, PTL DEF Spec, LookupKept

\* An indexed add is found at once: the probes before its slot are all taken.
LEMMA AddedIsFound ==
    ASSUME PoolInv, NEW h \in Handles, Add(h)
    PROVE  Found(h)'
<1>1. CanAdd(h) /\ TakeEntry(h) /\ h # InvalidHandle
  BY DEF Add, CanAdd
<1>2. PICK p \in HashSlot :
        /\ hash_table[ProbeSlot(h, p)] = EMPTY
        /\ \A q \in HashSlot : q < p => ~ Stops(h, q)
        /\ hash_table' = [hash_table EXCEPT ![ProbeSlot(h, p)] = free_head]
  BY DEF Add, InsertAt, Stops
<1>3. ProbeSlot(h, p) \in HashSlot /\ \A q \in HashSlot : ProbeSlot(h, q) \in HashSlot
  BY ProbeInTable
<1>4. /\ free_head \in Index \ InUse /\ EMPTY \notin Index
      /\ hash_table \in [HashSlot -> Index \cup {EMPTY}]
      /\ entries \in [Index -> [handle    : Handles,
                               ref_count : Index \cup {EMPTY, 1},
                               in_use    : BOOLEAN]]
  <2>1. free_head \in Index \ InUse
    BY <1>1, TakeKeepsPool
  <2>2. EMPTY \notin Index
    BY TrackerAssumption DEF Index, EMPTY
  <2> QED BY <2>1, <2>2 DEF PoolInv, TypeOK
<1>5. hash_table'[ProbeSlot(h, p)] = free_head
  BY <1>2, <1>3, <1>4
<1>6. entries'[free_head] = [handle |-> h, ref_count |-> 1, in_use |-> TRUE]
  BY <1>1, <1>4 DEF TakeEntry
<1>7. Hits(h, p)'
  BY <1>4, <1>5, <1>6 DEF Hits, ProbeSlot
<1>8. ASSUME NEW q \in HashSlot, q < p PROVE ~ Stops(h, q)' /\ ~ Hits(h, q)'
  <2>1. hash_table[ProbeSlot(h, q)] # EMPTY
    BY <1>2, <1>8 DEF Stops
  <2>2. hash_table'[ProbeSlot(h, q)] = hash_table[ProbeSlot(h, q)]
    BY <1>3, <2>1, AddKeepsOthers
  <2>3. hash_table[ProbeSlot(h, q)] \in InUse
    BY <1>3, <2>1 DEF PoolInv, SlotsExact
  <2>4. entries'[hash_table[ProbeSlot(h, q)]] = entries[hash_table[ProbeSlot(h, q)]]
    BY <2>3, AddKeepsOthers
  <2>5. ~ Hits(h, q)
    <3>1. \A t \in HashSlot : t < q => ~ Stops(h, t)
      <4>1. \A t \in HashSlot : t < q => t < p
        BY <1>8, TrackerAssumption DEF HashSlot
      <4> QED BY <1>2, <4>1
    <3>2. ~ Found(h)
      BY <1>1 DEF CanAdd
    <3> QED BY <1>1, <3>1, <3>2, HitIsFound
  <2> QED BY <2>1, <2>2, <2>4, <2>5 DEF Stops, Hits, ProbeSlot
<1> QED BY <1>1, <1>7, <1>8 DEF Found, FoundAt

\* The live handles are those of the entries in use.
LiveExact == live = {entries[i].handle : i \in InUse}

\* The look-ups are exact.
FoundInv == PoolInv /\ LiveFound /\ NoDuplicate /\ LiveExact

\* Without removals: they are, as long as the table has room.
AddsInv == PoolInv /\ (entry_count <= HashSize => FoundInv)

\* An add that finds a slot keeps the look-ups exact.
LEMMA AddKeepsFound ==
    ASSUME FoundInv, NEW h \in Handles, Add(h)
    PROVE  FoundInv'
<1>1. CanAdd(h) /\ TakeEntry(h) /\ PoolInv
  BY DEF Add, FoundInv
<1>2. LiveFound /\ NoDuplicate /\ LiveExact
  BY DEF FoundInv
<1>3. live' = live \cup {h} /\ h \notin live
  BY <1>1, <1>2 DEF TakeEntry, CanAdd, LiveFound
<1>4. ASSUME NEW g \in live PROVE Found(g)'
  <2>1. g \in Handles /\ g # InvalidHandle /\ Found(g)
    BY <1>1, <1>2 DEF LiveFound, PoolInv, TypeOK
  <2>2. PICK p \in HashSlot : FoundAt(g, p)
    BY <2>1 DEF Found
  <2>3. ASSUME NEW q \in HashSlot, q <= p
        PROVE  LET s == ProbeSlot(g, q)
               IN  /\ hash_table'[s] = hash_table[s]
                   /\ entries'[hash_table[s]] = entries[hash_table[s]]
    BY <1>1, <2>1, <2>2, <2>3, SearchedInUse, AddKeepsOthers
  <2>4. FoundAt(g, p)'
    BY <2>1, <2>2, <2>3, SameSearch
  <2> QED BY <2>1, <2>4 DEF Found
<1>5. LiveFound'
  BY <1>1, <1>3, <1>4, AddedIsFound DEF LiveFound
<1>6. InUse' = InUse \cup {free_head} /\ free_head \in Index \ InUse
  BY <1>1, TakeKeepsPool
<1>7. /\ entries'[free_head].handle = h
      /\ \A i \in InUse : entries'[i].handle = entries[i].handle
  <2>1. \A i \in InUse : entries'[i] = entries[i]
    BY <1>1, AddKeepsOthers
  <2>2. entries'[free_head] = [handle |-> h, ref_count |-> 1, in_use |-> TRUE]
    BY <1>1, <1>6 DEF TakeEntry, PoolInv, TypeOK
  <2> QED BY <2>1, <2>2
<1>8. LiveExact'
  <2>1. {entries'[i].handle : i \in InUse'} = {entries[i].handle : i \in InUse} \cup {h}
    BY <1>6, <1>7
  <2> QED BY <1>2, <1>3, <2>1 DEF LiveExact
<1>9. \A i \in InUse : entries[i].handle # h
  BY <1>2, <1>3 DEF LiveExact
<1>10. NoDuplicate'
  <2>1. ASSUME NEW i \in InUse', NEW j \in InUse', entries'[i].handle = entries'[j].handle
        PROVE  i = j
    BY <1>2, <1>6, <1>7, <1>9, <2>1 DEF NoDuplicate
  <2> QED BY <2>1 DEF NoDuplicate
<1> QED BY <1>5, <1>8, <1>10, AddKeepsPool DEF FoundInv

\* The look-ups depend on the state only.
LEMMA FoundUnchanged == FoundInv /\ UNCHANGED vars => FoundInv'
<1> SUFFICES ASSUME FoundInv, UNCHANGED vars PROVE FoundInv'
  OBVIOUS
<1>1. PoolInv'
  BY PoolStep DEF FoundInv
<1> QED BY <1>1 DEF vars, FoundInv, LiveFound, NoDuplicate, LiveExact, Found,
                    FoundAt, Hits, Stops, ProbeSlot, InUse

\* There is nothing to look up at first.
LEMMA FoundInit == Init => FoundInv
<1> SUFFICES ASSUME Init PROVE FoundInv
  OBVIOUS
<1>1. InUse = {} /\ live = {}
  BY DEF Init, InUse
<1> QED BY <1>1, PoolInit DEF FoundInv, LiveFound, NoDuplicate, LiveExact

\* Removals are the only cause of lost look-ups: without them, for every hash and
\* every size, each live handle is found and has one entry until there are more
\* entries than slots (gravity_resource_tracker_add, _get).
THEOREM FoundUntilRemoved == AddsOnly => []FoundWhileRoom
<1>1. Init => AddsInv
  BY FoundInit DEF AddsInv, FoundInv
<1>2. AddsInv /\ [\E h \in Handles : Add(h) \/ AddUnindexed(h)]_vars => AddsInv'
  <2> SUFFICES ASSUME AddsInv, [\E h \in Handles : Add(h) \/ AddUnindexed(h)]_vars
               PROVE  AddsInv'
    OBVIOUS
  <2>c. ASSUME NEW h \in Handles, TakeEntry(h)
        PROVE  entry_count \in Nat /\ entry_count' = entry_count + 1
    BY <2>c DEF TakeEntry, AddsInv, PoolInv, TypeOK
  <2>1. ASSUME NEW h \in Handles, Add(h) PROVE AddsInv'
    <3>1. PoolInv'
      BY <2>1, AddKeepsPool DEF AddsInv
    <3>2. entry_count \in Nat /\ entry_count' = entry_count + 1
      BY <2>1, <2>c DEF Add
    <3>3. entry_count' <= HashSize => entry_count <= HashSize
      BY <3>2, TrackerAssumption
    <3>4. entry_count' <= HashSize => FoundInv'
      BY <2>1, <3>3, AddKeepsFound DEF AddsInv
    <3> QED BY <3>1, <3>4 DEF AddsInv
  <2>2. ASSUME NEW h \in Handles, AddUnindexed(h) PROVE AddsInv'
    <3>1. PoolInv'
      BY <2>2, AddKeepsPool DEF AddsInv
    <3>2. HashSize <= entry_count
      BY <2>2, FullTable DEF AddUnindexed, AddsInv
    <3>3. entry_count \in Nat /\ entry_count' = entry_count + 1
      BY <2>2, <2>c DEF AddUnindexed
    <3>4. ~ (entry_count' <= HashSize)
      BY <3>2, <3>3, TrackerAssumption
    <3> QED BY <3>1, <3>4 DEF AddsInv
  <2>3. CASE UNCHANGED vars
    <3>1. PoolInv' /\ entry_count' = entry_count
      BY <2>3, PoolStep DEF AddsInv, vars
    <3> QED BY <2>3, <3>1, FoundUnchanged DEF AddsInv
  <2> QED BY <2>1, <2>2, <2>3
<1>3. AddsInv => FoundWhileRoom
  BY DEF AddsInv, FoundInv, FoundWhileRoom
<1> QED BY <1>1, <1>2, <1>3, PTL DEF AddsOnly

-----------------------------------------------------------------------------
(* Removals that cut off no other handle. *)

\* What a removal does to the entry it finds.
LEMMA RemoveEffect ==
    ASSUME PoolInv, NEW h \in Handles, Remove(h)
    PROVE  \E i \in InUse : /\ entries[i].handle = h
                            /\ InUse' = InUse \ {i}
                            /\ \A j \in InUse \ {i} : entries'[j] = entries[j]
<1>1. PICK p \in HashSlot :
        /\ FoundAt(h, p)
        /\ entries' = [entries EXCEPT ![hash_table[ProbeSlot(h, p)]] =
                         [handle    |-> InvalidHandle,
                          ref_count |-> free_head,
                          in_use    |-> FALSE]]
  BY DEF Remove
<1> DEFINE i == hash_table[ProbeSlot(h, p)]
<1>2. entries[i].handle = h /\ i \in Index
  BY <1>1, ProbeInTable DEF FoundAt, Hits, PoolInv, TypeOK
<1>3. i \in InUse
  BY <1>1, <1>2 DEF FoundAt, Hits, InUse
<1>4. /\ InUse' = InUse \ {i}
      /\ \A j \in InUse \ {i} : entries'[j] = entries[j]
  <2>1. entries \in [Index -> [handle    : Handles,
                              ref_count : Index \cup {EMPTY, 1},
                              in_use    : BOOLEAN]]
    BY DEF PoolInv, TypeOK
  <2> QED BY <1>1, <1>2, <2>1 DEF InUse
<1> QED BY <1>2, <1>3, <1>4

\* A removal aside of the others' probe chains keeps the look-ups exact.
LEMMA RemoveKeepsFound ==
    ASSUME FoundInv, NEW h \in Handles, RemoveAside(h)
    PROVE  FoundInv'
<1>1. Remove(h) /\ PoolInv /\ LiveFound /\ NoDuplicate /\ LiveExact
  BY DEF RemoveAside, FoundInv
<1>2. PICK i \in InUse : /\ entries[i].handle = h
                         /\ InUse' = InUse \ {i}
                         /\ \A j \in InUse \ {i} : entries'[j] = entries[j]
  BY <1>1, RemoveEffect
<1>3. live' = live \ {h}
  BY <1>1 DEF Remove
<1>4. \A j \in InUse \ {i} : entries[j].handle # h
  BY <1>1, <1>2 DEF NoDuplicate
<1>5. PoolInv'
  BY <1>1, RemoveKeepsPool
<1>6. NoDuplicate' /\ LiveExact'
  <2>1. NoDuplicate'
    BY <1>1, <1>2 DEF NoDuplicate
  <2>2. {entries'[j].handle : j \in InUse'} = {entries[j].handle : j \in InUse} \ {h}
    BY <1>2, <1>4
  <2> QED BY <1>1, <1>3, <2>1, <2>2 DEF LiveExact
<1>7. ASSUME NEW g \in live \ {h} PROVE Found(g)'
  <2>1. g \in Handles /\ g # InvalidHandle /\ Found(g)
    BY <1>1 DEF LiveFound, PoolInv, TypeOK
  <2>2. PICK p \in HashSlot : FoundAt(g, p)
    BY <2>1 DEF Found
  <2>3. \A q \in HashSlot : q <= p => hash_table'[ProbeSlot(g, q)] # EMPTY
    <3>1. \A q \in HashSlot : q <= p => ProbeSlot(g, q) \in Path(g)
      BY <2>2 DEF Path
    <3> QED BY <3>1 DEF RemoveAside
  <2>4. [Next]_vars
    BY <1>1 DEF Next
  <2>5. FoundAt(g, p)'
    BY <1>1, <2>1, <2>2, <2>3, <2>4, KeptByStep
  <2> QED BY <2>1, <2>5 DEF Found
<1> QED BY <1>3, <1>5, <1>6, <1>7 DEF FoundInv, LiveFound

\* The look-ups stay exact.
LEMMA FoundStep == FoundInv /\ [CarefulNext]_vars => FoundInv'
  BY AddKeepsFound, RemoveKeepsFound, FoundUnchanged DEF CarefulNext

\* However the handles collide, as long as the table has room and no removal
\* empties a slot that the search for another handle passes, a handle is found
\* exactly from its add to its remove, and has one entry
\* (gravity_resource_tracker_add, _get, _remove).
THEOREM LookupCorrect ==
    CarefulSpec => [](LiveFound /\ NoDuplicate /\ RemovedGone)
<1>1. FoundInv => LiveFound /\ NoDuplicate /\ RemovedGone
  <2> SUFFICES ASSUME FoundInv, NEW h \in Handles, NEW p \in HashSlot,
                      FoundAt(h, p)
               PROVE  h \in live
    BY DEF FoundInv, RemovedGone, Found
  <2>1. hash_table[ProbeSlot(h, p)] \in InUse
        /\ entries[hash_table[ProbeSlot(h, p)]].handle = h
    BY ProbeInTable DEF FoundAt, Hits, FoundInv, PoolInv, SlotsExact
  <2> QED BY <2>1 DEF FoundInv, LiveExact
<1> QED BY <1>1, FoundInit, FoundStep, PTL DEF CarefulSpec

-----------------------------------------------------------------------------
(* With exact look-ups the tracker implements HandleTable. *)

\* The live handles, each with its entry.
View == [h \in live |-> CHOOSE i \in InUse : entries[i].handle = h]

\* That is what get returns, and it determines the entries.
ViewExact ==
    /\ TableSeen = View
    /\ \A i \in InUse : entries[i].handle \in live
    /\ \A i \in InUse : View[entries[i].handle] = i
    /\ \A h \in live : \E i \in InUse : entries[i].handle = h

LEMMA SeenIsView == FoundInv => ViewExact
<1> SUFFICES ASSUME FoundInv PROVE ViewExact
  OBVIOUS
<1>1. live \subseteq Handles \ {InvalidHandle} /\ live = {entries[i].handle : i \in InUse}
  BY DEF FoundInv, PoolInv, TypeOK, LiveExact
<1>2. \A h \in live : \E i \in InUse : entries[i].handle = h
  BY <1>1
<1>3. ASSUME NEW i \in InUse
      PROVE  /\ entries[i].handle \in live
             /\ View[entries[i].handle] = i
  <2>1. entries[i].handle \in live
    BY <1>1
  <2>2. \A j \in InUse : entries[j].handle = entries[i].handle => j = i
    BY DEF FoundInv, NoDuplicate
  <2>3. (CHOOSE j \in InUse : entries[j].handle = entries[i].handle) = i
    BY <2>2
  <2> QED BY <2>1, <2>3 DEF View
<1>4. ASSUME NEW h \in Handles, Found(h)
      PROVE  h \in live /\ EntryOf(h) = View[h]
  <2> DEFINE p == CHOOSE q \in HashSlot : FoundAt(h, q)
             i == hash_table[ProbeSlot(h, p)]
  <2>1. p \in HashSlot /\ FoundAt(h, p)
    BY <1>4 DEF Found
  <2> HIDE DEF p
  <2>2. i \in InUse /\ entries[i].handle = h
    BY <2>1, ProbeInTable DEF FoundAt, Hits, FoundInv, PoolInv, SlotsExact
  <2>3. EntryOf(h) = i
    BY DEF EntryOf, p
  <2> QED BY <1>3, <2>2, <2>3
<1>5. {k \in Handles : Found(k)} = live
  BY <1>1, <1>4 DEF FoundInv, LiveFound
<1>6. TableSeen = View
  BY <1>1, <1>4, <1>5 DEF TableSeen, View
<1> QED BY <1>2, <1>3, <1>6 DEF ViewExact

\* The same of the next state.
LEMMA SeenAfter == FoundInv' => ViewExact'
  BY SeenIsView, PTL

\* An add of the code is an add of the table.
LEMMA AddRefines ==
    ASSUME FoundInv, FoundInv', NEW h \in Handles, Add(h)
    PROVE  \E e \in Index : Table!Add(h, e) /\ h \in Handles \ {InvalidHandle}
<1> DEFINE old == View
           new == View'
<1>1. TableSeen = old /\ TableSeen' = new
  BY SeenIsView, SeenAfter DEF ViewExact
<1>2. CanAdd(h) /\ TakeEntry(h) /\ PoolInv
  BY DEF Add, FoundInv
<1>3. /\ free_head \in Index \ InUse /\ live' = live \cup {h} /\ h # InvalidHandle
      /\ InUse' = InUse \cup {free_head}
  BY <1>2, TakeKeepsPool DEF TakeEntry, CanAdd
<1>4. h \notin live
  BY <1>2 DEF CanAdd, FoundInv, LiveFound
<1>5. /\ entries'[free_head].handle = h
      /\ \A i \in InUse : entries'[i] = entries[i]
  <2>1. entries'[free_head] = [handle |-> h, ref_count |-> 1, in_use |-> TRUE]
    BY <1>2, <1>3 DEF TakeEntry, PoolInv, TypeOK
  <2> QED BY <1>2, <2>1, AddKeepsOthers
<1>6. ASSUME NEW k \in live PROVE new[k] = old[k] /\ old[k] \in InUse
  <2>1. PICK i \in InUse : entries[i].handle = k
    BY SeenIsView DEF ViewExact
  <2> QED BY <1>3, <1>5, <2>1, SeenIsView, SeenAfter DEF ViewExact
<1>7. new[h] = free_head
  BY <1>3, <1>5, SeenAfter DEF ViewExact
<1>8. DOMAIN old = live /\ DOMAIN new = live \cup {h}
      /\ new = [k \in live' |-> new[k]]
  BY <1>3 DEF View
<1>9. free_head \notin Range(old)
  BY <1>3, <1>6, <1>8 DEF Range
<1> HIDE DEF old, new
<1>10. new = [k \in DOMAIN old \cup {h} |-> IF k = h THEN free_head ELSE old[k]]
  BY <1>3, <1>4, <1>6, <1>7, <1>8
<1> QED BY <1>1, <1>3, <1>4, <1>8, <1>9, <1>10 DEF Table!Add, Table!Range, Range

\* A removal of the code is one of the table.
LEMMA RemoveRefines ==
    ASSUME FoundInv, FoundInv', NEW h \in Handles, RemoveAside(h)
    PROVE  Table!Remove(h) /\ h \in Handles \ {InvalidHandle}
<1> DEFINE old == View
           new == View'
<1>1. TableSeen = old /\ TableSeen' = new
  BY SeenIsView, SeenAfter DEF ViewExact
<1>2. Remove(h) /\ h # InvalidHandle /\ PoolInv /\ live' = live \ {h}
  BY DEF RemoveAside, Remove, FoundInv
<1>3. PICK i \in InUse : /\ entries[i].handle = h
                         /\ InUse' = InUse \ {i}
                         /\ \A j \in InUse \ {i} : entries'[j] = entries[j]
  BY <1>2, RemoveEffect
<1>4. h \in live
  BY <1>3, SeenIsView DEF ViewExact
<1>5. ASSUME NEW k \in live \ {h} PROVE new[k] = old[k]
  <2>1. PICK j \in InUse : entries[j].handle = k
    BY SeenIsView DEF ViewExact
  <2>2. j \in InUse' /\ entries'[j].handle = k
    BY <1>3, <2>1
  <2> QED BY <2>1, <2>2, SeenIsView, SeenAfter DEF ViewExact
<1>6. DOMAIN old = live /\ new = [k \in live' |-> new[k]]
  BY DEF View
<1> HIDE DEF old, new
<1>7. new = [k \in DOMAIN old \ {h} |-> old[k]]
  BY <1>2, <1>5, <1>6
<1> QED BY <1>1, <1>2, <1>4, <1>6, <1>7 DEF Table!Remove, Table!Restrict

\* However the handles collide, as long as the table has room and no removal
\* empties a slot that the search for another handle passes, add, get and remove
\* behave as HandleTable says, for any handles, table and pool
\* (resource_tracker.c).
THEOREM TableCorrect == CarefulSpec => ImplementsTable
<1>1. Init => Table!Init
  <2> SUFFICES ASSUME Init PROVE TableSeen = [h \in {} |-> h]
    BY DEF Table!Init
  <2> QED BY FoundInit, SeenIsView DEF Init, View, ViewExact
<1>2. FoundInv /\ FoundInv' /\ [CarefulNext]_vars => [Table!Next]_TableSeen
  <2> SUFFICES ASSUME FoundInv, FoundInv', [CarefulNext]_vars
               PROVE  Table!Next \/ UNCHANGED TableSeen
    OBVIOUS
  <2>1. CASE UNCHANGED vars
    <3>1. live' = live /\ entries' = entries /\ InUse' = InUse
      BY <2>1 DEF vars, InUse
    <3>2. View' = [h \in live' |-> CHOOSE i \in InUse' : entries'[i].handle = h]
      BY DEF View
    <3>3. View' = View
      BY <3>1, <3>2 DEF View
    <3> QED BY <3>3, SeenIsView, SeenAfter DEF ViewExact
  <2>2. ASSUME NEW h \in Handles, Add(h) PROVE Table!Next
    BY <2>2, AddRefines DEF Table!Next
  <2>3. ASSUME NEW h \in Handles, RemoveAside(h) PROVE Table!Next
    BY <2>3, RemoveRefines DEF Table!Next
  <2> QED BY <2>1, <2>2, <2>3 DEF CarefulNext
<1> QED BY <1>1, <1>2, FoundInit, FoundStep, PTL
        DEF CarefulSpec, ImplementsTable, Table!Spec
=============================================================================
