-------------------------- MODULE ResourceTracker ---------------------------
(***************************************************************************)
(* host-daemon/src/resource_tracker.c: the table from guest handles to     *)
(* entries.  Entries come from a free list threaded through ref_count; a   *)
(* hash table with linear probing finds the entry of a handle.  Removal    *)
(* empties the slot and moves no other entry.                              *)
(*                                                                         *)
(* Only the command loop calls these operations, one at a time.  `live'    *)
(* and `freeList' are history variables: the handles the caller has reason *)
(* to believe in, and the order of the free list.                          *)
(***************************************************************************)
EXTENDS Integers, Sequences, FiniteSets

CONSTANTS
    Handles,         \* gravity_handle_t, as far as the guest uses them
    InvalidHandle,   \* GRAVITY_INVALID_HANDLE
    HashSize,        \* GRAVITY_TRACKER_HASH_SIZE
    MaxEntries,      \* GRAVITY_TRACKER_MAX_ENTRIES
    Hash             \* hash_handle

ASSUME TrackerAssumption ==
    /\ HashSize \in Nat \ {0}
    /\ MaxEntries \in Nat \ {0}
    /\ InvalidHandle \in Handles
    /\ Hash \in [Handles -> 0 .. HashSize - 1]

VARIABLES
    entries,       \* index -> [handle, ref_count, in_use]
    hash_table,    \* slot -> index, or EMPTY
    free_head,     \* first free index, or EMPTY
    entry_count,   \* entries in use
    live,          \* history: handles added and not removed since
    freeList       \* history: the free indices, next to be used first

vars == <<entries, hash_table, free_head, entry_count, live, freeList>>

Index == 0 .. MaxEntries - 1
HashSlot == 0 .. HashSize - 1

EMPTY == -1        \* UINT32_MAX

-----------------------------------------------------------------------------
(* gravity_resource_tracker_init *)

Init ==
    /\ entries = [i \in Index |->
                    [handle    |-> InvalidHandle,
                     ref_count |-> IF i = MaxEntries - 1 THEN EMPTY ELSE i + 1,
                     in_use    |-> FALSE]]
    /\ hash_table = [s \in HashSlot |-> EMPTY]
    /\ free_head = 0
    /\ entry_count = 0
    /\ live = {}
    /\ freeList = [n \in 1 .. MaxEntries |-> n - 1]

-----------------------------------------------------------------------------
(* Probing *)

\* The slot of the p-th probe for h.
ProbeSlot(h, p) == (Hash[h] + p) % HashSize

\* The search for h ends at an empty slot.
Stops(h, p) == hash_table[ProbeSlot(h, p)] = EMPTY

\* The p-th probe for h hits an entry in use under that handle.
Hits(h, p) ==
    LET idx == hash_table[ProbeSlot(h, p)]
    IN  idx # EMPTY /\ entries[idx].in_use /\ entries[idx].handle = h

\* The probe at which the search for h succeeds: the first hit, and no empty
\* slot before it.
FoundAt(h, p) ==
    /\ Hits(h, p)
    /\ \A q \in HashSlot : q < p => ~ Hits(h, q) /\ ~ Stops(h, q)

\* gravity_resource_tracker_get returns an entry.
Found(h) == h # InvalidHandle /\ \E p \in HashSlot : FoundAt(h, p)

\* Mutant of InsertAt: the last empty slot is taken.
InsertAt_Last(h, p) ==
    /\ Stops(h, p)
    /\ \A q \in HashSlot : q > p => ~ Stops(h, q)

\* The first empty slot of h's probe sequence, where add inserts.
InsertAt(h, p) ==
    /\ Stops(h, p)
    /\ \A q \in HashSlot : q < p => ~ Stops(h, q)

-----------------------------------------------------------------------------
(* gravity_resource_tracker_add *)

\* Mutant of CanAdd: the check for a duplicate is missing.
CanAdd_Duplicate(h) == h # InvalidHandle /\ free_head # EMPTY

\* An add that gets past the three early returns, which change nothing.
CanAdd(h) ==
    /\ h # InvalidHandle
    /\ free_head # EMPTY
    /\ ~ Found(h)

\* Mutant of NextFree: the link is not followed.
NextFree_Successor == free_head + 1

NextFree == entries[free_head].ref_count

\* An entry is taken off the free list and filled in.
TakeEntry(h) ==
    /\ entries' = [entries EXCEPT ![free_head] =
                     [handle |-> h, ref_count |-> 1, in_use |-> TRUE]]
    /\ free_head' = NextFree
    /\ entry_count' = entry_count + 1
    /\ live' = live \cup {h}
    /\ freeList' = Tail(freeList)

Add(h) ==
    /\ CanAdd(h)
    /\ TakeEntry(h)
    /\ \E p \in HashSlot :
          /\ InsertAt(h, p)
          /\ hash_table' = [hash_table EXCEPT ![ProbeSlot(h, p)] = free_head]

\* The probe loop runs out of slots: the entry is returned but not indexed.
AddUnindexed(h) ==
    /\ CanAdd(h)
    /\ TakeEntry(h)
    /\ \A p \in HashSlot : ~ Stops(h, p)
    /\ UNCHANGED hash_table

-----------------------------------------------------------------------------
(* gravity_resource_tracker_remove *)

\* Mutant of FreedLink: the entry ends the list.
FreedLink_End == EMPTY

FreedLink == free_head

\* The entry is marked free and becomes the head of the free list.
Release(idx) ==
    /\ entries' = [entries EXCEPT ![idx] = [handle    |-> InvalidHandle,
                                          ref_count |-> FreedLink,
                                          in_use    |-> FALSE]]
    /\ free_head' = idx
    /\ freeList' = <<idx>> \o freeList

\* Mutant of ClearSlot: the slot keeps pointing to the entry.
ClearSlot_Keep(s) == hash_table

\* Mutant of ClearSlot: the probe has moved on when the slot is emptied.
ClearSlot_Next(s) == [hash_table EXCEPT ![(s + 1) % HashSize] = EMPTY]

ClearSlot(s) == [hash_table EXCEPT ![s] = EMPTY]

CountAfterRemove == entry_count - 1

Remove(h) ==
    /\ h # InvalidHandle
    /\ \E p \in HashSlot :
          /\ FoundAt(h, p)
          /\ Release(hash_table[ProbeSlot(h, p)])
          /\ hash_table' = ClearSlot(ProbeSlot(h, p))
    /\ entry_count' = CountAfterRemove
    /\ live' = live \ {h}

\* The search fails although the caller believes in the handle: nothing is
\* removed.
RemoveMiss(h) ==
    /\ h \in live
    /\ ~ Found(h)
    /\ live' = live \ {h}
    /\ UNCHANGED <<entries, hash_table, free_head, entry_count, freeList>>

-----------------------------------------------------------------------------
Next == \E h \in Handles :
            \/ Add(h)
            \/ AddUnindexed(h)
            \/ Remove(h)
            \/ RemoveMiss(h)

Spec == Init /\ [][Next]_vars

-----------------------------------------------------------------------------
(* Properties. *)

InUse == {i \in Index : entries[i].in_use}

TypeOK ==
    /\ entries \in [Index -> [handle    : Handles,
                              ref_count : Index \cup {EMPTY, 1},
                              in_use    : BOOLEAN]]
    /\ hash_table \in [HashSlot -> Index \cup {EMPTY}]
    /\ free_head \in Index \cup {EMPTY}
    /\ entry_count \in Nat
    /\ live \subseteq Handles \ {InvalidHandle}
    /\ freeList \in Seq(Index)

\* The free list holds exactly the entries not in use, each once, and the links
\* in ref_count follow it: no entry is handed out twice and none is lost from
\* the pool (add, remove).
FreeListExact ==
    /\ free_head = IF freeList = <<>> THEN EMPTY ELSE freeList[1]
    /\ \A n \in 1 .. Len(freeList) :
          entries[freeList[n]].ref_count =
              IF n = Len(freeList) THEN EMPTY ELSE freeList[n + 1]
    /\ \A m, n \in 1 .. Len(freeList) :
          freeList[m] = freeList[n] => m = n
    /\ {freeList[n] : n \in 1 .. Len(freeList)} = Index \ InUse

\* entry_count is the number of entries in use: the leak report at shutdown
\* tells the truth (gravity_resource_tracker_count, _destroy).
CountExact == entry_count = Cardinality(InUse)

\* A slot of the hash table never refers to a freed entry, and no two slots to
\* the same one: a freed and reused entry is not reached under its old place
\* (add, remove).
SlotsExact ==
    /\ \A s \in HashSlot : hash_table[s] # EMPTY => hash_table[s] \in InUse
    /\ \A s, t \in HashSlot :
          hash_table[s] = hash_table[t] /\ hash_table[s] # EMPTY => s = t

\* Every entry in use can be reached from the hash table at all (add).
AllIndexed == \A i \in InUse : \E s \in HashSlot : hash_table[s] = i

\* The pool is larger than the table, but as long as the entries do not
\* outnumber the slots none goes without one: an add finds a free slot wherever
\* its probes start, and a removal frees exactly the slot of its entry (add,
\* remove).
IndexedUntilFull ==
    [][AllIndexed /\ entry_count < HashSize => AllIndexed']_vars

\* A handle that was added and not removed is found (get).  False in general:
\* after a removal, see LookupKept, and without a slot, see IndexedUntilFull.
LiveFound == \A h \in live : Found(h)

\* No handle has two entries: add refuses a duplicate.
NoDuplicate ==
    \A i, j \in InUse : entries[i].handle = entries[j].handle => i = j

\* A handle that was removed is not found again until it is added again, so a
\* command naming it is not applied to some older object (get, remove).
RemovedGone == \A h \in Handles \ live : ~ Found(h)

\* A found handle keeps its entry in every step that empties none of the slots
\* its search looks at: add never disturbs a look-up, and remove only those that
\* pass the slot it empties (add, get, remove).
LookupKept ==
    [][\A h \in Handles, p \in HashSlot :
          /\ FoundAt(h, p)
          /\ \A q \in HashSlot :
                q <= p => hash_table'[ProbeSlot(h, q)] # EMPTY
          => /\ FoundAt(h, p)'
             /\ hash_table'[ProbeSlot(h, p)] = hash_table[ProbeSlot(h, p)]]_vars

\* The behaviours without a removal.
AddsOnly == Init /\ [][\E h \in Handles : Add(h) \/ AddUnindexed(h)]_vars

\* While there are no more entries than slots, every live handle is found and
\* has one entry (add, get).
FoundWhileRoom == entry_count <= HashSize => LiveFound /\ NoDuplicate

\* The entry that get returns for a handle that is found.
EntryOf(h) == hash_table[ProbeSlot(h, CHOOSE p \in HashSlot : FoundAt(h, p))]

\* The table as its users see it.
TableSeen == [h \in {k \in Handles : Found(k)} |-> EntryOf(h)]

\* The slots that the search for h looks at until it succeeds.
Path(h) == {ProbeSlot(h, q) : q \in {r \in HashSlot :
                                       \E p \in HashSlot : r <= p /\ FoundAt(h, p)}}

\* A removal of h that cuts off no other handle: the slot it empties is on the
\* way to none of them.
RemoveAside(h) ==
    /\ Remove(h)
    /\ \A g \in live \ {h} : \A s \in Path(g) : hash_table'[s] # EMPTY

\* The behaviours in which the table never has to do what the code leaves as a
\* TODO: handles collide, but no slot is emptied under another handle's probe
\* chain, and every entry gets a slot.
CarefulNext == \E h \in Handles : Add(h) \/ RemoveAside(h)
CarefulSpec == Init /\ [][CarefulNext]_vars

\* In those behaviours the tracker implements the table its users rely on,
\* however the handles collide: get returns the same entry for a handle from its
\* add to its remove, never an entry that another handle has, and neither add
\* nor remove disturbs the handles it does not name (add, get, remove).
Table == INSTANCE HandleTable WITH Handles <- Handles \ {InvalidHandle},
                                   Entries <- Index,
                                   table   <- TableSeen
ImplementsTable == Table!Spec
=============================================================================
