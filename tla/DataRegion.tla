----------------------------- MODULE DataRegion -----------------------------
(***************************************************************************)
(* The data region of protocol/include/gravity_ring.h: the kext copies a   *)
(* payload into the region with gravity_ring_data_write, names its place   *)
(* in a CREATE_BUFFER command, and the daemon copies it out when it comes  *)
(* to the command.  The allocator only moves forward and wraps; nothing    *)
(* tells it what the daemon has read.                                      *)
(*                                                                         *)
(* Both copies go word by word.  The command ring is what CommandQueue     *)
(* promises: a queue.  A word of the region holds the number of the block  *)
(* it was written for, 0 before the first.                                 *)
(*                                                                         *)
(* `lap', `frontier' and the fields id and lap of a block are history: the *)
(* times the allocator went around and the furthest position it wrote,     *)
(* counted in words since the start.                                       *)
(***************************************************************************)
EXTENDS Integers, Sequences

CONSTANTS
    Sizes,         \* payload sizes the kext asks for
    RegionSize,    \* data_region_size
    DataStart,     \* data_region_offset
    Align,         \* 64
    Word,          \* 2^32
    MaxBlocks,     \* bound of the model on data_write calls
    MaxQueue       \* bound of the model on commands in the ring

\* gravity_ring_init_host leaves a region of at least one byte behind a header
\* and two rings; the total size is a uint32_t.
ASSUME RegionAssumption ==
    /\ RegionSize \in Nat \ {0}
    /\ DataStart \in Nat \ {0}
    /\ Align \in Nat \ {0}
    /\ Word \in Nat /\ DataStart + RegionSize < Word
    /\ Sizes \subseteq Nat
    /\ MaxBlocks \in Nat /\ MaxQueue \in Nat

VARIABLES
    data_region,         \* shared: the words of the region
    data_alloc_offset,   \* kext: where the next block goes
    gpc,                 \* kext: its step in data_write
    block,               \* kext: the block it is writing
    gi,                  \* kext: words copied so far
    queue,               \* commands submitted and not consumed
    dpc,                 \* daemon: its step in process_create_buffer
    di,                  \* daemon: words copied so far
    mapped,              \* daemon: what it copied into the Vulkan buffer
    lap,                 \* history
    frontier,            \* history
    nblocks              \* history: data_write calls so far

kextVars == <<data_region, data_alloc_offset, gpc, block, gi, lap, frontier,
              nblocks>>
daemonVars == <<dpc, di, mapped>>
vars == <<kextVars, daemonVars, queue>>

Offsets == 0 .. RegionSize - 1
NoBlock == [id |-> 0, offset |-> 0, size |-> 0, lap |-> 0]
NULL == -1

\* The position of the first word of a block since the start.
Pos(b) == RegionSize * b.lap + b.offset

-----------------------------------------------------------------------------
(* gravity_ring_data_write *)

Init ==
    /\ data_region = [o \in Offsets |-> 0]
    /\ data_alloc_offset = 0
    /\ gpc = "idle"
    /\ block = NoBlock
    /\ gi = 0
    /\ queue = <<>>
    /\ dpc = "poll"
    /\ di = 0
    /\ mapped = <<>>
    /\ lap = 0
    /\ frontier = 0
    /\ nblocks = 0

\* Mutant of Overruns: one word too many is let through.
Overruns_ByOne(size) == (data_alloc_offset + size) % Word > RegionSize + 1

\* offset + size in 32 bits lies beyond the region.
Overruns(size) == (data_alloc_offset + size) % Word > RegionSize

\* A call that passes the size check chooses the block.
Allocate(size) ==
    /\ gpc = "idle"
    /\ nblocks < MaxBlocks
    /\ size <= RegionSize
    /\ block' = [id     |-> nblocks + 1,
                 offset |-> IF Overruns(size) THEN 0 ELSE data_alloc_offset,
                 size   |-> size,
                 lap    |-> IF Overruns(size) THEN lap + 1 ELSE lap]
    /\ lap' = block'.lap
    /\ frontier' = Pos(block')
    /\ nblocks' = nblocks + 1
    /\ gi' = 0
    /\ gpc' = "copy"
    /\ UNCHANGED <<data_region, data_alloc_offset, queue, daemonVars>>

\* One word of the memcpy.
CopyIn ==
    /\ gpc = "copy"
    /\ gi < block.size
    /\ data_region' = [data_region EXCEPT ![block.offset + gi] = block.id]
    /\ gi' = gi + 1
    /\ frontier' = frontier + 1
    /\ UNCHANGED <<data_alloc_offset, gpc, block, queue, lap, nblocks,
                   daemonVars>>

\* Mutant of AlignUp: down instead of up.
AlignUp_Down(x) == Align * (x \div Align)

\* (x + 63) & ~63 in 32 bits.
AlignUp(x) == Align * (((x + Align - 1) % Word) \div Align)

\* Mutant of Copied: the command overtakes the last word of the payload.
Copied_Early == gi + 1 >= block.size

Copied == gi = block.size

\* Mutant of AtEnd: an offset equal to the size is kept.
AtEnd_Above(offset) == offset > RegionSize

\* The next block starts over.
AtEnd(offset) == offset >= RegionSize

\* The rest of data_write, after the copy and the write barrier.
Finish ==
    LET next == AlignUp(block.offset + block.size)
    IN  /\ gpc = "copy"
        /\ Copied
        /\ data_alloc_offset' = IF AtEnd(next) THEN 0 ELSE next
        /\ lap' = IF AtEnd(next) THEN lap + 1 ELSE lap
        /\ gpc' = "submit"
        /\ UNCHANGED <<data_region, block, gi, frontier, nblocks, queue,
                       daemonVars>>

\* out_offset, absolute from the base of the shared memory.
OutOffset(b) == (DataStart + b.offset) % Word

-----------------------------------------------------------------------------
(* The kext submits CREATE_BUFFER, with the payload or without one. *)

SubmitWithPayload(shared) ==
    /\ gpc = "submit"
    /\ Len(queue) < MaxQueue
    /\ queue' = Append(queue, [data_offset |-> OutOffset(block),
                               data_size   |-> block.size,
                               shared      |-> shared,
                               block       |-> block])
    /\ gpc' = "idle"
    /\ UNCHANGED <<data_region, data_alloc_offset, block, gi, lap, frontier,
                   nblocks, daemonVars>>

SubmitEmpty ==
    /\ gpc = "idle"
    /\ Len(queue) < MaxQueue
    /\ queue' = Append(queue, [data_offset |-> 0,
                               data_size   |-> 0,
                               shared      |-> TRUE,
                               block       |-> NoBlock])
    /\ UNCHANGED <<kextVars, daemonVars>>

-----------------------------------------------------------------------------
(* The daemon: the end of gravity_cmd_process_create_buffer. *)

cmd == Head(queue)

\* Mutant of DataPtr: the first word of the region is refused.
DataPtr_Exclusive(offset) ==
    IF offset <= DataStart \/ offset - DataStart >= RegionSize
    THEN NULL ELSE offset - DataStart

\* gravity_ring_data_ptr: the offset in the region, or NULL.
DataPtr(offset) ==
    IF offset < DataStart \/ offset - DataStart >= RegionSize
    THEN NULL ELSE offset - DataStart

\* The buffer is mapped only for shared and managed storage.
HasPayload(c) == c.data_offset > 0 /\ c.data_size > 0 /\ c.shared

StartCopy ==
    /\ dpc = "poll"
    /\ queue # <<>>
    /\ HasPayload(cmd) /\ DataPtr(cmd.data_offset) # NULL
    /\ dpc' = "copy"
    /\ di' = 0
    /\ mapped' = <<>>
    /\ UNCHANGED <<kextVars, queue>>

\* No payload, or no pointer to it: the buffer keeps what it had.
SkipCopy ==
    /\ dpc = "poll"
    /\ queue # <<>>
    /\ ~ (HasPayload(cmd) /\ DataPtr(cmd.data_offset) # NULL)
    /\ queue' = Tail(queue)
    /\ UNCHANGED <<kextVars, daemonVars>>

\* One word of the memcpy into the mapped buffer.
CopyOut ==
    /\ dpc = "copy"
    /\ di < cmd.data_size
    /\ mapped' = Append(mapped, data_region[DataPtr(cmd.data_offset) + di])
    /\ di' = di + 1
    /\ UNCHANGED <<kextVars, queue, dpc>>

\* The loop consumes the command.
EndCopy ==
    /\ dpc = "copy"
    /\ di = cmd.data_size
    /\ queue' = Tail(queue)
    /\ dpc' = "poll"
    /\ UNCHANGED <<kextVars, di, mapped>>

-----------------------------------------------------------------------------

Kext ==
    \/ \E size \in Sizes : Allocate(size)
    \/ CopyIn
    \/ Finish
    \/ \E shared \in BOOLEAN : SubmitWithPayload(shared)
    \/ SubmitEmpty

Daemon == StartCopy \/ SkipCopy \/ CopyOut \/ EndCopy

Next == Kext \/ Daemon

Spec == Init /\ [][Next]_vars

-----------------------------------------------------------------------------
(* Properties *)

Blocks == [id : Nat, offset : Offsets, size : Nat, lap : Nat]

CommandType == [data_offset : Nat, data_size : Nat, shared : BOOLEAN,
                block : Blocks]

\* The state has the shape the code gives it.
TypeOK ==
    /\ data_region \in [Offsets -> Nat]
    /\ data_alloc_offset \in Offsets
    /\ gpc \in {"idle", "copy", "submit"}
    /\ block \in Blocks
    /\ gi \in 0 .. block.size
    /\ queue \in Seq(CommandType)
    /\ dpc \in {"poll", "copy"}
    /\ di \in Nat
    /\ mapped \in Seq(Nat)
    /\ lap \in Nat /\ frontier \in Nat /\ nblocks \in Nat

\* The blocks the allocator handed out and the daemon is not done with.
Outstanding == {block} \cup {queue[k].block : k \in 1 .. Len(queue)}

\* Every block lies inside the data region, so neither copy leaves it.
BlocksInRegion == \A b \in Outstanding : b.offset + b.size <= RegionSize

\* The allocator has not come round to the block again.
Recent(b) == frontier <= Pos(b) + RegionSize

\* A submitted block still holds its payload unless the allocator has gone all
\* the way round to it: the granularity and the alignment of data_write never
\* make two blocks of one lap, or of two consecutive ones, overlap too early.
IntactUntilWrap ==
    \A k \in 1 .. Len(queue) :
        LET b == queue[k].block
        IN  Recent(b) => \A i \in 0 .. b.size - 1 :
                             data_region[b.offset + i] = b.id

\* Blocks neither leave the region nor meet: what data_write stores for a
\* command is there to be read, unless the allocator has come round (data_write
\* in one place, the daemon's copy in another).
BlocksIntact == BlocksInRegion /\ IntactUntilWrap

\* What the daemon copied into the buffer is the payload of its command, word
\* for word, unless the allocator came round while the command was under way.
PayloadCopied ==
    dpc = "copy" /\ Recent(cmd.block)
        => /\ Len(mapped) = di
           /\ \A i \in 1 .. di : mapped[i] = cmd.block.id

\* A payload for a mapped buffer is never passed over: no offset data_write
\* returns is taken for `no data' or for an address outside the region.
NeverPassedOver ==
    [][SkipCopy => ~ (cmd.block.size > 0 /\ cmd.shared)]_vars

\* A payload is not overwritten while its command waits in the ring, in a region
\* that is large enough in the sense of the comment at gravity_ring.h:437: that
\* the commands in the ring are processed before the allocator comes round to
\* their blocks.  Nothing in data_write checks it.
OutstandingIntact ==
    \A k \in 1 .. Len(queue) :
        \A i \in 0 .. queue[k].block.size - 1 :
            data_region[queue[k].block.offset + i] = queue[k].block.id
=============================================================================
