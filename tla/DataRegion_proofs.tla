-------------------------- MODULE DataRegion_proofs -------------------------
(***************************************************************************)
(* Proofs about DataRegion for every region size, alignment and payload:   *)
(* the allocator stays in the region, and a payload is intact and copied   *)
(* whole until the allocator has come all the way round; in a region large *)
(* enough for what the ring can hold it never does.                        *)
(***************************************************************************)
EXTENDS DataRegion, ModArith

\* The sums of data_write stay below 2^32.  The region is what is left of a
\* shared memory of 512 MB.
NoOverflow == 2 * RegionSize + Align <= Word

Fits(b) == b.offset + b.size <= RegionSize

\* What the command says of its payload.
Names(c) ==
    \/ c.block = NoBlock /\ c.data_offset = 0 /\ c.data_size = 0
    \/ /\ c.data_offset = DataStart + c.block.offset
       /\ c.data_size = c.block.size

\* The allocator's offset is ahead of everything written, except while a block
\* is being copied; then the copy is the furthest.
AllocInv ==
    /\ Fits(block)
    /\ gpc = "copy" => frontier = Pos(block) + gi /\ block.lap = lap
    /\ gpc = "submit" => frontier = Pos(block) + block.size
    /\ gpc # "copy" => frontier <= RegionSize * lap + data_alloc_offset

\* The block being written, as far as it is.
WrittenInv ==
    /\ gpc # "idle" =>
          \A i \in 0 .. gi - 1 : data_region[block.offset + i] = block.id
    /\ gpc = "submit" => gi = block.size

\* Commands name blocks that lie behind the furthest position written.
QueueInv ==
    \A k \in 1 .. Len(queue) :
        /\ Fits(queue[k].block)
        /\ Names(queue[k])
        /\ Pos(queue[k].block) + queue[k].block.size <= frontier

DaemonInv ==
    /\ Len(mapped) = di
    /\ dpc = "copy" => queue # <<>> /\ HasPayload(cmd)

IInv == /\ TypeOK
        /\ AllocInv
        /\ WrittenInv
        /\ QueueInv
        /\ DaemonInv
        /\ IntactUntilWrap
        /\ PayloadCopied

-----------------------------------------------------------------------------
(* Arithmetic *)

\* Rounding up gives a number that is not smaller.
LEMMA AlignBounds ==
    ASSUME NEW x \in Nat, x + Align <= Word
    PROVE  AlignUp(x) \in Nat /\ x <= AlignUp(x)
<1> USE RegionAssumption
<1> DEFINE y == x + Align - 1
           q == y \div Align
<1>1. y \in Nat /\ y < Word
  OBVIOUS
<1>2. (y % Word) = y
  <2>1. y \in 0 .. Word - 1 /\ y = Word * 0 + y /\ Word \in Nat \ {0}
    BY <1>1
  <2> HIDE DEF y
  <2> QED BY <2>1, ModUnique
<1>3. q \in Int /\ y = Align * q + (y % Align)
  BY <1>1, ModDiv
<1>4. (y % Align) \in 0 .. Align - 1
  BY <1>1, ModRange
<1>5. AlignUp(x) = Align * q
  BY <1>2 DEF AlignUp
<1> HIDE DEF q
<1>6. Align * q = y - (y % Align) /\ Align * q \in Int
  BY <1>1, <1>3, <1>4
<1> QED BY <1>4, <1>5, <1>6

\* Positions are natural numbers.
LEMMA PosNat ==
    ASSUME NEW b \in Blocks
    PROVE  Pos(b) \in Nat
BY RegionAssumption DEF Blocks, Pos, Offsets

\* A word written behind a block, less than a region ahead of its start, does
\* not fall on it.
LEMMA Apart ==
    ASSUME NEW a \in Blocks, NEW b \in Blocks, NEW i \in 0 .. a.size - 1,
           NEW j \in Nat, Pos(a) + a.size <= Pos(b) + j,
           Pos(b) + j < Pos(a) + RegionSize
    PROVE  a.offset + i # b.offset + j
<1> SUFFICES ASSUME a.offset + i = b.offset + j
             PROVE  FALSE
  OBVIOUS
<1> USE RegionAssumption
<1> DEFINE q == b.lap - a.lap
<1>1. a.lap \in Nat /\ b.lap \in Nat /\ a.offset \in Int /\ b.offset \in Int
      /\ a.size \in Nat /\ i \in Int
  BY DEF Blocks, Offsets
<1>2. RegionSize * q = RegionSize * b.lap - RegionSize * a.lap
  BY <1>1, SMT
<1>3. RegionSize * q = (Pos(b) + j) - (Pos(a) + i)
  BY <1>1, <1>2 DEF Pos
<1>4. Pos(a) \in Int /\ Pos(b) \in Int
  BY PosNat
<1>5. 0 < RegionSize * q /\ RegionSize * q < RegionSize
  BY <1>1, <1>3, <1>4
<1>6. q = 0
  <2>1. q \in Int /\ -RegionSize < RegionSize * q
    BY <1>1, <1>5
  <2> HIDE DEF q
  <2> QED BY <2>1, <1>5, SmallMultiple
<1> QED BY <1>5, <1>6

-----------------------------------------------------------------------------
(* Commands *)

\* data_ptr finds a payload where data_write put it.
LEMMA PtrExact ==
    ASSUME NEW c \in CommandType, Names(c), c.data_size > 0
    PROVE  /\ c.data_offset > 0
           /\ DataPtr(c.data_offset) = c.block.offset
           /\ c.data_size = c.block.size
<1>1. c.data_offset = DataStart + c.block.offset /\ c.data_size = c.block.size
  BY DEF Names
<1>2. c.block.offset \in Offsets
  BY DEF CommandType, Blocks
<1> QED BY <1>1, <1>2, RegionAssumption DEF DataPtr, Offsets

\* The command the daemon copies the payload of.
LEMMA CopiedCommand ==
    ASSUME TypeOK, QueueInv, DaemonInv, dpc = "copy"
    PROVE  /\ cmd \in CommandType
           /\ cmd = queue[1] /\ 1 \in 1 .. Len(queue)
           /\ Fits(cmd.block)
           /\ DataPtr(cmd.data_offset) = cmd.block.offset
           /\ cmd.data_size = cmd.block.size
           /\ cmd.block \in Blocks
<1>1. queue \in Seq(CommandType) /\ queue # <<>> /\ HasPayload(cmd)
  BY DEF TypeOK, DaemonInv
<1>2. cmd = queue[1] /\ 1 \in 1 .. Len(queue) /\ cmd \in CommandType
  BY <1>1 DEF cmd
<1>3. Names(cmd) /\ Fits(cmd.block)
  BY <1>2 DEF QueueInv
<1>4. cmd.data_size > 0
  BY <1>1 DEF HasPayload
<1>5. cmd.block \in Blocks
  BY <1>2 DEF CommandType
<1> QED BY <1>2, <1>3, <1>4, <1>5, PtrExact

-----------------------------------------------------------------------------
(* Types *)

\* The state keeps its type.
LEMMA TypeStep ==
    ASSUME TypeOK, QueueInv, DaemonInv, [Next]_vars
    PROVE  TypeOK'
<1> USE RegionAssumption DEF TypeOK
<1>1. ASSUME NEW size \in Sizes, Allocate(size)
      PROVE  TypeOK'
  <2>1. block' \in Blocks /\ lap' \in Nat
    BY <1>1 DEF Allocate, Blocks, Offsets
  <2>2. frontier' \in Nat
    BY <1>1, <2>1, PosNat DEF Allocate
  <2>3. 0 \in 0 .. block'.size
    BY <2>1 DEF Blocks
  <2> QED BY <1>1, <2>1, <2>2, <2>3 DEF Allocate, daemonVars
<1>2. CASE CopyIn
  <2>1. block.id \in Nat /\ block.size \in Nat
    BY DEF Blocks
  <2>2. data_region' \in [Offsets -> Nat]
    BY <1>2, <2>1 DEF CopyIn
  <2>3. gi' \in 0 .. block.size /\ frontier' \in Nat
    BY <1>2, <2>1 DEF CopyIn
  <2> QED BY <1>2, <2>2, <2>3 DEF CopyIn, daemonVars
<1>3. CASE Finish
  <2> DEFINE x == block.offset + block.size
  <2>1. x \in Int
    BY DEF Blocks, Offsets
  <2>2. AlignUp(x) \in Nat
    <3>1. x + Align - 1 \in Nat
      BY DEF Blocks, Offsets
    <3> DEFINE y == (x + Align - 1) % Word
               q == y \div Align
    <3>2. Word \in Nat \ {0}
      OBVIOUS
    <3>3. y \in 0 .. Word - 1
      <4> HIDE DEF x
      <4> QED BY <2>1, <3>2, ModRange
    <3> HIDE DEF y
    <3>4. q \in Nat
      BY <3>3
    <3> HIDE DEF q
    <3>5. Align * q \in Nat
      BY <3>4
    <3> QED BY <3>5 DEF AlignUp, q, y
  <2>3. data_alloc_offset' \in Offsets
    <3> HIDE DEF x
    <3>1. data_alloc_offset' = IF AtEnd(AlignUp(x)) THEN 0 ELSE AlignUp(x)
      BY <1>3 DEF Finish, x
    <3> QED BY <3>1, <2>2 DEF AtEnd, Offsets
  <2>4. lap' \in Nat
    BY <1>3 DEF Finish
  <2> QED BY <1>3, <2>3, <2>4 DEF Finish, daemonVars
<1>4. ASSUME NEW shared \in BOOLEAN, SubmitWithPayload(shared)
      PROVE  TypeOK'
  <2>1. OutOffset(block) \in Nat
    <3>1. DataStart + block.offset \in Int /\ Word \in Nat \ {0}
      BY DEF Blocks, Offsets
    <3>2. (DataStart + block.offset) % Word \in 0 .. Word - 1
      BY <3>1, ModRange
    <3> QED BY <3>2 DEF OutOffset
  <2>2. [data_offset |-> OutOffset(block), data_size |-> block.size,
         shared |-> shared, block |-> block] \in CommandType
    BY <2>1 DEF CommandType, Blocks
  <2>3. queue' \in Seq(CommandType)
    BY <1>4, <2>2 DEF SubmitWithPayload
  <2> QED BY <1>4, <2>3 DEF SubmitWithPayload, daemonVars
<1>5. CASE SubmitEmpty
  <2>1. [data_offset |-> 0, data_size |-> 0, shared |-> TRUE,
         block |-> NoBlock] \in CommandType
    BY DEF CommandType, Blocks, NoBlock, Offsets
  <2>2. queue' \in Seq(CommandType)
    BY <1>5, <2>1 DEF SubmitEmpty
  <2> QED BY <1>5, <2>2 DEF SubmitEmpty, daemonVars, kextVars
<1>6. CASE StartCopy
  BY <1>6 DEF StartCopy, kextVars
<1>7. CASE SkipCopy
  BY <1>7 DEF SkipCopy, kextVars, daemonVars
<1>8. CASE CopyOut
  <2>1. dpc = "copy"
    BY <1>8 DEF CopyOut
  <2>2. DataPtr(cmd.data_offset) = cmd.block.offset /\ Fits(cmd.block)
        /\ cmd.data_size = cmd.block.size /\ cmd.block \in Blocks
    BY <2>1, CopiedCommand
  <2>3. DataPtr(cmd.data_offset) + di \in Offsets
    <3>1. cmd.block.offset \in Nat /\ cmd.block.size \in Nat
      BY <2>2 DEF Blocks, Offsets
    <3>2. di \in Nat /\ di < cmd.block.size
      BY <1>8, <2>2 DEF CopyOut
    <3> DEFINE o == cmd.block.offset
               z == cmd.block.size
    <3>3. o + z <= RegionSize
      BY <2>2 DEF Fits
    <3> HIDE DEF o, z
    <3>4. o \in Nat /\ z \in Nat /\ di < z
      BY <3>1, <3>2 DEF o, z
    <3>5. o + di \in Offsets
      BY <3>3, <3>4 DEF Offsets
    <3> QED BY <2>2, <3>5 DEF o
  <2>4. mapped' \in Seq(Nat)
    BY <1>8, <2>3 DEF CopyOut
  <2> QED BY <1>8, <2>4 DEF CopyOut, kextVars
<1>9. CASE EndCopy
  <2>1. queue # <<>>
    BY <1>9 DEF EndCopy, DaemonInv
  <2>2. queue' \in Seq(CommandType)
    BY <1>9, <2>1 DEF EndCopy
  <2> QED BY <1>9, <2>2 DEF EndCopy, kextVars
<1>10. CASE UNCHANGED vars
  BY <1>10 DEF vars, kextVars, daemonVars
<1> QED BY <1>1, <1>2, <1>3, <1>4, <1>5, <1>6, <1>7, <1>8, <1>9, <1>10
        DEF Next, Kext, Daemon

-----------------------------------------------------------------------------
(* The allocator *)

\* A step of the daemon leaves the kext alone, and so does a stutter; an empty
\* submission adds a command and nothing else.
LEMMA KextQuiet ==
    ASSUME \/ Daemon \/ SubmitEmpty \/ UNCHANGED vars
    PROVE  UNCHANGED kextVars
BY DEF Daemon, StartCopy, SkipCopy, CopyOut, EndCopy, SubmitEmpty, vars

\* The block data_write chooses starts where the allocator was, or where the
\* next lap starts, and fits.
LEMMA AllocateBlock ==
    ASSUME NoOverflow, TypeOK, NEW size \in Sizes, Allocate(size)
    PROVE  /\ block'.offset + block'.size <= RegionSize
           /\ RegionSize * lap + data_alloc_offset
                  <= RegionSize * block'.lap + block'.offset
<1> USE RegionAssumption
<1>1. size \in Nat /\ data_alloc_offset \in 0 .. RegionSize - 1 /\ lap \in Nat
      /\ size <= RegionSize
  BY DEF TypeOK, Offsets, Allocate
<1>2. Word \in Nat \ {0} /\ data_alloc_offset + size \in 0 .. Word - 1
  BY <1>1 DEF NoOverflow
<1>3. ((data_alloc_offset + size) % Word) = data_alloc_offset + size
  <2> DEFINE x == data_alloc_offset + size
  <2>1. x \in 0 .. Word - 1 /\ x = Word * 0 + x
    BY <1>2
  <2> HIDE DEF x
  <2>2. (x % Word) = x
    BY <1>2, <2>1, ModUnique
  <2> QED BY <2>2 DEF x
<1>4. block' = [id     |-> nblocks + 1,
                offset |-> IF Overruns(size) THEN 0 ELSE data_alloc_offset,
                size   |-> size,
                lap    |-> IF Overruns(size) THEN lap + 1 ELSE lap]
  BY DEF Allocate
<1>5. CASE Overruns(size)
  <2>1. block'.offset = 0 /\ block'.size = size /\ block'.lap = lap + 1
    BY <1>4, <1>5
  <2>2. RegionSize * (lap + 1) = RegionSize * lap + RegionSize
        /\ RegionSize * lap \in Nat
    BY <1>1, SMT
  <2> QED BY <1>1, <2>1, <2>2
<1>6. CASE ~ Overruns(size)
  <2>1. block'.offset = data_alloc_offset /\ block'.size = size
        /\ block'.lap = lap
    BY <1>4, <1>6
  <2>2. data_alloc_offset + size <= RegionSize
    BY <1>1, <1>2, <1>3, <1>6 DEF Overruns
  <2>3. RegionSize * lap \in Nat
    BY <1>1, SMT
  <2> QED BY <1>1, <2>1, <2>2, <2>3
<1> QED BY <1>5, <1>6

\* After a block the allocator is not behind its end.
LEMMA FinishOffset ==
    ASSUME NoOverflow, TypeOK, AllocInv, Finish
    PROVE  Pos(block) + block.size <= RegionSize * lap' + data_alloc_offset'
<1> USE RegionAssumption
<1> DEFINE x == block.offset + block.size
           next == AlignUp(x)
           base == RegionSize * lap
<1>1. block.offset \in Nat /\ block.size \in Nat /\ lap \in Nat
      /\ block.lap = lap
  BY DEF TypeOK, Blocks, Offsets, AllocInv, Finish
<1>2. x \in Nat /\ x <= RegionSize
  BY <1>1 DEF AllocInv, Fits
<1>3. next \in Nat /\ x <= next
  <2>1. x + Align <= Word
    BY <1>2 DEF NoOverflow
  <2> HIDE DEF x
  <2> QED BY <1>2, <2>1, AlignBounds
<1>4. Pos(block) + block.size = base + x /\ base \in Nat
  <2>1. base \in Nat
    BY <1>1, SMT
  <2>2. Pos(block) = base + block.offset
    BY <1>1 DEF Pos
  <2> HIDE DEF base
  <2> QED BY <1>1, <2>1, <2>2
<1>5. data_alloc_offset' = (IF AtEnd(next) THEN 0 ELSE next)
      /\ lap' = (IF AtEnd(next) THEN lap + 1 ELSE lap)
  BY DEF Finish
<1> HIDE DEF x, next
<1>6. CASE AtEnd(next)
  <2>1. RegionSize * lap' = base + RegionSize /\ data_alloc_offset' = 0
    <3>1. RegionSize * (lap + 1) = RegionSize * lap + RegionSize
      BY <1>1, SMT
    <3> QED BY <1>5, <1>6, <3>1
  <2> HIDE DEF base
  <2> QED BY <1>2, <1>4, <2>1
<1>7. CASE ~ AtEnd(next)
  <2>1. RegionSize * lap' = base /\ data_alloc_offset' = next
    BY <1>5, <1>7
  <2> HIDE DEF base
  <2> QED BY <1>3, <1>2, <1>4, <2>1
<1> QED BY <1>6, <1>7

\* The allocator moves forward only.
LEMMA AllocStep ==
    ASSUME NoOverflow, TypeOK, TypeOK', AllocInv, WrittenInv, [Next]_vars
    PROVE  AllocInv' /\ frontier <= frontier'
<1> USE RegionAssumption
<1>0. frontier \in Nat /\ gi \in Nat /\ block \in Blocks /\ block.size \in Nat
      /\ Pos(block) \in Nat /\ lap \in Nat /\ data_alloc_offset \in Nat
  BY PosNat DEF TypeOK, Blocks, Offsets
<1>1. ASSUME NEW size \in Sizes, Allocate(size)
      PROVE  AllocInv' /\ frontier <= frontier'
  <2>1. gpc = "idle" /\ gpc' = "copy" /\ gi' = 0 /\ lap' = block'.lap
        /\ frontier' = Pos(block')
    BY <1>1 DEF Allocate
  <2>2. Pos(block') = RegionSize * block'.lap + block'.offset
    BY DEF Pos
  <2>3. frontier <= RegionSize * lap + data_alloc_offset
    BY <2>1 DEF AllocInv
  <2>4. Pos(block') \in Nat
    BY PosNat DEF TypeOK
  <2>5. RegionSize * lap \in Nat
    BY <1>0, SMT
  <2>6. RegionSize * lap + data_alloc_offset <= Pos(block')
        /\ Fits(block')
    BY <1>1, <2>2, AllocateBlock DEF Fits
  <2>7. frontier <= frontier'
    BY <1>0, <2>1, <2>3, <2>4, <2>5, <2>6
  <2> QED BY <2>1, <2>4, <2>6, <2>7 DEF AllocInv
<1>2. CASE CopyIn
  <2>1. gpc = "copy" /\ gpc' = "copy" /\ block' = block /\ gi' = gi + 1
        /\ frontier' = frontier + 1 /\ lap' = lap
    BY <1>2 DEF CopyIn
  <2>2. frontier' = Pos(block) + gi'
    BY <1>0, <2>1 DEF AllocInv
  <2> QED BY <1>0, <2>1, <2>2 DEF AllocInv
<1>3. CASE Finish
  <2>1. gpc = "copy" /\ gpc' = "submit" /\ block' = block
        /\ frontier' = frontier /\ gi = block.size
    BY <1>3 DEF Finish, Copied
  <2>2. frontier = Pos(block) + block.size
    BY <2>1 DEF AllocInv
  <2>3. frontier <= RegionSize * lap' + data_alloc_offset'
    BY <1>3, <2>2, FinishOffset
  <2> QED BY <1>0, <2>1, <2>2, <2>3 DEF AllocInv
<1>4. ASSUME NEW shared \in BOOLEAN, SubmitWithPayload(shared)
      PROVE  AllocInv' /\ frontier <= frontier'
  <2>1. gpc = "submit" /\ gpc' = "idle"
        /\ UNCHANGED <<block, frontier, gi, lap, data_alloc_offset>>
    BY <1>4 DEF SubmitWithPayload
  <2> QED BY <1>0, <2>1 DEF AllocInv
<1>5. CASE Daemon \/ SubmitEmpty \/ UNCHANGED vars
  <2>1. UNCHANGED <<gpc, block, frontier, gi, lap, data_alloc_offset>>
    BY <1>5, KextQuiet DEF kextVars
  <2> QED BY <1>0, <2>1 DEF AllocInv
<1> QED BY <1>1, <1>2, <1>3, <1>4, <1>5 DEF Next, Kext

-----------------------------------------------------------------------------
(* Words and commands *)

\* What a block has of its payload is kept while it is written.
LEMMA WrittenStep ==
    ASSUME TypeOK, AllocInv, WrittenInv, [Next]_vars
    PROVE  WrittenInv'
<1>0. gi \in Nat /\ block \in Blocks /\ block.offset \in Nat
      /\ block.size \in Nat /\ gi <= block.size
      /\ data_region \in [Offsets -> Nat]
  BY DEF TypeOK, Blocks, Offsets
<1>1. ASSUME NEW size \in Sizes, Allocate(size)
      PROVE  WrittenInv'
  <2>1. gpc' = "copy" /\ gi' = 0
    BY <1>1 DEF Allocate
  <2> QED BY <2>1 DEF WrittenInv
<1>2. CASE CopyIn
  <2>1. gpc = "copy" /\ gpc' = "copy" /\ block' = block /\ gi' = gi + 1
        /\ data_region' = [data_region EXCEPT ![block.offset + gi] = block.id]
        /\ gi < block.size
    BY <1>2 DEF CopyIn
  <2>2. block.offset + gi \in Offsets
    BY <1>0, <2>1, RegionAssumption DEF AllocInv, Fits, Offsets
  <2>3. ASSUME NEW i \in 0 .. gi
        PROVE  data_region'[block.offset + i] = block.id
    <3>1. CASE i = gi
      BY <1>0, <2>1, <2>2, <3>1
    <3>2. CASE i # gi
      <4>1. i \in 0 .. gi - 1 /\ block.offset + i # block.offset + gi
        BY <1>0, <3>2
      <4>2. data_region[block.offset + i] = block.id
        BY <2>1, <4>1 DEF WrittenInv
      <4>3. block.offset + i \in Offsets
        BY <1>0, <2>2, <4>1, RegionAssumption DEF Offsets
      <4> QED BY <1>0, <2>1, <4>1, <4>2, <4>3
    <3> QED BY <3>1, <3>2
  <2> QED BY <1>0, <2>1, <2>3 DEF WrittenInv
<1>3. CASE Finish
  <2>1. gpc = "copy" /\ gpc' = "submit" /\ gi = block.size
        /\ UNCHANGED <<block, gi, data_region>>
    BY <1>3 DEF Finish, Copied
  <2> QED BY <2>1 DEF WrittenInv
<1>4. ASSUME NEW shared \in BOOLEAN, SubmitWithPayload(shared)
      PROVE  WrittenInv'
  <2>1. gpc' = "idle"
    BY <1>4 DEF SubmitWithPayload
  <2> QED BY <2>1 DEF WrittenInv
<1>5. CASE Daemon \/ SubmitEmpty \/ UNCHANGED vars
  <2>1. UNCHANGED <<gpc, block, gi, data_region>>
    BY <1>5, KextQuiet DEF kextVars
  <2> QED BY <2>1 DEF WrittenInv
<1> QED BY <1>1, <1>2, <1>3, <1>4, <1>5 DEF Next, Kext

\* The queue keeps its commands, loses the first one, or gains one at its end.
LEMMA QueueChange ==
    ASSUME DaemonInv, [Next]_vars
    PROVE  \/ queue' = queue
           \/ queue # <<>> /\ queue' = Tail(queue)
           \/ /\ SubmitEmpty
              /\ queue' = Append(queue, [data_offset |-> 0,
                                         data_size   |-> 0,
                                         shared      |-> TRUE,
                                         block       |-> NoBlock])
           \/ \E shared \in BOOLEAN :
                 /\ SubmitWithPayload(shared)
                 /\ queue' = Append(queue, [data_offset |-> OutOffset(block),
                                            data_size   |-> block.size,
                                            shared      |-> shared,
                                            block       |-> block])
<1>1. ASSUME NEW size \in Sizes, Allocate(size)
      PROVE  queue' = queue
  BY <1>1 DEF Allocate
<1>2. ASSUME NEW shared \in BOOLEAN, SubmitWithPayload(shared)
      PROVE  queue' = Append(queue, [data_offset |-> OutOffset(block),
                                     data_size   |-> block.size,
                                     shared      |-> shared,
                                     block       |-> block])
  BY <1>2 DEF SubmitWithPayload
<1>3. CASE SubmitEmpty
  BY <1>3 DEF SubmitEmpty
<1>4. CASE CopyIn \/ Finish \/ StartCopy \/ CopyOut \/ UNCHANGED vars
  BY <1>4 DEF CopyIn, Finish, StartCopy, CopyOut, vars
<1>5. CASE SkipCopy
  BY <1>5 DEF SkipCopy
<1>6. CASE EndCopy
  BY <1>6 DEF EndCopy, DaemonInv
<1> QED BY <1>1, <1>2, <1>3, <1>4, <1>5, <1>6 DEF Next, Kext, Daemon

\* A command in the queue was there before, or has just been submitted.
LEMMA QueueOrigin ==
    ASSUME TypeOK, DaemonInv, [Next]_vars, NEW k \in 1 .. Len(queue')
    PROVE  \/ \E j \in 1 .. Len(queue) : queue'[k] = queue[j]
           \/ /\ SubmitEmpty
              /\ queue'[k] = [data_offset |-> 0, data_size |-> 0,
                              shared |-> TRUE, block |-> NoBlock]
           \/ \E shared \in BOOLEAN :
                 /\ SubmitWithPayload(shared)
                 /\ queue'[k] = [data_offset |-> OutOffset(block),
                                 data_size   |-> block.size,
                                 shared      |-> shared,
                                 block       |-> block]
<1>0. queue \in Seq(CommandType)
  BY DEF TypeOK
<1>1. CASE queue' = queue
  BY <1>1
<1>2. CASE queue # <<>> /\ queue' = Tail(queue)
  <2>1. queue'[k] = queue[k + 1] /\ k + 1 \in 1 .. Len(queue)
    BY <1>0, <1>2
  <2> QED BY <2>1
<1>3. ASSUME NEW c, queue' = Append(queue, c)
      PROVE  queue'[k] = c \/ \E j \in 1 .. Len(queue) : queue'[k] = queue[j]
  <2>1. CASE k \in 1 .. Len(queue)
    BY <1>0, <1>3, <2>1
  <2>2. CASE k = Len(queue) + 1
    BY <1>0, <1>3, <2>2
  <2>3. Len(queue') = Len(queue) + 1 /\ Len(queue) \in Nat
    BY <1>0, <1>3
  <2> QED BY <2>1, <2>2, <2>3
<1> QED BY <1>1, <1>2, <1>3, QueueChange

\* A command keeps what is known of it.
LEMMA QueueStep ==
    ASSUME TypeOK, TypeOK', AllocInv, QueueInv, DaemonInv,
           frontier <= frontier', [Next]_vars
    PROVE  QueueInv'
<1> USE RegionAssumption
<1> SUFFICES ASSUME NEW k \in 1 .. Len(queue')
             PROVE  /\ Fits(queue'[k].block)
                    /\ Names(queue'[k])
                    /\ Pos(queue'[k].block) + queue'[k].block.size <= frontier'
  BY DEF QueueInv, Fits, Names, Pos
<1>0. frontier \in Nat /\ frontier' \in Nat /\ block \in Blocks
  BY DEF TypeOK
<1>1. ASSUME NEW j \in 1 .. Len(queue), queue'[k] = queue[j]
      PROVE  /\ Fits(queue'[k].block)
             /\ Names(queue'[k])
             /\ Pos(queue'[k].block) + queue'[k].block.size <= frontier'
  <2>1. queue[j] \in CommandType
    BY DEF TypeOK
  <2>2. Pos(queue[j].block) \in Nat /\ queue[j].block.size \in Nat
    BY <2>1, PosNat DEF CommandType, Blocks
  <2>3. Fits(queue[j].block) /\ Names(queue[j])
        /\ Pos(queue[j].block) + queue[j].block.size <= frontier
    BY DEF QueueInv
  <2>4. Pos(queue[j].block) + queue[j].block.size <= frontier'
    BY <1>0, <2>2, <2>3
  <2> QED BY <1>1, <2>3, <2>4
<1>2. ASSUME queue'[k] = [data_offset |-> 0, data_size |-> 0,
                          shared |-> TRUE, block |-> NoBlock]
      PROVE  /\ Fits(queue'[k].block)
             /\ Names(queue'[k])
             /\ Pos(queue'[k].block) + queue'[k].block.size <= frontier'
  BY <1>0, <1>2 DEF Fits, Names, Pos, NoBlock
<1>3. ASSUME NEW shared \in BOOLEAN, SubmitWithPayload(shared),
             queue'[k] = [data_offset |-> OutOffset(block),
                          data_size   |-> block.size,
                          shared      |-> shared,
                          block       |-> block]
      PROVE  /\ Fits(queue'[k].block)
             /\ Names(queue'[k])
             /\ Pos(queue'[k].block) + queue'[k].block.size <= frontier'
  <2>1. gpc = "submit" /\ frontier' = frontier
    BY <1>3 DEF SubmitWithPayload
  <2>2. Fits(block) /\ frontier = Pos(block) + block.size
    BY <2>1 DEF AllocInv
  <2>3. OutOffset(block) = DataStart + block.offset
    <3> DEFINE x == DataStart + block.offset
    <3>1. x \in 0 .. Word - 1 /\ x = Word * 0 + x /\ Word \in Nat \ {0}
      BY <1>0 DEF Blocks, Offsets
    <3> HIDE DEF x
    <3>2. (x % Word) = x
      BY <3>1, ModUnique
    <3> QED BY <3>2 DEF OutOffset, x
  <2>4. Pos(block) \in Nat /\ block.size \in Nat
    BY <1>0, PosNat DEF Blocks
  <2>5. queue'[k].block = block /\ queue'[k].data_size = block.size
        /\ queue'[k].data_offset = DataStart + block.offset
    BY <1>3, <2>3
  <2>6. Names(queue'[k])
    BY <2>5 DEF Names
  <2>7. Pos(block) + block.size <= frontier'
    BY <2>1, <2>2, <2>4
  <2> QED BY <2>2, <2>5, <2>6, <2>7
<1> QED BY <1>1, <1>2, <1>3, QueueOrigin

\* The daemon keeps its command until it is done with it.
LEMMA CommandKept ==
    ASSUME TypeOK, DaemonInv, [Next]_vars, dpc = "copy", dpc' = "copy"
    PROVE  cmd' = cmd /\ queue' # <<>>
<1>1. queue \in Seq(CommandType) /\ queue # <<>>
  BY DEF TypeOK, DaemonInv
<1>2. CASE queue' = queue
  BY <1>1, <1>2 DEF cmd
<1>3. ASSUME NEW c, queue' = Append(queue, c)
      PROVE  cmd' = cmd /\ queue' # <<>>
  BY <1>1, <1>3 DEF cmd
<1>4. ~ SkipCopy /\ ~ EndCopy
  BY DEF SkipCopy, EndCopy
<1>5. queue' = queue \/ \E c : queue' = Append(queue, c)
  <2>1. ASSUME NEW size \in Sizes, Allocate(size) PROVE queue' = queue
    BY <2>1 DEF Allocate
  <2>2. ASSUME NEW shared \in BOOLEAN, SubmitWithPayload(shared)
        PROVE  \E c : queue' = Append(queue, c)
    BY <2>2 DEF SubmitWithPayload
  <2>3. CASE SubmitEmpty
    BY <2>3 DEF SubmitEmpty
  <2>4. CASE CopyIn \/ Finish \/ StartCopy \/ CopyOut \/ UNCHANGED vars
    BY <2>4 DEF CopyIn, Finish, StartCopy, CopyOut, vars
  <2> QED BY <1>4, <2>1, <2>2, <2>3, <2>4 DEF Next, Kext, Daemon
<1> QED BY <1>2, <1>3, <1>5

\* The daemon counts what it copies.
LEMMA DaemonStep ==
    ASSUME TypeOK, DaemonInv, [Next]_vars
    PROVE  DaemonInv'
<1>0. mapped \in Seq(Nat) /\ di \in Nat /\ queue \in Seq(CommandType)
      /\ Len(mapped) = di
  BY DEF TypeOK, DaemonInv
<1>1. CASE StartCopy
  <2>1. dpc' = "copy" /\ di' = 0 /\ mapped' = <<>> /\ queue' = queue
        /\ queue # <<>> /\ HasPayload(cmd)
    BY <1>1 DEF StartCopy
  <2>2. HasPayload(cmd)'
    BY <2>1 DEF HasPayload, cmd
  <2> QED BY <2>1, <2>2 DEF DaemonInv
<1>2. CASE CopyOut
  <2>1. dpc = "copy" /\ dpc' = "copy" /\ di' = di + 1
    BY <1>2 DEF CopyOut
  <2>2. Len(mapped') = Len(mapped) + 1
    BY <1>0, <1>2 DEF CopyOut
  <2>3. cmd' = cmd /\ queue' # <<>>
    BY <2>1, CommandKept
  <2>4. HasPayload(cmd)'
    BY <2>1, <2>3 DEF DaemonInv, HasPayload
  <2> QED BY <1>0, <2>1, <2>2, <2>3, <2>4 DEF DaemonInv
<1>3. CASE UNCHANGED <<mapped, di>> /\ dpc' # "copy"
  BY <1>3 DEF DaemonInv
<1>4. CASE UNCHANGED <<mapped, di, dpc>> /\ dpc = "copy"
  <2>1. cmd' = cmd /\ queue' # <<>>
    BY <1>4, CommandKept
  <2>2. HasPayload(cmd)'
    BY <1>4, <2>1 DEF DaemonInv, HasPayload
  <2> QED BY <1>0, <1>4, <2>1, <2>2 DEF DaemonInv
<1>5. \/ StartCopy \/ CopyOut
      \/ UNCHANGED <<mapped, di>> /\ dpc' # "copy"
      \/ UNCHANGED <<mapped, di, dpc>>
  <2>1. ASSUME NEW size \in Sizes, Allocate(size)
        PROVE  UNCHANGED <<mapped, di, dpc>>
    BY <2>1 DEF Allocate, daemonVars
  <2>2. ASSUME NEW shared \in BOOLEAN, SubmitWithPayload(shared)
        PROVE  UNCHANGED <<mapped, di, dpc>>
    BY <2>2 DEF SubmitWithPayload, daemonVars
  <2>3. CASE CopyIn \/ Finish \/ SubmitEmpty \/ SkipCopy \/ UNCHANGED vars
    BY <2>3 DEF CopyIn, Finish, SubmitEmpty, SkipCopy, vars, daemonVars
  <2>4. CASE EndCopy
    BY <2>4 DEF EndCopy
  <2> QED BY <2>1, <2>2, <2>3, <2>4 DEF Next, Kext, Daemon
<1> QED BY <1>1, <1>2, <1>3, <1>4, <1>5

\* The copy of a block leaves the words of a recent one alone.
LEMMA IntactStep ==
    ASSUME TypeOK, TypeOK', AllocInv, AllocInv', WrittenInv, QueueInv, DaemonInv,
           IntactUntilWrap, frontier <= frontier', [Next]_vars
    PROVE  IntactUntilWrap'
<1>0. /\ frontier \in Nat /\ frontier' \in Nat /\ gi \in Nat
      /\ block \in Blocks /\ block.offset \in Nat
      /\ data_region \in [Offsets -> Nat]
      /\ RegionSize \in Nat
  <2>1. frontier \in Nat /\ frontier' \in Nat /\ block \in Blocks
        /\ data_region \in [Offsets -> Nat] /\ gi \in 0 .. block.size
    BY DEF TypeOK
  <2>2. block.offset \in Nat /\ block.size \in Nat
    BY <2>1, RegionAssumption DEF Blocks, Offsets
  <2> QED BY <2>1, <2>2, RegionAssumption
<1> SUFFICES ASSUME NEW k \in 1 .. Len(queue'),
                    frontier' <= Pos(queue'[k].block) + RegionSize,
                    NEW i \in 0 .. queue'[k].block.size - 1
             PROVE  data_region'[queue'[k].block.offset + i]
                        = queue'[k].block.id
  BY DEF IntactUntilWrap, Recent
<1>1. ASSUME NEW j \in 1 .. Len(queue), queue'[k] = queue[j]
      PROVE  data_region'[queue'[k].block.offset + i] = queue'[k].block.id
  <2> DEFINE a == queue[j].block
  <2>1. a \in Blocks
    <3>1. queue[j] \in CommandType
      BY DEF TypeOK
    <3> QED BY <3>1 DEF CommandType
  <2>2. /\ Pos(a) \in Nat /\ a.size \in Nat /\ a.offset \in Nat
        /\ i \in 0 .. a.size - 1 /\ queue'[k].block = a
    BY <1>1, <2>1, PosNat DEF Blocks, Offsets
  <2>3. Fits(a) /\ Pos(a) + a.size <= frontier
    BY DEF QueueInv
  <2>4. frontier' <= Pos(a) + RegionSize
    BY <1>1
  <2>5. Recent(a)
    <3> HIDE DEF a
    <3> QED BY <1>0, <2>2, <2>4 DEF Recent
  <2>6. data_region[a.offset + i] = a.id
    BY <2>2, <2>5 DEF IntactUntilWrap
  <2> HIDE DEF a
  <2>7. a.offset + i \in Offsets
    <3> DEFINE o == a.offset
               z == a.size
    <3>1. o + z <= RegionSize /\ o \in Nat /\ z \in Nat /\ i \in 0 .. z - 1
      BY <2>2, <2>3 DEF Fits
    <3> HIDE DEF o, z
    <3>2. o + i \in Offsets
      BY <1>0, <3>1 DEF Offsets
    <3> QED BY <3>2 DEF o
  <2>8. data_region'[a.offset + i] = data_region[a.offset + i]
    <3>1. CASE CopyIn
      <4>1. gpc = "copy" /\ frontier' = frontier + 1
            /\ data_region' = [data_region EXCEPT ![block.offset + gi]
                                                  = block.id]
        BY <3>1 DEF CopyIn
      <4>2. frontier = Pos(block) + gi
        BY <4>1 DEF AllocInv
      <4>3. Pos(block) + gi < Pos(a) + RegionSize
            /\ Pos(a) + a.size <= Pos(block) + gi
        BY <1>0, <2>2, <2>3, <2>4, <4>1, <4>2
      <4>4. a.offset + i # block.offset + gi
        BY <1>0, <2>1, <2>2, <4>3, Apart
      <4> QED BY <1>0, <2>7, <4>1, <4>4
    <3>2. CASE data_region' = data_region
      BY <3>2
    <3>3. CopyIn \/ data_region' = data_region
      <4>1. ASSUME NEW size \in Sizes, Allocate(size)
            PROVE  data_region' = data_region
        BY <4>1 DEF Allocate
      <4>2. ASSUME NEW shared \in BOOLEAN, SubmitWithPayload(shared)
            PROVE  data_region' = data_region
        BY <4>2 DEF SubmitWithPayload
      <4>3. CASE Finish
        BY <4>3 DEF Finish
      <4>4. CASE Daemon \/ SubmitEmpty \/ UNCHANGED vars
        BY <4>4, KextQuiet DEF kextVars
      <4> QED BY <4>1, <4>2, <4>3, <4>4 DEF Next, Kext
    <3> QED BY <3>1, <3>2, <3>3
  <2> QED BY <2>2, <2>6, <2>8
<1>2. ASSUME queue'[k] = [data_offset |-> 0, data_size |-> 0,
                          shared |-> TRUE, block |-> NoBlock]
      PROVE  data_region'[queue'[k].block.offset + i] = queue'[k].block.id
  <2>1. i \in 0 .. -1
    BY <1>2 DEF NoBlock
  <2> QED BY <2>1
<1>3. ASSUME NEW shared \in BOOLEAN, SubmitWithPayload(shared),
             queue'[k] = [data_offset |-> OutOffset(block),
                          data_size   |-> block.size,
                          shared      |-> shared,
                          block       |-> block]
      PROVE  data_region'[queue'[k].block.offset + i] = queue'[k].block.id
  <2>1. gpc = "submit" /\ data_region' = data_region
    BY <1>3 DEF SubmitWithPayload
  <2>2. queue'[k].block = block
    BY <1>3
  <2>3. data_region[block.offset + i] = block.id
    BY <2>1, <2>2 DEF WrittenInv
  <2> QED BY <2>1, <2>2, <2>3
<1> QED BY <1>1, <1>2, <1>3, QueueOrigin

\* What the daemon copies is the payload, while its block is recent.
LEMMA CopiedStep ==
    ASSUME TypeOK, TypeOK', QueueInv, DaemonInv, IntactUntilWrap,
           PayloadCopied, frontier <= frontier', [Next]_vars
    PROVE  PayloadCopied'
<1>0. mapped \in Seq(Nat) /\ di \in Nat /\ Len(mapped) = di
      /\ frontier \in Nat /\ frontier' \in Nat
  BY DEF TypeOK, DaemonInv
<1> SUFFICES ASSUME dpc' = "copy", Recent(cmd.block)'
             PROVE  Len(mapped') = di' /\ \A i \in 1 .. di' :
                                              mapped'[i] = cmd'.block.id
  BY DEF PayloadCopied
<1>1. CASE StartCopy
  BY <1>1 DEF StartCopy
<1>2. CASE dpc = "copy"
  <2>1. cmd' = cmd
    BY <1>2, CommandKept
  <2>2. cmd = queue[1] /\ 1 \in 1 .. Len(queue) /\ Fits(cmd.block)
        /\ DataPtr(cmd.data_offset) = cmd.block.offset
        /\ cmd.data_size = cmd.block.size /\ cmd.block \in Blocks
    BY <1>2, CopiedCommand
  <2>3. Recent(cmd.block)
    <3>1. Pos(cmd.block) \in Nat
      BY <2>2, PosNat
    <3>2. frontier' <= Pos(cmd.block) + RegionSize
      BY <2>1 DEF Recent
    <3> QED BY <1>0, <3>1, <3>2, RegionAssumption DEF Recent
  <2>4. \A i \in 1 .. di : mapped[i] = cmd.block.id
    BY <1>2, <2>3 DEF PayloadCopied
  <2>5. CASE CopyOut
    <3>1. mapped' = Append(mapped, data_region[cmd.block.offset + di])
          /\ di' = di + 1 /\ di < cmd.block.size
      BY <2>2, <2>5 DEF CopyOut
    <3>2. di \in 0 .. cmd.block.size - 1
      BY <1>0, <2>2, <3>1 DEF Blocks
    <3>3. data_region[cmd.block.offset + di] = cmd.block.id
      BY <2>2, <2>3, <3>2 DEF IntactUntilWrap
    <3>4. mapped' = Append(mapped, cmd.block.id) /\ cmd.block.id \in Nat
      BY <2>2, <3>1, <3>3 DEF Blocks
    <3>5. Len(mapped') = di + 1
      BY <1>0, <3>4
    <3>6. ASSUME NEW i \in 1 .. di + 1
          PROVE  mapped'[i] = cmd.block.id
      <4>1. CASE i \in 1 .. di
        BY <1>0, <2>4, <3>4, <4>1
      <4>2. CASE i = di + 1
        BY <1>0, <3>4, <4>2
      <4> QED BY <1>0, <4>1, <4>2
    <3> QED BY <2>1, <3>1, <3>5, <3>6
  <2>6. CASE UNCHANGED <<mapped, di>>
    BY <1>0, <2>1, <2>4, <2>6
  <2>7. CopyOut \/ UNCHANGED <<mapped, di>>
    <3>1. ASSUME NEW size \in Sizes, Allocate(size)
          PROVE  UNCHANGED <<mapped, di>>
      BY <3>1 DEF Allocate, daemonVars
    <3>2. ASSUME NEW shared \in BOOLEAN, SubmitWithPayload(shared)
          PROVE  UNCHANGED <<mapped, di>>
      BY <3>2 DEF SubmitWithPayload, daemonVars
    <3>3. CASE CopyIn \/ Finish \/ SubmitEmpty \/ SkipCopy \/ UNCHANGED vars
      BY <3>3 DEF CopyIn, Finish, SubmitEmpty, SkipCopy, vars, daemonVars
    <3>4. CASE EndCopy
      BY <3>4 DEF EndCopy
    <3>5. CASE StartCopy
      BY <1>2, <3>5 DEF StartCopy
    <3> QED BY <3>1, <3>2, <3>3, <3>4, <3>5 DEF Next, Kext, Daemon
  <2> QED BY <2>5, <2>6, <2>7
<1>3. dpc = "copy" \/ StartCopy
  <2>1. ASSUME NEW size \in Sizes, Allocate(size)
        PROVE  dpc = "copy"
    BY <2>1 DEF Allocate, daemonVars
  <2>2. ASSUME NEW shared \in BOOLEAN, SubmitWithPayload(shared)
        PROVE  dpc = "copy"
    BY <2>2 DEF SubmitWithPayload, daemonVars
  <2>3. CASE CopyIn \/ Finish \/ SubmitEmpty \/ SkipCopy \/ UNCHANGED vars
    BY <2>3 DEF CopyIn, Finish, SubmitEmpty, SkipCopy, vars, daemonVars
  <2>4. CASE EndCopy \/ CopyOut
    BY <2>4 DEF EndCopy, CopyOut
  <2> QED BY <2>1, <2>2, <2>3, <2>4 DEF Next, Kext, Daemon
<1> QED BY <1>1, <1>2, <1>3

-----------------------------------------------------------------------------
(* Theorems *)

\* At the start the region is empty.
LEMMA InitInv == Init => IInv
<1> SUFFICES ASSUME Init PROVE IInv
  OBVIOUS
<1> USE RegionAssumption DEF Init
<1>1. TypeOK
  BY DEF TypeOK, Offsets, NoBlock, Blocks
<1>2. AllocInv
  BY DEF AllocInv, Fits, NoBlock
<1> QED BY <1>1, <1>2 DEF IInv, WrittenInv, QueueInv, DaemonInv,
                          IntactUntilWrap, PayloadCopied

\* Every step keeps the invariant.
LEMMA NextInv ==
    ASSUME NoOverflow
    PROVE  IInv /\ [Next]_vars => IInv'
<1> SUFFICES ASSUME IInv, [Next]_vars
             PROVE  IInv'
  OBVIOUS
<1> USE DEF IInv
<1>1. TypeOK'
  BY TypeStep
<1>2. AllocInv' /\ frontier <= frontier'
  BY <1>1, AllocStep
<1>3. WrittenInv'
  BY WrittenStep
<1>4. QueueInv'
  BY <1>1, <1>2, QueueStep
<1>5. DaemonInv'
  BY DaemonStep
<1>6. IntactUntilWrap'
  BY <1>1, <1>2, IntactStep
<1>7. PayloadCopied'
  BY <1>1, <1>2, CopiedStep
<1> QED BY <1>1, <1>2, <1>3, <1>4, <1>5, <1>6, <1>7

\* When no sum of data_write overflows, the state is well typed, every block the
\* allocator hands out lies inside the region, a payload is intact until the
\* allocator has come all the way round, and the daemon copies it whole.
THEOREM RegionCorrect ==
    ASSUME NoOverflow
    PROVE  Spec => [](TypeOK /\ BlocksIntact /\ PayloadCopied)
<1>1. IInv => BlocksInRegion
  <2> SUFFICES ASSUME IInv, NEW b \in Outstanding
               PROVE  b.offset + b.size <= RegionSize
    BY DEF BlocksInRegion
  <2>1. CASE b = block
    BY <2>1 DEF IInv, AllocInv, Fits
  <2>2. ASSUME NEW k \in 1 .. Len(queue), b = queue[k].block
        PROVE  b.offset + b.size <= RegionSize
    BY <2>2 DEF IInv, QueueInv, Fits
  <2> QED BY <2>1, <2>2 DEF Outstanding
<1>2. IInv => TypeOK /\ BlocksIntact /\ PayloadCopied
  BY <1>1 DEF IInv, BlocksIntact
<1> QED BY <1>2, InitInv, NextInv, PTL DEF Spec

\* No payload for a mapped buffer is passed over: the daemon never takes an
\* offset data_write returned for `no data' or for an address outside.
THEOREM PayloadsFound ==
    ASSUME NoOverflow
    PROVE  Spec => NeverPassedOver
<1>1. IInv /\ [Next]_vars => [SkipCopy => ~ (cmd.block.size > 0 /\ cmd.shared)]_vars
  <2> SUFFICES ASSUME IInv, SkipCopy, cmd.block.size > 0, cmd.shared
               PROVE  FALSE
    OBVIOUS
  <2>1. queue \in Seq(CommandType) /\ queue # <<>>
    BY DEF IInv, TypeOK, SkipCopy
  <2>2. cmd = queue[1] /\ 1 \in 1 .. Len(queue) /\ cmd \in CommandType
    BY <2>1 DEF cmd
  <2>3. Names(cmd)
    BY <2>2 DEF IInv, QueueInv
  <2>4. cmd.data_size > 0
    BY <2>3 DEF Names, NoBlock
  <2>5. cmd.data_offset > 0 /\ DataPtr(cmd.data_offset) = cmd.block.offset
    BY <2>2, <2>3, <2>4, PtrExact
  <2>6. cmd.block.offset # NULL
    BY <2>2, RegionAssumption DEF CommandType, Blocks, Offsets, NULL
  <2> QED BY <2>4, <2>5, <2>6 DEF SkipCopy, HasPayload
<1> QED BY <1>1, InitInv, NextInv, PTL DEF Spec, NeverPassedOver

-----------------------------------------------------------------------------
(* A region that is large enough. *)

\* What a block can move the allocator by: the rest of the lap it does not fit
\* in, the block, and the rounding.
Stride(size) == 2 * size + Align

\* No payload is larger than a size, and the region has room for as many of
\* that size as the ring can hold commands, and one more.
Ample(largest) ==
    /\ largest \in Nat
    /\ \A size \in Sizes : size <= largest
    /\ (MaxQueue + 1) * Stride(largest) <= RegionSize

\* How far the allocator has come, with the block under way.
Edge == IF gpc = "copy" THEN Pos(block) + block.size + Align
                        ELSE RegionSize * lap + data_alloc_offset

\* Blocks allocated since the k-th command was, and its own.
Since(k) == Len(queue) - k + 1 + (IF gpc = "idle" THEN 0 ELSE 1)

\* The allocator is no further from an outstanding block than the blocks since
\* can have moved it.
AheadInv(largest) ==
    /\ Len(queue) <= MaxQueue
    /\ gpc # "idle" => Edge <= Pos(block) + Stride(largest)
    /\ gpc = "copy" => block.size <= largest
    /\ \A k \in 1 .. Len(queue) :
          \/ queue[k].block = NoBlock
          \/ Edge <= Pos(queue[k].block) + Since(k) * Stride(largest)

\* Products, for numbers of blocks.
LEMMA OneMore ==
    ASSUME NEW n \in Nat, NEW s \in Nat
    PROVE  (n + 1) * s = n * s + s /\ n * s \in Nat
BY SMT

\* Fewer blocks move the allocator less.
LEMMA FewerBlocks ==
    ASSUME NEW m \in Nat, NEW n \in Nat, NEW s \in Nat, m <= n
    PROVE  m * s <= n * s
<1> DEFINE d == n - m
<1>1. d \in Nat /\ n = m + d
  OBVIOUS
<1> HIDE DEF d
<1>2. (m + d) * s = m * s + d * s /\ m * s \in Nat /\ d * s \in Nat
  BY <1>1, SMT
<1> QED BY <1>1, <1>2

\* Rounding up adds less than the alignment.
LEMMA AlignAdds ==
    ASSUME NEW x \in Nat, x + Align <= Word
    PROVE  AlignUp(x) \in Nat /\ AlignUp(x) <= x + Align
<1> USE RegionAssumption
<1> DEFINE y == x + Align - 1
           q == y \div Align
<1>1. y \in Nat /\ y < Word
  OBVIOUS
<1>2. (y % Word) = y
  <2>1. y \in 0 .. Word - 1 /\ y = Word * 0 + y /\ Word \in Nat \ {0}
    BY <1>1
  <2> HIDE DEF y
  <2> QED BY <2>1, ModUnique
<1>3. q \in Int /\ y = Align * q + (y % Align)
  BY <1>1, ModDiv
<1>4. (y % Align) \in 0 .. Align - 1
  BY <1>1, ModRange
<1>5. AlignUp(x) = Align * q
  BY <1>2 DEF AlignUp
<1> HIDE DEF q
<1>6. Align * q = y - (y % Align) /\ Align * q \in Int
  BY <1>1, <1>3, <1>4
<1>7. AlignUp(x) \in Nat
  BY AlignBounds
<1> QED BY <1>4, <1>5, <1>6, <1>7

\* A block starts less than its size ahead of where the allocator was.
LEMMA AllocateReach ==
    ASSUME NoOverflow, TypeOK, NEW size \in Sizes, Allocate(size)
    PROVE  Pos(block') <= RegionSize * lap + data_alloc_offset + size
<1> USE RegionAssumption
<1>1. size \in Nat /\ data_alloc_offset \in 0 .. RegionSize - 1 /\ lap \in Nat
      /\ size <= RegionSize
  BY DEF TypeOK, Offsets, Allocate
<1> DEFINE x == data_alloc_offset + size
           base == RegionSize * lap
<1>2. (x % Word) = x
  <2>1. x \in 0 .. Word - 1 /\ x = Word * 0 + x /\ Word \in Nat \ {0}
    BY <1>1 DEF NoOverflow
  <2> HIDE DEF x
  <2> QED BY <2>1, ModUnique
<1>3. base \in Nat /\ RegionSize * (lap + 1) = base + RegionSize
  BY <1>1, SMT
<1>4. /\ block'.offset = IF Overruns(size) THEN 0 ELSE data_alloc_offset
      /\ block'.lap = IF Overruns(size) THEN lap + 1 ELSE lap
  BY DEF Allocate
<1>5. CASE Overruns(size)
  <2>1. x > RegionSize
    BY <1>2, <1>5 DEF Overruns
  <2>2. Pos(block') = RegionSize * (lap + 1) + 0
    BY <1>4, <1>5 DEF Pos
  <2>3. Pos(block') = base + RegionSize
    <3> HIDE DEF base
    <3> QED BY <1>3, <2>2
  <2> HIDE DEF base
  <2>4. Pos(block') <= base + data_alloc_offset + size
    BY <1>1, <1>3, <2>1, <2>3
  <2> QED BY <2>4 DEF base
<1>6. CASE ~ Overruns(size)
  <2>1. Pos(block') = base + data_alloc_offset
    BY <1>4, <1>6 DEF Pos
  <2> HIDE DEF base
  <2>2. Pos(block') <= base + data_alloc_offset + size
    BY <1>1, <1>3, <2>1
  <2> QED BY <2>2 DEF base
<1> QED BY <1>5, <1>6

\* After a block the allocator is at most an alignment past its end.
LEMMA FinishReach ==
    ASSUME NoOverflow, TypeOK, AllocInv, Finish
    PROVE  RegionSize * lap' + data_alloc_offset' <= Pos(block) + block.size + Align
<1> USE RegionAssumption
<1> DEFINE x == block.offset + block.size
           next == AlignUp(x)
           base == RegionSize * lap
<1>1. block.offset \in Nat /\ block.size \in Nat /\ lap \in Nat
      /\ block.lap = lap
  BY DEF TypeOK, Blocks, Offsets, AllocInv, Finish
<1>2. x \in Nat /\ x <= RegionSize
  BY <1>1 DEF AllocInv, Fits
<1>3. next \in Nat /\ next <= x + Align
  <2>1. x + Align <= Word
    BY <1>2 DEF NoOverflow
  <2> HIDE DEF x
  <2> QED BY <1>2, <2>1, AlignAdds
<1>4. Pos(block) + block.size = base + x /\ base \in Nat
      /\ RegionSize * (lap + 1) = base + RegionSize
  <2>1. base \in Nat /\ RegionSize * (lap + 1) = base + RegionSize
    BY <1>1, SMT
  <2>2. Pos(block) = base + block.offset
    BY <1>1 DEF Pos
  <2> HIDE DEF base
  <2> QED BY <1>1, <2>1, <2>2
<1>5. /\ AtEnd(next) => RegionSize * lap' = RegionSize * (lap + 1) /\ data_alloc_offset' = 0
                        /\ RegionSize <= next
      /\ ~ AtEnd(next) => RegionSize * lap' = base /\ data_alloc_offset' = next
  BY <1>3 DEF Finish, AtEnd
<1> HIDE DEF x, next, base
<1>6. RegionSize * lap' + data_alloc_offset' <= base + next
  BY <1>3, <1>4, <1>5
<1>7. base + next <= base + x + Align
  BY <1>2, <1>3, <1>4
<1> QED BY <1>1, <1>2, <1>3, <1>4, <1>5, <1>6, <1>7

\* A step that moves the allocator by no more than the blocks it adds leaves the
\* queue within reach.
LEMMA ReachKept ==
    ASSUME NEW s \in Nat, NEW e \in Int, NEW f \in Int, NEW p \in Int,
           NEW n \in Nat, e <= p + n * s, f <= e + s
    PROVE  f <= p + (n + 1) * s
BY OneMore

\* Submitting, consuming and copying leave the edge where it is, or behind.
LEMMA AheadStep ==
    ASSUME NoOverflow, NEW largest, Ample(largest), IInv, IInv',
           AheadInv(largest), [Next]_vars
    PROVE  AheadInv(largest)'
<1> USE RegionAssumption
<1> DEFINE s == Stride(largest)
<1>0. /\ queue \in Seq(CommandType) /\ queue' \in Seq(CommandType)
      /\ Len(queue) \in Nat /\ Len(queue') \in Nat
      /\ block \in Blocks /\ block' \in Blocks
      /\ s \in Nat /\ largest \in Nat
  BY DEF IInv, TypeOK, Ample, Stride
<1>1. ASSUME NEW b \in Blocks PROVE Pos(b) \in Nat /\ b.size \in Nat
  BY PosNat DEF Blocks
<1>2. ASSUME NEW k \in 1 .. Len(queue) PROVE queue[k].block \in Blocks
  <2>1. queue[k] \in CommandType
    BY <1>0
  <2> QED BY <2>1 DEF CommandType
<1>3. Edge \in Int /\ Edge' \in Int
  <2>1. lap \in Nat /\ lap' \in Nat /\ data_alloc_offset \in Nat /\ data_alloc_offset' \in Nat
    BY DEF IInv, TypeOK, Offsets
  <2>2. RegionSize * lap \in Nat /\ RegionSize * lap' \in Nat
    <3>1. \A m, n \in Nat : m * n \in Nat
      BY SMT
    <3> QED BY <2>1, <3>1
  <2>3. Pos(block) \in Nat /\ block.size \in Nat /\ Pos(block') \in Nat /\ block'.size \in Nat
    BY <1>0, <1>1
  <2>4. Edge' = IF gpc' = "copy" THEN Pos(block') + block'.size + Align
                                 ELSE RegionSize * lap' + data_alloc_offset'
    BY DEF Edge, Pos
  <2> QED BY <2>1, <2>2, <2>3, <2>4 DEF Edge
<1> HIDE DEF s
<1>4. ASSUME NEW size \in Sizes, Allocate(size)
      PROVE  AheadInv(largest)'
  <2>1. /\ gpc = "idle" /\ gpc' = "copy" /\ block'.size = size
        /\ queue' = queue /\ size \in Nat /\ size <= largest
    BY <1>4 DEF Allocate, Ample
  <2>2. Edge = RegionSize * lap + data_alloc_offset
        /\ Edge' = Pos(block') + size + Align
    BY <2>1 DEF Edge, Pos
  <2>3. Pos(block') <= Edge + size
    BY <1>4, <2>2, AllocateReach DEF IInv
  <2>4. s = 2 * largest + Align
    BY DEF s, Stride
  <2>5. Edge' <= Edge + s /\ Edge' <= Pos(block') + s
    <3>1. Pos(block') \in Nat
      BY <1>0, <1>1
    <3>2. Edge' <= Pos(block') + s
      BY <1>0, <2>1, <2>2, <2>4, <3>1, RegionAssumption
    <3>3. Edge' <= Edge + size + size + Align
      BY <1>3, <2>1, <2>2, <2>3, <3>1
    <3> QED BY <1>0, <1>3, <2>1, <2>4, <3>2, <3>3
  <2>6. ASSUME NEW k \in 1 .. Len(queue), queue[k].block # NoBlock
        PROVE  Edge' <= Pos(queue[k].block) + Since(k)' * s
    <3>1. Since(k) \in Nat /\ Since(k)' = Since(k) + 1
      BY <1>0, <2>1 DEF Since
    <3>2. Edge <= Pos(queue[k].block) + Since(k) * s
      BY <2>6 DEF AheadInv, s
    <3>3. Pos(queue[k].block) \in Int
      BY <1>1, <1>2
    <3>4. Edge' <= Pos(queue[k].block) + (Since(k) + 1) * s
      BY <1>0, <1>3, <2>5, <3>1, <3>2, <3>3, ReachKept
    <3> QED BY <3>1, <3>4
  <2>7. Len(queue') <= MaxQueue /\ gpc' # "idle"
        /\ Edge' <= Pos(block)' + s /\ block'.size <= largest
    BY <2>1, <2>5 DEF AheadInv, Pos
  <2>8. \A k \in 1 .. Len(queue') :
           \/ queue'[k].block = NoBlock
           \/ Edge' <= Pos(queue'[k].block) + Since(k)' * s
    BY <2>1, <2>6
  <2> QED BY <2>7, <2>8 DEF AheadInv, s, Pos, Stride
<1>5. CASE CopyIn \/ Finish
  <2>1. /\ queue' = queue /\ block' = block /\ gpc = "copy" /\ gpc' # "idle"
        /\ gpc' = "copy" \/ gpc' = "submit"
    BY <1>5 DEF CopyIn, Finish
  <2>2. Edge' <= Edge
    <3>1. CASE CopyIn
      BY <1>3, <3>1 DEF CopyIn, Edge, Pos
    <3>2. CASE Finish
      BY <3>2, FinishReach DEF Finish, Edge, IInv
    <3> QED BY <1>5, <3>1, <3>2
  <2>3. \A k \in 1 .. Len(queue) : Since(k)' = Since(k)
    BY <2>1 DEF Since
  <2>4. Edge' <= Pos(block) + s
    BY <1>0, <1>1, <1>3, <2>1, <2>2 DEF AheadInv, s
  <2>5. ASSUME NEW k \in 1 .. Len(queue), queue[k].block # NoBlock
        PROVE  Edge' <= Pos(queue[k].block) + Since(k)' * s
    <3>1. Edge <= Pos(queue[k].block) + Since(k) * s
      BY <2>5 DEF AheadInv, s
    <3>2. Pos(queue[k].block) \in Int /\ Since(k) \in Nat
      BY <1>0, <1>1, <1>2, <2>1 DEF Since
    <3>3. Since(k) * s \in Nat
      BY <1>0, <3>2, OneMore
    <3> QED BY <1>3, <2>2, <2>3, <3>1, <3>2, <3>3
  <2>6. Len(queue') <= MaxQueue /\ block'.size <= largest
    BY <2>1 DEF AheadInv
  <2> QED BY <2>1, <2>4, <2>5, <2>6 DEF AheadInv, s, Pos
<1>6. ASSUME NEW shared \in BOOLEAN, SubmitWithPayload(shared)
      PROVE  AheadInv(largest)'
  <2> DEFINE c == [data_offset |-> OutOffset(block), data_size |-> block.size,
                   shared |-> shared, block |-> block]
             n == Len(queue)
  <2>1. /\ gpc = "submit" /\ gpc' = "idle" /\ block' = block /\ n < MaxQueue
        /\ queue' = Append(queue, c)
        /\ UNCHANGED <<lap, data_alloc_offset>>
    BY <1>6 DEF SubmitWithPayload
  <2>2. Edge' = Edge
    BY <2>1 DEF Edge
  <2>3. /\ Len(queue') = n + 1 /\ queue'[n + 1].block = block
        /\ \A k \in 1 .. n : queue'[k] = queue[k]
    <3>1. c.block = block
      OBVIOUS
    <3> HIDE DEF c
    <3> QED BY <1>0, <2>1, <3>1
  <2>4. Edge' <= Pos(block) + s
    BY <2>1, <2>2 DEF AheadInv, s
  <2>5. ASSUME NEW k \in Nat, k = n + 1
        PROVE  Since(k)' = 1 /\ 1 * s = s
    <3>1. Since(k)' = Len(queue') - k + 1 + 0
      BY <2>1 DEF Since
    <3>2. n \in Nat /\ Len(queue') = n + 1
      BY <1>0, <2>3
    <3> HIDE DEF n
    <3>3. Len(queue') - k + 1 + 0 = 1
      BY <2>5, <3>2
    <3> QED BY <1>0, <3>1, <3>3
  <2>6. ASSUME NEW k \in 1 .. n, queue[k].block # NoBlock
        PROVE  Edge' <= Pos(queue'[k].block) + Since(k)' * s
    <3>1. Since(k)' = Since(k)
      BY <1>0, <2>1, <2>3 DEF Since
    <3> QED BY <2>2, <2>3, <2>6, <3>1 DEF AheadInv, s
  <2>7. \A k \in 1 .. n + 1 :
           \/ queue'[k].block = NoBlock
           \/ Edge' <= Pos(queue'[k].block) + Since(k)' * s
    <3>1. \A k \in 1 .. n + 1 : k \in 1 .. n \/ k = n + 1
      BY <1>0
    <3>2. ASSUME NEW k \in 1 .. n
          PROVE  \/ queue'[k].block = NoBlock
                 \/ Edge' <= Pos(queue'[k].block) + Since(k)' * s
      BY <2>3, <2>6
    <3>3. ASSUME NEW k \in Nat, k = n + 1
          PROVE  Edge' <= Pos(queue'[k].block) + Since(k)' * s
      <4>1. queue'[k].block = block
        BY <2>3, <3>3
      <4> QED BY <2>4, <2>5, <3>3, <4>1
    <3> HIDE DEF n
    <3> QED BY <3>1, <3>2, <3>3
  <2>8. Len(queue') <= MaxQueue
    BY <1>0, <2>1, <2>3
  <2> QED BY <2>1, <2>3, <2>7, <2>8 DEF AheadInv, s, Pos
<1>7. CASE SubmitEmpty
  <2> DEFINE c == [data_offset |-> 0, data_size |-> 0, shared |-> TRUE,
                   block |-> NoBlock]
             n == Len(queue)
  <2>1. /\ gpc = "idle" /\ gpc' = "idle" /\ block' = block /\ n < MaxQueue
        /\ queue' = Append(queue, c)
        /\ UNCHANGED <<lap, data_alloc_offset>>
    BY <1>7 DEF SubmitEmpty, kextVars
  <2>2. Edge' = Edge
    BY <2>1 DEF Edge
  <2>3. /\ Len(queue') = n + 1 /\ queue'[n + 1].block = NoBlock
        /\ \A k \in 1 .. n : queue'[k] = queue[k]
    <3>1. c.block = NoBlock
      OBVIOUS
    <3> HIDE DEF c
    <3> QED BY <1>0, <2>1, <3>1
  <2>4. ASSUME NEW k \in 1 .. n, queue[k].block # NoBlock
        PROVE  Edge' <= Pos(queue'[k].block) + Since(k)' * s
    <3>1. Since(k) \in Nat /\ Since(k)' = Since(k) + 1
      BY <1>0, <2>1, <2>3 DEF Since
    <3>2. (Since(k) + 1) * s = Since(k) * s + s /\ Since(k) * s \in Nat
      BY <1>0, <3>1, OneMore
    <3>3. Edge <= Pos(queue[k].block) + Since(k) * s
      BY <2>4 DEF AheadInv, s
    <3>4. Pos(queue[k].block) \in Int
      BY <1>1, <1>2
    <3>5. Edge <= Pos(queue[k].block) + (Since(k) + 1) * s
      BY <1>0, <1>3, <3>2, <3>3, <3>4
    <3> QED BY <2>2, <2>3, <3>1, <3>5
  <2>5. \A k \in 1 .. n + 1 :
           \/ queue'[k].block = NoBlock
           \/ Edge' <= Pos(queue'[k].block) + Since(k)' * s
    <3>1. \A k \in 1 .. n + 1 : k \in 1 .. n \/ k = n + 1
      BY <1>0
    <3> HIDE DEF n
    <3> QED BY <2>3, <2>4, <3>1
  <2>6. Len(queue') <= MaxQueue
    BY <1>0, <2>1, <2>3
  <2> QED BY <2>1, <2>3, <2>5, <2>6 DEF AheadInv, s, Pos
<1>8. CASE SkipCopy \/ EndCopy
  <2>1. /\ queue # <<>> /\ queue' = Tail(queue)
        /\ UNCHANGED <<gpc, block, lap, data_alloc_offset>>
    BY <1>8 DEF SkipCopy, EndCopy, kextVars, IInv, DaemonInv
  <2>2. Edge' = Edge
    BY <2>1 DEF Edge
  <2>3. Len(queue') = Len(queue) - 1
    BY <1>0, <2>1
  <2>4. ASSUME NEW k \in 1 .. Len(queue'), queue'[k].block # NoBlock
        PROVE  Edge' <= Pos(queue'[k].block) + Since(k)' * s
    <3>1. queue'[k] = queue[k + 1] /\ k + 1 \in 1 .. Len(queue)
      BY <1>0, <2>1, <2>3
    <3>2. Since(k)' = Since(k + 1)
      BY <1>0, <2>1, <2>3 DEF Since
    <3>3. Edge <= Pos(queue[k + 1].block) + Since(k + 1) * s
      BY <2>4, <3>1 DEF AheadInv, s
    <3> QED BY <2>2, <3>1, <3>2, <3>3
  <2>5. Len(queue') <= MaxQueue
    BY <1>0, <2>3, RegionAssumption DEF AheadInv
  <2>6. /\ gpc' # "idle" => Edge' <= Pos(block') + s
        /\ gpc' = "copy" => block'.size <= largest
    BY <2>1, <2>2 DEF AheadInv, s
  <2> QED BY <2>4, <2>5, <2>6 DEF AheadInv, s, Pos
<1>9. CASE StartCopy \/ CopyOut \/ UNCHANGED vars
  <2>1. UNCHANGED <<gpc, block, lap, data_alloc_offset, queue>>
    BY <1>9 DEF StartCopy, CopyOut, kextVars, vars
  <2> QED BY <2>1 DEF AheadInv, Edge, Since, Pos
<1> QED BY <1>4, <1>5, <1>6, <1>7, <1>8, <1>9 DEF Next, Kext, Daemon

\* The region is large enough for an outstanding block to be recent.
LEMMA AheadIsRecent ==
    ASSUME NEW largest, Ample(largest), IInv, AheadInv(largest),
           NEW k \in 1 .. Len(queue)
    PROVE  queue[k].block.size > 0 => Recent(queue[k].block)
<1> USE RegionAssumption
<1> SUFFICES ASSUME queue[k].block.size > 0
             PROVE  Recent(queue[k].block)
  OBVIOUS
<1> DEFINE s == Stride(largest)
           b == queue[k].block
<1>1. s \in Nat /\ MaxQueue \in Nat /\ (MaxQueue + 1) * s <= RegionSize
  BY DEF Ample, Stride
<1>2. queue \in Seq(CommandType) /\ Len(queue) \in Nat /\ k \in 1 .. Len(queue)
  BY DEF IInv, TypeOK
<1>3. queue[k] \in CommandType
  BY <1>2
<1>4. b \in Blocks /\ b # NoBlock
  BY <1>3 DEF CommandType, NoBlock
<1>5. Pos(b) \in Nat
  BY <1>4, PosNat
<1>6. Since(k) \in Nat /\ Since(k) <= MaxQueue + 1
  BY <1>2 DEF Since, AheadInv
<1>7. Edge <= Pos(b) + Since(k) * s
  BY <1>4 DEF AheadInv
<1>8. Since(k) * s <= (MaxQueue + 1) * s /\ Since(k) * s \in Nat
  <2> HIDE DEF s
  <2> QED BY <1>1, <1>6, FewerBlocks, OneMore
<1>9. frontier <= Edge /\ frontier \in Nat /\ Edge \in Int
  <2>1. /\ block \in Blocks /\ gi \in 0 .. block.size /\ block.size \in Nat
        /\ lap \in Nat /\ data_alloc_offset \in Nat /\ frontier \in Nat
    BY DEF IInv, TypeOK, Blocks, Offsets
  <2>2. Pos(block) \in Nat /\ RegionSize * lap \in Nat
    BY <2>1, PosNat, SMT
  <2> QED BY <2>1, <2>2 DEF Edge, IInv, AllocInv
<1> HIDE DEF s, b
<1>10. frontier <= Pos(b) + RegionSize
  BY <1>1, <1>5, <1>7, <1>8, <1>9
<1> QED BY <1>10 DEF Recent, b

\* In a region with room for every payload the ring can hold, no block is given
\* away while its command waits, and the daemon always copies the payload of its
\* command: a size that makes the region large enough in the sense of the comment
\* at gravity_ring.h:437 (gravity_ring_data_write,
\* gravity_cmd_process_create_buffer).
THEOREM AmpleRegionIsSafe ==
    ASSUME NoOverflow, NEW largest, Ample(largest)
    PROVE  Spec => [](/\ OutstandingIntact
                      /\ dpc = "copy" => \A i \in 1 .. di : mapped[i] = cmd.block.id)
<1>1. Init => AheadInv(largest)
  BY RegionAssumption DEF Init, AheadInv
<1>2. IInv /\ AheadInv(largest) /\ [Next]_vars => AheadInv(largest)'
  BY NextInv, AheadStep
<1>3. IInv /\ AheadInv(largest)
        => /\ OutstandingIntact
           /\ dpc = "copy" => \A i \in 1 .. di : mapped[i] = cmd.block.id
  <2> SUFFICES ASSUME IInv, AheadInv(largest)
               PROVE  /\ OutstandingIntact
                      /\ dpc = "copy" => \A i \in 1 .. di : mapped[i] = cmd.block.id
    OBVIOUS
  <2>1. ASSUME NEW k \in 1 .. Len(queue), NEW i \in 0 .. queue[k].block.size - 1
        PROVE  data_region[queue[k].block.offset + i] = queue[k].block.id
    <3>1. queue[k] \in CommandType
      BY DEF IInv, TypeOK
    <3>2. queue[k].block.size \in Nat
      BY <3>1 DEF CommandType, Blocks
    <3>3. Recent(queue[k].block)
      BY <3>2, AheadIsRecent
    <3> QED BY <3>3 DEF IInv, IntactUntilWrap
  <2>2. ASSUME dpc = "copy"
        PROVE  \A i \in 1 .. di : mapped[i] = cmd.block.id
    <3>1. /\ cmd = queue[1] /\ 1 \in 1 .. Len(queue)
          /\ cmd.data_size = cmd.block.size /\ HasPayload(cmd)
      BY <2>2, CopiedCommand DEF IInv, DaemonInv
    <3>2. Recent(cmd.block)
      BY <3>1, AheadIsRecent DEF HasPayload
    <3> QED BY <2>2, <3>2 DEF IInv, PayloadCopied
  <2> QED BY <2>1, <2>2 DEF OutstandingIntact
<1> QED BY <1>1, <1>2, <1>3, InitInv, NextInv, PTL DEF Spec
=============================================================================
