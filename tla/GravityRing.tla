---------------------------- MODULE GravityRing -----------------------------
(***************************************************************************)
(* The command ring of protocol/include/gravity_ring.h, together with its  *)
(* two users: the clients of the guest kext, whose calls end in            *)
(* gravity_ring_cmd_write, and the command loop of gravityd, which peeks,  *)
(* validates, processes and consumes.                                      *)
(*                                                                         *)
(* Memory is a function from slots to words; a slot stands for one unit of *)
(* copying, so a copy loop is a step per slot and every interleaving of a  *)
(* writer's loop with the reader's loop is a behaviour.  A command is a    *)
(* sequence of words whose first word is the opcode and whose second is    *)
(* the size declared in its header; the number of words actually handed to *)
(* cmd_write is its length, and nothing in the code makes the two agree.   *)
(*                                                                         *)
(* `accepted', `starts', `written', `consumed' and `processed' are history *)
(* variables: no action reads them except to bound the model.              *)
(***************************************************************************)
EXTENDS Integers, Sequences, FiniteSets

CONSTANTS
    Clients,       \* callers of submitCommand: kext code and user clients
    Commands,      \* the commands they may submit
    RingSize,      \* cmd_ring_size
    HdrSize,       \* sizeof(gravity_cmd_header_t)
    BufSize,       \* sizeof(cmd_buf) in command_loop
    OpcodeMax,     \* GRAVITY_CMD_MAX
    MaxAccepted    \* bound of the model on the number of submissions

\* The header (opcode and size at least) fits the daemon's buffer, and the
\* ring is not empty.
ASSUME RingAssumption ==
    /\ RingSize \in Nat \ {0}
    /\ HdrSize \in Nat /\ HdrSize >= 2
    /\ BufSize \in Nat /\ BufSize >= HdrSize
    /\ OpcodeMax \in Nat
    /\ MaxAccepted \in Nat

\* submitCommand takes any buffer; the user client refuses only the empty one.
ASSUME CommandsAssumption ==
    \A c \in Commands : c \in Seq(Nat) /\ Len(c) >= 1

VARIABLES
    cmd_ring,      \* shared: the slots of the ring
    cmd_head,      \* shared: read position, stored by the daemon only
    cmd_tail,      \* shared: write position, stored by clients only
    wpc,           \* per client: the step of cmd_write it is about to take
    src,           \* per client: the command it is writing
    tail,          \* per client: its copy of cmd_tail
    wi,            \* per client: words copied so far
    dpc,           \* the daemon's next step
    avail,         \* the daemon's result of cmd_available
    ri,            \* words the daemon copied so far
    cmd_buf,       \* the daemon's command buffer
    accepted,      \* history: commands for which cmd_write returned 0
    starts,        \* history: stream position at which each of them starts
    written,       \* history: words published by moving cmd_tail
    consumed,      \* history: words released by moving cmd_head
    processed      \* history: what process_command was given

clientVars == <<cmd_tail, wpc, src, tail, wi, accepted, starts, written>>
daemonVars == <<cmd_head, dpc, avail, ri, cmd_buf, consumed, processed>>
vars == <<cmd_ring, clientVars, daemonVars>>

Slot == 0 .. RingSize - 1

\* x & cmd_ring_mask: the ring size is a power of two, and a difference that
\* wrapped modulo 2^32 has the same low bits.
Mask(x) == x % RingSize

-----------------------------------------------------------------------------
(* Initial state: gravity_ring_init_host cleared the region. *)

Init ==
    /\ cmd_ring = [s \in Slot |-> 0]
    /\ cmd_head = 0
    /\ cmd_tail = 0
    /\ wpc = [cl \in Clients |-> "idle"]
    /\ src \in [Clients -> {<<>>}]
    /\ tail = [cl \in Clients |-> 0]
    /\ wi = [cl \in Clients |-> 0]
    /\ dpc = "poll"
    /\ avail = 0
    /\ ri = 0
    /\ cmd_buf = [i \in 0 .. BufSize - 1 |-> 0]
    /\ accepted = <<>>
    /\ starts = <<>>
    /\ written = 0
    /\ consumed = 0
    /\ processed = <<>>

-----------------------------------------------------------------------------
(* The producer: gravity_ring_cmd_write. *)

\* Mutant of CmdSpace: no slot is wasted.
CmdSpace_NoGap == RingSize - Mask(cmd_tail - cmd_head)

\* gravity_ring_cmd_space: one slot is wasted to tell full from empty.
CmdSpace == (RingSize - 1) - Mask(cmd_tail - cmd_head)

\* The sanity check of cmd_write: neither empty nor above half the ring.
SaneSize(n) == n # 0 /\ n <= RingSize \div 2

\* Mutant of HasSpace: the space check is missing.
HasSpace_Always(c) == TRUE

HasSpace(c) == CmdSpace >= Len(c)

\* A submission that passes both early returns.  One that does not returns -1
\* and changes nothing.
BeginWrite(cl, c) ==
    /\ wpc[cl] = "idle"
    /\ Len(accepted) < MaxAccepted
    /\ SaneSize(Len(c))
    /\ HasSpace(c)
    /\ src' = [src EXCEPT ![cl] = c]
    /\ wpc' = [wpc EXCEPT ![cl] = "load"]
    /\ UNCHANGED <<cmd_ring, cmd_tail, tail, wi, accepted, starts, written,
                   daemonVars>>

\* The tail is read a second time, after the space check.
LoadTail(cl) ==
    /\ wpc[cl] = "load"
    /\ tail' = [tail EXCEPT ![cl] = cmd_tail]
    /\ wi' = [wi EXCEPT ![cl] = 0]
    /\ wpc' = [wpc EXCEPT ![cl] = "copy"]
    /\ UNCHANGED <<cmd_ring, cmd_tail, src, accepted, starts, written,
                   daemonVars>>

\* One round of the copy loop.
WriteWord(cl) ==
    /\ wpc[cl] = "copy"
    /\ wi[cl] < Len(src[cl])
    /\ cmd_ring' = [cmd_ring EXCEPT ![Mask(tail[cl] + wi[cl])]
                                        = src[cl][wi[cl] + 1]]
    /\ wi' = [wi EXCEPT ![cl] = wi[cl] + 1]
    /\ UNCHANGED <<cmd_tail, wpc, src, tail, accepted, starts, written,
                   daemonVars>>

\* Mutant of Copied: the store of the tail overtakes the last round of the
\* loop, as without the write barrier.
Copied_Early(cl) == wi[cl] >= Len(src[cl]) - 1

Copied(cl) == wi[cl] = Len(src[cl])

\* Mutant of NewTail: the mask is missing.
NewTail_NoMask(cl) == tail[cl] + Len(src[cl])

NewTail(cl) == Mask(tail[cl] + Len(src[cl]))

\* The store-release of cmd_tail makes the command visible; cmd_write
\* returns 0.
PublishTail(cl) ==
    /\ wpc[cl] = "copy"
    /\ Copied(cl)
    /\ cmd_tail' = NewTail(cl)
    /\ wpc' = [wpc EXCEPT ![cl] = "idle"]
    /\ accepted' = Append(accepted, src[cl])
    /\ starts' = Append(starts, written)
    /\ written' = written + Len(src[cl])
    /\ UNCHANGED <<cmd_ring, src, tail, wi, daemonVars>>

-----------------------------------------------------------------------------
(* The consumer: command_loop with gravity_ring_cmd_peek and _consume. *)

\* The header of the command in cmd_buf.
HdrOpcode == cmd_buf[0]
HdrDeclared == cmd_buf[1]

\* gravity_ring_cmd_available, a load-acquire of cmd_tail.
CmdAvailable == Mask(cmd_tail - cmd_head)

\* Mutant of HeaderAvailable: more than a header is asked for.
HeaderAvailable_Strict == CmdAvailable > HdrSize

HeaderAvailable == CmdAvailable >= HdrSize

\* Less than a header is available: peek returns NULL, the loop sleeps and
\* tries again, which changes nothing.
PeekAvailable ==
    /\ dpc = "poll"
    /\ HeaderAvailable
    /\ avail' = CmdAvailable
    /\ ri' = 0
    /\ dpc' = "header"
    /\ UNCHANGED <<cmd_ring, cmd_head, cmd_buf, consumed, processed,
                   clientVars>>

\* One round of a copy loop of peek.
ReadWord ==
    /\ cmd_buf' = [cmd_buf EXCEPT ![ri] = cmd_ring[Mask(cmd_head + ri)]]
    /\ ri' = ri + 1
    /\ UNCHANGED <<cmd_ring, cmd_head, dpc, avail, consumed, processed,
                   clientVars>>

PeekHeader == dpc = "header" /\ ri < HdrSize /\ ReadWord

\* Mutant of SizeFits: the buffer's size is not looked at.
SizeFits_NoBuf == HdrDeclared <= avail

\* A declared size above what is available, or above the buffer, makes peek
\* return NULL.
SizeFits == HdrDeclared <= avail /\ HdrDeclared <= BufSize

PeekAccept ==
    /\ dpc = "header"
    /\ ri = HdrSize
    /\ SizeFits
    /\ dpc' = "body"
    /\ UNCHANGED <<cmd_ring, cmd_head, avail, ri, cmd_buf, consumed,
                   processed, clientVars>>

PeekGiveUp ==
    /\ dpc = "header"
    /\ ri = HdrSize
    /\ ~ SizeFits
    /\ dpc' = "poll"
    /\ UNCHANGED <<cmd_ring, cmd_head, avail, ri, cmd_buf, consumed,
                   processed, clientVars>>

PeekBody == dpc = "body" /\ ri < HdrDeclared /\ ReadWord

\* Mutant of BodyCopied: the body loop stops a word early.
BodyCopied_Short == ri + 1 >= HdrDeclared

BodyCopied == ri >= HdrDeclared

\* gravity_cmd_validate(hdr, sizeof(cmd_buf)) = 0.
ValidHeader ==
    /\ HdrDeclared >= HdrSize
    /\ HdrDeclared <= BufSize
    /\ HdrOpcode < OpcodeMax

\* What process_command is given.
PeekedCommand == [i \in 1 .. HdrDeclared |-> cmd_buf[i - 1]]

ProcessCommand ==
    /\ dpc = "body"
    /\ BodyCopied
    /\ ValidHeader
    /\ processed' = Append(processed, PeekedCommand)
    /\ dpc' = "consume"
    /\ UNCHANGED <<cmd_ring, cmd_head, avail, ri, cmd_buf, consumed,
                   clientVars>>

\* gravity_ring_cmd_consume: the store-release of cmd_head frees the slots.
Consume(n) ==
    /\ cmd_head' = Mask(cmd_head + n)
    /\ consumed' = consumed + n
    /\ dpc' = "poll"
    /\ UNCHANGED <<cmd_ring, avail, ri, cmd_buf, processed, clientVars>>

SkipSize == HdrSize

\* An invalid command is reported and a header's worth of it is consumed.
SkipInvalid ==
    /\ dpc = "body"
    /\ BodyCopied
    /\ ~ ValidHeader
    /\ Consume(SkipSize)

\* Mutant of CommandSize: only the header is consumed.
CommandSize_Header == HdrSize

CommandSize == HdrDeclared

ConsumeCommand == dpc = "consume" /\ Consume(CommandSize)

-----------------------------------------------------------------------------
Client(cl) ==
    \/ \E c \in Commands : BeginWrite(cl, c)
    \/ LoadTail(cl)
    \/ WriteWord(cl)
    \/ PublishTail(cl)

Daemon ==
    \/ PeekAvailable
    \/ PeekHeader
    \/ PeekAccept
    \/ PeekGiveUp
    \/ PeekBody
    \/ ProcessCommand
    \/ SkipInvalid
    \/ ConsumeCommand

Next == (\E cl \in Clients : Client(cl)) \/ Daemon

Spec == Init /\ [][Next]_vars

\* The command loop runs as long as the daemon does, and a client that is
\* inside cmd_write never blocks: it holds no lock and its loop is bounded.
\* Nothing obliges a client to submit.
Fairness ==
    /\ WF_vars(Daemon)
    /\ \A cl \in Clients :
           WF_vars(LoadTail(cl) \/ WriteWord(cl) \/ PublishTail(cl))

FairSpec == Spec /\ Fairness
-----------------------------------------------------------------------------
(* Properties. *)

TypeOK ==
    /\ cmd_ring \in [Slot -> Nat]
    /\ cmd_head \in Slot
    /\ cmd_tail \in Slot
    /\ wpc \in [Clients -> {"idle", "load", "copy"}]
    /\ src \in [Clients -> Commands \cup {<<>>}]
    /\ tail \in [Clients -> Slot]
    /\ wi \in [Clients -> Nat]
    /\ dpc \in {"poll", "header", "body", "consume"}
    /\ avail \in Slot
    /\ ri \in Nat
    /\ cmd_buf \in [0 .. BufSize - 1 -> Nat]
    /\ accepted \in Seq(Commands)
    /\ starts \in Seq(Nat)
    /\ Len(starts) = Len(accepted)
    /\ written \in Nat
    /\ consumed \in Nat
    /\ processed \in Seq(Seq(Nat))

\* A command whose header tells the truth and that the daemon can take.
WellFormed(c) ==
    /\ Len(c) >= HdrSize
    /\ Len(c) <= BufSize
    /\ c[2] = Len(c)
    /\ c[1] < OpcodeMax

\* The words the daemon finds available are those published and not yet
\* consumed: a full ring is never taken for an empty one, nor the reverse,
\* whatever wrapped around (cmd_space, cmd_available).
AvailabilityExact == CmdAvailable = written - consumed

\* Every accepted command that is not consumed is still in the ring, word for
\* word: no writer ever overruns the reader (cmd_write).
UnreadIntact ==
    \A k \in 1 .. Len(accepted) :
        starts[k] >= consumed =>
            \A i \in 0 .. Len(accepted[k]) - 1 :
                cmd_ring[Mask(starts[k] + i)] = accepted[k][i + 1]

\* When the daemon polls, its position is the start of a command or the end of
\* the stream: it never takes the middle of a command for a header
\* (command_loop, cmd_consume).
Framed ==
    dpc = "poll" =>
        \/ consumed = written
        \/ \E k \in 1 .. Len(accepted) : consumed = starts[k]

\* process_command is given the accepted commands, whole, in order and
\* without a gap (cmd_write, cmd_peek, command_loop).
InOrderDelivery ==
    /\ Len(processed) <= Len(accepted)
    /\ \A k \in 1 .. Len(processed) : processed[k] = accepted[k]

\* While the daemon copies, what it has been told is available does not change
\* under it: peek needs no second look at the tail (cmd_peek).
StableWhilePeeked ==
    [][dpc # "poll" =>
         \A i \in 0 .. avail - 1 :
             cmd_ring'[Mask(cmd_head + i)] = cmd_ring[Mask(cmd_head + i)]]_vars

\* Every accepted command is processed in the end, however the poll loop and
\* the writers interleave (command_loop).
AllProcessed ==
    \A n \in 1 .. MaxAccepted :
        Len(accepted) >= n ~> Len(processed) >= n

\* peek stays inside its buffer and inside what is available, whatever words
\* the clients put into the ring (cmd_peek).
PeekInBounds ==
    /\ dpc # "poll" => avail <= written - consumed
    /\ dpc \in {"header", "body"} => ri <= avail /\ ri <= BufSize

\* The ring implements the queue its users rely on.
Queue == INSTANCE CommandQueue WITH Commands <- Commands,
                                   accepted <- accepted,
                                   processed <- processed
ImplementsQueue == Queue!Spec
=============================================================================
