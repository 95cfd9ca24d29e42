------------------------------ MODULE Session -------------------------------
(***************************************************************************)
(* The life of the shared region: who creates it, who initialises it, who  *)
(* attaches when, and what becomes of messages when one of the three       *)
(* parties starts, restarts or stops.                                      *)
(*                                                                         *)
(*   QEMU    realizes the device, initialises the region again at every    *)
(*           reset of the guest, and may save the VM and restore it        *)
(*           (gravity-gpu.c);                                              *)
(*   daemon  opens the region, initialises it too, attaches, sets Vulkan   *)
(*           up and enters its command loop (main.c);                      *)
(*   kext    attaches, sends HELLO, polls for the answer a bounded number  *)
(*           of times and serves its user clients (GravityGPUAccelerator). *)
(*                                                                         *)
(* Messages are whole: a message takes one slot of a ring, and sizes are   *)
(* counted in slots.  Module GravityRing has the copying word by word.  A  *)
(* message carries a serial number of the model, by which the properties   *)
(* tell messages apart and which no action reads.                          *)
(***************************************************************************)
EXTENDS Integers, Sequences, FiniteSets

CONSTANTS
    RingSlots,     \* GRAVITY_DEFAULT_CMD_RING_SIZE, also hard-wired in main
    CompSlots,     \* GRAVITY_DEFAULT_COMP_RING_SIZE, likewise
    QemuMem,       \* hostmem: the size QEMU gives the region
    DaemonMem,     \* --memsize: the size the daemon gives it
    MaxPolls,      \* max_polls of negotiateFeatures
    MaxSent,       \* bound of the model: messages of the guest
    MaxBoots,      \* bound of the model: launches and resets of the VM
    MaxStarts      \* bound of the model: starts of the daemon

\* x rounded up to a power of two, as init_host rounds both ring sizes.
RoundUp(x) ==
    LET Powers == {2 ^ i : i \in 0 .. x}
    IN  CHOOSE p \in Powers : p >= x /\ \A q \in Powers : q >= x => p <= q

\* The header takes a slot, the rings follow, the rest is the data region.
DataOffset(cmd, comp) == 1 + cmd + comp

\* init_host succeeds for both, or nothing ever starts.
ASSUME SessionAssumption ==
    /\ RingSlots \in Nat /\ RingSlots >= 2
    /\ CompSlots \in Nat /\ CompSlots >= 2
    /\ \A mem \in {QemuMem, DaemonMem} :
           /\ mem \in Nat
           /\ mem > DataOffset(RoundUp(RingSlots), RoundUp(CompSlots))
    /\ {MaxPolls, MaxSent, MaxBoots, MaxStarts} \subseteq Nat

\* What rounding up does to the two sizes; TLC evaluates it, the provers know
\* no powers.
ASSUME RoundUpAssumption ==
    \A x \in {RingSlots, CompSlots} : RoundUp(x) \in Nat /\ RoundUp(x) >= x

VARIABLES
    shm_size,      \* size of the POSIX shared memory object
    hdr,           \* shared: magic and READY, and the sizes of the header
    cmd_ring, cmd_head, cmd_tail,       \* shared: the command ring
    comp_ring, comp_head, comp_tail,    \* shared: the completion ring
    qstate,        \* QEMU: where it is in realize or reset
    guest_status,  \* QEMU: GRAVITY_REG_GUEST_STATUS
    saved,         \* QEMU: the state of a VM saved and not yet restored
    boots,         \* QEMU: launches and resets so far
    dstate,        \* daemon: its next step
    dring,         \* daemon: the sizes it has cached
    held,          \* daemon: the message in cmd_buf
    starts,        \* starts of the daemon so far
    kstate,        \* kext: its next step
    kring,         \* kext: the sizes it has cached
    polls,         \* kext: polls for the HELLO response so far
    hello,         \* history: serial of the kext's HELLO
    answer,        \* history: the message whose reply the kext took for the
                   \* answer to its HELLO, 0 if none
    sent,          \* history: serials given out
    submitted,     \* history: messages for which submitCommand returned 0
    handled,       \* history: messages consumed by the daemon
    replied,       \* history: messages for which comp_write returned 0
    received,      \* history: messages whose reply the guest has read
    disturbed      \* history: what has struck since QEMU last initialised
                   \* the region, or strikes while it does

region == <<shm_size, hdr>>
cmdVars == <<cmd_ring, cmd_head, cmd_tail>>
compVars == <<comp_ring, comp_head, comp_tail>>
qemuVars == <<qstate, guest_status, boots, saved>>
daemonVars == <<dstate, dring, held, starts>>
kextVars == <<kstate, kring, polls, hello, answer>>
history == <<sent, submitted, handled, replied, received, disturbed>>
vars == <<region, cmdVars, compVars, qemuVars, daemonVars, kextVars, history>>

Ops == {"HELLO", "PING", "GOODBYE"}
Zero == [op |-> "zero", n |-> 0]
Message == [op : Ops, n : 1 .. MaxSent] \cup {Zero}

NoSizes == [cmd |-> 0, comp |-> 0, data |-> 0]

NotSaved == [kstate |-> "none"]

Init ==
    /\ shm_size = 0
    /\ hdr = [ready |-> FALSE, sizes |-> NoSizes]
    /\ cmd_ring = [i \in {} |-> Zero] /\ cmd_head = 0 /\ cmd_tail = 0
    /\ comp_ring = [i \in {} |-> 0] /\ comp_head = 0 /\ comp_tail = 0
    /\ qstate = "off" /\ guest_status = "none" /\ boots = 0
    /\ saved = NotSaved
    /\ dstate = "off" /\ dring = NoSizes /\ held = Zero /\ starts = 0
    /\ kstate = "off" /\ kring = NoSizes /\ polls = 0
    /\ hello = 0 /\ answer = 0
    /\ sent = 0
    /\ submitted = <<>> /\ handled = <<>> /\ replied = <<>> /\ received = <<>>
    /\ disturbed = {}

-----------------------------------------------------------------------------
(* gravity_ring_init_host: a memset of the whole region, then the header,  *)
(* whose status is stored last.                                            *)

\* Mutant of Wiped: the positions are reset, the messages stay.
Wiped_Stay ==
    IF cmd_ring = <<>> THEN [i \in 0 .. RoundUp(RingSlots) - 1 |-> Zero]
                       ELSE cmd_ring

\* The command ring after the memset.
Wiped == [i \in 0 .. RoundUp(RingSlots) - 1 |-> Zero]

Clear ==
    /\ hdr' = [ready |-> FALSE, sizes |-> NoSizes]
    /\ cmd_ring' = Wiped
    /\ comp_ring' = [i \in 0 .. RoundUp(CompSlots) - 1 |-> 0]
    /\ cmd_head' = 0 /\ cmd_tail' = 0
    /\ comp_head' = 0 /\ comp_tail' = 0
    /\ UNCHANGED shm_size

Sizes(slots, mem) ==
    LET cmd == RoundUp(slots)
        comp == RoundUp(CompSlots)
    IN  [cmd |-> cmd, comp |-> comp, data |-> mem - DataOffset(cmd, comp)]

Fill(slots, mem) ==
    /\ hdr' = [ready |-> TRUE, sizes |-> Sizes(slots, mem)]
    /\ cmd_head' = 0 /\ cmd_tail' = 0
    /\ comp_head' = 0 /\ comp_tail' = 0
    /\ UNCHANGED <<shm_size, cmd_ring, comp_ring>>

\* No guest is left that could miss a message.
Forget ==
    /\ submitted' = <<>> /\ handled' = <<>>
    /\ replied' = <<>> /\ received' = <<>>
    /\ UNCHANGED sent

-----------------------------------------------------------------------------
(* QEMU: gravity_gpu_realize, _reset and _exit.                            *)

\* scripts/launch-vm.sh starts the daemon and gives it a second for its
\* initialisation of the region; a user may also start QEMU alone.  A VM that
\* was saved is restored, or its saved state is given up.
QemuLaunch ==
    /\ qstate = "off"
    /\ boots < MaxBoots
    /\ dstate \notin {"mapped", "cleared", "attach", "sizes"}
    /\ shm_size' = QemuMem
    /\ qstate' = "mapped"
    /\ boots' = boots + 1
    /\ guest_status' = "none"
    /\ saved' \in {saved, NotSaved}
    /\ UNCHANGED <<hdr, cmdVars, compVars, daemonVars, kextVars, history>>

KextGone ==
    /\ kstate' = "off" /\ kring' = NoSizes /\ polls' = 0
    /\ hello' = 0 /\ answer' = 0

\* Mutant of ResetPhase: the reset leaves the region alone.
ResetPhase_On == "on"

ResetPhase == "mapped"

\* The guest reboots: its kext is gone.
Reset ==
    /\ qstate = "on"
    /\ boots < MaxBoots
    /\ qstate' = ResetPhase
    /\ boots' = boots + 1
    /\ guest_status' = "none"
    /\ KextGone
    /\ UNCHANGED <<region, cmdVars, compVars, saved, daemonVars, history>>

\* The VM is saved and QEMU ends: the memory of the guest and the registers
\* are kept, but not the shared region, which is neither RAM nor in the
\* device's vmstate.
SaveVM ==
    /\ qstate = "on"
    /\ boots < MaxBoots
    /\ sent < MaxSent
    /\ saved' = [kstate |-> kstate, kring |-> kring, polls |-> polls,
                 hello |-> hello, answer |-> answer,
                 guest_status |-> guest_status]
    /\ qstate' = "off"
    /\ KextGone
    /\ UNCHANGED <<region, cmdVars, compVars, guest_status, boots, daemonVars,
                   history>>

\* The daemon has attached while the sizes of the header were zero.
Blind == dstate \in {"vulkan", "poll"} /\ dring = NoSizes

\* A reset that finds the daemon between two commands starts the session
\* afresh; one that finds it inside a command, or blind, is on record.
QemuClear ==
    /\ qstate = "mapped"
    /\ Clear
    /\ qstate' = "cleared"
    /\ disturbed' = {x \in {"busy", "blind"} :
          IF x = "busy" THEN dstate \in {"process", "consume"} ELSE Blind}
    /\ Forget
    /\ UNCHANGED <<guest_status, boots, saved, daemonVars, kextVars>>

\* Mutant of QemuSlots: QEMU and the daemon disagree on the ring's size.
QemuSlots_Double == 2 * RingSlots

QemuSlots == RingSlots

QemuFill ==
    /\ qstate = "cleared"
    /\ Fill(QemuSlots, QemuMem)
    /\ qstate' = IF saved = NotSaved THEN "on" ELSE "load"
    /\ UNCHANGED <<guest_status, boots, saved, daemonVars, kextVars, history>>

\* A saved VM is loaded once the device is reset: the kext goes on where it
\* was with a region that has forgotten its messages.
LoadState ==
    /\ qstate = "load"
    /\ qstate' = "on"
    /\ saved' = NotSaved
    /\ guest_status' = saved.guest_status
    /\ kstate' = saved.kstate /\ kring' = saved.kring /\ polls' = saved.polls
    /\ hello' = saved.hello /\ answer' = saved.answer
    /\ UNCHANGED <<region, cmdVars, compVars, boots, daemonVars, history>>

\* The object is not unlinked: the daemon goes on with what is in the ring.
QemuExit ==
    /\ qstate = "on"
    /\ qstate' = "off"
    /\ KextGone
    /\ UNCHANGED <<region, cmdVars, compVars, guest_status, boots, saved,
                   daemonVars, history>>

Qemu ==
    \/ QemuLaunch \/ Reset \/ QemuClear \/ QemuFill \/ QemuExit
    \/ SaveVM \/ LoadState

-----------------------------------------------------------------------------
(* The daemon: main and command_loop.                                      *)

\* open_shared_memory: the object takes the daemon's size.  An object that
\* shrinks under QEMU's mapping kills QEMU, which is left out.
DaemonStart ==
    /\ dstate = "off"
    /\ starts < MaxStarts
    /\ qstate = "off" \/ DaemonMem >= QemuMem
    /\ shm_size' = DaemonMem
    /\ dstate' = "mapped"
    /\ starts' = starts + 1
    /\ UNCHANGED <<hdr, cmdVars, compVars, qemuVars, dring, held, kextVars,
                   history>>

\* Under a running guest the daemon wipes the rings: that is on record.
Late ==
    IF qstate = "off"
    THEN Forget /\ UNCHANGED disturbed
    ELSE /\ disturbed' = disturbed \cup {"late"}
         /\ UNCHANGED <<sent, submitted, handled, replied, received>>

DaemonClear ==
    /\ dstate = "mapped"
    /\ Clear
    /\ Late
    /\ dstate' = "cleared"
    /\ UNCHANGED <<qemuVars, dring, held, starts, kextVars>>

DaemonFill ==
    /\ dstate = "cleared"
    /\ Fill(RingSlots, DaemonMem)
    /\ Late
    /\ dstate' = "attach"
    /\ UNCHANGED <<qemuVars, dring, held, starts, kextVars>>

\* gravity_ring_attach refuses a header that QEMU is just writing, and the
\* daemon ends ...
DaemonAttach ==
    /\ dstate = "attach"
    /\ dstate' = IF hdr.ready THEN "sizes" ELSE "off"
    /\ UNCHANGED <<region, cmdVars, compVars, qemuVars, dring, held, starts,
                   kextVars, history>>

\* ... but takes the sizes as it finds them: a power of two, or zero when a
\* reset has come in between, which the test of the code lets pass.  (All are
\* taken in one step here; the code loads them one after the other.)
DaemonSizes ==
    /\ dstate = "sizes"
    /\ dring' = hdr.sizes
    /\ disturbed' = IF dring' = NoSizes THEN disturbed \cup {"blind"}
                                       ELSE disturbed
    /\ dstate' = "vulkan"
    /\ UNCHANGED <<region, cmdVars, compVars, qemuVars, held, starts, kextVars,
                   sent, submitted, handled, replied, received>>

DaemonVulkan ==
    /\ dstate = "vulkan"
    /\ dstate' \in {"poll", "off"}
    /\ UNCHANGED <<region, cmdVars, compVars, qemuVars, dring, held, starts,
                   kextVars, history>>

\* Mutant of Mask: a position is not masked.
Mask_None(x, s) == x

\* x & ring_mask for a ring of size s.
Mask(x, s) == x % s

Avail(head, tail, s) == Mask(tail - head, s)

\* Mutant of HasRoom: no slot is wasted.
HasRoom_NoGap(head, tail, s) == s - Avail(head, tail, s) >= 1

\* One slot is wasted to tell full from empty; a message takes one.
HasRoom(head, tail, s) == (s - 1) - Avail(head, tail, s) >= 1

HeadMessage == cmd_ring[cmd_head]

\* gravity_ring_cmd_peek returns a message.
Peek ==
    /\ dstate = "poll" /\ ~ Blind
    /\ Avail(cmd_head, cmd_tail, dring.cmd) >= 1
    /\ HeadMessage # Zero
    /\ held' = HeadMessage
    /\ dstate' = "process"
    /\ UNCHANGED <<region, cmdVars, compVars, qemuVars, dring, starts,
                   kextVars, history>>

\* Zeros are no valid header: a header's worth is skipped.
Skip ==
    /\ dstate = "poll" /\ ~ Blind
    /\ Avail(cmd_head, cmd_tail, dring.cmd) >= 1
    /\ HeadMessage = Zero
    /\ cmd_head' = Mask(cmd_head + 1, dring.cmd)
    /\ UNCHANGED <<region, cmd_ring, cmd_tail, compVars, qemuVars, daemonVars,
                   kextVars, history>>

\* A size of zero makes a mask of ones and puts the ring where the header of
\* the region is.  The first words of that header are an invalid command and
\* are skipped; the next ones are a command longer than cmd_buf, where the
\* daemon stops for good.
BlindSkip ==
    /\ dstate = "poll" /\ Blind
    /\ cmd_head = 0 /\ cmd_tail # 0
    /\ cmd_head' = 1
    /\ UNCHANGED <<region, cmd_ring, cmd_tail, compVars, qemuVars, daemonVars,
                   kextVars, history>>

\* HELLO and PING are answered.
Answered == held.op \in {"HELLO", "PING"}

\* Mutant of CompRoom: comp_write does not look at the space.
CompRoom_Always == TRUE

CompRoom == HasRoom(comp_head, comp_tail, dring.comp)

\* Mutant of GoesOn: the daemon waits for room in the completion ring.
GoesOn_Room == Answered => CompRoom

\* process_command ignores the result of comp_write.
GoesOn == TRUE

\* process_command, with gravity_ring_comp_write.
Process ==
    /\ dstate = "process"
    /\ GoesOn
    /\ dstate' = "consume"
    /\ IF Answered /\ CompRoom
       THEN /\ comp_ring' = [comp_ring EXCEPT ![comp_tail] = held.n]
            /\ comp_tail' = Mask(comp_tail + 1, dring.comp)
            /\ replied' = Append(replied, held.n)
       ELSE UNCHANGED <<comp_ring, comp_tail, replied>>
    /\ UNCHANGED <<region, cmdVars, comp_head, qemuVars, dring, held, starts,
                   kextVars, sent, submitted, handled, received, disturbed>>

\* gravity_ring_cmd_consume reads the head afresh.
Consume ==
    /\ dstate = "consume"
    /\ cmd_head' = Mask(cmd_head + 1, dring.cmd)
    /\ handled' = Append(handled, held.n)
    /\ dstate' = "poll"
    /\ UNCHANGED <<region, cmd_ring, cmd_tail, compVars, qemuVars, dring,
                   held, starts, kextVars, sent, submitted, replied,
                   received, disturbed>>

\* SIGINT or SIGTERM: the loop ends between two commands.
DaemonExit ==
    /\ dstate = "poll"
    /\ dstate' = "off"
    /\ UNCHANGED <<region, cmdVars, compVars, qemuVars, dring, held, starts,
                   kextVars, history>>

DaemonLoop == Peek \/ Skip \/ BlindSkip \/ Process \/ Consume

Daemon ==
    \/ DaemonStart \/ DaemonClear \/ DaemonFill
    \/ DaemonAttach \/ DaemonSizes \/ DaemonVulkan
    \/ DaemonLoop
    \/ DaemonExit

-----------------------------------------------------------------------------
(* The kext: start, user clients, stop.  Its processors run while QEMU is  *)
(* on.                                                                     *)

\* start up to initializeDevice; the device's magic and status never refuse.
\* A kext that starts again in the same boot is on record.
KextStart ==
    /\ qstate = "on"
    /\ kstate \in {"off", "stopped"}
    /\ sent < MaxSent
    /\ disturbed' = IF kstate = "stopped" THEN disturbed \cup {"reload"}
                                          ELSE disturbed
    /\ kstate' = "attach"
    /\ polls' = 0 /\ hello' = 0 /\ answer' = 0
    /\ UNCHANGED <<region, cmdVars, compVars, qemuVars, daemonVars, kring,
                   sent, submitted, handled, replied, received>>

\* gravity_ring_attach looks at magic and status ...
AttachCheck ==
    /\ qstate = "on"
    /\ kstate = "attach"
    /\ kstate' = IF hdr.ready THEN "sizes" ELSE "stopped"
    /\ UNCHANGED <<region, cmdVars, compVars, qemuVars, daemonVars, kring,
                   polls, hello, answer, history>>

\* ... and then at the sizes; that of the command ring is a power of two, or
\* zero, which the test of the code lets pass.
AttachSizes ==
    /\ qstate = "on"
    /\ kstate = "sizes"
    /\ kring' = hdr.sizes
    /\ guest_status' = "INIT"
    /\ kstate' = "hello"
    /\ UNCHANGED <<region, cmdVars, compVars, qstate, boots, saved,
                   daemonVars, polls, hello, answer, history>>

\* The two refusals of gravity_ring_cmd_write.
Accepts ==
    /\ kring.cmd \div 2 >= 1
    /\ HasRoom(cmd_head, cmd_tail, kring.cmd)

\* submitCommand; the doorbell it rings wakes nobody.
Submit(op) ==
    /\ cmd_ring' = [cmd_ring EXCEPT ![cmd_tail] = [op |-> op, n |-> sent + 1]]
    /\ cmd_tail' = Mask(cmd_tail + 1, kring.cmd)
    /\ sent' = sent + 1
    /\ submitted' = Append(submitted, sent + 1)
    /\ UNCHANGED <<region, cmd_head, compVars, daemonVars, handled, replied,
                   received, disturbed>>

SendHello ==
    /\ qstate = "on"
    /\ kstate = "hello"
    /\ Accepts
    /\ sent < MaxSent
    /\ Submit("HELLO")
    /\ hello' = sent + 1
    /\ kstate' = "poll"
    /\ UNCHANGED <<qemuVars, kring, polls, answer>>

HelloFails ==
    /\ qstate = "on"
    /\ kstate = "hello"
    /\ ~ Accepts
    /\ kstate' = "stopped"
    /\ UNCHANGED <<region, cmdVars, compVars, qemuVars, daemonVars, kring,
                   polls, hello, answer, history>>

CompAvail == Avail(comp_head, comp_tail, kring.comp)

\* readCompletion returns a completion: any completion ends the wait.
PollAnswer ==
    /\ qstate = "on"
    /\ kstate = "poll"
    /\ polls < MaxPolls
    /\ CompAvail >= 1
    /\ answer' = comp_ring[comp_head]
    /\ comp_head' = Mask(comp_head + 1, kring.comp)
    /\ received' = Append(received, comp_ring[comp_head])
    /\ kstate' = "ready"
    /\ guest_status' = "READY"
    /\ UNCHANGED <<region, cmdVars, comp_ring, comp_tail, qstate, boots,
                   saved, daemonVars, kring, polls, hello, sent, submitted,
                   handled, replied, disturbed>>

\* Mutant of PollsAfter: a poll is not counted.
PollsAfter_Same == polls

PollsAfter == polls + 1

PollEmpty ==
    /\ qstate = "on"
    /\ kstate = "poll"
    /\ polls < MaxPolls
    /\ CompAvail < 1
    /\ polls' = PollsAfter
    /\ UNCHANGED <<region, cmdVars, compVars, qemuVars, daemonVars, kstate,
                   kring, hello, answer, history>>

\* "This is OK": without an answer the kext becomes ready all the same.
GiveUp ==
    /\ qstate = "on"
    /\ kstate = "poll"
    /\ polls >= MaxPolls
    /\ kstate' = "ready"
    /\ guest_status' = "READY"
    /\ UNCHANGED <<region, cmdVars, compVars, qstate, boots, saved,
                   daemonVars, kring, polls, hello, answer, history>>

\* A command of a user client; nobody reads its completion.
SendPing ==
    /\ qstate = "on"
    /\ kstate = "ready"
    /\ sent < MaxSent
    /\ Accepts
    /\ Submit("PING")
    /\ UNCHANGED <<qemuVars, kextVars>>

\* stop: GOODBYE is sent if there is room.
KextStop ==
    /\ qstate = "on"
    /\ kstate = "ready"
    /\ sent < MaxSent
    /\ IF Accepts
       THEN Submit("GOODBYE")
       ELSE UNCHANGED <<region, cmdVars, compVars, daemonVars, history>>
    /\ kstate' = "stopped"
    /\ guest_status' = "ERROR"
    /\ UNCHANGED <<qstate, boots, saved, kring, polls, hello, answer>>

KextStarting ==
    \/ AttachCheck \/ AttachSizes
    \/ SendHello \/ HelloFails
    \/ PollAnswer \/ PollEmpty \/ GiveUp

Kext == KextStart \/ KextStarting \/ SendPing \/ KextStop

-----------------------------------------------------------------------------
Next == Qemu \/ Daemon \/ Kext

Spec == Init /\ [][Next]_vars

\* start() runs on a thread of the guest and its loops are bounded; the
\* command loop runs as long as the daemon does; a reset or restore that has
\* begun is carried through.  Nothing obliges anyone to start, stop or send.
Fairness ==
    /\ WF_vars(KextStarting)
    /\ WF_vars(DaemonLoop)
    /\ WF_vars(QemuClear \/ QemuFill \/ LoadState)

FairSpec == Spec /\ Fairness
-----------------------------------------------------------------------------
(* Properties. *)

TypeOK ==
    /\ shm_size \in {0, QemuMem, DaemonMem}
    /\ hdr.ready \in BOOLEAN
    /\ hdr.sizes \in {NoSizes, Sizes(RingSlots, QemuMem),
                      Sizes(RingSlots, DaemonMem)}
    /\ cmd_head \in Nat /\ cmd_tail \in Nat
    /\ comp_head \in Nat /\ comp_tail \in Nat
    /\ hdr.ready =>
           /\ cmd_ring \in [0 .. hdr.sizes.cmd - 1 -> Message]
           /\ {cmd_head, cmd_tail} \subseteq 0 .. hdr.sizes.cmd - 1
           /\ comp_ring \in [0 .. hdr.sizes.comp - 1 -> 0 .. MaxSent]
           /\ {comp_head, comp_tail} \subseteq 0 .. hdr.sizes.comp - 1
    /\ qstate \in {"off", "mapped", "cleared", "load", "on"}
    /\ qstate = "on" => saved = NotSaved
    /\ qstate = "load" => saved # NotSaved
    /\ guest_status \in {"none", "INIT", "READY", "ERROR"}
    /\ boots \in 0 .. MaxBoots
    /\ dstate \in {"off", "mapped", "cleared", "attach", "sizes", "vulkan",
                   "poll", "process", "consume"}
    /\ held \in Message
    /\ starts \in 0 .. MaxStarts
    /\ kstate \in {"off", "attach", "sizes", "hello", "poll", "ready",
                   "stopped"}
    /\ polls \in 0 .. MaxPolls
    /\ {hello, answer, sent} \subseteq 0 .. MaxSent
    /\ {submitted, handled, replied, received} \subseteq Seq(1 .. MaxSent)
    /\ disturbed \subseteq {"busy", "late", "blind", "reload"}

Attached == dstate \in {"vulkan", "poll", "process", "consume"}

SameRings(a, b) == a.cmd = b.cmd /\ a.comp = b.comp

\* Whoever has initialised the region again since, with whatever memory of its
\* own, the sizes of the two rings that a party has cached at its attach are
\* those of the header, unless the daemon has attached to zeros (init_host,
\* attach).
CachedFromHeader ==
    hdr.ready =>
        /\ Attached /\ ~ Blind => SameRings(dring, hdr.sizes)
        /\ kstate \in {"poll", "ready"} => SameRings(kring, hdr.sizes)

\* gravity_ring.h:131, `Must be power of 2': the command ring of a daemon that
\* has attached has such a size (attach).  False: zero passes the test there,
\* and a reset between the look at the status and the look at the sizes leaves
\* nothing else to be read.
AttachedToPowerOfTwo ==
    Attached => \E i \in 0 .. dring.cmd : dring.cmd = 2 ^ i

\* main.c:85, `This ensures both sides are reading/writing the same physical
\* memory region': what the kext takes for the data region, the daemon has
\* mapped (open_shared_memory, gravity_gpu_realize).  False when QEMU gives the
\* region more than the daemon, as with the `-m 32' of launch-vm.sh:31.
DataWithinReach ==
    dstate = "poll" /\ kstate \in {"poll", "ready"} =>
        DataOffset(kring.cmd, kring.comp) + kring.data <= DaemonMem

\* The contents of a ring from head to tail.
InRing(ring, head, tail, s) ==
    [i \in 1 .. Avail(head, tail, s) |-> ring[Mask(head + i - 1, s)]]

PendingCommands ==
    LET ms == InRing(cmd_ring, cmd_head, cmd_tail, hdr.sizes.cmd)
    IN  [i \in DOMAIN ms |-> ms[i].n]

PendingReplies == InRing(comp_ring, comp_head, comp_tail, hdr.sizes.comp)

\* Commands of one boot of the guest are handled once, in order, and none is
\* lost, through resets, give-ups, reloads of the kext and restarts of VM and
\* daemon, unless the daemon starts under a running guest, a reset strikes
\* inside a command, or one strikes inside the daemon's attach (submitCommand,
\* command_loop, init_host).
SessionDelivered ==
    hdr.ready /\ disturbed \cap {"late", "busy", "blind"} = {} =>
        submitted = handled \o PendingCommands

\* The same without the exception for a daemon that starts late.
LateDaemonDelivered ==
    hdr.ready /\ disturbed \cap {"busy", "blind"} = {} =>
        submitted = handled \o PendingCommands

\* Whatever strikes, a daemon that starts late or a reset inside a command, no
\* command of a boot is handled twice, nor after one sent later: when the
\* consume of a command that a reset has wiped moves the head past the tail,
\* the daemon finds zeros there and nothing that it has handled before
\* (init_host, command_loop, cmd_consume).
HandledInOrder ==
    \A i, j \in DOMAIN handled : i < j => handled[i] < handled[j]

\* Completions for which comp_write found room reach the guest once, in order,
\* under the same conditions (comp_write, comp_read).
RepliesDelivered ==
    hdr.ready /\ disturbed \cap {"late", "busy", "blind"} = {} =>
        replied = received \o PendingReplies

\* Whatever strikes, the guest never reads a reply twice, nor one to a command
\* after the reply to a later one (comp_write, comp_read, init_host).
ReceivedInOrder ==
    \A i, j \in DOMAIN received : i < j => received[i] < received[j]

\* What a kext takes for the answer to its HELLO answers this HELLO and not a
\* message of an earlier boot or of the time before a restore, though it looks
\* at neither opcode nor sequence, and even if a daemon starts under it.  Two
\* cases are excepted: a kext that has been loaded again in this boot may take
\* the answer its predecessor left, and when a reset strikes inside a command,
\* the daemon writes the reply of the old boot into the ring of the new one
\* (negotiateFeatures, process_command).
AnswerMatches ==
    [][PollAnswer /\ disturbed \cap {"busy", "reload"} = {} =>
           answer' = hello]_vars

\* The start of the kext ends, whatever daemon and QEMU do meanwhile
\* (negotiateFeatures).
StartEnds ==
    kstate \in {"attach", "sizes", "hello", "poll"}
        ~> kstate \in {"off", "stopped", "ready"}

Elements(s) == {s[i] : i \in DOMAIN s}

\* A daemon that starts under a running guest loses commands and replies but
\* adds none: unless a reset strikes inside a command, what it handles and what
\* the guest reads replies to are commands of this boot (init_host,
\* command_loop, negotiateFeatures).
OnlyThisBoot ==
    "busy" \notin disturbed =>
        Elements(handled) \cup Elements(received) \subseteq Elements(submitted)

\* A running daemon gets round to every command, though nobody empties the
\* completion ring after the start (command_loop).
CommandsServed ==
    \A n \in 1 .. MaxSent :
        n \in Elements(submitted) /\ dstate = "poll"
            ~> \/ n \in Elements(handled)
               \/ n \notin Elements(submitted)
               \/ dstate = "off"
               \/ disturbed # {}
=============================================================================
