# GravityGPU: a TLA+ development of the command path

GravityGPU gives a macOS guest a paravirtual GPU. The guest's kernel extension writes Metal-like
commands into memory it shares with the host (a PCI BAR of a QEMU device backed by POSIX shared
memory); a daemon on the host, `gravityd`, reads them, translates them to Vulkan and answers
through a second ring. This directory holds TLA+ modules of that path, the TLC runs over small
instances of them, and TLAPS proofs for every size. `PROJECT.json` ties each definition to the lines it
translates, each property to a mutation of the code that breaks it, and each hazard of the code to the
properties that watch it.

## 1. The system

| part | source | state | operations | hard part |
|---|---|---|---|---|
| command ring | `protocol/include/gravity_ring.h` | bytes of the ring, `cmd_head`, `cmd_tail` | `cmd_write`, `cmd_available`, `cmd_peek`, `cmd_consume` | lock-free copy loops of two processes over one buffer |
| completion ring | same file | bytes, `comp_head`, `comp_tail` | `comp_write`, `comp_read` | full ring, late answers |
| data region | same file | bytes, `data_alloc_offset` | `data_write`, `data_ptr` | wraps without knowing what was read |
| ring set-up | same file; `gravity-gpu.c`, `main.c`, `launch-vm.sh` | shared header, two cached contexts | `init_host`, `attach` | initialised again by a reset or a restart |
| command loop | `host-daemon/src/main.c` | `cmd_buf`, `g_running` | peek, validate, process, consume | a command must be processed exactly once |
| resource tracker | `host-daemon/src/resource_tracker.c` | `entries`, `hash_table`, `free_head`, `entry_count` | `init`, `add`, `get`, `remove`, `count`, `destroy` | linear probing, recycled entries |
| command processor | `host-daemon/src/cmd_processor.c` | Vulkan objects, command buffers, image layouts | one handler per command | partial failure, order of recording and execution |
| Vulkan set-up | `host-daemon/src/vk_device.c` | instance, device, queues, pools, cached memory types | init, destroy, search for a memory type | every step may fail; lists that must fit the device and the handlers |
| translation | `gravity_formats.c`, `metal_to_vulkan.c` | none | pure functions | tables that must agree |
| validation | `gravity_protocol.c` | none | `gravity_cmd_validate` | what it lets through |
| device | `qemu-patches/hw/display/gravity-gpu.c` | registers, interrupt line | MMIO read and write, realize, reset, exit, save and restore | reset under load, what a saved VM does not contain |
| kext | `GravityGPUAccelerator.cpp` | mapped BARs, its ring context | probe, start, negotiate, submit, stop | HELLO with a timeout |
| user client | `GravityGPUUserClient.cpp`, `guest-userspace/main.cpp` | connection | `sSubmitCommand` | many callers, one ring |

How they interact. The kext and the daemon share the rings and nothing else: the kext is the producer
of the command ring and the consumer of the completion ring, the daemon the reverse. QEMU
initialises the region in `realize` and in `reset`, the daemon initialises it again when it
starts. The device's registers carry feature bits, status and interrupts to the
kext; the daemon has no access to them. Within the daemon there is one thread: the command loop calls
`process_command`, which calls the handlers, which use the tracker and Vulkan.

What makes each part correct:

- command ring: an accepted command reaches the daemon whole, once, in order, and eventually; space
  is never overestimated; what the daemon is copying does not change under it;
- completion ring: a completion that was accepted is delivered, and a full ring stops nobody;
- data region: every block lies inside the region; a block is not overwritten before it was used;
- ring set-up: both contexts agree with the header as long as either side uses its own;
- tracker: a handle in use is found, one entry per handle, pool and count exact (the first two fail once a removal cuts a probe chain);
- command processor: every Vulkan object has an owner; a command buffer that records, or is inside a pass, is marked so;
  an attachment is in its layout when its pass executes;
- Vulkan set-up: queues exist and can do what they are used for, and what the set-up made is taken down in order;
- device: the state it shares is initialised before a guest, new or restored, goes on with it;
- kext: a HELLO response is matched to its HELLO.

## 2. Modules

| module | models | state |
|---|---|---|
| `CommandQueue` | what a producer and a consumer of the ring are promised: a FIFO queue | `accepted`, `processed` |
| `GravityRing` | command ring, clients of the kext, command loop, word by word | memory, indices, both sides' locals |
| `DataRegion` | allocator of the data region, copy in by the kext, copy out by the daemon | memory, allocator, blocks under way |
| `HandleTable` | what the tracker promises to the handlers: a partial function from handles to entries | `table` |
| `ResourceTracker` | pool, free list and hash table | `entries`, `hash_table`, `free_head`, `entry_count` |
| `CommandProcessor` | the handlers: what commands do to Vulkan objects, command buffers and image layouts | tracker as a table, Vulkan's view |
| `Session` | QEMU, daemon and kext around the shared region: initialisation, attach, HELLO, both rings, resets, restarts, saved and restored VMs | header, rings in slots, the step each party is at |
| `ResourceTranslation` | what CREATE_TEXTURE, CREATE_BUFFER and CREATE_SAMPLER ask of Vulkan: formats, image, view, memory type, sampler | the device's memory types, what was asked |
| `VulkanDevice` | `gravity_vk_init` and `gravity_vk_destroy` step by step | GPU, queue families, features, handles, Vulkan's objects |
| `HostVulkan` | the two together | that of both |
| `ModArith` | lemmas about remainders | none |
| `GravityRing_proofs`, `ResourceTracker_proofs`, `DataRegion_proofs`, `CommandProcessor_proofs`, `Session_proofs`, `ResourceTranslation_proofs`, `HostVulkan_proofs` | theorems about each | none |
| `MC...` | constants for TLC | none |

How they compose. `GravityRing` is shown to implement `CommandQueue`, and `ResourceTracker` to implement `HandleTable`, whatever handles collide, as long as adds find a
free slot and no removal empties a slot that the search for another live handle passes. `DataRegion` takes the command ring to be a queue, which
is what the first refinement licenses; `CommandProcessor` receives the commands of such a queue one at a time, and takes
the tracker to be the table of `HandleTable`, which the second licenses within its condition.
`HostVulkan` runs `VulkanDevice` up to the command loop, the commands of `ResourceTranslation` on the device that was set up and with what was cached of it, and then `gravity_vk_destroy`. `Session` has both rings with whole messages, one per slot, which is the grain at
which `GravityRing` works when nobody initialises the region meanwhile.

### GravityRing

A *slot* of `cmd_ring` stands for one unit of a copy loop (a byte in the code), a command for a sequence
of words with the opcode first and the declared size second. `HdrSize`, `BufSize` and
`OpcodeMax` stand for `sizeof(gravity_cmd_header_t)`, the 64 KB of `cmd_buf` and
`GRAVITY_CMD_MAX`. The number of words handed to `cmd_write` is the length of the command; nothing in the code
makes it agree with the declared size, so nothing in the model does.

`gravity_ring_cmd_write` becomes `BeginWrite` (both early returns and the space check on a head
that may be stale a moment later), `LoadTail` (the tail is read again), one `WriteWord` per round
of the copy loop and `PublishTail` (the release store). The client's steps carry the client as a
parameter: with two clients they interleave, because `sSubmitCommand` takes no lock.
`gravity_ring_cmd_peek` becomes `PeekAvailable`, `PeekHeader` word by word,
`PeekAccept` or `PeekGiveUp` on the declared size, and `PeekBody` word by word; then the loop takes
`ProcessCommand` and `ConsumeCommand`, or `SkipInvalid` when `gravity_cmd_validate` refuses. The
memory barriers are taken to work: stores become visible in program order, and the mutant
`Copied_Early` is what happens if they do not. The indices of the code are masked 32-bit differences; since
ring sizes are powers of two that divide 2^32 the low bits are those of the integer difference, so `Mask` is `%`.

History variables (`accepted`, `starts`, `written`, `consumed`, `processed`) record the stream of words
since the start; the properties relate the shared memory to them.

### ResourceTracker

`Handles`, `HashSize`, `MaxEntries` and `Hash` are parameters: 65536 entries, 4096 slots and a multiplicative
hash in the code. An entry's `ref_count` doubles as the free-list link, as in the code. `Add` and
`Remove` are whole calls of the single daemon thread; `AddUnindexed` is the path of `add` on which the probe loop ends
without a free slot, `RemoveMiss` the early return. `Hash` is any function, so a run chooses its collisions.

The code loses handles in two ways, and the properties say that there is no third. A removal empties its slot, and `get` stops at the first empty slot, so an entry that was probed past it is no longer found:
`LookupKept` says that no other step takes a look-up away. An add to a full table hands out an entry that no slot refers to: `IndexedUntilFull` says that none is made before. `CarefulSpec` is `Spec` without the two:
of the removals it keeps those that empty no slot on another live handle's path (`RemoveAside`), of the adds those that find a slot. Handles still collide, in chains that begin inside one another.

`HandleTable` is the table the handlers believe in. The refinement, of `CarefulSpec`, maps it to what `gravity_resource_tracker_get` returns for each handle (`TableSeen`), not to the
pool: an entry that a broken probe chain hides is no entry to the handlers. Under it a handle keeps its entry until it is removed, whatever else is added and removed, no two handles share one, and a
handle that is found is never added again.

### DataRegion

A word of the region holds the number of the block written there; `lap` and `frontier` (history) count how often the allocator
went around and how far it has written. `gravity_ring_data_write` becomes `Allocate` (size check, wrap to 0), one `CopyIn` per word of the
`memcpy` and `Finish` (barrier, alignment, wrap of the next offset). The sums are taken modulo `Word` = 2^32 as the code's
are. `SubmitWithPayload` puts CREATE_BUFFER with the absolute offset into the queue. The daemon's half is the end of
`gravity_cmd_process_create_buffer`: `StartCopy` or `SkipCopy` on `data_offset > 0`, `data_size > 0`, the storage mode and the result of
`gravity_ring_data_ptr`, then `CopyOut` per word and `EndCopy`. `GravityGPUAccelerator::writeData` has no caller in the repository yet;
that a caller writes the payload first and submits the command after is what the field names and the handler imply.
The comment in `gravity_ring_data_write` (`gravity_ring.h:437-441`) makes it the user's duty to have commands processed before the region wraps, and the region large enough; the properties speak of blocks
the allocator has not come round to (`Recent`), and a theorem says how large is enough.

### CommandProcessor

The daemon handles a command in one thread and every handler is one action that may fail at each Vulkan call it checks: a creation is the list
of the objects it makes (`BufferSteps`, `TextureSteps`, `CmdBufSteps`, ...) with, for each place it can fail, what the error path
there destroys (`BufferUndone`, ...). `Make` is success and `Abandon` every failure, the refusal by the tracker among them. An object's
identity is the number of its creation. `Destroy` is what the three DESTROY commands do to the tracker; the others fall into the default case of
`process_command`. `RenderBegin`, `RenderEnd` and `RenderCommand` are the branches of `gravity_cmd_process_render`; the commands among them that
touch no object and no layout (viewport, scissor, draw) are the `RenderCommand` that records nothing. `CommitExecutes`, `CommitDropped`, `CommitFails`,
`CommitBlocks` and `CommitUnknown` are the outcomes of `gravity_cmd_process_cmdbuf_commit`: executed; not ended as it should and nothing run; device lost, at this or an
earlier commit; submission refused so that the fence wait, which has no timeout, never ends; unknown handle. `Shutdown` is the end of `main`.

Vulkan is external: a command buffer holds what was recorded (`vkRecorded`), in one of the states of the specification (`vkState`: initial, recording, recording inside a pass, executable), and a barrier
changes the layout of an image (`vkLayout`) when it executes, not when it is recorded. The tracker's `current_layout` changes when it is recorded;
the difference is what `AttachmentsInLayout` is about, and a run shows it violated. The layout an image ends in is that of the last barrier recorded for it (`Moves`, `LayoutAfter`). `HandlesAssumption` is the numbering of the protocol: a handle names one
kind of resource.

The guest sends any command at any time: it draws outside passes, begins a pass inside a pass, commits inside a pass or twice, and destroys resources that recorded commands use. It learns nothing of a creation that
failed, so it uses unknown handles. The results that the handlers do not look at may be failures: `CmdBufCreate` may leave a command buffer that never began and is marked `recording` all the same; a commit whose `vkEndCommandBuffer` fails,
or that comes inside a pass or without a begin (`Ends`), may be dropped (`CommitDropped`), block for ever (`CommitBlocks`) or execute all the same, since Vulkan leaves it undefined; and no commit lowers `in_render_pass`.
So the flags may claim more than there is. `FlagsCover` says that they never claim less: a command buffer that records is marked so, and one inside a pass can be brought out of it by RENDER_END, which looks at the flag first.
That no recorded command names a destroyed object is no property here: nothing ever destroys one.

### Session

Three parties and what each keeps. QEMU (`qstate`, `guest_status`, `boots`): `QemuLaunch` is `gravity_gpu_realize` up to `mmap`, `Reset` is `gravity_gpu_reset`, which
finds the guest's processors stopped and its kext gone; both go on with `gravity_ring_init_host` as two steps, `QemuClear` (the `memset`) and `QemuFill` (the header,
status last). `QemuExit` leaves the shared memory object behind, as the code does. The daemon (`dstate`, `dring`, `held`): `DaemonStart`, `DaemonClear`, `DaemonFill`, `DaemonAttach`, `DaemonSizes`, `DaemonVulkan`
are `main` up to the loop, each failure an exit; `Peek`, `Skip`, `Process`, `Consume` are the loop, so that anything may happen between a peek and its consume; `DaemonExit` is a signal, which the loop looks at
between two commands. The kext (`kstate`, `kring`, `polls`): `KextStart`, `AttachCheck`, `AttachSizes`, `SendHello` or `HelloFails`, `PollAnswer`, `PollEmpty`, `GiveUp` are `start`; `SendPing` is a user client,
`KextStop` is `stop`, which sends GOODBYE.

`gravity_ring_attach` looks at magic and status first (`DaemonAttach`, `AttachCheck`) and at the sizes after (`DaemonSizes`, `AttachSizes`); all sizes are taken in one step, where the code loads them one after the other. A reset between the two leaves the daemon with
sizes of zero, which its test for a power of two lets pass. It is then `Blind`: its mask is all ones and its rings lie where the header of the region does; it skips the first words as an invalid command (`BlindSkip`) and stops at what it takes for a command longer than its buffer.

A VM that is saved (`SaveVM`) takes the guest's memory and the registers with it, as `vmstate_gravity_gpu` lists them, and QEMU ends. The next `QemuLaunch` restores it or starts afresh;
when it restores it, the region is initialised as at every launch, and only then (`LoadState`) the kext goes on at the step it was at, with its cached sizes, in front of empty rings: the BAR of the region is
I/O memory to QEMU, so its contents are in no saved state. A saved VM is restored at most once, and a restore into a QEMU that runs is left out.

QEMU and the daemon need not give the region the same size (`QemuMem`, `DaemonMem`): `launch-vm.sh:31` gives the daemon `-m 32`, the device's default is 512 MB. The ring sizes are the same whatever they give; the data region is not. Sizes are counted in slots: the header takes one, ring sizes are rounded up to powers of two by `RoundUp`, the rest is the data region. `RoundUpAssumption` says of `RoundUp` the one thing that the proofs use, that it yields a number no less
than its argument; it follows from the definition, TLC evaluates it, and the provers know no powers of two. Doorbells, feature bits and interrupts are left out: the
doorbell wakes nobody, the bits are printed, no interrupt is ever raised. The environment is what the repository says of it: `scripts/launch-vm.sh` starts the daemon a second before QEMU,
so QEMU is not launched while the daemon initialises the region; and the kext's comment `This is OK — the host daemon may start later` makes a start of the daemon at any later time a step of the model.
Not modelled: an object that shrinks under QEMU's mapping (a daemon with less memory that starts under a running VM), which ends QEMU; and an initialisation inside a copy loop, since messages are whole.

`disturbed` (history) names what struck since QEMU last initialised the region: `late`, a daemon that initialised it under a guest; `busy`, a reset that found the daemon inside a command; `blind`, a reset that struck inside the daemon's attach; `reload`, a kext that
started again in the same boot. A reset that finds the daemon between two commands empties it. The properties state what holds without such an event, and so after every clean reset, whatever came before;
`submitted`, `handled`, `replied` and `received` are the messages of the boot.

### ResourceTranslation

The handlers fill in Vulkan's structures from the command through functions of `metal_to_vulkan.c` and `gravity_formats.c`, each a table or a switch of its own; the operators have
the functions' names. `pixel_format_table` is the table, by the numbers of Metal and of Vulkan, since the code compares the former by range and switches over the latter; bit masks are
sets of flags. `ImageInfo` and `ViewInfo` are the structures as the handler completes them, `MemoryType` the two searches of which the second is not checked. A behaviour is
one command after the other for one device: `CreateTexture`, `CreateBuffer` with any memory types the resource may use, `CreateSampler`, and `Return` to the command loop. Of a sampler, the address modes are a set (the three coordinates
are treated alike), the mipmap mode, anisotropy and comparison are computed as in the code, filters and level bounds passed on. The properties are rules of Vulkan that tie fields together which the code computes apart.
A chain of mipmap levels fits an image when the side of its last level is at least one (`LevelsFit`), which Metal grants of the command and Vulkan wants of the image.
What Metal lets the guest ask for (`MetalTexture`) and what Vulkan grants of memory types (`ImageFilters`, `BufferFilters`) is external; a usage of pixel-format views alone is left out of `MetalTexture`, since
the handler then asks for a view that only transfers could use.

### VulkanDevice and HostVulkan

`gravity_vk_init` calls seven functions in order, each an action of `VulkanDevice`; `create_command_pools` is one per pool, since it can fail at each. `Fail` is the return of -1 from any of them, after which
`main` returns without taking anything down. `phase` is the call `main` is in. A `host` is the list of GPUs that Vulkan enumerates, each with its queue families (sets of flags), features and memory types.
`Selected` is the loop of `select_physical_device`: the last integrated GPU of Intel, else the first of all. `Families` is that of `find_queue_families` with its fallbacks, `UniqueFamilies` the list given to
`vkCreateDevice`. `CreateOptional` is the pipeline cache and the descriptor pool, whose absence is a warning. `DestroyNext` looks at one field after the other, as `gravity_vk_destroy` does, and `ClearState` is the final `memset`.
`handles` are the fields that are not null and `live` what Vulkan has, what the handlers have made on the device among it (`HandlerStep` adds the objects a command makes, `ObjectsFor`, and nothing removes them).
`SetUpTakenDown` is about the objects `gravity_vk_init` made itself (`Own`). Of all objects it would be false (`DestroyedInOrder`): `gravity_resource_tracker_destroy` destroys none, and `vkDestroyDevice` is called while they exist.

What Vulkan guarantees is external and in `HostsAssumption` and the type of a GPU, `GPUs`. One part of it is more than Vulkan says: that a family for graphics also computes, on which the fallback of the compute queue rests.

## 3. Runs

| run | bounds | shows |
|---|---|---|
| `ring` | ring of 8, header 2, commands of 2, 3 and 4 words, 5 submissions | every property of well-formed traffic, and refinement of `CommandQueue` |
| `ring_malformed` | declared sizes too small, too large, larger than the buffer; a short command; an unknown opcode | `cmd_peek` stays in its buffer and in what is published |
| `ring_clients` | two clients | **violated**: two writers overwrite each other |
| `tracker` | 4 handles that collide, 2 slots, 4 entries | pool, free list and slots stay exact although entries are not indexed and look-ups miss; a step takes away only look-ups that pass the slot it empties; no entry goes without a slot before the table is full |
| `tracker_chains` | 5 handles in two chains, one with a second beginning inside it, one around the end of the table; 5 slots, 5 entries; `CarefulSpec` | the tracker implements `HandleTable` |
| `data` | region of 8 words, alignment 2, payloads of 1, 2, 3 words and one too large, 5 blocks, 3 commands in the ring | blocks stay in bounds and intact until the allocator has come all the way round; copies are whole |
| `processor` | one buffer, color texture, sampler and placeholder, two command buffers at once, 4 creations, 2 tracker entries, 3 recorded commands, failures | ownership of objects; flags that never hide a recording or a pass |
| `processor_order` | one texture, two command buffers, no failures | **violated**: the command buffer without the barrier is committed first, and its pass finds the image in another layout |
| `session` | rings of 4 and 4 slots, memory of 16 for QEMU and 20 for the daemon, 4 messages, 2 polls, 2 boots, 2 starts of the daemon, fairness | cached ring sizes, delivery and answers per boot, through resets, saves and restores; nothing is handled twice, whatever strikes; the start of the kext ends; every command is served |
| `session_late` | the same with a completion ring of 2 slots | **violated**: a daemon that starts late wipes the HELLO |
| `host` | 7 hosts of 0 to 3 GPUs with 1 to 4 queue families; 30 formats of the table and two it lacks with four usages (none, read, target, all) and every storage mode; every shape with sides 1 and 4, up to 3 levels, 2 elements, 8 samples; every address mode, anisotropy 0, 1, 16 | queues are legal and what the set-up made is taken down in order whatever fails; image, view, usage and memory type obey Vulkan's rules together |
| `translation_formats` | the same textures, four devices of 1 to 3 memory types | **violated**: the number given for A8Unorm is another format's, of two bytes a pixel |

Why the bounds are enough for what the runs ask. A ring of 8 words with 5 commands of up to 4 words is
filled, emptied and wrapped at every offset at which a command can straddle the end. In the data region 5 blocks of up to 3 words go around
twice, with ends on, before and behind an aligned offset and the region's end. Four handles over
two slots give full tables, probe chains broken by a removal and entries without a slot, and every order in which the pool can be emptied and refilled; five over
five slots, as many as entries, give chains of up to three probes that a careful removal may shorten at the end only, and one that wraps.
In the command processor four creations make, refuse and abandon each kind of object, exceed the tracker's two entries, and allow a handle to be created again after its
destruction; three recorded commands hold a barrier, a pass and something in it or after it, in two command buffers at a time that may each fail to begin, be committed inside the pass, and record again.
In the session 4 messages fill the command ring past its capacity of 3, four answers overfill the completion ring's capacity of 3, so that replies wait in order behind each other, and two boots and two starts give each order of launch, reset, exit, save, restore, late start and
restart around an unfinished command or attach. Without the liveness properties TLC agrees on 5 messages and 3 boots.
The hosts have no GPU, one, an integrated one behind another and before a card, dedicated families before and behind the general one, none for graphics, and a feature that is lacking.
In the translation no function looks further than the bounds reach: zero, one and more for every field, every switch on every value, and the theorems do without them.
`MaxAccepted`, `MaxBlocks`, `MaxQueue`, `MaxCreated`, `MaxRecorded`, `MaxSent`, `MaxBoots` and `MaxStarts` are the only bounds on what the code does not bound; `MaxQueue` stands for
the capacity of the ring.

The runs that are violated show disagreements of the code with what the repository says of it; `PROJECT.json` quotes each. The same modules show more, which
the project does not list as runs. The properties named here are stated in the modules, and TLC finds each violated as described:

- when a handle is removed, those that were probed past it are not found although they are in use (`LiveFound` of `ResourceTracker` under the constants of `tracker_chains` with `Spec`; the code has a `TODO: Rehash displaced entries`),
  and then the same handle is added again and has two entries (`NoDuplicate`);
- with more entries than slots, as in the code (65536 and 4096), `add` hands out an entry that no slot refers to (`AllIndexed` under the constants of `tracker`);
- when a reset strikes between the daemon's look at the status of the header and its look at the sizes, `gravity_ring_attach` returns success with a size of zero, although `gravity_ring.h:131` says `Must be power of 2` and
  `:221` `Validate power-of-2 sizes`, and the daemon handles nothing until it is restarted (`AttachedToPowerOfTwo` of `Session` under the constants of `session`);
- with more memory for QEMU than for the daemon, as `launch-vm.sh:31` has it where the device's default is 512 MB, the kext's data region goes on behind what the daemon has mapped (`DataWithinReach` of `Session` with `QemuMem = 32`, `DaemonMem = 20`);
  `gravity_ring_data_ptr` refuses such a payload, by the size the daemon has cached, and the resource stays without its data;
- with `Levels = {0, 1}` RENDER_BEGIN moves the level the command names, tracks the layout of the whole image and renders to the view's first level;
  with a depth texture in `Depths` no barrier is ever recorded for it (`AttachmentsInLayout` in both cases, with one command buffer too);
- DESTROY commands and `gravity_resource_tracker_destroy` free no Vulkan object, although `resource_tracker.h:168` leaves that to the caller and `:144` says that the latter destroys `all tracked resources`: the
  set `orphans` of `CommandProcessor` only grows, and `vkDestroyDevice` is called while all they made exists (`DestroyedInOrder` of `VulkanDevice`, with `OneHost` and `OneTexture` of `MCHostVulkan`);
- the device is made without `imageCubeArray` and `samplerMirrorClampToEdge`, though the view of a cube array needs the first and the address mode MIRROR_CLAMP the second, and the list is headed `Enable features needed for Metal translation`
  (`FeaturesEnabled` of `HostVulkan`, with `OneHost` and `CubeArrays`);
- commands and completions that are in the rings when a VM is saved are gone when it is restored, although `gravity-gpu.c:454` announces `VM State (Migration/Save-Restore)`: the region is in no vmstate,
  and the reset clears it (`SaveVM`, `QemuClear`; it takes no interleaving to see);
- `select_physical_device` takes the last integrated GPU of Intel, or the first GPU, whether or not it can render or has Vulkan 1.3, which the device is then made to use (`dynamicRendering`); a driver passes over
  structures it does not know;
- `gravity_formats.c:263` calls a sampler that is not mipmapped `effectively disabled`; the bounds on the level of detail are passed on as they are, so its levels are used;
- a depth texture without a usage is given that of a color attachment (`UsageFitsAspect` without its exception);
- in `gravity_to_vk_blend_factor`, which nothing calls yet, the four factors of the blend color and `SRC_ALPHA_SATURATED` have numbers that `VkBlendFactor` gives to others (`CONSTANT_COLOR` is 10, not 12);
- the guest test application lays its header out as 16-bit opcode, 16-bit size, 32-bit flags, where the protocol has 16-bit flags and 32-bit size: the daemon reads a declared size of 0, skips the PING in two header-sized
  pieces and never answers it (`AllProcessed` with the command `<<3, 0, 9, 0>>`);
- CMDBUF_COMPLETED carries status 0 whatever the submission and the wait returned;
- a reset that strikes between the daemon's peek and its consume leaves `cmd_head` ahead of `cmd_tail` (`SessionDelivered` without `busy`), and the reply to the old command is the first the new kext finds (`AnswerMatches` without `busy`);
  a kext that starts again in the same boot takes a completion of its predecessor for the answer to its HELLO (`AnswerMatches` without `reload`).

A payload that is overwritten in a region that is too small for the traffic is no disagreement: `gravity_ring.h:437-441` says that the region has to be large enough. `OutstandingIntact` of `DataRegion` is violated under the constants of `data`, and
holds where the region is ample (TLC: `RegionSize = 24`, `MaxQueue = 2`, `MCSmallSizes`; theorem `AmpleRegionIsSafe` for all).

Fairness. `FairSpec` assumes weak fairness of each client's steps inside `cmd_write` (a thread that runs
ends its loop) and of the daemon's steps (the loop of `command_loop` polls forever while `g_running`). It does not
assume that clients submit. Under it every accepted well-formed command is processed.

In `Session` it is the start of the kext (a thread of the guest, its loops bounded), the daemon's loop, and an initialisation or a restore by QEMU once begun, that are weakly fair; nobody need start, stop, reset, save or send, and the daemon's
start may stop at any step.

The run `session` is of that specification; its safety properties do not depend on it.

`DataRegion`, `CommandProcessor`, `ResourceTracker`, `ResourceTranslation`, `VulkanDevice` and `HostVulkan` state safety only and assume no fairness.

Deadlock is not checked: every run stops at its bound on submissions or creations, a poll that finds nothing
is a stutter, and the daemon may be shut down or wait for ever for a fence.

## 4. Proofs

`ModArith` proves the facts about `%` the ring needs from the library's lemma on division: uniqueness of the
remainder, injectivity within one window, sums and differences.

`GravityRing_proofs` proves, for every ring size, header size, buffer size and set of commands:

- `TypeCorrect` and `CopyBounded`, for any number of clients whose calls overlap in any way: the daemon copies nothing behind its buffer or behind what it found available, and consumes no more than that;
- `AvailabilityCorrect`, under `SingleClient` (one client calls `cmd_write` at
  a time): what the daemon counts as available and what the producer counts as space add up to the published words, and fit the ring;
- `PeekIsStable`, likewise: what the daemon has copied so far stays what the ring holds;
- `DeliveryCorrect` and `RefinesQueue`, under `WellFormedCommands` as well (declared size equals length and fits
  the buffer, opcode known): processed commands are a prefix of the accepted ones, and the ring implements `CommandQueue`.

The argument has three layers. `TypeInv` types the state. `PositionInv` ties each index to its history counter
(`cmd_tail = written % RingSize`) and bounds `written - consumed` by `RingSize - 1`: it is what keeps two stream positions in
flight on different slots. `StreamInv` says that the slots between `consumed` and `written` hold the accepted words, that the writer's
words lie beyond, and that the daemon's buffer holds a prefix of the command at `consumed`. `InOrderDelivery` is not inductive without
the last two: nothing in it says why the copied words are the right ones.

`ResourceTracker_proofs` proves, for every hash and every size, so for the code's too:

- `PoolCorrect`: free list, count and slots are exact;
- `LookupsKept`: a found handle keeps its entry in every step, except the removal of an entry whose slot its search passes. It rests on `SameSearch` (a search depends on the slots it looks at, and their entries) and on
  what add and remove leave alone (`AddKeepsOthers`, `RemoveKeepsOthers`);
- `FoundUntilRemoved`: in behaviours without a removal every live handle is found and has one entry, until there are more entries than slots. So removal and the full table are the only two ways to lose a handle. `AddsInv` is
  the invariant: that no handle gets a second entry needs that all are found, and the bound comes from counting the slots (`FullTable`).

- `NoneLeftOut`: until there are as many entries as slots, no step leaves an entry without a slot. A probe visits every slot (`ProbesCover`), and the slots of the entries in use are counted;
- `LookupCorrect` and `TableCorrect`, of `CarefulSpec`, whatever collides: each live handle is found and has one entry, removed ones are not found, and the tracker implements `HandleTable`. `FoundInv` is the invariant: that a handle is found needs that none has two
  entries, and that a removed one is not needs that the live ones are exactly those in use. An add is found at once because the probes before its slot are all taken (`AddedIsFound`); a removal keeps the others found by `LookupsKept`. The condition on removals cannot be dropped: section 3.

`DataRegion_proofs` proves `RegionCorrect` and `PayloadsFound` for every region, alignment and set of payload sizes, under `NoOverflow`
(twice the region and the alignment fit 32 bits; the code's region is below 512 MB). The invariant orders everything by position since the start,
`RegionSize * lap + offset`: `AllocInv` says that the allocator is never behind what was written, `QueueInv` that the block of a
queued command lies behind `frontier`, and `Apart` that two positions less than a region apart never share a word. `BlocksIntact` alone is not inductive: it does not say
where the copy under way is.

`AmpleRegionIsSafe` is about the duty of the user that the comment of `gravity_ring_data_write` (`gravity_ring.h:437-441`) states: to have a region `large enough`. `Ample` says how large: a block moves the allocator by at most twice its size, for the rest of a lap
it does not fit in, and the alignment (`Stride`), and the region has to hold that once more than the ring holds commands. Then no waiting block is overwritten (`OutstandingIntact`) and every payload is copied whole, with no condition on laps. `AheadInv` counts the blocks allocated since each
waiting command; the block under way is the one more, because the kext copies before it finds out whether the ring has room. With the 512 MB and the 4 MB ring of QEMU, which holds 74898 commands of 56 bytes, that is payloads of up to 3.4 KB; nothing in the kext limits them.
`MaxQueue`, a bound of the model elsewhere, is here the capacity of the ring. TLC agrees on a region of 24 words, two commands and payloads of 1 and 3 words.

`CommandProcessor_proofs` proves, for every set of handles, every bound and whatever Vulkan calls fail:

- `TypeCorrect`, `OwnershipCorrect`, `FlagsCoverCorrect`, from one inductive invariant, `IInv`, with nothing assumed of what the guest sends. Its parts are the ones the properties lack: an entry owns exactly the objects of its kind under an identifier
  no other entry and no orphan has (`EntriesInv`, `OwnerInv`), the pool's bound (`CapacityInv`), and that every entry of a command buffer has its state in Vulkan (`VulkanInv`). `UndoneComplete` says that each list of clean-ups undoes every prefix of its handler's calls; a
  creation then makes everything or leaves nothing (`Creates`).

`Session_proofs` proves, for rings of any sizes and any numbers of boots, starts, messages and polls:

- `TypeCorrect`, and `CachedCorrect`, whatever memory QEMU and the daemon give the region;
- `DeliveryCorrect`: `SessionDelivered` and `RepliesDelivered`, the latter with the window of the completion ring;
- `AnswerCorrect`: the action property `AnswerMatches`, also when a daemon starts under the kext or attaches blind: only a reset inside a command and a reload of the kext are excepted;
- `OrderCorrect`: `HandledInOrder`, of every session, disturbed or not;
- `ReplyOrderCorrect`: likewise for what the guest reads (`ReceivedInOrder`): no reply twice, none after the reply to a later command;
- `LateDaemonOnlyLoses`: unless a reset strikes inside a command, what is handled and what the guest reads replies to are commands of this boot (`OnlyThisBoot`). With `OrderCorrect`: a daemon that starts under a running guest loses
  commands, which the run `session_late` shows, but handles the others once and in order and no others. The last two properties are stated by theorems only.

`TypeInv` has to hold while the header is not ready, because the kext and the daemon write to rings that somebody is clearing; the delicate part is that every party that writes knows the rings' size (`SizesKnown`, `AcceptsKnown`), which holds because both
initialisers give them the same. `DeliveryInv` has the two properties without their condition on the header, and what they need to be inductive: the command in `cmd_buf` is still the first of the ring (`HeldInv`), so that the consume drops what was processed; nothing is
under way between QEMU's two stores (`FreshInv`); the daemon replies only to what was submitted (`RepliedInv`). `AnswerMatches` follows from `ThisBootInv` below, for what is in the completion ring is a reply to a command of this boot, and from `HelloInv`: a kext that waits, and was not loaded again, has submitted nothing but its HELLO. That zeros are never skipped
in an undisturbed session (`Skip`) is a consequence: what is between head and tail was submitted, and serials start at 1. The rings themselves come in through two lemmas about a window of a ring, `WindowGrows` and `WindowShrinks`.

`OrderCorrect` needs an invariant of its own, `OrderInv`, because nothing of `DeliveryInv` is left when a reset strikes inside a command. The handled commands and those that wait, zeros passed over, are one rising sequence of numbers no greater than the last one sent
(`InLine`, `UpTo`), so that a new command belongs at its end. While the daemon has a command in hand, either it is still at the head (`Kept`), or QEMU's clearing has wiped it (`Swept`): then the head is 0, every slot from the tail on is zero, because one slot
always stays free and no command can have come round the ring, and the command in hand comes before all that wait. So the consume that moves the head past the tail makes zeros of those slots waiting, never a command handled before. `FillOrder` has the case of QEMU's two stores: between
them every slot is zero, so the daemon can have nothing at the head. The property rests on the `memset`: a reset that set the positions only would let the daemon handle old commands again (the mutant of `Wiped`).

`ReplyOrderInv` stands on `OrderInv`: the replies read and those that wait are one rising sequence too (`AnsweringInv`), and it comes before all commands that wait; while the daemon has a command in hand no reply is to a later one (`RepliesUpTo`). That makes the reply of
`Process` the last of all, and when the command is consumed `OrderInv` of the next state says that whatever waits comes after it, also where a reset has wiped it (`ReplyConsume`). `ThisBootInv` has no order, only membership, zeros passed over (`AllSent`), together with `HeldInv` and
two facts about the time between QEMU's two stores (`QuietInv`, `QuietRingInv`); a reset that finds the daemon with a command in hand is what breaks `HeldInv`, and after it the daemon handles a command of the boot before.

`ResourceTranslation_proofs` proves `MemoryCorrect` for every list of memory types, and `ImageCorrect`, `ViewCorrect` and `UsageCorrect` for every texture Metal allows, of any size. The first rests on
`FindExact` (a search finds a member of the filter with the properties, or nothing has them) and on what Vulkan grants of the filter; the others on `LayersByType`, and the last on
`DepthAgrees`, which goes through the table once. `AskedExact` is the invariant that carries them: what was asked is what the operators compute.

`HostVulkan_proofs` proves, for every list of GPUs with any families and memory types under `HostsAssumption`, and wherever the set-up fails: `QueuesCorrect`, `DestroyCorrect` (`SetUpTakenDown`), and that the three rules of `ResourceTranslation` hold
in the whole system (`HostMemoryCorrect`, `HostTexturesCorrect`). `HostInv` is indexed by the phase `main` is in: what the set-up has found agrees with the host's GPU from the selection on (`SetUpInv`), and which objects of the set-up there are, whatever the handlers have added to them, follows from how far `gravity_vk_init` or
`gravity_vk_destroy` has come (`ObjectsInv`). `MemoryInv` is the link between the parts: in `ResourceTranslation` the memory types are given, here they are a copy made during the set-up, and cleared at the end. Commands are handled in the loop only (`LoopInv`).

Each invariant was checked with TLC before it was proved. Every safety property of a run that passes is now a theorem, under the hypotheses named above and the ASSUMEs of the modules and nothing else. Only model-checked: liveness (`AllProcessed`, `StartEnds`,
`CommandsServed`, and with them the fairness of `ImplementsQueue`, whose safety part is `RefinesQueue`), which is out of reach of the provers; and what happens where a hypothesis fails: two clients in the ring (beyond `CopyBounded`), a removal that cuts a probe chain or a full table in the tracker (beyond `PoolCorrect` and `LookupsKept`), what a daemon that starts late loses.
The provers cannot compute powers of two: of `RoundUp` they know what `RoundUpAssumption` says, and `LevelsFit` is carried from the command to the image unopened.

## 5. Not modelled, and the plan

Next, in order:

1. `CommandProcessor` over the entries and slots of `ResourceTracker` instead of the table: the handlers' behaviour after a removal that cuts off a handle in use, and a theorem that it is the behaviour proved here as long as none does.
2. `Session` with the sizes of `gravity_ring_attach` loaded one by one, so that an attach may take some of them from before a reset; with `memset` and copy loops interleaved, for the reset that strikes inside a copy; the completion ring word by word, whose loops are those of the command ring.
3. More about the disturbed sessions: order is proved (`OrderCorrect`, `ReplyOrderCorrect`), and of a late daemon that it only loses (`LateDaemonOnlyLoses`); that a reset inside a command brings at most one command of the boot before into the next one, and how much either can lose, is not.

Not modelled, and why:

- the device's other registers and its interrupt line: what is written is stored, nothing in the repository reads it back to act on it, and `gravity_gpu_raise_irq` has no caller. A property of the interrupt line would be
  about a function that never runs;
- vertex formats and the translations of fixed-function state (`gravity_formats.c`): no caller, since pipelines are placeholders;
- `gravity_vk_begin_single_time_commands` and its counterpart: no caller, no state of their own;
- completions to the guest, PRESENT, RESIZE_DISPLAY, compute and blit commands in `CommandProcessor`: answers, and stubs that print a line;
- the shader cache, shader compiler and framebuffer: stubs that return a constant;
- I/O Kit matching and mapping, options and statistics of the daemon, tracing tools, build scripts: no state that any property is about.
