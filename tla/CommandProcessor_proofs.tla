----------------------- MODULE CommandProcessor_proofs -----------------------
(***************************************************************************)
(* Proofs about CommandProcessor, for all sets of handles, all bounds,     *)
(* whatever the guest sends and whatever Vulkan calls fail.  One inductive *)
(* invariant, IInv, carries the safety invariants.                         *)
(***************************************************************************)
EXTENDS CommandProcessor, FiniteSetTheorems, SequenceTheorems, TLAPS

(* The invariant, in parts.                                                *)

\* The kinds of objects a handler makes for h, once all its calls succeed.
Kinds(h) ==
    IF h \in Buffers THEN {"buffer", "memory"}
    ELSE IF h \in Textures THEN {"image", "memory", "view"}
    ELSE IF h \in Samplers THEN {"sampler"}
    ELSE IF h \in CmdBufs THEN {"cmdbuf", "fence"}
    ELSE {}

AllKinds ==
    {"buffer", "image", "memory", "view", "sampler", "cmdbuf", "fence"}

ObjectsOf(h, id) == {Object(k, id) : k \in Kinds(h)}

Entries ==
    [id : Nat, objects : SUBSET (AllKinds \X Nat), current_layout : Layouts,
     recording : BOOLEAN, in_render_pass : BOOLEAN]

Commands ==
    [op : {"barrier"}, image : Nat, level : Levels, old : Layouts,
     new : {"color"}]
    \cup [op : {"begin"}, uses : SUBSET [image : Nat, layout : Layouts]]
    \cup [op : {"draw"}, buffer : Nat]
    \cup [op : {"end"}]

\* Entries have the handle's objects, and identifiers of their own.
EntriesInv ==
    /\ created \in Nat
    /\ tracker \in [Tracked -> Entries]
    /\ Tracked \subseteq Handles
    /\ \A h \in Tracked : /\ tracker[h].id \in 1 .. created
                          /\ tracker[h].objects = ObjectsOf(h, tracker[h].id)
    /\ \A g, h \in Tracked : tracker[g].id = tracker[h].id => g = h

\* The tracker is never fuller than its pool.
CapacityInv ==
    /\ IsFiniteSet(Tracked)
    /\ Cardinality(Tracked) <= MaxEntries

\* What Vulkan has for the entries: a layout for each texture, a content and
\* a state for each command buffer.
VulkanInv ==
    /\ vkLayout \in [DOMAIN vkLayout -> [Levels -> Layouts]]
    /\ DOMAIN vkLayout \subseteq 1 .. created
    /\ vkState \in [CmdBufIds -> {"initial", "recording", "rendering",
                                  "executable"}]
    /\ vkRecorded \in [CmdBufIds -> Seq(Commands)]
    /\ CmdBufIds \subseteq 1 .. created
    /\ \A h \in Tracked :
          /\ h \in Textures => tracker[h].id \in DOMAIN vkLayout
          /\ h \in CmdBufs => tracker[h].id \in CmdBufIds

LoopInv == running \in BOOLEAN /\ lost \in BOOLEAN /\ blocked \in BOOLEAN

\* Objects without an entry have identifiers no entry has.
OwnerInv ==
    /\ orphans \subseteq AllKinds \X (1 .. created)
    /\ \A o \in orphans : \A h \in Tracked : o[2] # tracker[h].id
    /\ vkLive = Owned \cup orphans

IInv == EntriesInv /\ CapacityInv /\ VulkanInv /\ LoopInv /\ OwnerInv /\ FlagsCover

-----------------------------------------------------------------------------
(* What a creation does to the tracker and to the objects: all, or nothing *)
(* that lasts.                                                             *)

Success(h) ==
    /\ CanAdd(h)
    /\ tracker' = Put(tracker, h, Entry(h, ObjectsOf(h, created')))
    /\ vkLive' = vkLive \cup ObjectsOf(h, created')

Creates(h) ==
    /\ Ready
    /\ created' = created + 1
    /\ UNCHANGED <<running, lost, blocked, orphans>>
    /\ Success(h) \/ UNCHANGED <<tracker, vkLive>>

\* The objects made by all calls.
LEMMA AllMade ==
    /\ {BufferSteps[i] : i \in 1 .. Len(BufferSteps)} = {"buffer", "memory"}
    /\ {TextureSteps[i] : i \in 1 .. Len(TextureSteps)} = {"image", "memory", "view"}
    /\ {SamplerSteps[i] : i \in 1 .. Len(SamplerSteps)} = {"sampler"}
    /\ {CmdBufSteps[i] : i \in 1 .. Len(CmdBufSteps)} = {"cmdbuf", "fence"}
  <1>1. Len(BufferSteps) = 2 /\ BufferSteps[1] = "buffer" /\ BufferSteps[2] = "memory"
    BY DEF BufferSteps
  <1>2. /\ Len(TextureSteps) = 3 /\ TextureSteps[1] = "image"
        /\ TextureSteps[2] = "memory" /\ TextureSteps[3] = "view"
    BY DEF TextureSteps
  <1>3. Len(SamplerSteps) = 1 /\ SamplerSteps[1] = "sampler"
    BY DEF SamplerSteps
  <1>4. Len(CmdBufSteps) = 2 /\ CmdBufSteps[1] = "cmdbuf" /\ CmdBufSteps[2] = "fence"
    BY DEF CmdBufSteps
  <1>5. 1 .. 2 = {1, 2} /\ 1 .. 3 = {1, 2, 3} /\ 1 .. 1 = {1}
    OBVIOUS
  <1> QED
    BY <1>1, <1>2, <1>3, <1>4, <1>5

\* An error path destroys all that was made before it.
Complete(steps, undone) ==
    \A n \in 0 .. Len(steps) : {steps[i] : i \in 1 .. n} \subseteq undone[n + 1]

\* Each list of clean-ups undoes every prefix of its handler's calls.
LEMMA UndoneComplete ==
    /\ Complete(BufferSteps, BufferUndone)
    /\ Complete(TextureSteps, TextureUndone)
    /\ Complete(SamplerSteps, SamplerUndone)
    /\ Complete(CmdBufSteps, CmdBufUndone)
    /\ Complete(<<>>, <<{}>>)
  <1> DEFINE Prefix(steps, n) == {steps[i] : i \in 1 .. n}
  <1>1. Complete(BufferSteps, BufferUndone)
    <2> SUFFICES ASSUME NEW n \in 0 .. 2 PROVE Prefix(BufferSteps, n) \subseteq BufferUndone[n + 1]
      BY DEF Complete, BufferSteps
    <2>1. CASE n = 0 BY <2>1
    <2>2. CASE n = 1 BY <2>2 DEF BufferSteps, BufferUndone
    <2>3. CASE n = 2 BY <2>3 DEF BufferSteps, BufferUndone
    <2> QED BY <2>1, <2>2, <2>3
  <1>2. Complete(TextureSteps, TextureUndone)
    <2> SUFFICES ASSUME NEW n \in 0 .. 3 PROVE Prefix(TextureSteps, n) \subseteq TextureUndone[n + 1]
      BY DEF Complete, TextureSteps
    <2>1. CASE n = 0 BY <2>1
    <2>2. CASE n = 1 BY <2>2 DEF TextureSteps, TextureUndone
    <2>3. CASE n = 2 BY <2>3 DEF TextureSteps, TextureUndone
    <2>4. CASE n = 3 BY <2>4 DEF TextureSteps, TextureUndone
    <2> QED BY <2>1, <2>2, <2>3, <2>4
  <1>3. Complete(SamplerSteps, SamplerUndone)
    <2> SUFFICES ASSUME NEW n \in 0 .. 1 PROVE Prefix(SamplerSteps, n) \subseteq SamplerUndone[n + 1]
      BY DEF Complete, SamplerSteps
    <2>1. CASE n = 0 BY <2>1
    <2>2. CASE n = 1 BY <2>2 DEF SamplerSteps, SamplerUndone
    <2> QED BY <2>1, <2>2
  <1>4. Complete(CmdBufSteps, CmdBufUndone)
    <2> SUFFICES ASSUME NEW n \in 0 .. 2 PROVE Prefix(CmdBufSteps, n) \subseteq CmdBufUndone[n + 1]
      BY DEF Complete, CmdBufSteps
    <2>1. CASE n = 0 BY <2>1
    <2>2. CASE n = 1 BY <2>2 DEF CmdBufSteps, CmdBufUndone
    <2>3. CASE n = 2 BY <2>3 DEF CmdBufSteps, CmdBufUndone
    <2> QED BY <2>1, <2>2, <2>3
  <1>5. Complete(<<>>, <<{}>>)
    BY DEF Complete
  <1> QED BY <1>1, <1>2, <1>3, <1>4, <1>5

\* A handler whose error paths are complete leaves an entry with its objects,
\* or nothing.
LEMMA HandlerCreates ==
    ASSUME NEW h, NEW steps, NEW undone,
           Complete(steps, undone), Len(steps) \in Nat,
           {steps[i] : i \in 1 .. Len(steps)} = Kinds(h),
           Handler(h, steps, undone)
    PROVE  Creates(h)
  <1> USE DEF Handler
  <1>1. CASE Make(h, steps)
    <2>1. {Object(steps[i], created') : i \in 1 .. Len(steps)} = ObjectsOf(h, created')
      BY DEF ObjectsOf
    <2> QED BY <1>1, <2>1 DEF Make, Creates, Success
  <1>2. CASE Abandon(h, steps, undone)
    <2>1. PICK n \in 0 .. Len(steps) :
             vkLive' = vkLive \cup {Object(k, created') :
                          k \in {steps[i] : i \in 1 .. n} \ undone[n + 1]}
      BY <1>2 DEF Abandon
    <2>2. {steps[i] : i \in 1 .. n} \ undone[n + 1] = {}
      BY DEF Complete
    <2>3. vkLive' = vkLive
      BY <2>1, <2>2
    <2> QED BY <1>2, <2>3 DEF Abandon, Creates
  <1> QED BY <1>1, <1>2

\* The handle says which objects there are.
LEMMA KindsOf ==
    /\ \A h \in Buffers : Kinds(h) = {"buffer", "memory"}
    /\ \A h \in Textures : Kinds(h) = {"image", "memory", "view"}
    /\ \A h \in Samplers : Kinds(h) = {"sampler"}
    /\ \A h \in CmdBufs : Kinds(h) = {"cmdbuf", "fence"}
    /\ \A h \in Placeholders : Kinds(h) = {}
    /\ \A h : Kinds(h) \subseteq AllKinds
  BY HandlesAssumption DEF Kinds, AllKinds, Textures

\* The five creations are creations.
LEMMA CreationsCreate ==
    /\ \A h \in Buffers : CreateBuffer(h) => Creates(h)
    /\ \A h \in Textures : CreateTexture(h) => Creates(h)
    /\ \A h \in Samplers : CreateSampler(h) => Creates(h)
    /\ \A h \in Placeholders : CreatePlaceholder(h) => Creates(h)
    /\ \A h \in CmdBufs : CmdBufCreate(h) => Creates(h)
  <1>0. /\ Len(BufferSteps) \in Nat /\ Len(TextureSteps) \in Nat
        /\ Len(SamplerSteps) \in Nat /\ Len(CmdBufSteps) \in Nat
    BY DEF BufferSteps, TextureSteps, SamplerSteps, CmdBufSteps
  <1>1. ASSUME NEW h \in Buffers, CreateBuffer(h) PROVE Creates(h)
    BY <1>0, <1>1, AllMade, KindsOf, UndoneComplete, HandlerCreates DEF CreateBuffer
  <1>2. ASSUME NEW h \in Textures, CreateTexture(h) PROVE Creates(h)
    BY <1>0, <1>2, AllMade, KindsOf, UndoneComplete, HandlerCreates DEF CreateTexture
  <1>3. ASSUME NEW h \in Samplers, CreateSampler(h) PROVE Creates(h)
    BY <1>0, <1>3, AllMade, KindsOf, UndoneComplete, HandlerCreates DEF CreateSampler
  <1>4. ASSUME NEW h \in Placeholders, CreatePlaceholder(h) PROVE Creates(h)
    <2>1. Kinds(h) = {}
      BY KindsOf
    <2>2. Len(<<>>) = 0 /\ {<<>>[i] : i \in 1 .. Len(<<>>)} = {}
      OBVIOUS
    <2> QED BY <1>4, <2>1, <2>2, UndoneComplete, HandlerCreates DEF CreatePlaceholder
  <1>5. ASSUME NEW h \in CmdBufs, CmdBufCreate(h) PROVE Creates(h)
    BY <1>0, <1>5, AllMade, KindsOf, UndoneComplete, HandlerCreates DEF CmdBufCreate
  <1> QED BY <1>1, <1>2, <1>3, <1>4, <1>5

-----------------------------------------------------------------------------
(* The other commands leave entries, objects and identifiers alone.        *)

SameEntries ==
    /\ created' = created
    /\ tracker' \in [Tracked -> Entries]
    /\ \A h \in Tracked : /\ tracker'[h].id = tracker[h].id
                          /\ tracker'[h].objects = tracker[h].objects

Same == SameEntries /\ UNCHANGED <<vkLive, orphans>>

Encodes(c) ==
    \/ \E t \in Colors \cup {NoTexture}, l \in Levels,
          d \in Depths \cup {NoTexture} : RenderBegin(c, t, l, d)
    \/ \E b \in Buffers : RenderCommand(c, b)
    \/ RenderEnd(c)

Commits(c) ==
    \/ CommitExecutes(c) \/ CommitDropped(c) \/ CommitFails(c)
    \/ CommitBlocks(c) \/ CommitUnknown(c)

\* A step that leaves the tracker alone keeps its entries.
LEMMA TrackerKept ==
    ASSUME EntriesInv, created' = created, tracker' = tracker
    PROVE  SameEntries
  BY DEF EntriesInv, SameEntries

\* A flag of one entry is lowered.
LEMMA RecordingLowered ==
    ASSUME EntriesInv, NEW c \in Tracked,
           tracker' = [tracker EXCEPT ![c].recording = FALSE]
    PROVE  /\ tracker' \in [Tracked -> Entries]
           /\ \A h \in Tracked :
                 /\ tracker'[h].id = tracker[h].id
                 /\ tracker'[h].objects = tracker[h].objects
                 /\ tracker'[h].current_layout = tracker[h].current_layout
                 /\ tracker'[h].in_render_pass = tracker[h].in_render_pass
           /\ \A h \in Tracked \ {c} : tracker'[h] = tracker[h]
           /\ ~ tracker'[c].recording
  <1>1. tracker \in [Tracked -> Entries] /\ tracker[c] \in Entries
    BY DEF EntriesInv
  <1> DEFINE e == [tracker[c] EXCEPT !.recording = FALSE]
  <1>2. tracker' = [tracker EXCEPT ![c] = e]
    OBVIOUS
  <1>3. /\ e \in Entries
        /\ e.id = tracker[c].id /\ e.objects = tracker[c].objects
        /\ e.current_layout = tracker[c].current_layout
        /\ e.in_render_pass = tracker[c].in_render_pass
        /\ e.recording = FALSE
    BY <1>1 DEF Entries
  <1> HIDE DEF e
  <1>4. /\ tracker'[c] = e /\ tracker' \in [Tracked -> Entries]
        /\ \A h \in Tracked \ {c} : tracker'[h] = tracker[h]
    BY <1>1, <1>2, <1>3
  <1>5. ~ e.recording
    BY <1>3
  <1>6. \A h \in Tracked :
           /\ tracker'[h].id = tracker[h].id
           /\ tracker'[h].objects = tracker[h].objects
           /\ tracker'[h].current_layout = tracker[h].current_layout
           /\ tracker'[h].in_render_pass = tracker[h].in_render_pass
    BY <1>3, <1>4
  <1> QED BY <1>4, <1>5, <1>6

\* A pass ends on the entry of its command buffer.
LEMMA PassLowered ==
    ASSUME EntriesInv, NEW c \in Tracked,
           tracker' = [tracker EXCEPT ![c].in_render_pass = FALSE]
    PROVE  /\ tracker' \in [Tracked -> Entries]
           /\ \A h \in Tracked :
                 /\ tracker'[h].id = tracker[h].id
                 /\ tracker'[h].objects = tracker[h].objects
                 /\ tracker'[h].current_layout = tracker[h].current_layout
                 /\ tracker'[h].recording = tracker[h].recording
           /\ \A h \in Tracked \ {c} : tracker'[h] = tracker[h]
           /\ ~ tracker'[c].in_render_pass
  <1>1. tracker \in [Tracked -> Entries] /\ tracker[c] \in Entries
    BY DEF EntriesInv
  <1> DEFINE e == [tracker[c] EXCEPT !.in_render_pass = FALSE]
  <1>2. tracker' = [tracker EXCEPT ![c] = e]
    OBVIOUS
  <1>3. /\ e \in Entries
        /\ e.id = tracker[c].id /\ e.objects = tracker[c].objects
        /\ e.current_layout = tracker[c].current_layout
        /\ e.recording = tracker[c].recording
        /\ e.in_render_pass = FALSE
    BY <1>1 DEF Entries
  <1> HIDE DEF e
  <1>4. /\ tracker'[c] = e /\ tracker' \in [Tracked -> Entries]
        /\ \A h \in Tracked \ {c} : tracker'[h] = tracker[h]
    BY <1>1, <1>2, <1>3
  <1>5. ~ e.in_render_pass
    BY <1>3
  <1>6. \A h \in Tracked :
           /\ tracker'[h].id = tracker[h].id
           /\ tracker'[h].objects = tracker[h].objects
           /\ tracker'[h].current_layout = tracker[h].current_layout
           /\ tracker'[h].recording = tracker[h].recording
    BY <1>3, <1>4
  <1> QED BY <1>4, <1>5, <1>6

\* Encoding adds no entry and takes none away.
LEMMA EncodesSame ==
    ASSUME EntriesInv, NEW c \in CmdBufs, Encodes(c)
    PROVE  Same
  <1>1. ASSUME NEW t \in Colors \cup {NoTexture}, NEW l \in Levels,
               NEW d \in Depths \cup {NoTexture}, RenderBegin(c, t, l, d)
        PROVE  Same
    <2>1. CASE c \in Tracked
      <3>1. tracker' = [h \in Tracked |->
                  [tracker[h] EXCEPT
                     !.in_render_pass = IF h = c THEN TRUE ELSE @,
                     !.current_layout = IF h = t THEN "color" ELSE @]]
        BY <1>1, <2>1 DEF RenderBegin, RaisedFlag
      <3>2. \A h \in Tracked : tracker[h] \in Entries
        BY DEF EntriesInv
      <3>3. \A h \in Tracked : /\ tracker'[h] \in Entries
                               /\ tracker'[h].id = tracker[h].id
                               /\ tracker'[h].objects = tracker[h].objects
        BY <3>1, <3>2 DEF Entries, Layouts
      <3> QED BY <1>1, <3>1, <3>3 DEF Same, SameEntries, RenderBegin
    <2>2. CASE c \notin Tracked
      BY <1>1, <2>2, TrackerKept DEF RenderBegin, Same
    <2> QED BY <2>1, <2>2
  <1>2. ASSUME NEW b \in Buffers, RenderCommand(c, b) PROVE Same
    BY <1>2, TrackerKept DEF RenderCommand, Same
  <1>3. ASSUME RenderEnd(c) PROVE Same
    <2>1. CASE c \in Tracked /\ tracker[c].in_render_pass
      <3>1. tracker' = [tracker EXCEPT ![c].in_render_pass = FALSE]
        BY <1>3, <2>1 DEF RenderEnd
      <3> QED BY <1>3, <2>1, <3>1, PassLowered DEF Same, SameEntries, RenderEnd
    <2>2. CASE ~ (c \in Tracked /\ tracker[c].in_render_pass)
      BY <1>3, <2>2, TrackerKept DEF RenderEnd, Same
    <2> QED BY <2>1, <2>2
  <1> QED BY <1>1, <1>2, <1>3 DEF Encodes

\* Nor does submission.
LEMMA CommitsSame ==
    ASSUME EntriesInv, NEW c \in CmdBufs, Commits(c)
    PROVE  Same
  <1>1. CASE CommitUnknown(c)
    BY <1>1, TrackerKept DEF CommitUnknown, Same, vars, vkVars
  <1>2. CASE ~ CommitUnknown(c)
    <2>1. Commit(c)
      BY <1>2 DEF Commits, CommitExecutes, CommitDropped, CommitFails, CommitBlocks
    <2>2. c \in Tracked /\ tracker' = [tracker EXCEPT ![c].recording = FALSE]
      BY <2>1 DEF Commit
    <2> QED BY <2>1, <2>2, RecordingLowered DEF Same, SameEntries, Commit
  <1> QED BY <1>1, <1>2

\* What a step does to the tracker and to the objects.
LEMMA NextCases ==
    ASSUME EntriesInv, Next
    PROVE  \/ \E h \in Handles : Creates(h)
           \/ \E h \in Destroyable : Destroy(h)
           \/ Same
           \/ Shutdown
  BY CreationsCreate, EncodesSame, CommitsSame
     DEF Next, Encodes, Commits, Handles, Destroyable, Textures

-----------------------------------------------------------------------------
(* Entries, capacity and ownership.                                        *)

\* A creation that succeeds adds one entry with the next identifier.
LEMMA NewEntry ==
    ASSUME NEW h, Success(h), created \in Nat, created' = created + 1
    PROVE  /\ h \notin Tracked
           /\ DOMAIN tracker' = Tracked \cup {h}
           /\ tracker' = [g \in Tracked \cup {h} |->
                            IF g = h THEN tracker'[h] ELSE tracker[g]]
           /\ tracker'[h] \in Entries
           /\ tracker'[h].id = created + 1
           /\ tracker'[h].objects = ObjectsOf(h, created + 1)
           /\ tracker'[h].current_layout = "undefined"
  <1>1. ObjectsOf(h, created') \in SUBSET (AllKinds \X Nat)
    BY KindsOf DEF ObjectsOf, Object
  <1>2. Entry(h, ObjectsOf(h, created')) \in Entries
    BY <1>1 DEF Entry, Entries, Layouts
  <1>3. tracker' = Put(tracker, h, Entry(h, ObjectsOf(h, created')))
    BY DEF Success
  <1>4. /\ DOMAIN tracker' = Tracked \cup {h}
        /\ tracker'[h] = Entry(h, ObjectsOf(h, created'))
        /\ tracker' = [g \in Tracked \cup {h} |->
                            IF g = h THEN tracker'[h] ELSE tracker[g]]
    BY <1>3 DEF Put, Tracked
  <1> QED BY <1>2, <1>4 DEF Success, CanAdd, Entry

\* Entries stay distinct, with the objects of their handles.
LEMMA EntriesStep ==
    ASSUME EntriesInv, Next
    PROVE  EntriesInv'
  <1>1. ASSUME NEW h \in Handles, Creates(h)
        PROVE  EntriesInv'
    <2>1. CASE Success(h)
      <3>1. created' = created + 1 /\ created \in Nat
        BY <1>1 DEF Creates, EntriesInv
      <3>2. /\ h \notin Tracked
            /\ DOMAIN tracker' = Tracked \cup {h}
            /\ tracker' = [g \in Tracked \cup {h} |->
                            IF g = h THEN tracker'[h] ELSE tracker[g]]
            /\ tracker'[h] \in Entries
            /\ tracker'[h].id = created + 1
            /\ tracker'[h].objects = ObjectsOf(h, created + 1)
        BY <2>1, <3>1, NewEntry
      <3>3. \A g \in Tracked : tracker'[g] = tracker[g]
        BY <3>2
      <3>4. tracker' \in [Tracked \cup {h} -> Entries]
        BY <3>2, <3>3 DEF EntriesInv
      <3>5. \A g \in Tracked : tracker[g].id \in 1 .. created
        BY DEF EntriesInv
      <3>6. \A g \in Tracked \cup {h} :
               /\ tracker'[g].id \in 1 .. created'
               /\ tracker'[g].objects = ObjectsOf(g, tracker'[g].id)
        BY <3>1, <3>2, <3>3, <3>5 DEF EntriesInv
      <3>7. \A f, g \in Tracked \cup {h} : tracker'[f].id = tracker'[g].id => f = g
        BY <3>1, <3>2, <3>3, <3>5 DEF EntriesInv
      <3> QED BY <3>1, <3>2, <3>4, <3>6, <3>7 DEF EntriesInv, Tracked
    <2>2. CASE UNCHANGED <<tracker, vkLive>>
      BY <1>1, <2>2 DEF EntriesInv, Creates, Tracked
    <2> QED BY <1>1, <2>1, <2>2 DEF Creates
  <1>2. ASSUME NEW h \in Destroyable, Destroy(h)
        PROVE  EntriesInv'
    BY <1>2 DEF EntriesInv, Destroy, Tracked
  <1>3. CASE Same
    BY <1>3 DEF EntriesInv, Same, SameEntries, Tracked
  <1>4. CASE Shutdown
    BY <1>4 DEF EntriesInv, Shutdown, Tracked
  <1> QED BY <1>1, <1>2, <1>3, <1>4, NextCases

\* A creation is refused when the pool is empty.
LEMMA CapacityStep ==
    ASSUME EntriesInv, CapacityInv, Next
    PROVE  CapacityInv'
  <1>0. MaxEntries \in Nat
    BY ProcessorAssumption
  <1>1. ASSUME NEW h \in Handles, Creates(h)
        PROVE  CapacityInv'
    <2>1. CASE Success(h)
      <3>1. h \notin Tracked /\ DOMAIN tracker' = Tracked \cup {h}
        BY <1>1, <2>1, NewEntry DEF Creates, EntriesInv
      <3>2. Cardinality(Tracked) < MaxEntries /\ Cardinality(Tracked) \in Nat
        BY <2>1, FS_CardinalityType DEF Success, CanAdd, CapacityInv
      <3>3. /\ IsFiniteSet(Tracked \cup {h})
            /\ Cardinality(Tracked \cup {h}) = Cardinality(Tracked) + 1
        BY <3>1, FS_AddElement DEF CapacityInv
      <3> QED BY <1>0, <3>1, <3>2, <3>3 DEF CapacityInv, Tracked
    <2>2. CASE UNCHANGED <<tracker, vkLive>>
      BY <2>2 DEF CapacityInv, Tracked
    <2> QED BY <1>1, <2>1, <2>2 DEF Creates
  <1>2. ASSUME NEW h \in Destroyable, Destroy(h)
        PROVE  CapacityInv'
    <2>1. DOMAIN tracker' = Tracked \ {h}
      BY <1>2 DEF Destroy, Tracked
    <2>2. IsFiniteSet(Tracked \ {h}) /\ Cardinality(Tracked \ {h}) <= Cardinality(Tracked)
      BY FS_Subset DEF CapacityInv
    <2>3. Cardinality(Tracked \ {h}) \in Nat /\ Cardinality(Tracked) \in Nat
      BY <2>2, FS_CardinalityType DEF CapacityInv
    <2> QED BY <1>0, <2>1, <2>2, <2>3 DEF CapacityInv, Tracked
  <1>3. CASE Same
    BY <1>3 DEF CapacityInv, Same, SameEntries, Tracked
  <1>4. CASE Shutdown
    <2>1. DOMAIN tracker' = {}
      BY <1>4 DEF Shutdown
    <2> QED BY <1>0, <2>1, FS_EmptySet DEF CapacityInv, Tracked
  <1> QED BY <1>1, <1>2, <1>3, <1>4, NextCases

\* Owned objects bear the identifier of their entry.
LEMMA OwnedObjects ==
    ASSUME EntriesInv
    PROVE  /\ \A o : o \in Owned <=> \E h \in Tracked : o \in tracker[h].objects
           /\ \A h \in Tracked : \A o \in tracker[h].objects :
                 o \in AllKinds \X (1 .. created) /\ o[2] = tracker[h].id
  <1>1. \A o : o \in Owned <=> \E h \in Tracked : o \in tracker[h].objects
    BY DEF Owned
  <1>2. ASSUME NEW h \in Tracked, NEW o \in tracker[h].objects
        PROVE  o \in AllKinds \X (1 .. created) /\ o[2] = tracker[h].id
    <2>1. PICK k \in Kinds(h) : o = Object(k, tracker[h].id)
      BY <1>2 DEF EntriesInv, ObjectsOf
    <2>2. k \in AllKinds /\ tracker[h].id \in 1 .. created
      BY KindsOf DEF EntriesInv
    <2> QED BY <2>1, <2>2 DEF Object
  <1> QED BY <1>1, <1>2

\* Distinct identifiers make owners unique.
LEMMA OwnershipHolds ==
    ASSUME EntriesInv, OwnerInv
    PROVE  Ownership
  <1>1. Owned \cap orphans = {}
    BY OwnedObjects DEF OwnerInv
  <1>2. ASSUME NEW g \in Tracked, NEW h \in Tracked, g # h
        PROVE  tracker[g].objects \cap tracker[h].objects = {}
    BY <1>2, OwnedObjects DEF EntriesInv
  <1> QED BY <1>1, <1>2 DEF Ownership, OwnerInv

\* Live objects are owned, or orphans of a removed entry.
LEMMA OwnerStep ==
    ASSUME EntriesInv, OwnerInv, Next
    PROVE  OwnerInv'
  <1>0. EntriesInv' /\ created \in Nat
    BY EntriesStep DEF EntriesInv
  <1>1. ASSUME NEW h \in Handles, Creates(h)
        PROVE  OwnerInv'
    <2>1. CASE Success(h)
      <3>1. created' = created + 1 /\ orphans' = orphans
        BY <1>1 DEF Creates
      <3>2. /\ h \notin Tracked
            /\ DOMAIN tracker' = Tracked \cup {h}
            /\ tracker' = [g \in Tracked \cup {h} |->
                            IF g = h THEN tracker'[h] ELSE tracker[g]]
            /\ tracker'[h].id = created + 1
            /\ tracker'[h].objects = ObjectsOf(h, created + 1)
        BY <1>0, <2>1, <3>1, NewEntry
      <3>3. \A g \in Tracked : tracker'[g] = tracker[g]
        BY <3>2
      <3>4. Owned' = Owned \cup ObjectsOf(h, created + 1)
        BY <3>2, <3>3 DEF Owned, Tracked
      <3>5. vkLive' = vkLive \cup ObjectsOf(h, created + 1)
        BY <2>1, <3>1 DEF Success
      <3>6. orphans' \subseteq AllKinds \X (1 .. created')
        BY <1>0, <3>1 DEF OwnerInv
      <3>7. \A o \in orphans : o[2] \in 1 .. created
        BY DEF OwnerInv
      <3>8. \A o \in orphans : \A g \in Tracked \cup {h} : o[2] # tracker'[g].id
        BY <1>0, <3>2, <3>3, <3>7 DEF OwnerInv
      <3> QED BY <3>1, <3>2, <3>4, <3>5, <3>6, <3>8 DEF OwnerInv, Tracked
    <2>2. CASE UNCHANGED <<tracker, vkLive>>
      <3>1. Owned' = Owned /\ created' = created + 1 /\ orphans' = orphans
        BY <1>1, <2>2 DEF Owned, Tracked, Creates
      <3> QED BY <1>0, <2>2, <3>1 DEF OwnerInv, Tracked
    <2> QED BY <1>1, <2>1, <2>2 DEF Creates
  <1>2. ASSUME NEW h \in Destroyable, Destroy(h)
        PROVE  OwnerInv'
    <2>1. /\ h \in Tracked
          /\ tracker' = [g \in Tracked \ {h} |-> tracker[g]]
          /\ vkLive' = vkLive
          /\ orphans' = orphans \cup tracker[h].objects
          /\ created' = created
      BY <1>2 DEF Destroy, vkVars
    <2>2. Owned = Owned' \cup tracker[h].objects
      BY <2>1 DEF Owned, Tracked
    <2>3. \A o \in tracker[h].objects :
             o \in AllKinds \X (1 .. created) /\ o[2] = tracker[h].id
      BY <2>1, OwnedObjects
    <2>4. \A g \in Tracked \ {h} : tracker[g].id # tracker[h].id
      BY <2>1 DEF EntriesInv
    <2> QED BY <2>1, <2>2, <2>3, <2>4 DEF OwnerInv, Tracked
  <1>3. CASE Same
    <2>1. Owned' = Owned
      BY <1>3 DEF Same, SameEntries, Owned, Tracked
    <2> QED BY <1>3, <2>1 DEF OwnerInv, Same, SameEntries, Tracked
  <1>4. CASE Shutdown
    <2>1. /\ DOMAIN tracker' = {} /\ vkLive' = vkLive /\ created' = created
          /\ orphans' = orphans \cup Owned
      BY <1>4 DEF Shutdown, vkVars
    <2>2. Owned' = {}
      BY <2>1 DEF Owned, Tracked
    <2>3. Owned \subseteq AllKinds \X (1 .. created)
      BY OwnedObjects
    <2> QED BY <2>1, <2>2, <2>3 DEF OwnerInv, Tracked
  <1> QED BY <1>1, <1>2, <1>3, <1>4, NextCases

-----------------------------------------------------------------------------
(* Layouts, contents and states of what Vulkan has.                        *)

\* The actions, with what the creations leave alone.
LEMMA NextActions ==
    ASSUME Next
    PROVE  \/ \E h \in Buffers \cup Samplers \cup Placeholders :
                 Creates(h) /\ UNCHANGED <<vkLayout, vkRecorded, vkState>>
           \/ \E h \in Textures : Creates(h) /\ CreateTexture(h)
           \/ \E c \in CmdBufs : Creates(c) /\ CmdBufCreate(c)
           \/ \E h \in Destroyable : Destroy(h)
           \/ \E c \in CmdBufs : Encodes(c)
           \/ \E c \in CmdBufs : Commits(c)
           \/ Shutdown
  BY CreationsCreate
     DEF Next, Encodes, Commits, CreateBuffer, CreateSampler, CreatePlaceholder

\* Two commands appended one after the other.
LEMMA PairIsConcat ==
    ASSUME NEW S, NEW x \in S, NEW y \in S
    PROVE  <<x>> \o <<y>> = <<x, y>> /\ <<x, y>> \in Seq(S)
  <1> DEFINE s == <<x>> \o <<y>>
             r == <<x, y>>
  <1>1. s \in Seq(S) /\ r \in Seq(S)
    OBVIOUS
  <1>2. Len(s) = 2 /\ s[1] = x /\ s[2] = y
    OBVIOUS
  <1>3. Len(r) = 2 /\ r[1] = x /\ r[2] = y
    OBVIOUS
  <1> HIDE DEF s, r
  <1>4. \A i \in 1 .. Len(s) : s[i] = r[i]
    BY <1>2, <1>3
  <1>5. s = r
    BY <1>1, <1>2, <1>3, <1>4, SeqEqual
  <1> QED BY <1>1, <1>5 DEF s, r

\* The commands RENDER_BEGIN records.
BeginOps(t, l, d) ==
    ColorBarrier(t, l) \o << [op |-> "begin", uses |-> Attachments(t, d)] >>

BeginOf(t, d) == [op |-> "begin", uses |-> Attachments(t, d)]

BarrierOf(t, l) ==
    [op |-> "barrier", image |-> tracker[t].id, level |-> l,
     old |-> tracker[t].current_layout, new |-> "color"]

\* RENDER_BEGIN records a barrier if it needs one, and the start of the pass.
LEMMA BeginOpsShape ==
    ASSUME EntriesInv, NEW t \in Colors \cup {NoTexture}, NEW l \in Levels,
           NEW d \in Depths \cup {NoTexture}
    PROVE  /\ BeginOf(t, d) \in Commands
           /\ BeginOps(t, l, d) \in Seq(Commands)
           /\ \/ /\ t \in Tracked /\ NeedsBarrier(t) /\ BarrierOf(t, l) \in Commands
                 /\ BeginOps(t, l, d) = <<BarrierOf(t, l), BeginOf(t, d)>>
              \/ /\ t \notin Tracked \/ ~ NeedsBarrier(t)
                 /\ BeginOps(t, l, d) = <<BeginOf(t, d)>>
  <1>1. \A h \in Tracked : tracker[h].id \in Nat /\ tracker[h].current_layout \in Layouts
    BY DEF EntriesInv, Entries
  <1>2. Attachments(t, d) \in SUBSET [image : Nat, layout : Layouts]
    BY <1>1 DEF Attachments, Layouts
  <1>3. BeginOf(t, d) \in Commands
    BY <1>2 DEF Commands, BeginOf
  <1>4. CASE t \in Tracked /\ NeedsBarrier(t)
    <2>1. BarrierOf(t, l) \in Commands
      BY <1>1, <1>4 DEF Commands, BarrierOf
    <2>2. ColorBarrier(t, l) = <<BarrierOf(t, l)>>
      BY <1>4 DEF ColorBarrier, BarrierOf
    <2>3. BeginOps(t, l, d) = <<BarrierOf(t, l)>> \o <<BeginOf(t, d)>>
      BY <2>2 DEF BeginOps, BeginOf
    <2>4. /\ BeginOps(t, l, d) = <<BarrierOf(t, l), BeginOf(t, d)>>
          /\ BeginOps(t, l, d) \in Seq(Commands)
      BY <1>3, <2>1, <2>3, PairIsConcat
    <2> QED BY <1>3, <1>4, <2>1, <2>4
  <1>5. CASE ~ (t \in Tracked /\ NeedsBarrier(t))
    <2>1. ColorBarrier(t, l) = <<>>
      BY <1>5 DEF ColorBarrier
    <2>2. BeginOps(t, l, d) = <<>> \o <<BeginOf(t, d)>>
      BY <2>1 DEF BeginOps, BeginOf
    <2>3. /\ BeginOps(t, l, d) = <<BeginOf(t, d)>>
          /\ BeginOps(t, l, d) \in Seq(Commands)
      BY <1>3, <2>2
    <2> QED BY <1>3, <1>5, <2>3
  <1> QED BY <1>4, <1>5

\* What recording leaves.
LEMMA Appended ==
    ASSUME VulkanInv, NEW c \in Tracked \cap CmdBufs, NEW ops \in Seq(Commands),
           Record(c, ops)
    PROVE  vkRecorded' \in [CmdBufIds -> Seq(Commands)]
  <1>1. vkRecorded \in [CmdBufIds -> Seq(Commands)] /\ Cb(c) \in CmdBufIds
    BY DEF VulkanInv, Cb
  <1>2. CASE vkRecorded' = [vkRecorded EXCEPT ![Cb(c)] = @ \o ops]
    <2> DEFINE new == vkRecorded[Cb(c)] \o ops
    <2>1. new \in Seq(Commands)
      BY <1>1
    <2> QED BY <1>1, <1>2, <2>1
  <1>3. CASE vkRecorded' = vkRecorded
    BY <1>1, <1>3
  <1> QED BY <1>2, <1>3 DEF Record

\* The greatest of some places in a sequence.
LEMMA MaxOf ==
    ASSUME NEW n \in Nat, NEW S \in SUBSET (1 .. n), S # {}
    PROVE  Max(S) \in S /\ \A y \in S : y <= Max(S)
  <1> DEFINE D == {n - y : y \in S}
  <1>1. D \in SUBSET Nat /\ D # {}
    <2>1. \A y \in S : n - y \in Nat
      OBVIOUS
    <2>2. PICK y \in S : TRUE
      OBVIOUS
    <2>3. n - y \in D
      BY <2>2
    <2> QED BY <2>1, <2>3
  <1>2. PICK m \in D : \A d \in D : ~ (<<d, m>> \in OpToRel(<, Nat))
    BY <1>1, NatLessThanWellFounded, WFMin
  <1>3. ASSUME NEW d \in D PROVE m <= d
    <2>1. <<d, m>> \in Nat \X Nat /\ <<d, m>>[1] = d /\ <<d, m>>[2] = m
      BY <1>1
    <2>2. d < m => <<d, m>> \in OpToRel(<, Nat)
      BY <2>1, Zenon DEF OpToRel
    <2>3. ~ (d < m)
      BY <1>2, <2>2, Zenon
    <2> QED BY <1>1, <2>3
  <1>4. PICK x \in S : m = n - x
    BY <1>2
  <1>5. ASSUME NEW y \in S PROVE y <= x
    <2>1. m <= n - y
      BY <1>3
    <2>2. x \in Int /\ y \in Int
      BY <1>4
    <2> QED BY <1>4, <2>1, <2>2
  <1>6. \A y \in S : x >= y
    BY <1>5
  <1>7. Max(S) \in S /\ \A y \in S : Max(S) >= y
    BY <1>6, Zenon DEF Max
  <1> QED BY <1>7

\* Execution changes layouts only.
LEMMA LayoutAfterType ==
    ASSUME VulkanInv, NEW ops \in Seq(Commands)
    PROVE  LayoutAfter(ops) \in [DOMAIN vkLayout -> [Levels -> Layouts]]
  <1>1. ASSUME NEW i \in DOMAIN vkLayout, NEW l \in Levels, Moves(ops, i, l) # {}
        PROVE  ops[Max(Moves(ops, i, l))].new \in Layouts
    <2>1. Len(ops) \in Nat /\ Moves(ops, i, l) \in SUBSET (1 .. Len(ops))
      BY DEF Moves
    <2>2. PICK k \in Moves(ops, i, l) : k = Max(Moves(ops, i, l))
      BY <1>1, <2>1, MaxOf
    <2>3. ops[k] \in Commands /\ ops[k].op = "barrier"
      BY <2>1 DEF Moves
    <2>4. ops[k].new = "color"
      BY <2>3 DEF Commands
    <2> QED BY <2>2, <2>4 DEF Layouts
  <1>2. \A i \in DOMAIN vkLayout : \A l \in Levels : vkLayout[i][l] \in Layouts
    BY DEF VulkanInv
  <1> QED BY <1>1, <1>2 DEF LayoutAfter

\* Handles of one kind are not of another.
LEMMA OtherHandles ==
    /\ \A h \in Buffers \cup Samplers \cup Placeholders :
          h \notin Textures /\ h \notin CmdBufs
    /\ \A h \in Textures : h \notin CmdBufs
    /\ \A h \in Destroyable : h \notin CmdBufs
  BY HandlesAssumption DEF Textures, Destroyable

\* Vulkan keeps a layout, a content and a state for each entry.
LEMMA VulkanStep ==
    ASSUME EntriesInv, VulkanInv, Next
    PROVE  VulkanInv'
  <1> DEFINE States == {"initial", "recording", "rendering", "executable"}
  <1>0. EntriesInv' /\ created \in Nat
    BY EntriesStep DEF EntriesInv
  <1>1. ASSUME NEW h \in Handles, Creates(h)
        PROVE  /\ created' = created + 1
               /\ \A g \in DOMAIN tracker' :
                     \/ g \in Tracked /\ tracker'[g].id = tracker[g].id
                     \/ g = h /\ Added(h) /\ tracker'[g].id = created'
    <2>1. created' = created + 1
      BY <1>1 DEF Creates
    <2>2. CASE Success(h)
      <3>1. /\ h \notin Tracked
            /\ DOMAIN tracker' = Tracked \cup {h}
            /\ tracker' = [g \in Tracked \cup {h} |->
                            IF g = h THEN tracker'[h] ELSE tracker[g]]
            /\ tracker'[h].id = created + 1
        BY <1>0, <2>1, <2>2, NewEntry
      <3>2. Added(h)
        BY <3>1 DEF Added
      <3>3. \A g \in Tracked : tracker'[g] = tracker[g]
        BY <3>1
      <3> QED BY <2>1, <3>1, <3>2, <3>3
    <2>3. CASE tracker' = tracker
      BY <2>1, <2>3 DEF Tracked
    <2> QED BY <1>1, <2>2, <2>3 DEF Creates
  <1>a. ASSUME NEW h \in Handles, Creates(h),
               vkLayout' \in [DOMAIN vkLayout' -> [Levels -> Layouts]],
               DOMAIN vkLayout' \subseteq DOMAIN vkLayout \cup {created'},
               DOMAIN vkLayout \subseteq DOMAIN vkLayout',
               vkState' \in [DOMAIN vkState' -> States],
               vkRecorded' \in [DOMAIN vkState' -> Seq(Commands)],
               DOMAIN vkState' \subseteq CmdBufIds \cup {created'},
               CmdBufIds \subseteq DOMAIN vkState',
               h \in Textures /\ Added(h) => created' \in DOMAIN vkLayout',
               h \in CmdBufs /\ Added(h) => created' \in DOMAIN vkState'
        PROVE  VulkanInv'
    <2>1. created' = created + 1
      BY <1>1, <1>a
    <2>2. \A g \in DOMAIN tracker' :
             /\ g \in Textures => tracker'[g].id \in DOMAIN vkLayout'
             /\ g \in CmdBufs => tracker'[g].id \in DOMAIN vkState'
      <3> SUFFICES ASSUME NEW g \in DOMAIN tracker'
                   PROVE  /\ g \in Textures => tracker'[g].id \in DOMAIN vkLayout'
                          /\ g \in CmdBufs => tracker'[g].id \in DOMAIN vkState'
        OBVIOUS
      <3>1. CASE g \in Tracked /\ tracker'[g].id = tracker[g].id
        BY <1>a, <3>1 DEF VulkanInv
      <3>2. CASE g = h /\ Added(h) /\ tracker'[g].id = created'
        BY <1>a, <3>2
      <3> QED BY <1>1, <1>a, <3>1, <3>2
    <2>3. DOMAIN vkLayout' \subseteq 1 .. created' /\ DOMAIN vkState' \subseteq 1 .. created'
      <3>1. 1 .. created \cup {created'} \subseteq 1 .. created'
        BY <1>0, <2>1
      <3>2. DOMAIN vkLayout \subseteq 1 .. created /\ CmdBufIds \subseteq 1 .. created
        BY DEF VulkanInv
      <3> QED BY <1>a, <3>1, <3>2
    <2> QED BY <1>a, <2>2, <2>3 DEF VulkanInv, CmdBufIds, Tracked
  <1>2. ASSUME NEW h \in Buffers \cup Samplers \cup Placeholders,
               Creates(h), UNCHANGED <<vkLayout, vkRecorded, vkState>>
        PROVE  VulkanInv'
    <2>1. h \in Handles /\ h \notin Textures /\ h \notin CmdBufs
      BY OtherHandles DEF Handles, Destroyable
    <2> QED BY <1>a, <1>2, <2>1 DEF VulkanInv, CmdBufIds
  <1>3. ASSUME NEW h \in Textures, Creates(h), CreateTexture(h)
        PROVE  VulkanInv'
    <2>1. h \in Handles /\ h \notin CmdBufs
      BY OtherHandles DEF Handles, Destroyable
    <2>2. vkRecorded' = vkRecorded /\ vkState' = vkState
      BY <1>3 DEF CreateTexture
    <2>3. CASE Added(h)
      <3>1. vkLayout' = Put(vkLayout, created', [l \in Levels |-> "undefined"])
        BY <1>3, <2>3 DEF CreateTexture
      <3>2. [l \in Levels |-> "undefined"] \in [Levels -> Layouts]
        BY DEF Layouts
      <3>3. /\ DOMAIN vkLayout' = DOMAIN vkLayout \cup {created'}
            /\ vkLayout' \in [DOMAIN vkLayout' -> [Levels -> Layouts]]
        BY <3>1, <3>2 DEF Put, VulkanInv
      <3> QED BY <1>a, <1>3, <2>1, <2>2, <3>3 DEF VulkanInv, CmdBufIds
    <2>4. CASE ~ Added(h)
      <3>1. vkLayout' = vkLayout
        BY <1>3, <2>4 DEF CreateTexture
      <3> QED BY <1>a, <1>3, <2>1, <2>2, <2>4, <3>1 DEF VulkanInv, CmdBufIds
    <2> QED BY <2>3, <2>4
  <1>4. ASSUME NEW c \in CmdBufs, Creates(c), CmdBufCreate(c)
        PROVE  VulkanInv'
    <2>1. c \in Handles /\ c \notin Textures
      BY OtherHandles DEF Handles
    <2>2. vkLayout' = vkLayout
      BY <1>4 DEF CmdBufCreate
    <2>3. CASE Added(c)
      <3>1. /\ vkRecorded' = Put(vkRecorded, created', <<>>)
            /\ \E q \in {"recording", "initial"} : vkState' = Put(vkState, created', q)
        BY <1>4, <2>3 DEF CmdBufCreate
      <3>2. <<>> \in Seq(Commands)
        OBVIOUS
      <3>3. /\ DOMAIN vkState' = CmdBufIds \cup {created'}
            /\ vkState' \in [DOMAIN vkState' -> States]
            /\ vkRecorded' \in [DOMAIN vkState' -> Seq(Commands)]
        BY <3>1, <3>2 DEF Put, VulkanInv, CmdBufIds
      <3> QED BY <1>a, <1>4, <2>1, <2>2, <3>3 DEF VulkanInv, CmdBufIds
    <2>4. CASE ~ Added(c)
      <3>1. vkRecorded' = vkRecorded /\ vkState' = vkState
        BY <1>4, <2>4 DEF CmdBufCreate
      <3> QED BY <1>a, <1>4, <2>1, <2>2, <2>4, <3>1 DEF VulkanInv, CmdBufIds
    <2> QED BY <2>3, <2>4
  <1>5. ASSUME NEW h \in Destroyable, Destroy(h)
        PROVE  VulkanInv'
    BY <1>5 DEF VulkanInv, Destroy, vkVars, CmdBufIds, Tracked
  <1>6. ASSUME Same, vkLayout' \in [DOMAIN vkLayout -> [Levels -> Layouts]],
               vkState' \in [CmdBufIds -> States],
               vkRecorded' \in [CmdBufIds -> Seq(Commands)]
        PROVE  VulkanInv'
    <2>1. /\ DOMAIN vkLayout' = DOMAIN vkLayout /\ DOMAIN vkState' = CmdBufIds
          /\ DOMAIN tracker' = Tracked /\ created' = created
      BY <1>6 DEF Same, SameEntries
    <2>2. \A h \in Tracked : tracker'[h].id = tracker[h].id
      BY <1>6 DEF Same, SameEntries
    <2> QED BY <1>6, <2>1, <2>2 DEF VulkanInv, CmdBufIds, Tracked
  <1>7. ASSUME NEW c \in CmdBufs, Encodes(c)
        PROVE  VulkanInv'
    <2>1. Same /\ vkLayout' = vkLayout
      BY <1>7, EncodesSame DEF Encodes, RenderBegin, RenderCommand, RenderEnd
    <2>2. CASE UNCHANGED <<vkRecorded, vkState>>
      BY <1>6, <2>1, <2>2 DEF VulkanInv
    <2>3. ASSUME c \in Tracked, NEW ops \in Seq(Commands), Record(c, ops),
                 vkState' = vkState \/ \E p, q \in States : Turn(c, p, q)
          PROVE  VulkanInv'
      <3>1. vkRecorded' \in [CmdBufIds -> Seq(Commands)]
        BY <2>3, Appended
      <3>2. vkState' \in [CmdBufIds -> States]
        BY <2>3 DEF VulkanInv, Turn
      <3> QED BY <1>6, <2>1, <3>1, <3>2 DEF VulkanInv
    <2>4. ASSUME NEW t \in Colors \cup {NoTexture}, NEW l \in Levels,
                 NEW d \in Depths \cup {NoTexture}, RenderBegin(c, t, l, d)
          PROVE  VulkanInv'
      <3>1. BeginOps(t, l, d) \in Seq(Commands)
        BY BeginOpsShape
      <3>2. CASE c \in Tracked
        <4>1. Record(c, BeginOps(t, l, d)) /\ Turn(c, "recording", "rendering")
          BY <2>4, <3>2 DEF RenderBegin, BeginOps
        <4> QED BY <2>3, <3>1, <3>2, <4>1
      <3>3. CASE c \notin Tracked
        BY <2>2, <2>4, <3>3 DEF RenderBegin
      <3> QED BY <3>2, <3>3
    <2>5. ASSUME NEW b \in Buffers, RenderCommand(c, b)
          PROVE  VulkanInv'
      <3>1. CASE c \in Tracked /\ b \in Tracked
        <4>1. Record(c, << [op |-> "draw", buffer |-> tracker[b].id] >>) /\ vkState' = vkState
          BY <2>5, <3>1 DEF RenderCommand
        <4>2. tracker[b].id \in Nat
          BY <3>1 DEF EntriesInv
        <4>3. [op |-> "draw", buffer |-> tracker[b].id] \in Commands
          BY <4>2 DEF Commands
        <4>4. << [op |-> "draw", buffer |-> tracker[b].id] >> \in Seq(Commands)
          BY <4>3
        <4> QED BY <2>3, <3>1, <4>1, <4>4
      <3>2. CASE ~ (c \in Tracked /\ b \in Tracked)
        BY <2>2, <2>5, <3>2 DEF RenderCommand
      <3> QED BY <3>1, <3>2
    <2>6. ASSUME RenderEnd(c) PROVE VulkanInv'
      <3>1. CASE c \in Tracked /\ tracker[c].in_render_pass
        <4>1. /\ Record(c, << [op |-> "end"] >>)
              /\ Turn(c, "rendering", "recording")
          BY <2>6, <3>1 DEF RenderEnd
        <4>2. [op |-> "end"] \in Commands
          BY DEF Commands
        <4>3. << [op |-> "end"] >> \in Seq(Commands)
          BY <4>2
        <4> QED BY <2>3, <3>1, <4>1, <4>3
      <3>2. CASE ~ (c \in Tracked /\ tracker[c].in_render_pass)
        BY <2>2, <2>6, <3>2 DEF RenderEnd
      <3> QED BY <3>1, <3>2
    <2> QED BY <1>7, <2>4, <2>5, <2>6 DEF Encodes
  <1>8. ASSUME NEW c \in CmdBufs, Commits(c)
        PROVE  VulkanInv'
    <2>1. Same
      BY <1>8, CommitsSame
    <2>2. CASE CommitUnknown(c)
      BY <1>6, <2>1, <2>2 DEF CommitUnknown, VulkanInv, vars, vkVars
    <2>3. CASE CommitBlocks(c)
      BY <1>6, <2>1, <2>3 DEF CommitBlocks, VulkanInv
    <2>4. ASSUME NEW executed \in BOOLEAN, c \in Tracked, Finish(c, executed)
          PROVE  VulkanInv'
      <3>1. Cb(c) \in CmdBufIds /\ vkRecorded[Cb(c)] \in Seq(Commands)
        BY <2>4 DEF VulkanInv, Cb
      <3>2. vkLayout' \in [DOMAIN vkLayout -> [Levels -> Layouts]]
        <4>1. CASE executed
          BY <2>4, <3>1, <4>1, LayoutAfterType DEF Finish
        <4>2. CASE ~ executed
          BY <2>4, <4>2 DEF Finish, VulkanInv
        <4> QED BY <4>1, <4>2
      <3>3. /\ vkState' = [vkState EXCEPT ![Cb(c)] = "initial"]
            /\ vkRecorded' = [vkRecorded EXCEPT ![Cb(c)] = <<>>]
        BY <2>4 DEF Finish
      <3>4. <<>> \in Seq(Commands)
        OBVIOUS
      <3>5. vkState' \in [CmdBufIds -> States] /\ vkRecorded' \in [CmdBufIds -> Seq(Commands)]
        BY <3>3, <3>4 DEF VulkanInv
      <3> QED BY <1>6, <2>1, <3>2, <3>5
    <2> QED BY <1>8, <2>2, <2>3, <2>4
         DEF Commits, Commit, CommitExecutes, CommitDropped, CommitFails
  <1>9. CASE Shutdown
    BY <1>9 DEF VulkanInv, Shutdown, vkVars, CmdBufIds, Tracked
  <1> QED BY <1>2, <1>3, <1>4, <1>5, <1>7, <1>8, <1>9, NextActions

\* The flags of the loop stay flags.
LEMMA LoopStep ==
    ASSUME LoopInv, Next
    PROVE  LoopInv'
  <1>1. ASSUME NEW h, CreateBuffer(h) \/ CreateSampler(h) \/ CreatePlaceholder(h)
                      \/ CreateTexture(h) \/ CmdBufCreate(h)
        PROVE  LoopInv'
    BY <1>1 DEF LoopInv, Handler, CreateBuffer, CreateTexture, CreateSampler,
                CreatePlaceholder, CmdBufCreate
  <1>2. ASSUME NEW c \in CmdBufs, Encodes(c) PROVE LoopInv'
    BY <1>2 DEF LoopInv, Encodes, RenderBegin, RenderCommand, RenderEnd
  <1>3. ASSUME NEW c \in CmdBufs, Commits(c) PROVE LoopInv'
    BY <1>3 DEF LoopInv, Commits, Commit, CommitExecutes, CommitDropped, CommitFails,
                CommitBlocks, CommitUnknown, Finish, vars
  <1>4. ASSUME NEW h, Destroy(h) \/ Shutdown PROVE LoopInv'
    BY <1>4 DEF LoopInv, Destroy, Shutdown
  <1> QED BY <1>1, <1>2, <1>3, <1>4 DEF Next, Encodes, Commits

-----------------------------------------------------------------------------
(* Flags and states.                                                       *)

CoverOf(c) ==
    /\ Recording(c) => tracker[c].recording
    /\ vkState[Cb(c)] = "rendering" => tracker[c].in_render_pass

\* The invariant, command buffer by command buffer.
LEMMA FlagParts ==
    /\ FlagsCover <=> \A c \in Tracked \cap CmdBufs : CoverOf(c)
    /\ FlagsCover' <=> \A c \in (Tracked \cap CmdBufs)' : CoverOf(c)'
  BY DEF FlagsCover, CoverOf

\* RENDER_BEGIN changes the pass flag of c and the layout of t.
Raised(c, t) ==
    [h \in Tracked |->
        [tracker[h] EXCEPT !.in_render_pass = IF h = c THEN TRUE ELSE @,
                           !.current_layout = IF h = t THEN "color" ELSE @]]

\* What RENDER_BEGIN does to the tracker.
LEMMA PassRaised ==
    ASSUME EntriesInv, NEW c \in Tracked \cap CmdBufs, NEW t \in Colors \cup {NoTexture},
           tracker' = Raised(c, t)
    PROVE  /\ DOMAIN tracker' = Tracked
           /\ tracker'[c].in_render_pass
           /\ \A h \in Tracked :
                 /\ tracker'[h].id = tracker[h].id
                 /\ tracker'[h].recording = tracker[h].recording
                 /\ h # c => tracker'[h].in_render_pass = tracker[h].in_render_pass
                 /\ tracker'[h].current_layout =
                       IF h = t THEN "color" ELSE tracker[h].current_layout
  <1>1. \A h \in Tracked : tracker[h] \in Entries
    BY DEF EntriesInv
  <1> DEFINE e(h) == [tracker[h] EXCEPT
                     !.in_render_pass = IF h = c THEN TRUE ELSE @,
                     !.current_layout = IF h = t THEN "color" ELSE @]
  <1>2. DOMAIN tracker' = Tracked /\ \A h \in Tracked : tracker'[h] = e(h)
    BY DEF Raised
  <1>3. ASSUME NEW h \in Tracked
        PROVE  /\ e(h).id = tracker[h].id
               /\ e(h).recording = tracker[h].recording
               /\ e(h).in_render_pass = IF h = c THEN TRUE ELSE tracker[h].in_render_pass
               /\ e(h).current_layout =
                       IF h = t THEN "color" ELSE tracker[h].current_layout
    BY <1>1 DEF Entries
  <1> HIDE DEF e
  <1>4. tracker'[c].in_render_pass
    <2>1. e(c).in_render_pass = TRUE
      BY <1>3
    <2> QED BY <1>2, <2>1
  <1>5. ASSUME NEW h \in Tracked
        PROVE  /\ tracker'[h].id = tracker[h].id
               /\ tracker'[h].recording = tracker[h].recording
               /\ h # c => tracker'[h].in_render_pass = tracker[h].in_render_pass
               /\ tracker'[h].current_layout =
                     IF h = t THEN "color" ELSE tracker[h].current_layout
    <2>1. tracker'[h] = e(h)
      BY <1>2
    <2>2. e(h).in_render_pass = IF h = c THEN TRUE ELSE tracker[h].in_render_pass
      BY <1>3
    <2>3. h # c => e(h).in_render_pass = tracker[h].in_render_pass
      BY <2>2
    <2> QED BY <1>3, <2>1, <2>3
  <1> QED BY <1>2, <1>4, <1>5

\* The flags of an entry cover the state of its command buffer.
LEMMA FlagStep ==
    ASSUME EntriesInv, VulkanInv, FlagsCover, Next
    PROVE  FlagsCover'
  <1>0. \A c \in Tracked \cap CmdBufs : CoverOf(c)
    BY FlagParts
  <1>1. ASSUME NEW g \in Tracked \cap CmdBufs,
               tracker'[g].id = tracker[g].id,
               tracker'[g].recording = tracker[g].recording,
               tracker'[g].in_render_pass = tracker[g].in_render_pass,
               vkState'[Cb(g)] = vkState[Cb(g)]
        PROVE  CoverOf(g)'
    <2>1. Cb(g)' = Cb(g)
      BY <1>1 DEF Cb
    <2> QED BY <1>0, <1>1, <2>1 DEF CoverOf, Recording
  <1>2. \A g, h \in Tracked \cap CmdBufs : Cb(g) = Cb(h) => g = h
    BY DEF EntriesInv, Cb
  <1>3. \A g \in Tracked \cap CmdBufs : Cb(g) \in CmdBufIds /\ Cb(g) \in 1 .. created
    BY DEF VulkanInv, EntriesInv, Cb
  <1>4. ASSUME NEW h \in Handles \ CmdBufs, Creates(h), UNCHANGED vkState
        PROVE  FlagsCover'
    <2>1. \A g \in (Tracked \cap CmdBufs)' : g \in Tracked /\ tracker'[g] = tracker[g]
      <3>1. CASE Success(h)
        <4>1. /\ DOMAIN tracker' = Tracked \cup {h}
              /\ tracker' = [g \in Tracked \cup {h} |->
                            IF g = h THEN tracker'[h] ELSE tracker[g]]
          BY <1>4, <3>1, NewEntry DEF Creates, EntriesInv
        <4> QED BY <4>1 DEF Tracked
      <3>2. CASE UNCHANGED tracker
        BY <3>2 DEF Tracked
      <3> QED BY <1>4, <3>1, <3>2 DEF Creates
    <2> QED BY <1>1, <1>4, <2>1, FlagParts
  <1>5. ASSUME NEW c \in CmdBufs, Creates(c), CmdBufCreate(c)
        PROVE  FlagsCover'
    <2>1. CASE Success(c)
      <3>1. /\ created \in Nat /\ created' = created + 1
            /\ c \notin Tracked
            /\ DOMAIN tracker' = Tracked \cup {c}
            /\ tracker' = [g \in Tracked \cup {c} |->
                            IF g = c THEN tracker'[c] ELSE tracker[g]]
            /\ tracker'[c].id = created + 1
        BY <1>5, <2>1, NewEntry DEF Creates, EntriesInv
      <3>2. PICK q \in {"recording", "initial"} : vkState' = Put(vkState, created', q)
        BY <1>5, <3>1 DEF CmdBufCreate, Added
      <3>3. vkState'[created'] # "rendering"
        BY <3>2 DEF Put
      <3>4. \A i \in CmdBufIds : i # created' => vkState'[i] = vkState[i]
        BY <3>2 DEF Put, CmdBufIds
      <3>5. ASSUME NEW g \in Tracked \cap CmdBufs
            PROVE  CoverOf(g)'
        <4>1. tracker'[g] = tracker[g]
          BY <3>1
        <4>2. vkState'[Cb(g)] = vkState[Cb(g)]
          BY <1>3, <3>1, <3>4
        <4> QED BY <1>1, <4>1, <4>2
      <3>6. CoverOf(c)'
        <4>1. vkState'[Cb(c)'] # "rendering"
          BY <3>1, <3>3 DEF Cb
        <4>2. tracker'[c].recording = (c \in CmdBufs)
          BY <2>1 DEF Success, Put, Entry
        <4>3. tracker'[c].recording
          BY <4>2, Zenon
        <4> QED BY <4>1, <4>3, Zenon DEF CoverOf
      <3> QED BY <3>1, <3>5, <3>6, FlagParts DEF Tracked
    <2>2. CASE UNCHANGED <<tracker, vkLive>>
      <3>1. vkState' = vkState
        BY <1>5, <2>2 DEF CmdBufCreate, Added, Tracked
      <3>2. \A g \in Tracked \cap CmdBufs : CoverOf(g)'
        BY <1>1, <2>2, <3>1
      <3> QED BY <2>2, <3>2, FlagParts DEF Tracked
    <2> QED BY <1>5, <2>1, <2>2 DEF Creates
  <1>6. ASSUME NEW h \in Destroyable, Destroy(h)
        PROVE  FlagsCover'
    <2>1. \A g \in (Tracked \cap CmdBufs)' : g \in Tracked /\ tracker'[g] = tracker[g]
      BY <1>6 DEF Destroy, Tracked
    <2>2. vkState' = vkState
      BY <1>6 DEF Destroy, vkVars
    <2> QED BY <1>1, <2>1, <2>2, FlagParts
  <1>7. ASSUME NEW c \in CmdBufs,
               c \in Tracked => CoverOf(c)',
               DOMAIN tracker' = Tracked,
               \A g \in Tracked \ {c} : /\ tracker'[g].id = tracker[g].id
                                        /\ tracker'[g].recording = tracker[g].recording
                                        /\ tracker'[g].in_render_pass = tracker[g].in_render_pass,
               \A i \in CmdBufIds : (c \in Tracked /\ i = Cb(c)) \/ vkState'[i] = vkState[i]
        PROVE  FlagsCover'
    <2>1. ASSUME NEW g \in Tracked \cap CmdBufs
          PROVE  CoverOf(g)'
      <3>1. CASE g = c
        BY <1>7, <3>1
      <3>2. CASE g # c
        <4>1. vkState'[Cb(g)] = vkState[Cb(g)]
          BY <1>2, <1>3, <1>7, <3>2
        <4> QED BY <1>1, <1>7, <3>2, <4>1
      <3> QED BY <3>1, <3>2
    <2> QED BY <1>7, <2>1, FlagParts DEF Tracked
  <1>8. ASSUME UNCHANGED <<tracker, vkState>>
        PROVE  FlagsCover'
    BY <1>1, <1>8, FlagParts DEF Tracked
  <1>9. ASSUME NEW c \in CmdBufs, Encodes(c)
        PROVE  FlagsCover'
    <2>1. ASSUME NEW t \in Colors \cup {NoTexture}, NEW l \in Levels,
                 NEW d \in Depths \cup {NoTexture}, RenderBegin(c, t, l, d)
          PROVE  FlagsCover'
      <3>1. CASE c \in Tracked
        <4>1. Turn(c, "recording", "rendering") /\ tracker' = Raised(c, t)
          BY <2>1, <3>1 DEF RenderBegin, Raised, RaisedFlag
        <4>2. /\ DOMAIN tracker' = Tracked
              /\ tracker'[c].in_render_pass
              /\ \A h \in Tracked :
                    /\ tracker'[h].id = tracker[h].id
                    /\ tracker'[h].recording = tracker[h].recording
                    /\ h # c => tracker'[h].in_render_pass = tracker[h].in_render_pass
          BY <2>1, <3>1, <4>1, PassRaised
        <4>3. /\ vkState'[Cb(c)] \in {"recording", "rendering"}
                   => vkState[Cb(c)] \in {"recording", "rendering"}
              /\ \A i \in CmdBufIds \ {Cb(c)} : vkState'[i] = vkState[i]
          BY <1>3, <3>1, <4>1 DEF CmdBufIds, Turn
        <4>4. Cb(c)' = Cb(c)
          BY <3>1, <4>2 DEF Cb
        <4>5. tracker'[c].recording = tracker[c].recording
          BY <3>1, <4>2
        <4>6. CoverOf(c)'
          BY <1>0, <3>1, <4>2, <4>3, <4>4, <4>5, Zenon DEF CoverOf, Recording
        <4> QED BY <1>7, <3>1, <4>2, <4>3, <4>6
      <3>2. CASE c \notin Tracked
        BY <1>8, <2>1, <3>2 DEF RenderBegin
      <3> QED BY <3>1, <3>2
    <2>2. ASSUME NEW b \in Buffers, RenderCommand(c, b)
          PROVE  FlagsCover'
      BY <1>8, <2>2 DEF RenderCommand
    <2>3. ASSUME RenderEnd(c)
          PROVE  FlagsCover'
      <3>1. CASE c \in Tracked /\ tracker[c].in_render_pass
        <4>1. /\ Turn(c, "rendering", "recording")
              /\ tracker' = [tracker EXCEPT ![c].in_render_pass = FALSE]
          BY <2>3, <3>1 DEF RenderEnd
        <4>2. /\ DOMAIN tracker' = Tracked
              /\ \A h \in Tracked :
                    /\ tracker'[h].id = tracker[h].id
                    /\ tracker'[h].recording = tracker[h].recording
              /\ \A h \in Tracked \ {c} : tracker'[h] = tracker[h]
          BY <3>1, <4>1, PassLowered
        <4>3. /\ vkState'[Cb(c)] # "rendering"
              /\ vkState'[Cb(c)] = "recording"
                   => vkState[Cb(c)] \in {"recording", "rendering"}
              /\ \A i \in CmdBufIds \ {Cb(c)} : vkState'[i] = vkState[i]
          BY <1>3, <3>1, <4>1 DEF CmdBufIds, Turn
        <4>4. Cb(c)' = Cb(c)
          BY <3>1, <4>2 DEF Cb
        <4>5. tracker'[c].recording = tracker[c].recording
          BY <3>1, <4>2
        <4>6. Recording(c)' => Recording(c)
          BY <4>3, <4>4 DEF Recording
        <4>7. CoverOf(c)'
          BY <1>0, <3>1, <4>3, <4>4, <4>5, <4>6, Zenon DEF CoverOf
        <4> QED BY <1>7, <3>1, <4>2, <4>3, <4>7
      <3>2. CASE ~ (c \in Tracked /\ tracker[c].in_render_pass)
        BY <1>8, <2>3, <3>2 DEF RenderEnd
      <3> QED BY <3>1, <3>2
    <2> QED BY <1>9, <2>1, <2>2, <2>3 DEF Encodes
  <1>10. ASSUME NEW c \in CmdBufs, Commits(c)
         PROVE  FlagsCover'
    <2>1. CASE CommitUnknown(c)
      BY <1>8, <2>1 DEF CommitUnknown, vars, vkVars
    <2>2. CASE ~ CommitUnknown(c)
      <3>1. /\ c \in Tracked
            /\ tracker' = [tracker EXCEPT ![c].recording = FALSE]
            /\ \/ vkState' = [vkState EXCEPT ![Cb(c)] = "initial"]
               \/ vkState' = [vkState EXCEPT ![Cb(c)] = "executable"]
        BY <1>10, <2>2 DEF Commits, Commit, CommitExecutes, CommitDropped, CommitFails,
                           CommitBlocks, Finish
      <3>2. /\ DOMAIN tracker' = Tracked
            /\ \A h \in Tracked : tracker'[h].id = tracker[h].id
            /\ \A h \in Tracked \ {c} : tracker'[h] = tracker[h]
        BY <3>1, RecordingLowered
      <3>3. /\ vkState'[Cb(c)] \in {"initial", "executable"}
            /\ \A i \in CmdBufIds \ {Cb(c)} : vkState'[i] = vkState[i]
        BY <1>3, <3>1 DEF CmdBufIds
      <3>4. Cb(c)' = Cb(c)
        BY <3>1, <3>2 DEF Cb
      <3>5. CoverOf(c)'
        BY <3>3, <3>4 DEF CoverOf, Recording
      <3> QED BY <1>7, <3>1, <3>2, <3>3, <3>5
    <2> QED BY <2>1, <2>2
  <1>11. CASE Shutdown
    <2>1. DOMAIN tracker' = {}
      BY <1>11 DEF Shutdown
    <2> QED BY <2>1, FlagParts DEF Tracked
  <1>12. ASSUME NEW h \in Buffers \cup Samplers \cup Placeholders,
                Creates(h) /\ UNCHANGED <<vkLayout, vkRecorded, vkState>>
         PROVE  FlagsCover'
    BY <1>4, <1>12, OtherHandles DEF Handles, Destroyable
  <1>13. ASSUME NEW h \in Textures, Creates(h) /\ CreateTexture(h)
         PROVE  FlagsCover'
    BY <1>4, <1>13, OtherHandles DEF Handles, Destroyable, CreateTexture
  <1> QED BY <1>5, <1>6, <1>9, <1>10, <1>11, <1>12, <1>13, NextActions

-----------------------------------------------------------------------------
(* The safety theorems.                                                    *)

\* At the start there is nothing.
LEMMA InitIInv == Init => IInv
  <1> SUFFICES ASSUME Init PROVE IInv
    OBVIOUS
  <1>1. DOMAIN tracker = {} /\ DOMAIN vkLayout = {} /\ DOMAIN vkState = {}
    BY DEF Init
  <1>2. Owned = {}
    BY <1>1 DEF Owned, Tracked
  <1>3. EntriesInv
    BY <1>1 DEF Init, EntriesInv, Tracked
  <1>4. CapacityInv
    BY <1>1, FS_EmptySet, ProcessorAssumption DEF CapacityInv, Tracked
  <1>5. VulkanInv
    BY <1>1 DEF Init, VulkanInv, CmdBufIds, Tracked
  <1>6. LoopInv
    BY DEF Init, LoopInv
  <1>7. OwnerInv
    BY <1>1, <1>2 DEF Init, OwnerInv, Tracked
  <1>8. FlagsCover
    BY <1>1 DEF FlagsCover, Tracked
  <1> QED BY <1>3, <1>4, <1>5, <1>6, <1>7, <1>8 DEF IInv

\* Every step keeps the invariant.
LEMMA NextIInv == IInv /\ [Next]_vars => IInv'
  <1> SUFFICES ASSUME IInv, [Next]_vars PROVE IInv'
    OBVIOUS
  <1>1. CASE Next
    BY <1>1, EntriesStep, CapacityStep, VulkanStep, LoopStep, OwnerStep, FlagStep
       DEF IInv
  <1>2. CASE UNCHANGED vars
    <2>1. EntriesInv' /\ CapacityInv' /\ LoopInv'
      BY <1>2 DEF IInv, EntriesInv, CapacityInv, LoopInv, vars, vkVars, Tracked
    <2>2. VulkanInv'
      BY <1>2 DEF IInv, VulkanInv, vars, vkVars, Tracked, CmdBufIds
    <2>3. OwnerInv'
      BY <1>2 DEF IInv, OwnerInv, vars, vkVars, Tracked, Owned
    <2>4. FlagsCover'
      BY <1>2 DEF IInv, FlagsCover, Recording, vars, vkVars, Tracked, Cb
    <2> QED BY <2>1, <2>2, <2>3, <2>4 DEF IInv
  <1> QED BY <1>1, <1>2

\* Every reachable state, after any failures, satisfies the invariant.
THEOREM InvariantHolds == Spec => []IInv
  BY InitIInv, NextIInv, PTL DEF Spec

\* Entries, layouts and states are well typed, and the
\* tracker never holds more than its pool (gravity_resource_tracker_add).
THEOREM TypeCorrect == Spec => []TypeOK
  <1>1. IInv => TypeOK
    BY DEF IInv, TypeOK, EntriesInv, CapacityInv, VulkanInv, LoopInv, Entries
  <1> QED BY <1>1, InvariantHolds, PTL

\* Whatever call of a creation fails, each live object belongs to one entry,
\* or to one that was removed (the error paths of gravity_cmd_process_create_*).
THEOREM OwnershipCorrect == Spec => []Ownership
  <1>1. IInv => Ownership
    BY OwnershipHolds DEF IInv
  <1> QED BY <1>1, InvariantHolds, PTL

\* The flags of an entry never hide a recording or a render pass, whatever the
\* guest sends and whatever Vulkan refuses (gravity_cmd_process_render,
\* gravity_cmd_process_cmdbuf_create and _commit).
THEOREM FlagsCoverCorrect == Spec => []FlagsCover
  <1>1. IInv => FlagsCover
    BY DEF IInv
  <1> QED BY <1>1, InvariantHolds, PTL
=============================================================================
