-------------------------- MODULE CommandProcessor --------------------------
(***************************************************************************)
(* host-daemon/src/cmd_processor.c with process_command of main.c: what    *)
(* each command of the guest does to the Vulkan objects, to the command    *)
(* buffers and to the layouts of images.  One thread runs the handlers, so *)
(* a handler is one action; it may fail at any Vulkan call it checks.      *)
(*                                                                         *)
(* The tracker is the table ResourceTracker implements while no removal    *)
(* cuts a handle off.  Vulkan is external: objects are created or not, a   *)
(* command buffer holds what was recorded until it is submitted, and the   *)
(* execution of what it holds changes the layouts images really have.      *)
(* What Vulkan leaves undefined, recording into a command buffer that does *)
(* not record, or ending it inside a render pass, has either outcome.      *)
(*                                                                         *)
(* The guest sends any command at any time; it gets no answer to a         *)
(* creation, so it also uses what could not be created.  It names textures *)
(* where textures are meant, buffers where buffers are meant.              *)
(*                                                                         *)
(* `orphans' is a history variable.  Answers to the guest are left out:    *)
(* CMDBUF_COMPLETED says 0, success, whatever the calls returned.          *)
(***************************************************************************)
EXTENDS Integers, Sequences, FiniteSets, FiniteSetsExt

CONSTANTS
    Buffers, Colors, Depths, Samplers, CmdBufs,   \* handles by what they name
    Placeholders,  \* shaders, render pipelines and depth-stencil states
    NoTexture,     \* GRAVITY_INVALID_HANDLE as an attachment
    Levels,        \* mip levels, or array slices, of a texture
    MaxEntries,    \* GRAVITY_TRACKER_MAX_ENTRIES
    MayFail,       \* whether Vulkan calls may fail
    MaxCreated,    \* bound of the model on creations that reach the tracker
    MaxRecorded    \* bound of the model on commands in a command buffer

ASSUME ProcessorAssumption ==
    /\ Levels \subseteq Nat /\ 0 \in Levels
    /\ NoTexture \notin Buffers \cup Colors \cup Depths \cup Samplers
                         \cup CmdBufs \cup Placeholders
    /\ MaxEntries \in Nat \ {0}
    /\ MayFail \in BOOLEAN
    /\ MaxCreated \in Nat /\ MaxRecorded \in Nat

\* A handle names one kind of resource (the ranges of gravity_protocol.h).
ASSUME HandlesAssumption ==
    /\ Buffers \cap (Colors \cup Depths \cup Samplers \cup CmdBufs
                        \cup Placeholders) = {}
    /\ Colors \cap (Depths \cup Samplers \cup CmdBufs \cup Placeholders) = {}
    /\ Depths \cap (Samplers \cup CmdBufs \cup Placeholders) = {}
    /\ Samplers \cap (CmdBufs \cup Placeholders) = {}
    /\ CmdBufs \cap Placeholders = {}

VARIABLES
    tracker,       \* handle -> entry, as far as it has one
    vkLive,        \* Vulkan objects created and not destroyed
    vkLayout,      \* image -> level -> the layout it has
    vkRecorded,    \* command buffer -> what it holds
    vkState,       \* command buffer -> its state, with `rendering' for
                   \* recording inside a render pass
    created,       \* number of the last creation that reached the tracker
    running,       \* main has not left the command loop
    lost,          \* the Vulkan device is lost
    blocked,       \* the command loop waits for a fence nothing signals
    orphans        \* history: objects whose entry was removed

vkVars == <<vkLive, vkLayout, vkRecorded, vkState>>
vars == <<tracker, vkVars, created, running, lost, blocked, orphans>>

Textures == Colors \cup Depths
Destroyable == Buffers \cup Textures \cup Samplers
Handles == Destroyable \cup CmdBufs \cup Placeholders

Object(kind, id) == <<kind, id>>
Tracked == DOMAIN tracker
Owned == UNION {tracker[h].objects : h \in Tracked}

Init ==
    /\ tracker = <<>>
    /\ vkLive = {} /\ vkLayout = <<>> /\ vkRecorded = <<>> /\ vkState = <<>>
    /\ created = 0
    /\ running = TRUE /\ lost = FALSE /\ blocked = FALSE
    /\ orphans = {}

\* The command loop can take a command.
Ready == running /\ ~ blocked

-----------------------------------------------------------------------------
(* Creation.  A handler makes its objects in order, then asks the tracker  *)
(* for an entry.  When one of its calls fails, or the tracker refuses, it  *)
(* destroys what it has made and returns; the guest is not told.           *)

BufferSteps == <<"buffer", "memory">>
TextureSteps == <<"image", "memory", "view">>
SamplerSteps == <<"sampler">>
CmdBufSteps == <<"cmdbuf", "fence">>

\* What the error paths destroy when n calls have succeeded, at n + 1.
BufferUndone == <<{}, {"buffer"}, {"memory", "buffer"}>>

\* Mutant of TextureUndone: the image is left when its view cannot be made.
TextureUndone_KeepImage ==
    <<{}, {"image"}, {"memory"}, {"view", "memory", "image"}>>

TextureUndone ==
    <<{}, {"image"}, {"memory", "image"}, {"view", "memory", "image"}>>

SamplerUndone == <<{}, {"sampler"}>>
CmdBufUndone == <<{}, {"cmdbuf"}, {"fence", "cmdbuf"}>>

\* Mutant of CanAdd: the pool may overflow.
CanAdd_OneMore(h) == h \notin Tracked /\ Cardinality(Tracked) <= MaxEntries

\* gravity_resource_tracker_add refuses a known handle and a full pool.
CanAdd(h) == h \notin Tracked /\ Cardinality(Tracked) < MaxEntries

\* What the tracker keeps of a resource; the fields of one type are at rest
\* in the entries of the others.
Entry(h, objects) ==
    [id |-> created', objects |-> objects, current_layout |-> "undefined",
     recording |-> h \in CmdBufs, in_render_pass |-> FALSE]

\* f with a value for one argument more.
Put(f, x, v) == [y \in DOMAIN f \cup {x} |-> IF y = x THEN v ELSE f[y]]

\* Every call succeeds: the entry owns the objects.
Make(h, steps) ==
    LET objects == {Object(steps[i], created') : i \in 1 .. Len(steps)}
    IN  /\ CanAdd(h)
        /\ vkLive' = vkLive \cup objects
        /\ tracker' = Put(tracker, h, Entry(h, objects))

\* Some calls succeed, and the next one or the tracker does not.
Abandon(h, steps, undone) ==
    \E n \in 0 .. Len(steps) :
        /\ IF n < Len(steps) THEN MayFail ELSE ~ CanAdd(h)
        /\ vkLive' = vkLive \cup
              {Object(k, created') :
                  k \in {steps[i] : i \in 1 .. n} \ undone[n + 1]}
        /\ UNCHANGED tracker

Handler(h, steps, undone) ==
    /\ Ready
    /\ created < MaxCreated
    /\ created' = created + 1
    /\ Make(h, steps) \/ Abandon(h, steps, undone)
    /\ UNCHANGED <<running, lost, blocked, orphans>>

\* The handler has put h in the table.
Added(h) == h \in DOMAIN tracker' \ Tracked

CreateBuffer(h) ==
    /\ Handler(h, BufferSteps, BufferUndone)
    /\ UNCHANGED <<vkLayout, vkRecorded, vkState>>

CreateTexture(h) ==
    /\ Handler(h, TextureSteps, TextureUndone)
    /\ vkLayout' = IF Added(h)
                   THEN Put(vkLayout, created', [l \in Levels |-> "undefined"])
                   ELSE vkLayout
    /\ UNCHANGED <<vkRecorded, vkState>>

CreateSampler(h) ==
    /\ Handler(h, SamplerSteps, SamplerUndone)
    /\ UNCHANGED <<vkLayout, vkRecorded, vkState>>

\* An entry without a Vulkan object.
CreatePlaceholder(h) ==
    /\ Handler(h, <<>>, <<{}>>)
    /\ UNCHANGED <<vkLayout, vkRecorded, vkState>>

\* CMDBUF_CREATE begins the recording and does not look at the result.
CmdBufCreate(c) ==
    /\ Handler(c, CmdBufSteps, CmdBufUndone)
    /\ vkRecorded' = IF Added(c) THEN Put(vkRecorded, created', <<>>)
                     ELSE vkRecorded
    /\ IF Added(c)
       THEN \E s \in {"recording"} \cup (IF MayFail THEN {"initial"} ELSE {}) :
               vkState' = Put(vkState, created', s)
       ELSE UNCHANGED vkState
    /\ UNCHANGED vkLayout

\* DESTROY_BUFFER, DESTROY_TEXTURE and DESTROY_SAMPLER only remove the entry;
\* other destructions fall into the default case and do nothing.
Destroy(h) ==
    /\ Ready
    /\ h \in Tracked
    /\ tracker' = [g \in Tracked \ {h} |-> tracker[g]]
    /\ orphans' = orphans \cup tracker[h].objects
    /\ UNCHANGED <<vkVars, created, running, lost, blocked>>

-----------------------------------------------------------------------------
(* Recording *)

Cb(c) == tracker[c].id

\* Its command buffer is between vkBeginCommandBuffer and vkEndCommandBuffer.
Recording(c) == vkState[Cb(c)] \in {"recording", "rendering"}

\* Append commands to what the command buffer of c holds; whether one that
\* does not record takes them is undefined.
Record(c, ops) ==
    \/ vkRecorded' = [vkRecorded EXCEPT ![Cb(c)] = @ \o ops]
    \/ ~ Recording(c) /\ UNCHANGED vkRecorded

Room(c, n) == c \in Tracked => Len(vkRecorded[Cb(c)]) + n <= MaxRecorded

\* The tracked layout is not the one the attachment needs.
NeedsBarrier(t) == tracker[t].current_layout # "color"

\* The commands RENDER_BEGIN records for color attachment t at level l.
ColorBarrier(t, l) ==
    IF t \in Tracked /\ NeedsBarrier(t)
    THEN << [op |-> "barrier", image |-> tracker[t].id, level |-> l,
             old |-> tracker[t].current_layout, new |-> "color"] >>
    ELSE << >>

\* The attachments with their declared layouts; an unknown texture is none.
\* A view starts at level 0, and that is where the pass renders.
Attachments(t, d) ==
    {[image |-> tracker[h].id, layout |-> IF h = t THEN "color" ELSE "depth"] :
        h \in {t, d} \cap Tracked}

\* Mutant of RaisedFlag: the flag is left as it is.
RaisedFlag_Keep(c) == tracker[c].in_render_pass

RaisedFlag(c) == TRUE

\* A recording command buffer goes from one state to another.
Turn(c, from, to) ==
    vkState' = [vkState EXCEPT ![Cb(c)] = IF @ = from THEN to ELSE @]

\* RENDER_BEGIN with at most one color and at most one depth attachment.
RenderBegin(c, t, l, d) ==
    /\ Ready
    /\ Room(c, 2)
    /\ IF c \in Tracked
       THEN /\ Record(c, ColorBarrier(t, l) \o
                         << [op |-> "begin", uses |-> Attachments(t, d)] >>)
            /\ Turn(c, "recording", "rendering")
            /\ tracker' = [h \in Tracked |->
                  [tracker[h] EXCEPT
                     !.in_render_pass = IF h = c THEN RaisedFlag(c) ELSE @,
                     !.current_layout = IF h = t THEN "color" ELSE @]]
       ELSE UNCHANGED <<vkRecorded, vkState, tracker>>
    /\ UNCHANGED <<vkLive, vkLayout, created, running, lost, blocked, orphans>>

\* RENDER_END: only when the flag says there is something to end.
RenderEnd(c) ==
    /\ Ready
    /\ Room(c, 1)
    /\ IF c \in Tracked /\ tracker[c].in_render_pass
       THEN /\ Record(c, << [op |-> "end"] >>)
            /\ Turn(c, "rendering", "recording")
            /\ tracker' = [tracker EXCEPT ![c].in_render_pass = FALSE]
       ELSE UNCHANGED <<vkRecorded, vkState, tracker>>
    /\ UNCHANGED <<vkLive, vkLayout, created, running, lost, blocked, orphans>>

\* SET_VERTEX_BUFFER and DRAW_INDEXED name a buffer, and do nothing when it is
\* unknown.  SET_VIEWPORT, SET_SCISSOR, DRAW and DRAW_INSTANCED record what
\* names no object and moves no layout; they are this action without effect.
RenderCommand(c, b) ==
    /\ Ready
    /\ Room(c, 1)
    /\ IF c \in Tracked /\ b \in Tracked
       THEN Record(c, << [op |-> "draw", buffer |-> tracker[b].id] >>)
       ELSE UNCHANGED vkRecorded
    /\ UNCHANGED <<tracker, vkLive, vkLayout, vkState, created, running, lost,
                   blocked, orphans>>

-----------------------------------------------------------------------------
(* CMDBUF_COMMIT *)

\* The places in ops of the barriers that move level l of image i.
Moves(ops, i, l) ==
    {k \in 1 .. Len(ops) :
        ops[k].op = "barrier" /\ ops[k].image = i /\ ops[k].level = l}

\* The layouts of images once ops have executed: the last barrier counts.
LayoutAfter(ops) ==
    [i \in DOMAIN vkLayout |-> [l \in Levels |->
        LET moves == Moves(ops, i, l)
        IN  IF moves = {} THEN vkLayout[i][l] ELSE ops[Max(moves)].new]]

\* vkEndCommandBuffer needs a command buffer that records, in no render pass.
Ends(c) == vkState[Cb(c)] = "recording"

\* A commit takes the command buffer as it is: its result and those of the
\* Vulkan calls are not looked at, in_render_pass is not lowered.
Commit(c) ==
    /\ Ready
    /\ c \in Tracked
    /\ tracker' = [tracker EXCEPT ![c].recording = FALSE]
    /\ UNCHANGED <<vkLive, created, running, orphans>>

\* End, submit, wait, answer, reset.
Finish(c, executed) ==
    /\ vkLayout' = IF executed THEN LayoutAfter(vkRecorded[Cb(c)]) ELSE vkLayout
    /\ vkRecorded' = [vkRecorded EXCEPT ![Cb(c)] = <<>>]
    /\ vkState' = [vkState EXCEPT ![Cb(c)] = "initial"]
    /\ UNCHANGED blocked

CommitExecutes(c) ==
    /\ Commit(c)
    /\ ~ lost
    /\ Finish(c, TRUE)
    /\ UNCHANGED lost

\* The end fails, and the fence is signalled although nothing runs.
CommitDropped(c) ==
    /\ Commit(c)
    /\ MayFail \/ ~ Ends(c)
    /\ Finish(c, FALSE)
    /\ UNCHANGED lost

\* The device is lost, now or earlier: the submission fails, and so does the
\* wait.
CommitFails(c) ==
    /\ MayFail
    /\ Commit(c)
    /\ Finish(c, FALSE)
    /\ lost' = TRUE

\* The submission fails, for want of memory or of a command buffer that has
\* ended, and the wait never ends.
CommitBlocks(c) ==
    /\ Commit(c)
    /\ MayFail \/ ~ Ends(c)
    /\ vkState' = [vkState EXCEPT ![Cb(c)] = "executable"]
    /\ blocked' = TRUE
    /\ UNCHANGED <<vkLayout, vkRecorded, lost>>

\* `Invalid cmdbuf handle'
CommitUnknown(c) ==
    /\ Ready
    /\ c \notin Tracked
    /\ UNCHANGED vars

-----------------------------------------------------------------------------
(* Shutdown: a signal ends the loop; main destroys the tracker, then the   *)
(* device.                                                                 *)

\* gravity_resource_tracker_destroy clears the table.
Shutdown ==
    /\ Ready
    /\ running' = FALSE
    /\ tracker' = <<>>
    /\ orphans' = orphans \cup Owned
    /\ UNCHANGED <<vkVars, created, lost, blocked>>

-----------------------------------------------------------------------------

Next ==
    \/ \E h \in Buffers : CreateBuffer(h)
    \/ \E h \in Textures : CreateTexture(h)
    \/ \E h \in Samplers : CreateSampler(h)
    \/ \E h \in Placeholders : CreatePlaceholder(h)
    \/ \E h \in Destroyable : Destroy(h)
    \/ \E c \in CmdBufs :
          \/ CmdBufCreate(c)
          \/ \E t \in Colors \cup {NoTexture}, l \in Levels,
             d \in Depths \cup {NoTexture} :
                RenderBegin(c, t, l, d)
          \/ \E b \in Buffers : RenderCommand(c, b)
          \/ RenderEnd(c)
          \/ CommitExecutes(c) \/ CommitDropped(c) \/ CommitFails(c)
          \/ CommitBlocks(c) \/ CommitUnknown(c)
    \/ Shutdown

Spec == Init /\ [][Next]_vars

-----------------------------------------------------------------------------
(* Properties *)

Layouts == {"undefined", "color", "depth"}
CmdBufIds == DOMAIN vkState

\* The state has the shape the code gives it.
TypeOK ==
    /\ Tracked \subseteq Handles
    /\ \A h \in Tracked : /\ tracker[h].id \in 1 .. created
                          /\ tracker[h].current_layout \in Layouts
                          /\ tracker[h].recording \in BOOLEAN
                          /\ tracker[h].in_render_pass \in BOOLEAN
    /\ \A i \in DOMAIN vkLayout : vkLayout[i] \in [Levels -> Layouts]
    /\ \A i \in CmdBufIds : vkState[i] \in {"initial", "recording", "rendering",
                                           "executable"}
    /\ Cardinality(Tracked) <= MaxEntries
    /\ running \in BOOLEAN /\ lost \in BOOLEAN /\ blocked \in BOOLEAN

\* Whatever call of a creation fails, the objects made before it are
\* destroyed: each live object belongs to an entry or belonged to one that was
\* removed, and no two entries share one.
Ownership ==
    /\ vkLive = Owned \cup orphans
    /\ Owned \cap orphans = {}
    /\ \A g, h \in Tracked :
          g # h => tracker[g].objects \cap tracker[h].objects = {}

\* Whatever the guest sends and whatever Vulkan refuses, the flags never hide
\* a recording: a command buffer that records is marked so, and one inside a
\* render pass has in_render_pass, so that RENDER_END can still end the pass.
\* (They may claim more than there is, after a begin that failed or a commit
\* inside a pass.)
FlagsCover ==
    \A c \in Tracked \cap CmdBufs :
        /\ Recording(c) => tracker[c].recording
        /\ vkState[Cb(c)] = "rendering" => tracker[c].in_render_pass

\* The layouts images have when the k-th command of ops is about to execute.
LayoutBefore(ops, k) == LayoutAfter(SubSeq(ops, 1, k - 1))

\* cmd_processor.c:514, `Transition image layout if needed': when a command
\* buffer that ended as it should executes, every attachment of every render
\* pass is in the layout declared for it.
AttachmentsInLayout ==
    [][\A c \in CmdBufs : CommitExecutes(c) /\ Ends(c) =>
          \A k \in 1 .. Len(vkRecorded[Cb(c)]) :
              vkRecorded[Cb(c)][k].op = "begin" =>
                  \A u \in vkRecorded[Cb(c)][k].uses :
                      LayoutBefore(vkRecorded[Cb(c)], k)[u.image][0]
                          = u.layout]_vars
=============================================================================
