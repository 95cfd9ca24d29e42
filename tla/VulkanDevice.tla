---------------------------- MODULE VulkanDevice ----------------------------
(***************************************************************************)
(* host-daemon/src/vk_device.c: gravity_vk_init, step by step, for the     *)
(* GPUs Vulkan reports, and gravity_vk_destroy at the end of main.  Every  *)
(* step may fail; gravity_vk_init then leaves what it has made and main    *)
(* returns.                                                                *)
(*                                                                         *)
(* A field of gravity_vk_state_t and the object it holds have one name:    *)
(* `handles' are the fields that are not null, `live' the objects Vulkan   *)
(* has.  Vulkan is external: it lists GPUs, makes objects or does not, and *)
(* passes over extending structures a GPU does not know.                   *)
(***************************************************************************)
EXTENDS Integers, Sequences

CONSTANT Hosts     \* the GPUs a host may have: sequences of records with
                   \*   intel_integrated  Intel is the vendor, type integrated
                   \*   families          sequence of sets of queue flags
                   \*   features          what it supports
                   \*   memory_types      see ResourceTranslation

VARIABLES
    host,             \* what Vulkan lists
    phase,            \* the call main is in, or "running", "failed", "ended"
    physical_device,  \* its place in the list; none is 0
    memory_types,     \* memory_properties
    queue_families,   \* use -> family; UINT32_MAX is 0
    requested,        \* the families the logical device was made with
    enabled,          \* the features it was made with
    handles,          \* fields that hold a handle
    live,             \* Vulkan objects
    toDestroy         \* what gravity_vk_destroy still looks at

vars == <<host, phase, physical_device, memory_types, queue_families,
          requested, enabled, handles, live, toDestroy>>

Uses == {"graphics", "compute", "transfer"}

Pools == {"graphics_cmd_pool", "compute_cmd_pool", "transfer_cmd_pool"}
OfDevice == Pools \cup {"pipeline_cache", "descriptor_pool"}

\* What the handlers of the command loop make on the device; one name stands
\* for all objects of a kind.
OfHandlers == {"buffer", "image", "image_view", "memory", "sampler"}

\* The object each is made from.
Parent(o) == IF o \in OfDevice \cup OfHandlers THEN "device" ELSE "instance"

\* What gravity_vk_init has made.
Own == live \ OfHandlers

Init ==
    /\ host \in Hosts
    /\ phase = "create_instance"
    /\ physical_device = 0 /\ memory_types = <<>>
    /\ queue_families = [use \in Uses |-> 0]
    /\ requested = <<>> /\ enabled = {}
    /\ handles = {} /\ live = {} /\ toDestroy = <<>>

-----------------------------------------------------------------------------
(* gravity_vk_init.                                                        *)

\* The step's vkCreate calls succeed, and the next step follows.
Made(objects, next) ==
    /\ handles' = handles \cup objects
    /\ live' = live \cup objects
    /\ phase' = next

\* A step returns -1, then gravity_vk_init and main do.
Fail ==
    /\ phase \in {"create_instance", "create_logical_device"} \cup Pools
    /\ phase' = "failed"
    /\ UNCHANGED <<host, physical_device, memory_types, queue_families,
                   requested, enabled, handles, live, toDestroy>>

\* The messenger is made if the user asked for validation, the loader offers
\* the function, and the call succeeds.
CreateInstance ==
    /\ phase = "create_instance"
    /\ \E messenger \in SUBSET {"debug_messenger"} :
          Made({"instance"} \cup messenger, "select_physical_device")
    /\ UNCHANGED <<host, physical_device, memory_types, queue_families,
                   requested, enabled, toDestroy>>

Least(S) == CHOOSE i \in S : \A j \in S : i <= j
Greatest(S) == CHOOSE i \in S : \A j \in S : j <= i

\* The loop keeps the last integrated GPU of Intel; the first GPU is the
\* fallback.
Selected(gpus) ==
    LET intel == {i \in DOMAIN gpus : gpus[i].intel_integrated}
    IN  IF intel # {} THEN Greatest(intel) ELSE 1

SelectPhysicalDevice ==
    /\ phase = "select_physical_device"
    /\ \/ /\ host = <<>>
          /\ phase' = "failed"
          /\ UNCHANGED <<physical_device, memory_types>>
       \/ /\ host # <<>>
          /\ physical_device' = Selected(host)
          /\ memory_types' = host[physical_device'].memory_types
          /\ phase' = "find_queue_families"
    /\ UNCHANGED <<host, queue_families, requested, enabled, handles, live,
                   toDestroy>>

\* The first family with all of the flags `with' and none of `without'.
FamilyOf(families, with, without) ==
    LET fit == {i \in DOMAIN families : /\ with \subseteq families[i]
                                        /\ families[i] \cap without = {}}
    IN  IF fit = {} THEN 0 ELSE Least(fit)

\* A dedicated family is preferred, that of graphics is the fallback.
Families(families) ==
    LET graphics == FamilyOf(families, {"graphics"}, {})
        compute  == FamilyOf(families, {"compute"}, {"graphics"})
        transfer == FamilyOf(families, {"transfer"}, {"graphics", "compute"})
    IN  [graphics |-> graphics,
         compute  |-> IF compute = 0 THEN graphics ELSE compute,
         transfer |-> IF transfer = 0 THEN graphics ELSE transfer]

FindQueueFamilies ==
    /\ phase = "find_queue_families"
    /\ queue_families' = Families(host[physical_device].families)
    /\ phase' = IF queue_families'.graphics = 0 THEN "failed"
                                                ELSE "create_logical_device"
    /\ UNCHANGED <<host, physical_device, memory_types, requested, enabled,
                   handles, live, toDestroy>>

\* Mutant of UniqueFamilies: a family with two uses is named twice.
UniqueFamilies_All(f) == <<f.graphics, f.compute, f.transfer>>

UniqueFamilies(f) ==
    <<f.graphics>>
    \o (IF f.compute # f.graphics THEN <<f.compute>> ELSE <<>>)
    \o (IF f.transfer \notin {f.graphics, f.compute} THEN <<f.transfer>>
                                                   ELSE <<>>)

\* pEnabledFeatures, and the structures that extend it.
CoreFeatures ==
    {"fillModeNonSolid", "samplerAnisotropy", "multiDrawIndirect",
     "depthClamp", "depthBiasClamp", "independentBlend",
     "fragmentStoresAndAtomics", "vertexPipelineStoresAndAtomics"}
ExtendingFeatures == {"dynamicRendering", "synchronization2"}

\* Vulkan refuses a core feature the GPU lacks.
CreateLogicalDevice ==
    LET supported == host[physical_device].features
    IN  /\ phase = "create_logical_device"
        /\ CoreFeatures \subseteq supported
        /\ requested' = UniqueFamilies(queue_families)
        /\ enabled' = CoreFeatures \cup (ExtendingFeatures \cap supported)
        /\ Made({"device"}, "graphics_cmd_pool")
        /\ UNCHANGED <<host, physical_device, memory_types, queue_families,
                       toDestroy>>

\* The three pools, in order.
CreateCommandPool ==
    /\ phase \in Pools
    /\ Made({phase}, CASE phase = "graphics_cmd_pool" -> "compute_cmd_pool"
                       [] phase = "compute_cmd_pool"  -> "transfer_cmd_pool"
                       [] phase = "transfer_cmd_pool" -> "pipeline_cache")
    /\ UNCHANGED <<host, physical_device, memory_types, queue_families,
                   requested, enabled, toDestroy>>

\* Without a pipeline cache or a descriptor pool the daemon warns and goes on.
CreateOptional ==
    /\ phase \in {"pipeline_cache", "descriptor_pool"}
    /\ \E object \in SUBSET {phase} :
          Made(object, IF phase = "pipeline_cache" THEN "descriptor_pool"
                                                   ELSE "running")
    /\ UNCHANGED <<host, physical_device, memory_types, queue_families,
                   requested, enabled, toDestroy>>

-----------------------------------------------------------------------------
(* gravity_vk_destroy.                                                     *)

\* Mutant of DestroyOrder: the device before its pools.
DestroyOrder_DeviceFirst ==
    <<"descriptor_pool", "pipeline_cache", "device", "graphics_cmd_pool",
      "compute_cmd_pool", "transfer_cmd_pool", "debug_messenger", "instance">>

DestroyOrder ==
    <<"descriptor_pool", "pipeline_cache", "graphics_cmd_pool",
      "compute_cmd_pool", "transfer_cmd_pool", "device", "debug_messenger",
      "instance">>

\* main leaves the command loop; there is a device, so destroy does not return
\* at once.
LeaveLoop ==
    /\ phase = "running"
    /\ phase' = "destroying"
    /\ toDestroy' = DestroyOrder
    /\ UNCHANGED <<host, physical_device, memory_types, queue_families,
                   requested, enabled, handles, live>>

\* Each field in turn is looked at, and destroyed if it is not null.
DestroyNext ==
    /\ phase = "destroying" /\ toDestroy # <<>>
    /\ live' = live \ (handles \cap {Head(toDestroy)})
    /\ toDestroy' = Tail(toDestroy)
    /\ UNCHANGED <<host, phase, physical_device, memory_types, queue_families,
                   requested, enabled, handles>>

\* The memset at the end.
ClearState ==
    /\ phase = "destroying" /\ toDestroy = <<>>
    /\ phase' = "ended"
    /\ physical_device' = 0 /\ memory_types' = <<>>
    /\ queue_families' = [use \in Uses |-> 0]
    /\ handles' = {}
    /\ UNCHANGED <<host, requested, enabled, live, toDestroy>>

Next ==
    \/ Fail
    \/ CreateInstance
    \/ SelectPhysicalDevice
    \/ FindQueueFamilies
    \/ CreateLogicalDevice
    \/ CreateCommandPool
    \/ CreateOptional
    \/ LeaveLoop
    \/ DestroyNext
    \/ ClearState

Spec == Init /\ [][Next]_vars

-----------------------------------------------------------------------------
(* Properties.                                                             *)

\* The families given to vkCreateDevice exist, none twice; every queue that is
\* fetched and every pool is of one of them; and each family can do what it is
\* used for (find_queue_families, create_logical_device).
QueuesLegal ==
    "device" \in live =>
        LET families == host[physical_device].families
            wanted   == {queue_families[use] : use \in Uses}
        IN  /\ wanted = {requested[i] : i \in DOMAIN requested}
            /\ \A i, j \in DOMAIN requested :
                  requested[i] = requested[j] => i = j
            /\ wanted \subseteq DOMAIN families
            /\ "graphics" \in families[queue_families.graphics]
            /\ "compute" \in families[queue_families.compute]
            /\ families[queue_families.transfer] # {}

\* Of what gravity_vk_init made no object outlives the one it is made from, at
\* any step and after any failure, and after gravity_vk_destroy nothing of it
\* is left, whether its optional parts were made or not (vk_device.c:447-486).
\* What the handlers made is not spoken of: see DestroyedInOrder.
SetUpTakenDown ==
    /\ \A o \in Own \ {"instance"} : Parent(o) \in live
    /\ phase = "ended" => Own = {}

\* No object at all outlives the one it is made from: resource_tracker.h:144
\* says of the call before gravity_vk_destroy that it destroys `all tracked
\* resources'.  False: gravity_resource_tracker_destroy destroys none, and
\* vkDestroyDevice is called with everything the handlers made still there
\* (resource_tracker.c:52-68, vk_device.c:473).
DestroyedInOrder == \A o \in live \ {"instance"} : Parent(o) \in live
=============================================================================
