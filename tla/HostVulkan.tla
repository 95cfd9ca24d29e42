----------------------------- MODULE HostVulkan -----------------------------
(***************************************************************************)
(* VulkanDevice and ResourceTranslation together: the daemon sets up a     *)
(* device, translates the guest's creations for it with what it has cached *)
(* of it, and takes it down again.                                         *)
(***************************************************************************)
EXTENDS ResourceTranslation

CONSTANT Hosts     \* see VulkanDevice

\* The flags of a queue family.
Flags == {"graphics", "compute", "transfer"}

\* What Vulkan guarantees of a GPU, and one thing it does not: that every
\* family for graphics also computes.
GPUs == [intel_integrated : BOOLEAN, families : Seq(SUBSET Flags),
         features : SUBSET STRING, memory_types : Devices]

ASSUME HostsAssumption ==
    \A gpus \in Hosts : gpus \in Seq(GPUs) /\ \A i \in DOMAIN gpus :
        \A f \in DOMAIN gpus[i].families :
            /\ gpus[i].families[f] # {}
            /\ "graphics" \in gpus[i].families[f] =>
                  "compute" \in gpus[i].families[f]

VARIABLES host, phase, physical_device, queue_families, requested, enabled,
          handles, live, toDestroy

Device == INSTANCE VulkanDevice

hostVars == <<host, phase, physical_device, memory_types, queue_families,
              requested, enabled, handles, live, toDestroy, asked>>

HostInit == Device!Init /\ asked = Nothing

\* The command loop ends between two commands.
DeviceStep == asked = Nothing /\ Device!Next /\ UNCHANGED asked

\* What a handler makes on the device if all its calls succeed; if one fails
\* it leaves nothing, see CommandProcessor.  Command buffers are left out:
\* they go with their pool.
ObjectsFor(ask) ==
    CASE ask.op = "texture" -> {"image", "memory", "image_view"}
      [] ask.op = "buffer"  -> {"buffer", "memory"}
      [] ask.op = "sampler" -> {"sampler"}
      [] OTHER              -> {}

\* Nothing destroys a handler's objects: DESTROY drops the entry only.
HandlerStep ==
    /\ phase = "running" /\ Next
    /\ \E made \in {{}, ObjectsFor(asked')} : live' = live \cup made
    /\ UNCHANGED <<host, phase, physical_device, queue_families, requested,
                   enabled, handles, toDestroy>>

HostNext == DeviceStep \/ HandlerStep

HostSpec == HostInit /\ [][HostNext]_hostVars

-----------------------------------------------------------------------------
(* Properties.                                                             *)

QueuesLegal == Device!QueuesLegal
SetUpTakenDown == Device!SetUpTakenDown
DestroyedInOrder == Device!DestroyedInOrder

\* The features an image, a view or a sampler needs.
Needed ==
    {"dynamicRendering"}
    \cup (IF asked.op = "sampler" /\ asked.sampler.anisotropyEnable
          THEN {"samplerAnisotropy"} ELSE {})
    \cup (IF asked.op = "sampler"
             /\ "MIRROR_CLAMP_TO_EDGE" \in asked.sampler.addressModes
          THEN {"samplerMirrorClampToEdge"} ELSE {})
    \cup (IF asked.op = "texture" /\ asked.view.viewType = "CUBE_ARRAY"
          THEN {"imageCubeArray"} ELSE {})

\* What the handlers ask for uses features the device was made with: the list
\* in create_logical_device is headed `Enable features needed for Metal
\* translation' (vk_device.c:271).  False: it lacks imageCubeArray, which a
\* view of a cube array needs, and samplerMirrorClampToEdge, which the
\* address mode MIRROR_CLAMP does.
FeaturesEnabled == phase = "running" => Needed \subseteq enabled
=============================================================================
