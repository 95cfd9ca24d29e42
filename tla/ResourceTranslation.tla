------------------------ MODULE ResourceTranslation ------------------------
(***************************************************************************)
(* What CREATE_TEXTURE, CREATE_BUFFER and CREATE_SAMPLER ask of Vulkan: the*)
(* image and the view that gravity_cmd_process_create_texture describes    *)
(* with the help of metal_to_vulkan.c and gravity_formats.c, the memory    *)
(* type it and CREATE_BUFFER choose, and the sampler.  The tables and      *)
(* switches are in different files, and nothing but the validity rules of  *)
(* Vulkan says how they must agree.                                        *)
(*                                                                         *)
(* One command after the other is translated for one device.  What Vulkan  *)
(* refuses, and what becomes of the objects, is the subject of             *)
(* CommandProcessor; where the device comes from, that of VulkanDevice.    *)
(***************************************************************************)
EXTENDS Integers, Sequences, FiniteSets

CONSTANTS
    Textures,      \* CREATE_TEXTURE commands of the guest
    Samplers,      \* its CREATE_SAMPLER commands
    Devices        \* the memory types a host may have, in order

StorageModes == {"SHARED", "MANAGED", "PRIVATE", "MEMORYLESS"}
Flat == {"1D", "1D_ARRAY"}
Cube == {"CUBE", "CUBE_ARRAY"}
Arrays == {"1D_ARRAY", "2D_ARRAY", "CUBE_ARRAY"}
TextureTypes == Flat \cup Cube \cup {"2D", "2D_ARRAY", "2D_MS", "3D"}

TextureCommands ==
    [texture_type : TextureTypes, pixel_format : Nat,
     width : Nat \ {0}, height : Nat, depth : Nat, mipmap_levels : Nat,
     array_length : Nat, sample_count : Nat, storage_mode : StorageModes,
     usage : SUBSET {"read", "write", "target", "view"}]

AddressModes == {"CLAMP_TO_EDGE", "MIRROR_CLAMP", "REPEAT", "MIRROR_REPEAT",
                 "CLAMP_TO_ZERO", "CLAMP_TO_BORDER"}
CompareFunctions == {"NEVER", "LESS", "EQUAL", "LESS_EQUAL", "GREATER",
                     "NOT_EQUAL", "GREATER_EQUAL", "ALWAYS"}

\* `address_modes' stands for the modes of the three coordinates; the two
\* filters and the bounds of the level of detail are passed on as they are.
SamplerCommands ==
    [mip_filter : {"NOT_MIPMAPPED", "NEAREST", "LINEAR"},
     address_modes : SUBSET AddressModes, max_anisotropy : Nat,
     compare_function : CompareFunctions]

-----------------------------------------------------------------------------
(* Pixel formats: the number in Metal, the number in Vulkan, the bytes of  *)
(* a pixel.                                                                *)

pixel_format_table == <<
    <<  1, 1000470000, 1>>, << 10,   9,  1>>, << 12,  10,  1>>, << 13,  13,  1>>,
    << 23,  74,  2>>, << 25,  76,  2>>, << 30,  16,  2>>, << 32,  17,  2>>,
    << 53,  98,  4>>, << 55, 100,  4>>, << 63,  81,  4>>, << 65,  83,  4>>,
    << 70,  37,  4>>, << 71,  43,  4>>, << 72,  38,  4>>, << 73,  41,  4>>,
    << 80,  44,  4>>, << 81,  50,  4>>, << 90,  64,  4>>, <<105, 101,  8>>,
    <<107, 103,  8>>, <<113,  95,  8>>, <<115,  97,  8>>, <<123, 107, 16>>,
    <<125, 109, 16>>, <<250, 124,  2>>, <<252, 126,  4>>, <<253, 127,  1>>,
    <<255, 129,  4>>, <<260, 130,  5>> >>

FORMAT_UNDEFINED == 0

\* The entries for a Metal format; a look-up takes the first.
Entries(format) ==
    {i \in DOMAIN pixel_format_table : pixel_format_table[i][1] = format}
First(indices) == CHOOSE i \in indices : \A j \in indices : i <= j

metal_to_vk_pixel_format(format) ==
    IF Entries(format) = {} THEN FORMAT_UNDEFINED
                            ELSE pixel_format_table[First(Entries(format))][2]

pixel_format_bpp(format) ==
    IF Entries(format) = {} THEN 0
                            ELSE pixel_format_table[First(Entries(format))][3]

\* Mutant of pixel_format_is_depth_stencil: the last one is left out.
pixel_format_is_depth_stencil_Short(format) == format >= 250 /\ format < 260

pixel_format_is_depth_stencil(format) == format >= 250 /\ format <= 260

\* By the Vulkan format, where the usage goes by the Metal format.
get_aspect_flags(vkFormat) ==
    CASE vkFormat \in {124, 126} -> {"depth"}
      [] vkFormat = 127          -> {"stencil"}
      [] vkFormat \in {129, 130} -> {"depth", "stencil"}
      [] OTHER                   -> {"color"}

-----------------------------------------------------------------------------
(* Image and view.  A field the guest leaves at 0 is taken for 1.          *)

translate_texture_usage(usage, format) ==
    LET attachment == IF pixel_format_is_depth_stencil(format)
                      THEN "depth_attachment" ELSE "color_attachment"
    IN  {"transfer_src", "transfer_dst"}
        \cup (IF "read" \in usage THEN {"sampled"} ELSE {})
        \cup (IF "write" \in usage THEN {"storage"} ELSE {})
        \cup (IF "target" \in usage THEN {attachment} ELSE {})
        \cup (IF usage = {} THEN {"sampled", "color_attachment"} ELSE {})

translate_texture_type(type) ==
    CASE type \in Flat -> "1D" [] type = "3D" -> "3D" [] OTHER -> "2D"

translate_image_view_type(type) == IF type = "2D_MS" THEN "2D" ELSE type

OrOne(n) == IF n > 0 THEN n ELSE 1

\* Mutant of Layers: a cube gets a layer instead of six.
Layers_NoFaces(t) == OrOne(t.array_length)

Layers(t) ==
    OrOne(t.array_length) * (IF t.texture_type \in Cube THEN 6 ELSE 1)

\* Mutant of SampleCount: rounded up beyond the count itself.
SampleCount_Above(n) ==
    IF n <= 1 THEN 1 ELSE IF n < 2 THEN 2 ELSE IF n < 4 THEN 4
    ELSE IF n < 8 THEN 8 ELSE 16

SampleCount(n) ==
    IF n <= 1 THEN 1 ELSE IF n <= 2 THEN 2 ELSE IF n <= 4 THEN 4
    ELSE IF n <= 8 THEN 8 ELSE 16

ImageInfo(t) ==
    [imageType   |-> translate_texture_type(t.texture_type),
     format      |-> metal_to_vk_pixel_format(t.pixel_format),
     width       |-> OrOne(t.width),
     height      |-> OrOne(t.height),
     depth       |-> OrOne(t.depth),
     mipLevels   |-> OrOne(t.mipmap_levels),
     arrayLayers |-> Layers(t),
     samples     |-> SampleCount(t.sample_count),
     usage       |-> translate_texture_usage(t.usage, t.pixel_format),
     cube        |-> t.texture_type \in Cube]

ViewInfo(t, image) ==
    [viewType   |-> translate_image_view_type(t.texture_type),
     aspect     |-> get_aspect_flags(image.format),
     levelCount |-> image.mipLevels,
     layerCount |-> image.arrayLayers]

-----------------------------------------------------------------------------
(* Samplers.                                                               *)

to_vk_address_mode(mode) ==
    CASE mode = "MIRROR_CLAMP"  -> "MIRROR_CLAMP_TO_EDGE"
      [] mode = "MIRROR_REPEAT" -> "MIRRORED_REPEAT"
      [] mode = "CLAMP_TO_ZERO" -> "CLAMP_TO_BORDER"
      [] OTHER                  -> mode

to_vk_mipmap_mode(filter) ==
    IF filter = "NOT_MIPMAPPED" THEN "NEAREST" ELSE filter

SamplerInfo(s) ==
    [mipmapMode       |-> to_vk_mipmap_mode(s.mip_filter),
     addressModes     |-> {to_vk_address_mode(mode) : mode \in s.address_modes},
     anisotropyEnable |-> s.max_anisotropy > 1,
     compareEnable    |-> s.compare_function # "NEVER",
     compareOp        |-> s.compare_function,
     borderColor      |-> "TRANSPARENT_BLACK"]

-----------------------------------------------------------------------------
(* Memory types.                                                           *)

translate_storage_mode(mode) ==
    CASE mode = "SHARED"     -> {"HOST_VISIBLE", "HOST_COHERENT"}
      [] mode = "MANAGED"    -> {"HOST_VISIBLE", "HOST_CACHED"}
      [] mode = "MEMORYLESS" -> {"DEVICE_LOCAL", "LAZILY_ALLOCATED"}
      [] OTHER               -> {"DEVICE_LOCAL"}

NoType == 0   \* UINT32_MAX

find_memory_type(types, filter, properties) ==
    LET suitable == {i \in filter : properties \subseteq types[i]}
    IN  IF suitable = {} THEN NoType ELSE First(suitable)

\* The type for a resource; a second search asks for something simpler.
MemoryType(types, filter, mode, fallback) ==
    LET wanted == find_memory_type(types, filter, translate_storage_mode(mode))
    IN  IF wanted # NoType THEN wanted
                           ELSE find_memory_type(types, filter, fallback)

BufferFallback == {"HOST_VISIBLE", "HOST_COHERENT"}

\* Mutant of TextureFallback: that of a buffer.
TextureFallback_Host == BufferFallback

TextureFallback == {"DEVICE_LOCAL"}

\* What Vulkan grants of memory types, and of those a resource may use: some
\* are local, only images that are transient may be allocated lazily, and a
\* buffer may use one that is visible and coherent.
Some(types, indices, properties) ==
    \E i \in indices : properties \subseteq types[i]
ImageFilters(types) ==
    {f \in SUBSET DOMAIN types :
        /\ Some(types, f, {"DEVICE_LOCAL"})
        /\ ~ Some(types, f, {"LAZILY_ALLOCATED"})}
BufferFilters(types) ==
    {f \in ImageFilters(types) :
        Some(types, f, {"HOST_VISIBLE", "HOST_COHERENT"})}

-----------------------------------------------------------------------------
(* What Metal lets the guest ask for, beyond which the handler is not      *)
(* asked to go.                                                            *)

\* Each level halves the side; the last one has at least an element.
LevelsFit(levels, side) == 2 ^ (levels - 1) <= side

MetalTexture(t) ==
    /\ t \in TextureCommands
    /\ t.texture_type \in Flat => t.height <= 1 /\ t.mipmap_levels <= 1
    /\ t.texture_type # "3D" => t.depth <= 1
    /\ t.texture_type \notin Arrays => t.array_length <= 1
    /\ t.texture_type \in Cube => t.height = t.width
    /\ IF t.texture_type = "2D_MS"
       THEN /\ t.sample_count \in {2, 4, 8}
            /\ t.mipmap_levels <= 1 /\ "write" \notin t.usage
       ELSE t.sample_count <= 1
    /\ t.mipmap_levels > 1 =>
          \E side \in {t.width, OrOne(t.height), OrOne(t.depth)} :
              LevelsFit(t.mipmap_levels, side)
    /\ t.pixel_format \in 250 .. 262 =>
          t.texture_type \notin Flat \cup {"3D"} /\ "write" \notin t.usage
    /\ t.usage # {"view"}

ASSUME TexturesAssumption == \A t \in Textures : MetalTexture(t)

ASSUME SamplersAssumption ==
    \A s \in Samplers : s \in SamplerCommands /\ s.address_modes # {}

ASSUME DevicesAssumption ==
    \A types \in Devices :
        types \in Seq(SUBSET {"DEVICE_LOCAL", "HOST_VISIBLE", "HOST_COHERENT",
                              "HOST_CACHED", "LAZILY_ALLOCATED"})

-----------------------------------------------------------------------------
VARIABLES
    memory_types,  \* state->memory_properties: those of the host's device
    asked          \* what the handler asks of Vulkan

vars == <<memory_types, asked>>

Nothing == [op |-> "none"]

Init == memory_types \in Devices /\ asked = Nothing

CreateTexture(t, filter) ==
    /\ asked' =
         IF metal_to_vk_pixel_format(t.pixel_format) = FORMAT_UNDEFINED
         THEN [op |-> "unsupported", texture |-> t]
         ELSE [op |-> "texture", texture |-> t,
               image |-> ImageInfo(t), view |-> ViewInfo(t, ImageInfo(t)),
               filter |-> filter, mapped |-> FALSE,
               memory |-> MemoryType(memory_types, filter, t.storage_mode,
                                     TextureFallback)]
    /\ UNCHANGED memory_types

CreateBuffer(mode, filter) ==
    /\ asked' = [op |-> "buffer", filter |-> filter,
                 mapped |-> mode \in {"SHARED", "MANAGED"},
                 memory |-> MemoryType(memory_types, filter, mode,
                                       BufferFallback)]
    /\ UNCHANGED memory_types

CreateSampler(s) ==
    /\ asked' = [op |-> "sampler", sampler |-> SamplerInfo(s)]
    /\ UNCHANGED memory_types

\* The handler returns, and process_command takes the next command.
Return == asked # Nothing /\ asked' = Nothing /\ UNCHANGED memory_types

Next ==
    \/ /\ asked = Nothing
       /\ \/ \E t \in Textures, filter \in ImageFilters(memory_types) :
                CreateTexture(t, filter)
          \/ \E mode \in StorageModes, filter \in BufferFilters(memory_types) :
                CreateBuffer(mode, filter)
          \/ \E s \in Samplers : CreateSampler(s)
    \/ Return

Spec == Init /\ [][Next]_vars

-----------------------------------------------------------------------------
(* Properties.                                                             *)

\* The memory type given to vkAllocateMemory exists and suits the resource,
\* though the handlers do not look at the result of the second search; and
\* what CREATE_BUFFER maps can be mapped, whichever search found it
\* (cmd_processor.c:52-60, 91-95 and 170-175).
MemoryChosen ==
    asked.op \in {"texture", "buffer"} =>
        /\ asked.memory \in asked.filter
        /\ asked.mapped => "HOST_VISIBLE" \in memory_types[asked.memory]

\* The attachment usage goes by the range of the Metal format, the aspect of
\* the view by the Vulkan format: they must say the same of every entry of
\* the table.  A texture without any usage is excepted, see the README
\* (metal_to_vulkan.c:27-39 and 117-134).
UsageFitsAspect ==
    asked.op = "texture" =>
        LET usage == asked.image.usage  aspect == asked.view.aspect
        IN  /\ asked.texture.usage # {} =>
                  ("color_attachment" \in usage => aspect = {"color"})
            /\ "depth_attachment" \in usage => "color" \notin aspect
            /\ "target" \in asked.texture.usage =>
                  usage \cap {"color_attachment", "depth_attachment"} # {}

\* The rules of Vulkan for a view of an image: its type is one of the
\* image's, it has the layers its type needs and shows every element the
\* guest asked for, and something other than a transfer may use it
\* (cmd_processor.c:133, 142-146 and 194-212; two switches over the type).
ViewFitsImage ==
    asked.op = "texture" =>
        LET view == asked.view  image == asked.image
        IN  /\ view.viewType \in
                  CASE image.imageType = "1D" -> Flat
                    [] image.imageType = "3D" -> {"3D"}
                    [] OTHER -> {"2D", "2D_ARRAY"}
                                \cup (IF image.cube THEN Cube ELSE {})
            /\ view.viewType \in {"1D", "2D", "3D"} => view.layerCount = 1
            /\ view.viewType = "CUBE" => view.layerCount = 6
            /\ view.viewType = "CUBE_ARRAY" => view.layerCount % 6 = 0
            /\ view.layerCount >= asked.texture.array_length
            /\ image.usage \ {"transfer_src", "transfer_dst"} # {}

\* The rules of Vulkan for an image that depend on several fields: extents
\* by dimension, layers of a cube, no levels for several samples, no more
\* levels than halvings; and the sample count is the one the guest asked for
\* (cmd_processor.c:123-154).
ImageLegal ==
    asked.op = "texture" =>
        LET image == asked.image
        IN  /\ image.imageType = "1D" => image.height = 1
            /\ image.imageType # "3D" => image.depth = 1
            /\ image.imageType = "3D" => image.arrayLayers = 1
            /\ image.cube => /\ image.imageType = "2D"
                             /\ image.width = image.height
                             /\ image.arrayLayers >= 6
            /\ image.samples > 1 => /\ image.imageType = "2D"
                                    /\ ~ image.cube /\ image.mipLevels = 1
            /\ image.samples = OrOne(asked.texture.sample_count)
            /\ image.width >= 1 /\ image.height >= 1 /\ image.depth >= 1
            /\ image.mipLevels > 1 =>
                  \E side \in {image.width, image.height, image.depth} :
                      LevelsFit(image.mipLevels, side)

\* gravity_formats.h:21 says of the format constants `mirrors VkFormat
\* values': a pixel of the Vulkan format has the bytes the table says.
\* False: 1000470000 is a packed format of 16 bits, A8_UNORM is 1000470001.
VkTexelSize(vkFormat) ==
    CASE vkFormat \in {9, 10, 13, 127, 1000470001}         -> 1
      [] vkFormat \in {16, 17, 74, 76, 124, 1000470000}    -> 2
      [] vkFormat \in {95, 97, 101, 103}                   -> 8
      [] vkFormat \in {107, 109}                           -> 16
      [] vkFormat = 130                                    -> 5
      [] OTHER                                             -> 4
FormatsMirrorVulkan ==
    asked.op = "texture" =>
        VkTexelSize(asked.image.format)
            = pixel_format_bpp(asked.texture.pixel_format)
=============================================================================
