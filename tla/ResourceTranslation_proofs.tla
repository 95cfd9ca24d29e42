--------------------- MODULE ResourceTranslation_proofs ---------------------
(***************************************************************************)
(* For every texture Metal allows and every list of memory types: the view *)
(* fits its image, usage and aspect agree, and the memory type exists.     *)
(***************************************************************************)
EXTENDS ResourceTranslation, WellFoundedInduction, TLAPS

-----------------------------------------------------------------------------
(* Searches.                                                               *)

\* A set of numbers has a least.
LEMMA LeastMember ==
    ASSUME NEW indices \in SUBSET Nat, indices # {}
    PROVE  \E i \in indices : \A j \in indices : i <= j
<1>1. PICK i \in indices : \A j \in indices : ~ (<<j, i>> \in OpToRel(<, Nat))
  BY NatLessThanWellFounded, WFMin
<1>2. ASSUME NEW j \in indices PROVE i <= j
  <2>1. <<j, i>> \in Nat \X Nat /\ <<j, i>>[1] = j /\ <<j, i>>[2] = i
    OBVIOUS
  <2>2. j < i => <<j, i>> \in OpToRel(<, Nat)
    BY <2>1, Zenon DEF OpToRel
  <2>3. ~ (j < i)
    BY <1>1, <2>2, Zenon
  <2> QED BY <2>3
<1> QED BY <1>2

\* A search that finds anything finds one of the indices.
LEMMA FirstMember ==
    ASSUME NEW indices \in SUBSET Nat, indices # {}
    PROVE  First(indices) \in indices
  BY LeastMember DEF First

\* find_memory_type returns a type of the filter with the properties, if there
\* is one.
LEMMA FindExact ==
    ASSUME NEW types, NEW filter \in SUBSET (Nat \ {0}), NEW properties
    PROVE  /\ Some(types, filter, properties) =>
                /\ find_memory_type(types, filter, properties) \in filter
                /\ properties \subseteq
                     types[find_memory_type(types, filter, properties)]
           /\ ~ Some(types, filter, properties) =>
                find_memory_type(types, filter, properties) = NoType
<1> DEFINE suitable == {i \in filter : properties \subseteq types[i]}
<1>1. suitable # {} => First(suitable) \in suitable
  BY FirstMember
<1>2. Some(types, filter, properties) <=> suitable # {}
  BY DEF Some
<1> QED BY <1>1, <1>2 DEF find_memory_type

\* With a fallback some type has, the handler gets a type of the filter, with
\* the properties of the storage mode or those of the fallback.
LEMMA MemoryTypeExact ==
    ASSUME NEW types, NEW filter \in SUBSET (Nat \ {0}), NEW mode, NEW fallback,
           Some(types, filter, fallback)
    PROVE  LET i == MemoryType(types, filter, mode, fallback)
           IN  /\ i \in filter
               /\ \/ translate_storage_mode(mode) \subseteq types[i]
                  \/ fallback \subseteq types[i]
<1> DEFINE wanted == find_memory_type(types, filter, translate_storage_mode(mode))
<1>1. NoType \notin filter
  BY DEF NoType
<1>2. CASE Some(types, filter, translate_storage_mode(mode))
  <2>1. wanted \in filter /\ translate_storage_mode(mode) \subseteq types[wanted]
    BY <1>2, FindExact
  <2> QED BY <1>1, <2>1 DEF MemoryType
<1>3. CASE ~ Some(types, filter, translate_storage_mode(mode))
  <2>1. wanted = NoType
    BY <1>3, FindExact
  <2> QED BY <2>1, FindExact DEF MemoryType
<1> QED BY <1>2, <1>3

\* The filters are sets of indices into the list of memory types.
LEMMA FilterIndices ==
    ASSUME NEW types \in Devices, NEW filter \in ImageFilters(types)
    PROVE  filter \in SUBSET (Nat \ {0})
<1>1. types \in Seq(SUBSET {"DEVICE_LOCAL", "HOST_VISIBLE", "HOST_COHERENT",
                            "HOST_CACHED", "LAZILY_ALLOCATED"})
  BY DevicesAssumption
<1>2. DOMAIN types = 1 .. Len(types) /\ Len(types) \in Nat
  BY <1>1
<1> QED BY <1>2 DEF ImageFilters

-----------------------------------------------------------------------------
(* Memory.                                                                 *)

\* The memory types are those of a device, and a resource's are among them.
MemoryInv ==
    /\ memory_types \in Devices
    /\ asked.op \in {"texture", "buffer"} =>
          asked.filter \in SUBSET DOMAIN memory_types
    /\ MemoryChosen

\* A command, of either kind, leaves it so.
LEMMA MemoryStep == MemoryInv /\ [Next]_vars => MemoryInv'
<1> SUFFICES ASSUME MemoryInv, [Next]_vars PROVE MemoryInv'
  OBVIOUS
<1> USE DEF MemoryInv
<1>1. ASSUME NEW t \in Textures, NEW filter \in ImageFilters(memory_types),
             CreateTexture(t, filter)
      PROVE  MemoryInv'
  <2>1. filter \in SUBSET (Nat \ {0})
    BY FilterIndices
  <2>2. Some(memory_types, filter, TextureFallback)
    BY DEF ImageFilters, TextureFallback
  <2>3. MemoryType(memory_types, filter, t.storage_mode, TextureFallback)
          \in filter
    BY <2>1, <2>2, MemoryTypeExact
  <2>4. filter \in SUBSET DOMAIN memory_types
    BY DEF ImageFilters
  <2> QED BY <1>1, <2>3, <2>4 DEF CreateTexture, MemoryChosen
<1>2. ASSUME NEW mode \in StorageModes,
             NEW filter \in BufferFilters(memory_types),
             CreateBuffer(mode, filter)
      PROVE  MemoryInv'
  <2> DEFINE i == MemoryType(memory_types, filter, mode, BufferFallback)
  <2>1. filter \in SUBSET (Nat \ {0})
    BY FilterIndices DEF BufferFilters
  <2>2. Some(memory_types, filter, BufferFallback)
    BY DEF BufferFilters, BufferFallback
  <2>3. /\ i \in filter
        /\ \/ translate_storage_mode(mode) \subseteq memory_types[i]
           \/ BufferFallback \subseteq memory_types[i]
    BY <2>1, <2>2, MemoryTypeExact
  <2>4. mode \in {"SHARED", "MANAGED"} => "HOST_VISIBLE" \in memory_types[i]
    BY <2>3 DEF translate_storage_mode, BufferFallback
  <2> HIDE DEF i
  <2>5. asked' = [op |-> "buffer", filter |-> filter,
                  mapped |-> mode \in {"SHARED", "MANAGED"}, memory |-> i]
    BY <1>2 DEF CreateBuffer, i
  <2>6. asked'.mapped => mode \in {"SHARED", "MANAGED"}
    BY <2>5, Zenon
  <2>7. asked'.memory = i /\ asked'.filter = filter
    BY <2>5
  <2>8. MemoryChosen'
    BY <1>2, <2>3, <2>4, <2>6, <2>7 DEF CreateBuffer, MemoryChosen
  <2>9. filter \in SUBSET DOMAIN memory_types
    BY DEF ImageFilters, BufferFilters
  <2> QED BY <1>2, <2>7, <2>8, <2>9 DEF CreateBuffer
<1>3. ASSUME NEW s \in Samplers, CreateSampler(s) PROVE MemoryInv'
  BY <1>3 DEF CreateSampler, MemoryChosen
<1>4. CASE Return
  BY <1>4 DEF Return, Nothing, MemoryChosen
<1>5. CASE UNCHANGED vars
  BY <1>5 DEF vars, MemoryChosen
<1> QED BY <1>1, <1>2, <1>3, <1>4, <1>5 DEF Next

\* Every allocation names a memory type of the device that the resource may
\* use, and what CREATE_BUFFER maps is visible to the host.
THEOREM MemoryCorrect == Spec => []MemoryChosen
<1>1. Init => MemoryInv
  BY DEF Init, MemoryInv, MemoryChosen, Nothing
<1>2. MemoryInv => MemoryChosen
  BY DEF MemoryInv
<1> QED BY <1>1, <1>2, MemoryStep, PTL DEF Spec

-----------------------------------------------------------------------------
(* Image, view and usage.                                                  *)

\* What is asked for a texture is what the handler computes from it.
TextureAsked ==
    asked.op = "texture" =>
        /\ asked.texture \in Textures
        /\ asked.image = ImageInfo(asked.texture)
        /\ asked.view = ViewInfo(asked.texture, asked.image)
        /\ metal_to_vk_pixel_format(asked.texture.pixel_format)
             # FORMAT_UNDEFINED

\* The handler changes nothing on the way.
LEMMA AskedStep == TextureAsked /\ [Next]_vars => TextureAsked'
<1> SUFFICES ASSUME TextureAsked, [Next]_vars PROVE TextureAsked'
  OBVIOUS
<1>1. ASSUME NEW t \in Textures, NEW filter \in ImageFilters(memory_types),
             CreateTexture(t, filter)
      PROVE  TextureAsked'
  <2>1. CASE metal_to_vk_pixel_format(t.pixel_format) = FORMAT_UNDEFINED
    BY <1>1, <2>1 DEF CreateTexture, TextureAsked
  <2>2. CASE metal_to_vk_pixel_format(t.pixel_format) # FORMAT_UNDEFINED
    BY <1>1, <2>2 DEF CreateTexture, TextureAsked
  <2> QED BY <2>1, <2>2
<1>2. ASSUME NEW mode \in StorageModes,
             NEW filter \in BufferFilters(memory_types),
             CreateBuffer(mode, filter)
      PROVE  TextureAsked'
  BY <1>2 DEF CreateBuffer, TextureAsked
<1>3. ASSUME NEW s \in Samplers, CreateSampler(s) PROVE TextureAsked'
  BY <1>3 DEF CreateSampler, TextureAsked
<1>4. CASE Return
  BY <1>4 DEF Return, Nothing, TextureAsked
<1>5. CASE UNCHANGED vars
  BY <1>5 DEF vars, TextureAsked
<1> QED BY <1>1, <1>2, <1>3, <1>4, <1>5 DEF Next

\* It is so from the start.
LEMMA AskedExact == Spec => []TextureAsked
<1>1. Init => TextureAsked
  BY DEF Init, TextureAsked, Nothing
<1> QED BY <1>1, AskedStep, PTL DEF Spec

\* An image has the layers of its type.
LEMMA LayersByType ==
    ASSUME NEW t \in TextureCommands
    PROVE  /\ Layers(t) \in Nat /\ Layers(t) >= t.array_length
           /\ t.texture_type \in Cube => Layers(t) % 6 = 0
           /\ t.array_length <= 1 =>
                Layers(t) = IF t.texture_type \in Cube THEN 6 ELSE 1
<1>1. t.array_length \in Nat
  BY DEF TextureCommands
<1> DEFINE n == t.array_length
<1> HIDE DEF n
<1>2. OrOne(n) \in Nat /\ OrOne(n) >= n /\ (n <= 1 => OrOne(n) = 1)
  BY <1>1 DEF OrOne, n
<1>3. \A k \in Nat : (k * 6) % 6 = 0 /\ k * 6 \in Nat /\ k * 6 >= k
  OBVIOUS
<1> QED BY <1>1, <1>2, <1>3 DEF Layers, n

\* The view of what the handler computes is legal.
LEMMA ViewOfAsked == TextureAsked => ViewFitsImage
<1> SUFFICES ASSUME TextureAsked, asked.op = "texture"
             PROVE  ViewFitsImage
  BY DEF ViewFitsImage
<1> DEFINE t == asked.texture  type == t.texture_type
           usage == translate_texture_usage(t.usage, t.pixel_format)
<1>1. t \in Textures /\ MetalTexture(t) /\ t \in TextureCommands
  BY TexturesAssumption DEF TextureAsked, MetalTexture
<1>2. /\ asked.image.imageType = translate_texture_type(type)
      /\ asked.image.cube = (type \in Cube)
      /\ asked.image.arrayLayers = Layers(t)
      /\ asked.image.usage = usage
  BY DEF TextureAsked, ImageInfo
<1>3. /\ asked.view.viewType = translate_image_view_type(type)
      /\ asked.view.layerCount = Layers(t)
  BY <1>2 DEF TextureAsked, ViewInfo
<1>4. type \in TextureTypes /\ t.usage \in SUBSET {"read", "write", "target", "view"}
  BY <1>1 DEF TextureCommands
<1>5. type \notin Arrays => t.array_length <= 1
  BY <1>1 DEF MetalTexture
<1>6. usage \ {"transfer_src", "transfer_dst"} # {}
  <2>1. t.usage = {} \/ "read" \in t.usage \/ "write" \in t.usage
          \/ "target" \in t.usage
    BY <1>1, <1>4 DEF MetalTexture
  <2> QED BY <2>1 DEF translate_texture_usage
<1> HIDE DEF usage, type, t
<1>7. translate_image_view_type(type) \in
        CASE translate_texture_type(type) = "1D" -> Flat
          [] translate_texture_type(type) = "3D" -> {"3D"}
          [] OTHER -> {"2D", "2D_ARRAY"}
                      \cup (IF type \in Cube THEN Cube ELSE {})
  BY <1>4 DEF TextureTypes, Flat, Cube, translate_image_view_type,
              translate_texture_type
<1>8. /\ translate_image_view_type(type) \in {"1D", "2D", "3D"} =>
           type \notin Cube /\ type \notin Arrays
      /\ translate_image_view_type(type) = "CUBE" => type = "CUBE"
      /\ translate_image_view_type(type) = "CUBE_ARRAY" => type \in Cube
      /\ "CUBE" \in Cube /\ "CUBE" \notin Arrays
  BY <1>4 DEF TextureTypes, Flat, Cube, Arrays, translate_image_view_type
<1>9. /\ Layers(t) >= t.array_length
      /\ type \in Cube => Layers(t) % 6 = 0
      /\ type \notin Arrays => Layers(t) = IF type \in Cube THEN 6 ELSE 1
  BY <1>1, <1>5, LayersByType DEF type
<1> QED BY <1>2, <1>3, <1>6, <1>7, <1>8, <1>9 DEF ViewFitsImage, t

\* For every texture Metal allows, the view is one that Vulkan allows of the
\* image and shows all of it.
THEOREM ViewCorrect == Spec => []ViewFitsImage
  BY AskedExact, ViewOfAsked, PTL

\* The range of Metal formats and the switch over Vulkan formats agree on
\* every entry of the table, and so on every format the handler accepts.
LEMMA DepthAgrees ==
    ASSUME NEW format, metal_to_vk_pixel_format(format) # FORMAT_UNDEFINED
    PROVE  LET aspect == get_aspect_flags(metal_to_vk_pixel_format(format))
           IN  IF pixel_format_is_depth_stencil(format)
               THEN "color" \notin aspect ELSE aspect = {"color"}
<1> DEFINE i == First(Entries(format))
<1>1. Entries(format) \in SUBSET (1 .. 30)
  BY DEF Entries, pixel_format_table
<1>2. Entries(format) # {}
  BY DEF metal_to_vk_pixel_format
<1>3. i \in Entries(format) /\ i \in 1 .. 30
  BY <1>1, <1>2, FirstMember
<1>4. /\ format = pixel_format_table[i][1]
      /\ metal_to_vk_pixel_format(format) = pixel_format_table[i][2]
  BY <1>2, <1>3 DEF Entries, metal_to_vk_pixel_format
<1> HIDE DEF i
<1>5. \A k \in 1 .. 25 : /\ pixel_format_table[k][1] \in 0 .. 249
                         /\ pixel_format_table[k][2]
                              \notin {124, 126, 127, 129, 130}
  BY DEF pixel_format_table
<1>6. \A k \in 26 .. 30 : /\ pixel_format_table[k][1] \in 250 .. 260
                          /\ pixel_format_table[k][2] \in {124, 126, 127, 129, 130}
  BY DEF pixel_format_table
<1>7. CASE i \in 1 .. 25
  <2>1. /\ format \in 0 .. 249
        /\ metal_to_vk_pixel_format(format) \notin {124, 126, 127, 129, 130}
    <3>1. /\ pixel_format_table[i][1] \in 0 .. 249
          /\ pixel_format_table[i][2] \notin {124, 126, 127, 129, 130}
      BY <1>5, <1>7
    <3> QED BY <1>4, <3>1
  <2>2. ~ pixel_format_is_depth_stencil(format)
    BY <2>1 DEF pixel_format_is_depth_stencil
  <2>3. get_aspect_flags(metal_to_vk_pixel_format(format)) = {"color"}
    BY <2>1 DEF get_aspect_flags
  <2> QED BY <2>2, <2>3
<1>8. CASE i \in 26 .. 30
  BY <1>4, <1>6, <1>8 DEF pixel_format_is_depth_stencil, get_aspect_flags
<1> QED BY <1>3, <1>7, <1>8

\* So does the usage of what the handler computes.
LEMMA UsageOfAsked == TextureAsked => UsageFitsAspect
<1> SUFFICES ASSUME TextureAsked, asked.op = "texture"
             PROVE  UsageFitsAspect
  BY DEF UsageFitsAspect
<1> DEFINE t == asked.texture  format == t.pixel_format
           aspect == get_aspect_flags(metal_to_vk_pixel_format(format))
<1>1. /\ asked.image.usage = translate_texture_usage(t.usage, format)
      /\ asked.view.aspect = aspect
  BY DEF TextureAsked, ImageInfo, ViewInfo
<1>2. IF pixel_format_is_depth_stencil(format)
      THEN "color" \notin aspect ELSE aspect = {"color"}
  BY DepthAgrees DEF TextureAsked
<1> HIDE DEF aspect
<1> QED BY <1>1, <1>2 DEF UsageFitsAspect, translate_texture_usage

\* Attachment usage and aspect agree for every texture with some usage.
THEOREM UsageCorrect == Spec => []UsageFitsAspect
  BY AskedExact, UsageOfAsked, PTL

\* The image of what the handler computes is legal: the switch over the type,
\* the factor for cubes and the rounding of the samples fit together.
LEMMA ImageOfAsked == TextureAsked => ImageLegal
<1> SUFFICES ASSUME TextureAsked, asked.op = "texture"
             PROVE  ImageLegal
  BY DEF ImageLegal
<1> DEFINE t == asked.texture  type == t.texture_type
<1>1. t \in Textures /\ MetalTexture(t) /\ t \in TextureCommands
  BY TexturesAssumption DEF TextureAsked, MetalTexture
<1>2. /\ asked.image.imageType = translate_texture_type(type)
      /\ asked.image.cube = (type \in Cube)
      /\ asked.image.width = OrOne(t.width)
      /\ asked.image.height = OrOne(t.height)
      /\ asked.image.depth = OrOne(t.depth)
      /\ asked.image.mipLevels = OrOne(t.mipmap_levels)
      /\ asked.image.arrayLayers = Layers(t)
      /\ asked.image.samples = SampleCount(t.sample_count)
  BY DEF TextureAsked, ImageInfo
<1>3. /\ type \in TextureTypes /\ t.width \in Nat \ {0}
      /\ t.height \in Nat /\ t.depth \in Nat /\ t.mipmap_levels \in Nat
      /\ t.array_length \in Nat /\ t.sample_count \in Nat
  BY <1>1 DEF TextureCommands
<1>4. /\ type \in Flat => t.height <= 1
      /\ type # "3D" => t.depth <= 1
      /\ type \notin Arrays => t.array_length <= 1
      /\ type \in Cube => t.height = t.width
      /\ type = "2D_MS" => t.sample_count \in {2, 4, 8} /\ t.mipmap_levels <= 1
      /\ type # "2D_MS" => t.sample_count <= 1
      /\ t.mipmap_levels > 1 =>
            \E side \in {t.width, OrOne(t.height), OrOne(t.depth)} :
                LevelsFit(t.mipmap_levels, side)
  BY <1>1 DEF MetalTexture
<1>5. /\ type \in Flat <=> translate_texture_type(type) = "1D"
      /\ type = "3D" <=> translate_texture_type(type) = "3D"
      /\ translate_texture_type(type) \in {"1D", "2D", "3D"}
      /\ type \in Cube => translate_texture_type(type) = "2D" /\ type # "2D_MS"
      /\ type = "3D" => type \notin Arrays /\ type \notin Cube
      /\ translate_texture_type("2D_MS") = "2D"
  BY <1>3 DEF TextureTypes, Flat, Cube, Arrays, translate_texture_type
<1>6. /\ type \in Cube => Layers(t) >= 6
      /\ type = "3D" => Layers(t) = 1
  <2>1. OrOne(t.array_length) \in Nat /\ OrOne(t.array_length) >= 1
    BY <1>3 DEF OrOne
  <2>2. \A k \in Nat : k >= 1 => k * 6 >= 6
    OBVIOUS
  <2>3. type = "3D" => Layers(t) = 1
    BY <1>1, <1>4, <1>5, LayersByType
  <2> QED BY <2>1, <2>2, <2>3 DEF Layers
<1>7. /\ SampleCount(t.sample_count) > 1 <=> t.sample_count > 1
      /\ SampleCount(t.sample_count) = OrOne(t.sample_count)
  <2>1. t.sample_count \in {0, 1, 2, 4, 8}
    BY <1>3, <1>4
  <2> QED BY <2>1 DEF SampleCount, OrOne
<1> DEFINE w == t.width  h == t.height  d == t.depth  m == t.mipmap_levels
<1> HIDE DEF w, h, d, m
<1>8. /\ OrOne(w) = w /\ OrOne(w) >= 1
      /\ OrOne(h) >= 1 /\ (h <= 1 => OrOne(h) = 1)
      /\ OrOne(d) >= 1 /\ (d <= 1 => OrOne(d) = 1)
      /\ (m <= 1 => OrOne(m) = 1) /\ (OrOne(m) > 1 => m > 1 /\ OrOne(m) = m)
  BY <1>3 DEF OrOne, w, h, d, m
<1>9. asked.image.mipLevels > 1 =>
        \E side \in {asked.image.width, asked.image.height, asked.image.depth} :
            LevelsFit(asked.image.mipLevels, side)
  BY <1>2, <1>4, <1>8 DEF w, h, d, m
<1> HIDE DEF type
<1>10. /\ type \in Flat => OrOne(t.height) = 1
       /\ type # "3D" => OrOne(t.depth) = 1
       /\ type \in Cube => OrOne(t.width) = OrOne(t.height)
       /\ type = "2D_MS" => OrOne(t.mipmap_levels) = 1
  BY <1>4, <1>8 DEF w, h, d, m
<1>11. OrOne(t.width) >= 1 /\ OrOne(t.height) >= 1 /\ OrOne(t.depth) >= 1
  BY <1>8 DEF w, h, d
<1>12. t.sample_count > 1 => type = "2D_MS"
  BY <1>3, <1>4
<1> QED BY <1>2, <1>5, <1>6, <1>7, <1>9, <1>10, <1>11, <1>12
        DEF ImageLegal

\* For every texture Metal allows, of any size, the image is one Vulkan allows
\* and has the samples the guest asked for.
THEOREM ImageCorrect == Spec => []ImageLegal
  BY AskedExact, ImageOfAsked, PTL
=============================================================================
