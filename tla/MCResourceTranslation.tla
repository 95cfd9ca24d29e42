----------------------- MODULE MCResourceTranslation -----------------------
(* Commands and devices for ResourceTranslation: every format as a texture *)
(* of two dimensions, and every shape with formats of each kind.  The      *)
(* handler takes no account of the usage `view'.                           *)
EXTENDS ResourceTranslation

Shapes(types, formats, sides, modes) ==
    [texture_type : types, pixel_format : formats, width : sides,
     height : {0} \cup sides, depth : {0, 1, 4}, mipmap_levels : {0, 1, 3},
     array_length : {0, 2}, sample_count : {0, 1, 2, 8},
     storage_mode : modes,
     usage : {{}, {"read"}, {"target"}, {"read", "write", "target"}}]

\* Those of the table and two it lacks.
Formats == {pixel_format_table[i][1] : i \in DOMAIN pixel_format_table}
           \cup {0, 261}

MCTextures ==
    {t \in Shapes({"2D"}, Formats, {4}, StorageModes) :
        MetalTexture(t) /\ t.height = 4 /\ t.depth = 1 /\ t.array_length = 0
                        /\ t.mipmap_levels = 1 /\ t.sample_count = 1}
    \cup {t \in Shapes(TextureTypes, {70, 260}, {1, 4}, {"PRIVATE"}) :
        MetalTexture(t)}

\* Every address mode alone, with and without what needs a feature.
MCSamplers ==
    [mip_filter : {"NOT_MIPMAPPED", "LINEAR"},
     address_modes : {{mode} : mode \in AddressModes},
     max_anisotropy : {0, 1, 16}, compare_function : {"NEVER", "LESS"}]

\* A card of its own memory, an integrated one, one that renders in tiles,
\* and one whose memory is all alike.
MCDevices == {
    << {"DEVICE_LOCAL"}, {"HOST_VISIBLE", "HOST_COHERENT"},
       {"HOST_VISIBLE", "HOST_COHERENT", "HOST_CACHED"} >>,
    << {"DEVICE_LOCAL", "HOST_VISIBLE", "HOST_COHERENT"},
       {"DEVICE_LOCAL", "HOST_VISIBLE", "HOST_CACHED"} >>,
    << {"DEVICE_LOCAL", "LAZILY_ALLOCATED"}, {"DEVICE_LOCAL"},
       {"HOST_VISIBLE", "HOST_COHERENT"} >>,
    << {"DEVICE_LOCAL", "HOST_VISIBLE", "HOST_COHERENT"} >> }
=============================================================================
