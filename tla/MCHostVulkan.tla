---------------------------- MODULE MCHostVulkan ----------------------------
(* Hosts for HostVulkan: none, one or several GPUs, with one family for    *)
(* everything, dedicated ones in either order, none for graphics, and one  *)
(* without a feature the daemon asks for.                                  *)
EXTENDS HostVulkan, MCResourceTranslation

AllFeatures ==
    {"dynamicRendering", "synchronization2", "fillModeNonSolid",
     "samplerAnisotropy", "multiDrawIndirect", "depthClamp", "depthBiasClamp",
     "independentBlend", "fragmentStoresAndAtomics",
     "vertexPipelineStoresAndAtomics", "imageCubeArray",
     "samplerMirrorClampToEdge"}

GPU(intel, families, memory) ==
    [intel_integrated |-> intel, families |-> families,
     features |-> AllFeatures, memory_types |-> memory]

Everything == {"graphics", "compute", "transfer"}

Card == GPU(FALSE, << Everything, {"compute", "transfer"}, {"transfer"} >>,
            << {"DEVICE_LOCAL"}, {"HOST_VISIBLE", "HOST_COHERENT"},
               {"HOST_VISIBLE", "HOST_COHERENT", "HOST_CACHED"} >>)
Integrated == GPU(TRUE, << Everything >>,
                  << {"DEVICE_LOCAL", "HOST_VISIBLE", "HOST_COHERENT"},
                     {"DEVICE_LOCAL", "HOST_VISIBLE", "HOST_CACHED"} >>)
Tiler == GPU(FALSE, << {"transfer"}, {"compute"}, Everything, Everything >>,
             << {"DEVICE_LOCAL", "LAZILY_ALLOCATED"}, {"DEVICE_LOCAL"},
                {"HOST_VISIBLE", "HOST_COHERENT"} >>)
Headless == GPU(FALSE, << {"compute", "transfer"} >>,
                << {"DEVICE_LOCAL", "HOST_VISIBLE", "HOST_COHERENT"} >>)
Software == [Headless EXCEPT !.families = << {"graphics", "compute"} >>]
Old == [Integrated EXCEPT !.features = @ \ {"vertexPipelineStoresAndAtomics"}]

MCHosts == { <<>>, <<Card>>, <<Old, Integrated, Card>>,
             <<Tiler>>, <<Software, Headless>>, <<Headless, Card>>, <<Card, Old>> }

\* One GPU and few textures, enough to see DestroyedInOrder and FeaturesEnabled
\* violated.
OneHost == { <<Card>> }
OneTexture == {t \in MCTextures : t.texture_type = "2D" /\ t.pixel_format = 80
                                  /\ t.usage = {"read"}}
CubeArrays == {t \in MCTextures : t.texture_type = "CUBE_ARRAY"}
=============================================================================
