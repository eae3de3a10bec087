---------------------------- MODULE MCShapeCodec ----------------------------
(* The heap of MCShapeSave, saved and then loaded.                         *)
EXTENDS MCShapeSave, ShapeCodec

\* Heaps whose descriptors hold no Smi 0 (MCHeaps allow it).
MCCodecHeaps == {h \in MCHeaps : \A k \in DOMAIN h.descVal : h.descVal[k] # "smi0"}
=============================================================================
