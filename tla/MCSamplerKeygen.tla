--------------------------- MODULE MCSamplerKeygen ---------------------------
(* Instances of SamplerKeygen for TLC.                                     *)
EXTENDS SamplerKeygen
=============================================================================
