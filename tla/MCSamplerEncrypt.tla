-------------------------- MODULE MCSamplerEncrypt --------------------------
(* Instances of SamplerEncrypt for TLC.                                    *)
EXTENDS SamplerEncrypt
=============================================================================
