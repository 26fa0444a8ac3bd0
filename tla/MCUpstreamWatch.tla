-------------------------- MODULE MCUpstreamWatch ---------------------------
(***************************************************************************)
(* UpstreamWatch with pinnedTag v5.0.0 and two tags: v5.1.0 sorts after    *)
(* the pin, v10.0.0 sorts before it.                                       *)
(***************************************************************************)
EXTENDS UpstreamWatch

CONSTANTS v510, v1000
=============================================================================
