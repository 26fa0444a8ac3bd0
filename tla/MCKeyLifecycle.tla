--------------------------- MODULE MCKeyLifecycle ---------------------------
(* Instances of KeyLifecycle for TLC.                                      *)
EXTENDS KeyLifecycle

CONSTANTS g1, g2, g3

=============================================================================
