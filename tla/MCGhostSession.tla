---------------------------- MODULE MCGhostSession ----------------------------
(* A small instance of GhostSession for TLC. *)
EXTENDS GhostSession

CONSTANTS o1, o2, b1

MCObject == {o1, o2}
MCMaskBit == {b1}
=============================================================================
