-------------------------- MODULE MCGhostConnection --------------------------
(* Small instances of GhostConnection for TLC. *)
EXTENDS GhostConnection

CONSTANTS o1, o2, b1, b2

MCObject == {o1, o2}
MCOneObject == {o1}
MCMaskBit == {b1, b2}
=============================================================================
