--------------------------- MODULE MCEventConnection ---------------------------
(* A small instance of EventConnection for TLC. *)
EXTENDS EventConnection

\* The ordered events cross the wrap around of their numbers on the wire and
\* share packets with events of the other guarantees.
MCPost ==
    [type \in Guarantee |-> CASE type = "GuaranteedOrdered" -> 4
                              [] type = "Guaranteed" -> 1
                              [] type = "Unguaranteed" -> 2]
=============================================================================
