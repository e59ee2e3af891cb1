--------------------------- MODULE MCNetInterface ---------------------------
(* Small instances of NetInterface for TLC. *)
EXTENDS NetInterface

CONSTANTS client, server

MCHost == {client, server}
MCTarget == [h \in MCHost |-> IF h = client THEN {server} ELSE {}]
MCServer == {server}
=============================================================================
