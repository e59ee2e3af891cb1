-------------------------- MODULE MCConnectionTable --------------------------
(* A small instance of ConnectionTable for TLC. *)
EXTENDS ConnectionTable

CONSTANTS c1, c2, c3, c4, c5, c6

MCConnection == {c1, c2, c3, c4, c5, c6}

\* Connections c1 and c2 have the same address.  In tables of 5, 11 and 23 slots
\* other addresses collide, and the last of them run over the end.
MCAddressOf ==
    (c1 :> "x" @@ c2 :> "x" @@ c3 :> "y" @@ c4 :> "z" @@ c5 :> "v" @@ c6 :> "w")
MCHashOf == [x |-> 10, y |-> 21, z |-> 20, v |-> 32, w |-> 33]
=============================================================================
