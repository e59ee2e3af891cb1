------------------------ MODULE MCArrangedConnection ------------------------
(* Small instances of ArrangedConnection for TLC. *)
EXTENDS ArrangedConnection

CONSTANTS c1, c2, s

MCClient == {c1, c2}
MCGameServer == {s}

\* The translator of c1 gives it another port towards each host.
MCSeenPort == [h \in {c1, c2, s} |-> IF h = c1 THEN 2 ELSE 0]

MCApart == {[h \in {c1, c2, s} |-> IF h = c1 THEN 0 ELSE 7]}
MCAny == [{c1, c2, s} -> 0 .. 1]
=============================================================================
