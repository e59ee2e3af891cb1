-------------------------- MODULE MCNotifyProtocol --------------------------
(* Small instances of NotifyProtocol for TLC. *)
EXTENDS NotifyProtocol

CONSTANTS a, b

MCHost == {a, b}

Each(x, y) == [h \in MCHost |-> IF h = a THEN x ELSE y]

\* The numbers of both hosts cross the wrap around of the partial numbers.
MCInitialSendSeq == Each(6, 7)

\* Host a sends most, and its packets may be reordered.
MCMaxSend == Each(3, 1)
MCMaxSendFour == Each(4, 1)
MCPings == Each(1, 0)
MCInFlight == Each(2, 1)

\* The 32-bit numbers of both hosts wrap around (at a Word of 16) after few
\* packets.
MCInitialBeforeWrap == Each(15, 14)
MCMaxSendFew == Each(1, 2)

\* The packets of host b, acks most of all, may be reordered.
MCPingsBoth == Each(1, 1)
=============================================================================
