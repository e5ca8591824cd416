----------------------------- MODULE MCQuicPackets -----------------------------
(***************************************************************************)
(* Model-checking instance of QuicPackets: four bytes from the packet      *)
(* number on, and masks that change all, some and none of their bits.      *)
(***************************************************************************)
EXTENDS QuicPackets

MCPnBytes == <<{0}, {1}, {}, {0, 1}>>
MCPnMask == {<<{0}, {0}, {0}, {0}>>, <<{1}, {}, {1, 7}, {0}>>}
=============================================================================
