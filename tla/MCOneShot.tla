----------------------------- MODULE MCOneShot -----------------------------
(***************************************************************************)
(* A peer of another chain that is asked first, and two of this chain; the *)
(* node proposes the third block.                                          *)
(***************************************************************************)
EXTENDS OneShot

MCPeers == <<"foreign", "near", "far">>
MCChainOf == [p \in ToSet(MCPeers) |-> IF p = "foreign" THEN 1 ELSE 0]
=============================================================================
