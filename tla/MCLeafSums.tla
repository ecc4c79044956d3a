----------------------------- MODULE MCLeafSums -----------------------------
(***************************************************************************)
(* LeafSums with bytes of two bits and words of four bytes: of the bit     *)
(* sizes on either side of bitlength some take as many bytes on the wire   *)
(* as it does and one takes fewer; they lie on and beside a byte's end.    *)
(***************************************************************************)
EXTENDS LeafSums, MCTables

MCPow2   == MCPowersTo(Width)
MCBlocks == {46797, 23246, 61115}
=============================================================================
