------------------------------ MODULE MCMemory ------------------------------
(***************************************************************************)
(* Memory on trees of up to sixteen leaves.                                *)
(***************************************************************************)
EXTENDS Memory, MCTables

MCPow2 == MCPowersTo(MaxHeight)
=============================================================================
