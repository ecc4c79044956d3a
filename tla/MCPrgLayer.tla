----------------------------- MODULE MCPrgLayer -----------------------------
(***************************************************************************)
(* PrgLayer with the tables of MCTables.                                   *)
(***************************************************************************)
EXTENDS PrgLayer, MCTables

MCAes     == MCAesOn(Word)
MCConvert == MCConvertOn(Word, Modulus)
=============================================================================
