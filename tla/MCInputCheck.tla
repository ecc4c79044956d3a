---------------------------- MODULE MCInputCheck ----------------------------
(***************************************************************************)
(* InputCheck with the tables of MCTables.                                 *)
(***************************************************************************)
EXTENDS InputCheck, MCTables

MCAes     == MCAesOn(Word)
MCConvert == MCConvertOn(Word, Modulus)
MCPow2    == MCPowersTo(Height)
=============================================================================
