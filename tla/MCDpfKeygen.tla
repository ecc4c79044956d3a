---------------------------- MODULE MCDpfKeygen -----------------------------
(***************************************************************************)
(* DpfKeygen with the tables of MCTables.                                  *)
(***************************************************************************)
EXTENDS DpfKeygen, MCTables

MCAes     == MCAesOn(Word)
MCConvert == MCConvertOn(Word, Modulus)
MCPow2    == MCPowersTo(Height)
=============================================================================
