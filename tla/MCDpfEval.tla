----------------------------- MODULE MCDpfEval ------------------------------
(***************************************************************************)
(* DpfEval with the tables of MCTables.                                    *)
(***************************************************************************)
EXTENDS DpfEval, MCTables

MCAes     == MCAesOn(Word)
MCConvert == MCConvertOn(Word, Modulus)
MCPow2    == MCPowersTo(Height)
=============================================================================
