--------------------------- MODULE MCPirRetrieval ---------------------------
(***************************************************************************)
(* PirRetrieval with a database of distinct entries, each block in another *)
(* order, and one table of shares for party 0.                             *)
(***************************************************************************)
EXTENDS PirRetrieval

MCDatabases ==
  {[k \in BlockNo |-> [j \in Domain |-> ((2 * k + 1) * j + k) % Modulus]]}

MCMasks ==
  {[j \in Domain |-> [b \in Bit |-> (3 * j + b + 1) % Modulus]]}
=============================================================================
