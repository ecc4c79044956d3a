------------------------------ MODULE MCTables ------------------------------
(***************************************************************************)
(* Values for the constants of Dpf in the model-checking modules: tables   *)
(* for AES and convert() on blocks of one or two bits that mix the key     *)
(* into every output and collide as a random function of that size would.  *)
(***************************************************************************)
EXTENDS Integers

\* A block as a number, and back.
MCNum(k) == (IF 0 \in k THEN 1 ELSE 0) + (IF 1 \in k THEN 2 ELSE 0)
MCBlock(n) ==
  (IF n % 2 = 1 THEN {0} ELSE {}) \cup (IF (n \div 2) % 2 = 1 THEN {1} ELSE {})

MCAesOn(word) ==
  [k \in SUBSET word |->
     [c \in 0 .. 3 |->
        MCBlock((3 + c) * MCNum(k) + (c * c) + (MCNum(k) \div 2) + (c \div 2)) \cap word]]

MCConvertOn(word, order) ==
  [k \in SUBSET word |->
     [b \in {0, 1} |-> ((3 + b) * MCNum(k) + b + 1) % order]]

MCPowersTo(height) == [k \in 0 .. height |-> 2 ^ k]
=============================================================================
