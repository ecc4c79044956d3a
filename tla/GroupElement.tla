---------------------------- MODULE GroupElement ----------------------------
(***************************************************************************)
(* GroupElement of src/deps/EzPC/group_element.h: a number together with   *)
(* its own bit size, which arithmetic takes from the left operand; how     *)
(* convert() of src/dpf.cpp cuts two of them out of a block, and how       *)
(* send_ge and recv_ge carry them.                                         *)
(*                                                                         *)
(* A uint64_t wraps at 2^64 before mod() masks it, which changes nothing:  *)
(* every bit size is at most that of a word.  Bytes are ByteBits wide.     *)
(***************************************************************************)
EXTENDS Integers

CONSTANTS
  Width,      \* the largest exponent in Pow2
  Pow2,       \* Pow2[n] = 2^n
  ByteBits,   \* bits of a byte (8)
  WordBytes,  \* bytes of a uint64_t (8)
  Bitlength,  \* the global bitlength, size of a default element (40)
  Bouts       \* group_bitwidth: the bit sizes dpf_keygen may be called with

WordBits == WordBytes * ByteBits

ASSUME WidthAssumption ==
  /\ {ByteBits, WordBytes} \subseteq Nat \ {0}
  /\ Width \in Nat /\ 2 * WordBits <= Width
  /\ Bitlength \in 1 .. WordBits
  /\ Bouts \subseteq 1 .. WordBits

ASSUME Pow2Assumption ==
  /\ Pow2 \in [0 .. Width -> Nat \ {0}]
  /\ Pow2[1] = 2
  /\ \A a, b \in 0 .. Width : a + b <= Width => Pow2[a + b] = Pow2[a] * Pow2[b]
-----------------------------------------------------------------------------
(***************************************************************************)
(* The constructor and mod(), and the two operators the sums are made of.  *)
(***************************************************************************)
Ge(v, w)    == [value |-> v % Pow2[w], bitsize |-> w]
Plus(x, y)  == Ge(x.value + y.value, x.bitsize)

\* Variant: mod() is forgotten.
MinusUnmasked(x, y) == [value |-> x.value - y.value, bitsize |-> x.bitsize]

Minus(x, y) == Ge(x.value - y.value, x.bitsize)

Elements(w) == [value : 0 .. Pow2[w] - 1, bitsize : {w}]

(***************************************************************************)
(* convert(w, 2, block): element b is read as a whole word at the byte     *)
(* where it begins, and masked.  A block is a number, its first byte the   *)
(* lowest; two words fit into it, so the branch for more is never taken.   *)
(***************************************************************************)
\* Variant: rounds down.
BytesizeFloor(bits) == bits \div ByteBits

Bytesize(bits) ==
  IF bits % ByteBits = 0 THEN bits \div ByteBits ELSE (bits \div ByteBits) + 1

WordAt(block, offset) == (block \div Pow2[ByteBits * offset]) % Pow2[WordBits]

Convert(w, block) == [b \in {0, 1} |-> Ge(WordAt(block, b * Bytesize(w)), w)]

(***************************************************************************)
(* send_ge sends the lowest bytes of the value, and recv_ge receives; each *)
(* side's own width decides how many.  recv_ge reads a whole word from a   *)
(* buffer of as many: what lies above is unwritten memory, until the mask. *)
(***************************************************************************)
GeBytes(bits) == IF bits > 4 * ByteBits THEN 8
                 ELSE IF bits > 2 * ByteBits THEN 4
                 ELSE IF bits > ByteBits THEN 2 ELSE 1

SendGe(x, bw) == x.value % Pow2[ByteBits * GeBytes(bw)]

\* Variant: the value is used as it was read.
RecvGeUnmasked(wire, bl, above) ==
  [value |-> wire + Pow2[ByteBits * GeBytes(bl)] * above, bitsize |-> bl]

RecvGe(wire, bl, above) == Ge(wire + Pow2[ByteBits * GeBytes(bl)] * above, bl)
=============================================================================
