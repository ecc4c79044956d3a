-------------------------------- MODULE Dpf --------------------------------
(***************************************************************************)
(* The operators from which the distributed point function of              *)
(* src/dpf.cpp is built: blocks and their XOR, the PRG that expands one    *)
(* tree level, the correction words, the output group and the final share. *)
(* Every module about the DPF extends this one.                            *)
(*                                                                         *)
(* The data are abstract.  A 128-bit block is the set of its one bits; the *)
(* AES permutation keyed by a block is the table Aes; convert() is the     *)
(* table Convert; the output group is the integers modulo Modulus (the     *)
(* code's 2^Bout).  Nothing below depends on which tables they are.        *)
(***************************************************************************)
EXTENDS Integers, FiniteSets

CONSTANTS
  Word,     \* bit positions of a block; position 0 is its lowest bit
  Aes,      \* Aes[k][c]: encryption of the plaintext block c \in 0..3 under k
  Modulus,  \* order of the output group, 2^Bout in the code
  Convert   \* Convert[s]: the two group elements cut out of block s

Block == SUBSET Word
Bit   == {0, 1}
Party == {0, 1}
Group == 0 .. Modulus - 1

ASSUME WordAssumption    == IsFiniteSet(Word) /\ 0 \in Word
ASSUME AesAssumption     == Aes \in [Block -> [0 .. 3 -> Block]]
ASSUME ModulusAssumption == Modulus \in Nat \ {0}
ASSUME ConvertAssumption == Convert \in [Block -> [Bit -> Group]]

(***************************************************************************)
(* Arithmetic.                                                             *)
(***************************************************************************)
BlockXor(a, b) == (a \ b) \cup (b \ a)
BitXor(a, b)   == (a + b) % 2
Lsb(b)         == IF 0 \in b THEN 1 ELSE 0

Add(x, y) == (x + y) % Modulus
Sub(x, y) == (x - y) % Modulus

(***************************************************************************)
(* XOR of a whole family of blocks, or of bits: an odd number of members   *)
(* has the bit.                                                            *)
(***************************************************************************)
OddlyMany(S) == Cardinality(S) % 2 = 1
XorAll(f)    == {w \in Word : OddlyMany({x \in DOMAIN f : w \in f[x]})}
XorBits(f)   == IF OddlyMany({x \in DOMAIN f : f[x] = 1}) THEN 1 ELSE 0

(***************************************************************************)
(* The PRG: under key k the plaintexts 0 and 2 give the left and right     *)
(* child block, the low bits of plaintexts 1 and 3 their control bits.     *)
(***************************************************************************)
PrgS(k, b) == Aes[k][2 * b]
PrgT(k, b) == Lsb(Aes[k][2 * b + 1])

(***************************************************************************)
(* One expansion of the layer hats, a function on 0..n-1: the 2n children  *)
(* and their bits, and the XOR of all left and of all right children.      *)
(***************************************************************************)
Nodes(hats, n) == [j \in 0 .. 2 * n - 1 |-> PrgS(hats[j \div 2], j % 2)]
Currt(hats, n) == [j \in 0 .. 2 * n - 1 |-> PrgT(hats[j \div 2], j % 2)]
ZS(hats, n) == [b \in Bit |-> XorAll([j \in 0 .. n - 1 |-> PrgS(hats[j], b)])]
ZT(hats, n) == [b \in Bit |-> XorBits([j \in 0 .. n - 1 |-> PrgT(hats[j], b)])]

(***************************************************************************)
(* The correction word of a level, from both parties' XORs and the bit sig *)
(* of the secret point: sigma is the difference on the side the point does *)
(* not take, tau leaves the control bits different on the side it takes.   *)
(***************************************************************************)
Sigma(zs0, zs1, sig) == BlockXor(zs0[1 - sig], zs1[1 - sig])
\* Variant: the exclusive-or with 1 on the wrong side.
TauSwapped(zt0, zt1, sig) ==
  [b \in Bit |-> BitXor(BitXor(zt0[b], zt1[b]),
                        IF b = 1 THEN BitXor(sig, 1) ELSE sig)]

Tau(zt0, zt1, sig) ==
  [b \in Bit |-> BitXor(BitXor(zt0[b], zt1[b]),
                        IF b = 0 THEN BitXor(sig, 1) ELSE sig)]

(***************************************************************************)
(* Children of a node whose control bit was 1 are corrected.               *)
(***************************************************************************)
CorrectS(hats, hatt, n, sigma) ==
  [j \in 0 .. 2 * n - 1 |->
     IF hatt[j \div 2] = 1 THEN BlockXor(Nodes(hats, n)[j], sigma)
                           ELSE Nodes(hats, n)[j]]
CorrectT(hats, hatt, n, tau) ==
  [j \in 0 .. 2 * n - 1 |->
     IF hatt[j \div 2] = 1 THEN BitXor(Currt(hats, n)[j], tau[j % 2])
                           ELSE Currt(hats, n)[j]]

\* Variant: the comparison of the control bits the wrong way round.
SignBitReversed(T0, T1) == IF T0 > T1 THEN 1 ELSE 0

(***************************************************************************)
(* The final correction word: t1 tells which party's control bit is set on *)
(* the path, W0 and W1 are the leaf sums, beta0 and beta1 the shares of    *)
(* the value.  Then what a party outputs at a leaf.                        *)
(***************************************************************************)
SignBit(T0, T1) == IF T0 < T1 THEN 1 ELSE 0

Gamma(t1, W0, W1, beta0, beta1) ==
  IF t1 = 1 THEN Sub(Sub(Sub(W0, beta0), beta1), W1)
            ELSE Add(Sub(Add(beta0, beta1), W0), W1)

\* Variant: gamma is added whatever the control bit.
ShareAlways(p, s, t, gamma) ==
  [b \in Bit |->
     LET g == Convert[s][b]
     IN  IF p = 0 THEN Add(g, gamma[b]) ELSE Sub(Sub(0, g), gamma[b])]

Share(p, s, t, gamma) ==
  [b \in Bit |->
     LET g == Convert[s][b]
     IN  IF p = 0
         THEN IF t = 0 THEN g ELSE Add(g, gamma[b])
         ELSE IF t = 0 THEN Sub(0, g) ELSE Sub(Sub(0, g), gamma[b])]

(***************************************************************************)
(* A function on 0..i-1 with the value v appended at i.                    *)
(***************************************************************************)
Extend(f, i, v) == [k \in 0 .. i |-> IF k = i THEN v ELSE f[k]]
=============================================================================
