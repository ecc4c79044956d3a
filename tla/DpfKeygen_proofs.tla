-------------------------- MODULE DpfKeygen_proofs --------------------------
(***************************************************************************)
(* dpf_keygen is correct for every height, number of threads, block size,  *)
(* PRG, output group and choice of inputs: its type invariant, the path    *)
(* invariant, the invariant of the concurrent sums, and the point function *)
(* the finished keys share.  The lemmas on what the operators of Dpf       *)
(* return, for every block size, PRG and group order, come first.          *)
(***************************************************************************)
EXTENDS DpfKeygen, TLAPS, FiniteSetTheorems

(***************************************************************************)
(* The group operations by cases, without the remainder: what the provers  *)
(* need to reason about sums with linear arithmetic.                       *)
(***************************************************************************)
LEMMA AddForm ==
  ASSUME NEW x \in Group, NEW y \in Group
  PROVE  Add(x, y) = IF x + y < Modulus THEN x + y ELSE x + y - Modulus
BY ModulusAssumption DEF Add, Group

LEMMA SubForm ==
  ASSUME NEW x \in Group, NEW y \in Group
  PROVE  Sub(x, y) = IF x >= y THEN x - y ELSE x - y + Modulus
BY ModulusAssumption DEF Sub, Group

LEMMA GroupClosed ==
  ASSUME NEW x \in Group, NEW y \in Group
  PROVE  Add(x, y) \in Group /\ Sub(x, y) \in Group
BY AddForm, SubForm, ModulusAssumption DEF Group

(***************************************************************************)
(* The ancestor of a point one level up is half of it, and the bit taken   *)
(* there is the remainder.                                                 *)
(***************************************************************************)
LEMMA DivHalf ==
  ASSUME NEW a \in Nat, NEW m \in Nat \ {0}
  PROVE  a \div m = 2 * (a \div (2 * m)) + ((a \div m) % 2)
<1>1. (a \div m) \div 2 = a \div (2 * m)
  OBVIOUS
<1>2. QED
  BY <1>1

(***************************************************************************)
(* Parity of a set's size changes with every element put in.               *)
(***************************************************************************)
LEMMA OddInsert ==
  ASSUME NEW S, IsFiniteSet(S), NEW p, p \notin S
  PROVE  OddlyMany(S \cup {p}) <=> ~OddlyMany(S)
<1>1. Cardinality(S) \in Nat
  BY FS_CardinalityType
<1>2. Cardinality(S \cup {p}) = Cardinality(S) + 1
  BY FS_AddElement
<1>3. QED
  BY <1>1, <1>2 DEF OddlyMany

(***************************************************************************)
(* Two sets that agree except at p have the same parity exactly when they  *)
(* agree there too.                                                        *)
(***************************************************************************)
LEMMA ParityDiff ==
  ASSUME NEW A, NEW B, NEW p, IsFiniteSet(A), IsFiniteSet(B), A \ {p} = B \ {p}
  PROVE  (OddlyMany(A) <=> OddlyMany(B)) <=> (p \in A <=> p \in B)
<1> DEFINE C == A \ {p}
<1>1. IsFiniteSet(C) /\ p \notin C
  BY FS_Subset
<1>2. OddlyMany(C \cup {p}) <=> ~OddlyMany(C)
  BY <1>1, OddInsert
<1>3. A = IF p \in A THEN C \cup {p} ELSE C
  OBVIOUS
<1>4. B = IF p \in B THEN C \cup {p} ELSE C
  OBVIOUS
<1>5. QED
  BY <1>2, <1>3, <1>4

(***************************************************************************)
(* The XOR of a whole layer and the XOR of one that differs only at p      *)
(* differ by the difference at p: everything else cancels.                 *)
(***************************************************************************)
LEMMA XorAllDiff ==
  ASSUME NEW f, NEW g, NEW p, IsFiniteSet(DOMAIN f), DOMAIN g = DOMAIN f,
         p \in DOMAIN f, f[p] \in Block, g[p] \in Block,
         \A x \in DOMAIN f : x # p => f[x] = g[x]
  PROVE  BlockXor(XorAll(f), XorAll(g)) = BlockXor(f[p], g[p])
<1> DEFINE A(w) == {x \in DOMAIN f : w \in f[x]}
           B(w) == {x \in DOMAIN g : w \in g[x]}
<1>1. ASSUME NEW w \in Word
      PROVE  (w \in XorAll(f) <=> w \in XorAll(g)) <=> (w \in f[p] <=> w \in g[p])
  <2>1. IsFiniteSet(A(w)) /\ IsFiniteSet(B(w))
    BY FS_Subset
  <2>2. A(w) \ {p} = B(w) \ {p}
    OBVIOUS
  <2>3. (OddlyMany(A(w)) <=> OddlyMany(B(w))) <=> (p \in A(w) <=> p \in B(w))
    BY <2>1, <2>2, ParityDiff
  <2>4. (w \in XorAll(f) <=> OddlyMany(A(w))) /\ (w \in XorAll(g) <=> OddlyMany(B(w)))
    BY DEF XorAll
  <2>5. QED
    BY <2>3, <2>4
<1>2. XorAll(f) \subseteq Word /\ XorAll(g) \subseteq Word
  BY DEF XorAll
<1>3. f[p] \subseteq Word /\ g[p] \subseteq Word
  BY DEF Block
<1>4. QED
  BY <1>1, <1>2, <1>3 DEF BlockXor

LEMMA XorBitsDiff ==
  ASSUME NEW f, NEW g, NEW p, IsFiniteSet(DOMAIN f), DOMAIN g = DOMAIN f,
         p \in DOMAIN f, f[p] \in Bit, g[p] \in Bit,
         \A x \in DOMAIN f : x # p => f[x] = g[x]
  PROVE  BitXor(XorBits(f), XorBits(g)) = BitXor(f[p], g[p])
<1> DEFINE A == {x \in DOMAIN f : f[x] = 1}
           B == {x \in DOMAIN g : g[x] = 1}
<1>1. IsFiniteSet(A) /\ IsFiniteSet(B)
  BY FS_Subset
<1>2. A \ {p} = B \ {p}
  OBVIOUS
<1>3. (OddlyMany(A) <=> OddlyMany(B)) <=> (p \in A <=> p \in B)
  BY <1>1, <1>2, ParityDiff
<1>4. XorBits(f) = (IF OddlyMany(A) THEN 1 ELSE 0)
  BY DEF XorBits
<1>5. XorBits(g) = (IF OddlyMany(B) THEN 1 ELSE 0)
  BY DEF XorBits
<1>6. (p \in A <=> f[p] = 1) /\ (p \in B <=> g[p] = 1)
  OBVIOUS
<1>7. f[p] \in {0, 1} /\ g[p] \in {0, 1}
  BY DEF Bit
<1>8. QED
  BY <1>3, <1>4, <1>5, <1>6, <1>7 DEF BitXor

(***************************************************************************)
(* Types of what one expansion of a layer of n nodes computes.             *)
(***************************************************************************)
LEMMA PrgType ==
  ASSUME NEW k \in Block, NEW b \in Bit
  PROVE  PrgS(k, b) \in Block /\ PrgT(k, b) \in Bit
<1>1. 2 * b \in 0 .. 3 /\ 2 * b + 1 \in 0 .. 3
  BY DEF Bit
<1>2. QED
  BY <1>1, AesAssumption DEF PrgS, PrgT, Lsb, Bit

LEMMA XorType ==
  ASSUME NEW a \in Block, NEW b \in Block, NEW x \in Bit, NEW y \in Bit
  PROVE  BlockXor(a, b) \in Block /\ BitXor(x, y) \in Bit
BY DEF BlockXor, Block, BitXor, Bit

LEMMA ExpandType ==
  ASSUME NEW n \in Nat, NEW hs \in [0 .. n - 1 -> Block]
  PROVE  /\ Nodes(hs, n) \in [0 .. 2 * n - 1 -> Block]
         /\ Currt(hs, n) \in [0 .. 2 * n - 1 -> Bit]
         /\ ZS(hs, n) \in [Bit -> Block]
         /\ ZT(hs, n) \in [Bit -> Bit]
<1>1. \A j \in 0 .. 2 * n - 1 : j \div 2 \in 0 .. n - 1 /\ j % 2 \in Bit
  BY DEF Bit
<1>2. Nodes(hs, n) \in [0 .. 2 * n - 1 -> Block]
  BY <1>1, PrgType DEF Nodes
<1>3. Currt(hs, n) \in [0 .. 2 * n - 1 -> Bit]
  BY <1>1, PrgType DEF Currt
<1>4. \A f : XorAll(f) \in Block /\ XorBits(f) \in Bit
  BY DEF XorAll, XorBits, Block, Bit
<1>5. QED
  BY <1>2, <1>3, <1>4 DEF ZS, ZT

LEMMA CorrectType ==
  ASSUME NEW n \in Nat, NEW hs \in [0 .. n - 1 -> Block],
         NEW ht \in [0 .. n - 1 -> Bit],
         NEW sw \in Block, NEW tw \in [Bit -> Bit]
  PROVE  /\ CorrectS(hs, ht, n, sw) \in [0 .. 2 * n - 1 -> Block]
         /\ CorrectT(hs, ht, n, tw) \in [0 .. 2 * n - 1 -> Bit]
<1>1. \A j \in 0 .. 2 * n - 1 : j \div 2 \in 0 .. n - 1 /\ j % 2 \in Bit
  BY DEF Bit
<1>2. \A j \in 0 .. 2 * n - 1 : Nodes(hs, n)[j] \in Block /\ Currt(hs, n)[j] \in Bit
  BY ExpandType
<1>3. \A j \in 0 .. 2 * n - 1 : BlockXor(Nodes(hs, n)[j], sw) \in Block
  BY <1>2, XorType DEF Bit
<1>4. \A j \in 0 .. 2 * n - 1 : BitXor(Currt(hs, n)[j], tw[j % 2]) \in Bit
  BY <1>1, <1>2, XorType DEF Block
<1>5. CorrectS(hs, ht, n, sw) \in [0 .. 2 * n - 1 -> Block]
  BY <1>2, <1>3 DEF CorrectS
<1>6. CorrectT(hs, ht, n, tw) \in [0 .. 2 * n - 1 -> Bit]
  BY <1>2, <1>4 DEF CorrectT
<1>7. QED
  BY <1>5, <1>6

(***************************************************************************)
(* The correction word does its job.  Let two layers of n nodes agree      *)
(* except at node p, where the control bits differ, and let the next bit   *)
(* of the point be sig.  After expansion and correction they agree except  *)
(* at the child of p on side sig, where the bits differ again.             *)
(***************************************************************************)
AgreeExcept(s0, t0, s1, t1, n, p) ==
  /\ t0[p] # t1[p]
  /\ \A j \in (0 .. n - 1) \ {p} : s0[j] = s1[j] /\ t0[j] = t1[j]

LEMMA CorrectionStep ==
  ASSUME NEW n \in Nat, NEW p \in 0 .. n - 1, NEW sig \in Bit,
         NEW s0 \in [0 .. n - 1 -> Block], NEW s1 \in [0 .. n - 1 -> Block],
         NEW t0 \in [0 .. n - 1 -> Bit], NEW t1 \in [0 .. n - 1 -> Bit],
         AgreeExcept(s0, t0, s1, t1, n, p),
         NEW sw, NEW tw,
         sw = Sigma(ZS(s0, n), ZS(s1, n), sig),
         tw = Tau(ZT(s0, n), ZT(s1, n), sig)
  PROVE  AgreeExcept(CorrectS(s0, t0, n, sw), CorrectT(s0, t0, n, tw),
                     CorrectS(s1, t1, n, sw), CorrectT(s1, t1, n, tw),
                     2 * n, 2 * p + sig)
<1> DEFINE lose == 1 - sig
<1>1. IsFiniteSet(0 .. n - 1)
  BY FS_Interval
<1>2. ASSUME NEW b \in Bit
      PROVE  /\ BlockXor(ZS(s0, n)[b], ZS(s1, n)[b]) = BlockXor(PrgS(s0[p], b), PrgS(s1[p], b))
             /\ BitXor(ZT(s0, n)[b], ZT(s1, n)[b]) = BitXor(PrgT(s0[p], b), PrgT(s1[p], b))
  <2> DEFINE F0 == [j \in 0 .. n - 1 |-> PrgS(s0[j], b)]
             F1 == [j \in 0 .. n - 1 |-> PrgS(s1[j], b)]
             G0 == [j \in 0 .. n - 1 |-> PrgT(s0[j], b)]
             G1 == [j \in 0 .. n - 1 |-> PrgT(s1[j], b)]
  <2>1. /\ F0[p] = PrgS(s0[p], b) /\ F1[p] = PrgS(s1[p], b)
        /\ G0[p] = PrgT(s0[p], b) /\ G1[p] = PrgT(s1[p], b)
    OBVIOUS
  <2>2. /\ F0[p] \in Block /\ F1[p] \in Block
        /\ G0[p] \in Bit /\ G1[p] \in Bit
    BY PrgType
  <2>3. \A j \in 0 .. n - 1 : j # p => F0[j] = F1[j] /\ G0[j] = G1[j]
    BY DEF AgreeExcept
  <2>4. /\ ZS(s0, n)[b] = XorAll(F0) /\ ZS(s1, n)[b] = XorAll(F1)
        /\ ZT(s0, n)[b] = XorBits(G0) /\ ZT(s1, n)[b] = XorBits(G1)
    BY DEF ZS, ZT
  <2>5. /\ DOMAIN F0 = 0 .. n - 1 /\ DOMAIN F1 = 0 .. n - 1
        /\ DOMAIN G0 = 0 .. n - 1 /\ DOMAIN G1 = 0 .. n - 1
    OBVIOUS
  <2> HIDE DEF F0, F1, G0, G1
  <2>6. BlockXor(XorAll(F0), XorAll(F1)) = BlockXor(F0[p], F1[p])
    BY <1>1, <2>2, <2>3, <2>5, XorAllDiff
  <2>7. BitXor(XorBits(G0), XorBits(G1)) = BitXor(G0[p], G1[p])
    BY <1>1, <2>2, <2>3, <2>5, XorBitsDiff
  <2>8. QED
    BY <2>1, <2>4, <2>6, <2>7
<1>3. lose \in Bit
  BY DEF Bit
<1>4. sw = BlockXor(PrgS(s0[p], lose), PrgS(s1[p], lose))
  BY <1>2, <1>3 DEF Sigma
<1>5. \A b \in Bit : tw[b] = BitXor(BitXor(PrgT(s0[p], b), PrgT(s1[p], b)),
                                     IF b = sig THEN 1 ELSE 0)
  BY <1>2 DEF Tau, Bit, BitXor
<1>6. \A k \in 0 .. n - 1, b \in Bit :
        /\ PrgS(s0[k], b) \in Block /\ PrgS(s1[k], b) \in Block
        /\ PrgT(s0[k], b) \in Bit /\ PrgT(s1[k], b) \in Bit
  BY PrgType
<1>7. \A j \in 0 .. 2 * n - 1 : j \div 2 \in 0 .. n - 1 /\ j % 2 \in Bit /\ j = 2 * (j \div 2) + (j % 2)
  BY DEF Bit
<1> HIDE DEF lose
<1>8. ASSUME NEW j \in 0 .. 2 * n - 1, j # 2 * p + sig
      PROVE  /\ CorrectS(s0, t0, n, sw)[j] = CorrectS(s1, t1, n, sw)[j]
             /\ CorrectT(s0, t0, n, tw)[j] = CorrectT(s1, t1, n, tw)[j]
  <2> DEFINE k == j \div 2
             b == j % 2
  <2>1. k \in 0 .. n - 1 /\ b \in Bit
    BY <1>7
  <2>2. CASE k # p
    BY <2>1, <2>2 DEF AgreeExcept, CorrectS, CorrectT, Nodes, Currt
  <2>3. CASE k = p
    <3>1. b = lose /\ b # sig
      BY <1>7, <1>8, <2>3 DEF Bit, lose
    <3>2. sw = BlockXor(PrgS(s0[p], b), PrgS(s1[p], b))
      BY <1>4, <3>1
    <3>3. tw[b] = BitXor(BitXor(PrgT(s0[p], b), PrgT(s1[p], b)), 0)
      BY <1>5, <2>1, <3>1
    <3>4. /\ BlockXor(PrgS(s0[p], b), sw) = PrgS(s1[p], b)
          /\ BlockXor(PrgS(s1[p], b), sw) = PrgS(s0[p], b)
      BY <3>2 DEF BlockXor
    <3>5. /\ BitXor(PrgT(s0[p], b), tw[b]) = PrgT(s1[p], b)
          /\ BitXor(PrgT(s1[p], b), tw[b]) = PrgT(s0[p], b)
      BY <3>3, <1>6, <2>1, SMTT(30) DEF BitXor, Bit
    <3>6. t0[p] \in {0, 1} /\ t1[p] \in {0, 1} /\ t0[p] # t1[p]
      BY DEF AgreeExcept, Bit
    <3>7. QED
      BY <2>3, <3>4, <3>5, <3>6 DEF CorrectS, CorrectT, Nodes, Currt
  <2>4. QED
    BY <2>2, <2>3
<1>9. CorrectT(s0, t0, n, tw)[2 * p + sig] # CorrectT(s1, t1, n, tw)[2 * p + sig]
  <2>1. 2 * p + sig \in 0 .. 2 * n - 1 /\ (2 * p + sig) \div 2 = p /\ (2 * p + sig) % 2 = sig
    BY DEF Bit
  <2>2. tw[sig] = BitXor(BitXor(PrgT(s0[p], sig), PrgT(s1[p], sig)), 1)
    BY <1>5
  <2>3. /\ BitXor(PrgT(s0[p], sig), tw[sig]) # PrgT(s1[p], sig)
        /\ BitXor(PrgT(s1[p], sig), tw[sig]) # PrgT(s0[p], sig)
    BY <1>6, <2>2 DEF BitXor, Bit
  <2>4. t0[p] \in {0, 1} /\ t1[p] \in {0, 1} /\ t0[p] # t1[p]
    BY DEF AgreeExcept, Bit
  <2>5. QED
    BY <2>1, <2>3, <2>4, SMTT(30) DEF CorrectT, Currt
<1>10. QED
  BY <1>8, <1>9 DEF AgreeExcept
-----------------------------------------------------------------------------
(***************************************************************************)
(* Arithmetic of the output group.                                         *)
(***************************************************************************)
LEMMA Cases ==
  ASSUME NEW x \in Group, NEW y \in Group
  PROVE  /\ Add(x, y) \in Group /\ Add(x, y) \in {x + y, x + y - Modulus}
         /\ Sub(x, y) \in Group /\ Sub(x, y) \in {x - y, x - y + Modulus}
BY AddForm, SubForm, GroupClosed

LEMMA SubOfAdds ==
  ASSUME NEW x \in Group, NEW y \in Group, NEW c \in Group, NEW d \in Group
  PROVE  Sub(Add(x, c), Add(y, d)) = Add(Sub(x, y), Sub(c, d))
<1> DEFINE xc == Add(x, c)
           yd == Add(y, d)
           xy == Sub(x, y)
           cd == Sub(c, d)
           l  == Sub(xc, yd)
           r  == Add(xy, cd)
<1>1. xc \in Group /\ xc \in {x + c, x + c - Modulus}
  BY Cases
<1>2. yd \in Group /\ yd \in {y + d, y + d - Modulus}
  BY Cases
<1>3. xy \in Group /\ xy \in {x - y, x - y + Modulus}
  BY Cases
<1>4. cd \in Group /\ cd \in {c - d, c - d + Modulus}
  BY Cases
<1> HIDE DEF xc, yd, xy, cd
<1>5. l \in Group /\ l \in {xc - yd, xc - yd + Modulus}
  BY <1>1, <1>2, Cases
<1>6. r \in Group /\ r \in {xy + cd, xy + cd - Modulus}
  BY <1>3, <1>4, Cases
<1> HIDE DEF l, r
<1>7. l = r
  BY <1>1, <1>2, <1>3, <1>4, <1>5, <1>6, ModulusAssumption DEF Group
<1>8. QED
  BY <1>7 DEF l, r, xc, yd, xy, cd

LEMMA ZeroInGroup == 0 \in Group
BY ModulusAssumption DEF Group

LEMMA ZeroLaws ==
  ASSUME NEW x \in Group
  PROVE  /\ Add(x, 0) = x /\ Add(0, x) = x
         /\ Sub(x, x) = 0
         /\ Add(x, Sub(0, x)) = 0
<1>1. 0 \in Group
  BY ZeroInGroup
<1>2. Sub(0, x) \in Group
  BY <1>1, GroupClosed
<1>3. QED
  BY <1>1, <1>2, AddForm, SubForm, ModulusAssumption DEF Group

(***************************************************************************)
(* Off the path both parties add, or both leave out, gamma: it cancels.    *)
(***************************************************************************)
LEMMA OffPathCancels ==
  ASSUME NEW c \in Group, NEW g \in Group
  PROVE  Add(Add(c, g), Sub(Sub(0, c), g)) = 0
<1> DEFINE u == Add(c, g)
           n == Sub(0, c)
           v == Sub(n, g)
           r == Add(u, v)
<1>1. 0 \in Group
  BY ZeroInGroup
<1>2. u \in Group /\ u \in {c + g, c + g - Modulus}
  BY Cases
<1>3. n \in Group /\ n \in {0 - c, 0 - c + Modulus}
  BY <1>1, Cases
<1> HIDE DEF u, n
<1>4. v \in Group /\ v \in {n - g, n - g + Modulus}
  BY <1>3, Cases
<1> HIDE DEF v
<1>5. r \in Group /\ r \in {u + v, u + v - Modulus}
  BY <1>2, <1>4, Cases
<1> HIDE DEF r
<1>6. r = 0
  BY <1>2, <1>3, <1>4, <1>5, ModulusAssumption DEF Group
<1>7. QED
  BY <1>6 DEF r, u, v, n

(***************************************************************************)
(* On the path one party adds gamma; its sign, chosen by T0 < T1, is the   *)
(* one that makes the shares sum to beta0 + beta1.                         *)
(***************************************************************************)
LEMMA GammaType ==
  ASSUME NEW W0 \in Group, NEW W1 \in Group, NEW b0 \in Group, NEW b1 \in Group,
         NEW t1 \in Bit
  PROVE  Gamma(t1, W0, W1, b0, b1) \in Group
BY GroupClosed DEF Gamma

SharesSumTo(b0, b1, c0, c1, t1, g) ==
  /\ t1 = 1 => Add(c0, Sub(Sub(0, c1), g)) = Add(b0, b1)
  /\ t1 = 0 => Add(Add(c0, g), Sub(0, c1)) = Add(b0, b1)

LEMMA OnPathSum ==
  ASSUME NEW W0 \in Group, NEW W1 \in Group, NEW b0 \in Group, NEW b1 \in Group,
         NEW c0 \in Group, NEW c1 \in Group, Sub(W0, W1) = Sub(c0, c1),
         NEW t1 \in Bit
  PROVE  SharesSumTo(b0, b1, c0, c1, t1, Gamma(t1, W0, W1, b0, b1))
<1> DEFINE d == Sub(W0, W1)
           b == Add(b0, b1)
           n == Sub(0, c1)
           g == Gamma(t1, W0, W1, b0, b1)
<1>1. 0 \in Group
  BY ZeroInGroup
<1>2. d \in Group /\ d \in {W0 - W1, W0 - W1 + Modulus}
  BY Cases
<1>3. d \in {c0 - c1, c0 - c1 + Modulus}
  BY Cases
<1>4. b \in Group /\ b \in {b0 + b1, b0 + b1 - Modulus}
  BY Cases
<1>5. n \in Group /\ n \in {0 - c1, 0 - c1 + Modulus}
  BY <1>1, Cases
<1> HIDE DEF d, n, g
<1>6. ASSUME t1 = 1 PROVE Add(c0, Sub(n, g)) = b
  <2> DEFINE g1 == Sub(W0, b0)
             g2 == Sub(g1, b1)
             e  == Sub(n, g)
             r  == Add(c0, e)
  <2>0. g = Sub(g2, W1)
    BY <1>6 DEF g, Gamma
  <2>1. g1 \in Group /\ g1 \in {W0 - b0, W0 - b0 + Modulus}
    BY Cases
  <2> HIDE DEF g1, b
  <2>2. g2 \in Group /\ g2 \in {g1 - b1, g1 - b1 + Modulus}
    BY <2>1, Cases
  <2> HIDE DEF g2
  <2>3. g \in Group /\ g \in {g2 - W1, g2 - W1 + Modulus}
    BY <2>0, <2>2, Cases
  <2>4. e \in Group /\ e \in {n - g, n - g + Modulus}
    BY <1>5, <2>3, Cases
  <2> HIDE DEF e
  <2>5. r \in Group /\ r \in {c0 + e, c0 + e - Modulus}
    BY <2>4, Cases
  <2> HIDE DEF r
  <2>6. \E k \in {-3, -2, -1, 0, 1, 2, 3} : g = d - b + k * Modulus
    BY <1>2, <1>4, <2>1, <2>2, <2>3, ModulusAssumption DEF Group
  <2>7. r = b
    BY <1>3, <1>4, <1>5, <2>3, <2>4, <2>5, <2>6, ModulusAssumption DEF Group
  <2>8. QED
    BY <2>7 DEF r, e
<1>7. ASSUME t1 = 0 PROVE Add(Add(c0, g), n) = b
  <2> DEFINE g1 == Sub(b, W0)
             e  == Add(c0, g)
             r  == Add(e, n)
  <2>0. g = Add(g1, W1)
    BY <1>7 DEF g, Gamma
  <2>1. g1 \in Group /\ g1 \in {b - W0, b - W0 + Modulus}
    BY <1>4, Cases
  <2> HIDE DEF g1, b
  <2>3. g \in Group /\ g \in {g1 + W1, g1 + W1 - Modulus}
    BY <2>0, <2>1, Cases
  <2>4. e \in Group /\ e \in {c0 + g, c0 + g - Modulus}
    BY <2>3, Cases
  <2> HIDE DEF e
  <2>5. r \in Group /\ r \in {e + n, e + n - Modulus}
    BY <1>5, <2>4, Cases
  <2> HIDE DEF r
  <2>6. \E k \in {-3, -2, -1, 0, 1, 2, 3} : g = b - d + k * Modulus
    BY <1>2, <1>4, <2>1, <2>3, ModulusAssumption DEF Group
  <2>7. r = b
    BY <1>3, <1>4, <1>5, <2>3, <2>4, <2>5, <2>6, ModulusAssumption DEF Group
  <2>8. QED
    BY <2>7 DEF r, e
<1>8. QED
  BY <1>6, <1>7 DEF n, b, g, SharesSumTo
-----------------------------------------------------------------------------
(***************************************************************************)
(* Where the program is determines which of its tables are filled.         *)
(***************************************************************************)
PhaseInvariant ==
  /\ pc = "level" => summed = {} /\ joined = 0
  /\ joined > 0 => summed = 0 .. size - 1
  /\ pc = "done" =>
       /\ joined = Threads
       /\ gamma = [b \in Bit |-> Gamma(SignBit(T[0], T[1]), W[0][b], W[1][b], Beta(0)[b], Beta(1)[b])]

IInv == TypeOK /\ PathInvariant /\ SumsInvariant /\ PhaseInvariant
-----------------------------------------------------------------------------
(***************************************************************************)
(* The secret point, its ancestors and its bits.                           *)
(***************************************************************************)
LEMMA PointType ==
  ASSUME TypeOK
  PROVE  /\ Point \in Domain
         /\ Path \in Nat
         /\ level < Height => SigBit \in Bit
<1>1. Pow2[Height] \in Nat \ {0} /\ Pow2[Height - level] \in Nat \ {0}
  BY HeightAssumption, Pow2Assumption DEF TypeOK
<1>2. index[0] \in Nat /\ index[1] \in Nat
  BY <1>1 DEF TypeOK, Domain, Party
<1>3. Point \in Domain
  BY <1>1, <1>2 DEF Point, Domain
<1>4. Path \in Nat
  BY <1>1, <1>3 DEF Path, Domain
<1>5. ASSUME level < Height PROVE SigBit \in Bit
  <2>1. Pow2[Height - 1 - level] \in Nat \ {0}
    BY <1>5, HeightAssumption, Pow2Assumption, SMTT(30) DEF TypeOK
  <2>2. QED
    BY <1>1, <1>3, <2>1 DEF SigBit, Domain, Bit
<1>6. QED
  BY <1>3, <1>4, <1>5

LEMMA PathStep ==
  ASSUME TypeOK, level < Height, index' = index, level' = level + 1
  PROVE  Path' = 2 * Path + SigBit
<1> DEFINE m == Pow2[Height - 1 - level]
<1>1. m \in Nat \ {0}
  BY HeightAssumption, Pow2Assumption, SMTT(30) DEF TypeOK
<1>2. Pow2[Height - level] = 2 * m
  <2>1. Height - 1 - level \in 0 .. Height - 1
    BY HeightAssumption DEF TypeOK
  <2>2. Pow2[(Height - 1 - level) + 1] = 2 * m
    BY <2>1, Pow2Assumption
  <2>3. (Height - 1 - level) + 1 = Height - level
    BY HeightAssumption DEF TypeOK
  <2>4. QED
    BY <2>2, <2>3
<1>3. Height - (level + 1) = Height - 1 - level
  BY HeightAssumption DEF TypeOK
<1>4. Point \in Nat
  BY PointType, HeightAssumption, Pow2Assumption DEF Domain
<1>5. Path' = Point \div m
  BY <1>3 DEF Path, Point
<1>6. Path = Point \div (2 * m)
  BY <1>2 DEF Path
<1> HIDE DEF m
<1>7. Point \div m = 2 * (Point \div (2 * m)) + ((Point \div m) % 2)
  BY <1>1, <1>4, DivHalf
<1>8. QED
  BY <1>5, <1>6, <1>7 DEF SigBit, m
-----------------------------------------------------------------------------
(***************************************************************************)
(* Type correctness.                                                       *)
(***************************************************************************)
LEMMA InitType == Init => TypeOK
<1> SUFFICES ASSUME Init PROVE TypeOK
  OBVIOUS
<1>1. /\ size = Pow2[level] /\ level \in 0 .. Height /\ joined \in 0 .. Threads
      /\ (pc = "level") <=> (level < Height)
  BY HeightAssumption, ThreadsAssumption, Pow2Assumption DEF Init
<1>2. 0 \in Group
  BY ZeroInGroup
<1>3. hats \in [Party -> Layer(Block)] /\ hatt \in [Party -> Layer(Bit)]
  BY DEF Init, Layer, Party, Bit
<1>4. /\ zs \in [Party -> [0 .. level - 1 -> [Bit -> Block]]]
      /\ zt \in [Party -> [0 .. level - 1 -> [Bit -> Bit]]]
      /\ sigma \in [0 .. level - 1 -> Block]
      /\ tau \in [0 .. level - 1 -> [Bit -> Bit]]
  BY DEF Init, Block, Bit
<1>5. /\ threadW \in [Party -> [Thread -> [Bit -> Group]]]
      /\ threadT \in [Party -> [Thread -> Nat]]
      /\ W \in [Party -> [Bit -> Group]]
      /\ T \in [Party -> Nat]
      /\ gamma \in [Bit -> Group]
  BY <1>2 DEF Init
<1>6. QED
  BY <1>1, <1>3, <1>4, <1>5 DEF Init, TypeOK

LEMMA ExtendType ==
  ASSUME NEW S, NEW n \in Nat, NEW f \in [0 .. n - 1 -> S], NEW v \in S
  PROVE  Extend(f, n, v) \in [0 .. (n + 1) - 1 -> S]
BY DEF Extend

LEMMA LevelWords ==
  ASSUME TypeOK, pc = "level"
  PROVE  /\ size \in Nat
         /\ \A p \in Party : /\ hats[p] \in [0 .. size - 1 -> Block]
                             /\ hatt[p] \in [0 .. size - 1 -> Bit]
         /\ SigBit \in Bit
         /\ LevelSigma \in Block
         /\ LevelTau \in [Bit -> Bit]
<1>1. size \in Nat /\ level < Height
  BY HeightAssumption, Pow2Assumption DEF TypeOK
<1>2. \A p \in Party : hats[p] \in [0 .. size - 1 -> Block] /\ hatt[p] \in [0 .. size - 1 -> Bit]
  BY DEF TypeOK, Layer
<1>3. SigBit \in Bit
  BY <1>1, PointType
<1>4. \A p \in Party : ZS(hats[p], size) \in [Bit -> Block] /\ ZT(hats[p], size) \in [Bit -> Bit]
  BY <1>1, <1>2, ExpandType
<1>5. 1 - SigBit \in Bit
  BY <1>3 DEF Bit
<1>6. LevelSigma \in Block
  BY <1>4, <1>5, XorType DEF LevelSigma, Sigma, Party, Bit
<1>7. LevelTau \in [Bit -> Bit]
  <2>1. \A b \in Bit : (IF b = 0 THEN BitXor(SigBit, 1) ELSE SigBit) \in Bit
    BY <1>3 DEF BitXor, Bit
  <2>2. \A b \in Bit : BitXor(ZT(hats[0], size)[b], ZT(hats[1], size)[b]) \in Bit
    BY <1>4 DEF BitXor, Bit, Party
  <2>3. \A x \in Bit, y \in Bit : BitXor(x, y) \in Bit
    BY DEF BitXor, Bit
  <2>4. QED
    BY <2>1, <2>2, <2>3 DEF LevelTau, Tau
<1>8. QED
  BY <1>1, <1>2, <1>3, <1>6, <1>7

LEMMA LevelType == TypeOK /\ Level => TypeOK'
<1> SUFFICES ASSUME TypeOK, Level PROVE TypeOK'
  OBVIOUS
<1>0. pc = "level" /\ level \in 0 .. Height - 1 /\ level \in Nat
  BY HeightAssumption DEF Level, TypeOK
<1>1. size' = Pow2[level']
  BY <1>0, Pow2Assumption DEF Level, TypeOK
<1>2. level' \in 0 .. Height /\ pc' \in {"level", "leaves"} /\ ((pc' = "level") <=> (level' < Height))
  BY <1>0, HeightAssumption DEF Level
<1>3. hats' \in [Party -> Layer(Block)'] /\ hatt' \in [Party -> Layer(Bit)']
  <2>1. \A p \in Party : /\ CorrectS(hats[p], hatt[p], size, LevelSigma) \in [0 .. 2 * size - 1 -> Block]
                         /\ CorrectT(hats[p], hatt[p], size, LevelTau) \in [0 .. 2 * size - 1 -> Bit]
    BY <1>0, LevelWords, CorrectType
  <2>2. QED
    BY <2>1 DEF Level, Layer
<1>4. zs' \in [Party -> [0 .. level' - 1 -> [Bit -> Block]]]
  <2>1. \A p \in Party : ZS(hats[p], size) \in [Bit -> Block] /\ zs[p] \in [0 .. level - 1 -> [Bit -> Block]]
    BY <1>0, LevelWords, ExpandType DEF TypeOK
  <2>2. \A p \in Party : Extend(zs[p], level, ZS(hats[p], size)) \in [0 .. (level + 1) - 1 -> [Bit -> Block]]
    BY <1>0, <2>1, ExtendType
  <2>3. QED
    BY <2>2 DEF Level
<1>5. zt' \in [Party -> [0 .. level' - 1 -> [Bit -> Bit]]]
  <2>1. \A p \in Party : ZT(hats[p], size) \in [Bit -> Bit] /\ zt[p] \in [0 .. level - 1 -> [Bit -> Bit]]
    BY <1>0, LevelWords, ExpandType DEF TypeOK
  <2>2. \A p \in Party : Extend(zt[p], level, ZT(hats[p], size)) \in [0 .. (level + 1) - 1 -> [Bit -> Bit]]
    BY <1>0, <2>1, ExtendType
  <2>3. QED
    BY <2>2 DEF Level
<1>6. sigma' \in [0 .. level' - 1 -> Block] /\ tau' \in [0 .. level' - 1 -> [Bit -> Bit]]
  <2>1. /\ Extend(sigma, level, LevelSigma) \in [0 .. (level + 1) - 1 -> Block]
        /\ Extend(tau, level, LevelTau) \in [0 .. (level + 1) - 1 -> [Bit -> Bit]]
    BY <1>0, LevelWords, ExtendType DEF TypeOK
  <2>2. QED
    BY <2>1 DEF Level
<1>7. summed' \subseteq 0 .. size' - 1
  <2>1. size \in Nat
    BY <1>0, LevelWords
  <2>2. QED
    BY <2>1 DEF TypeOK, Level, sums
<1>8. QED
  BY <1>1, <1>2, <1>3, <1>4, <1>5, <1>6, <1>7
     DEF TypeOK, Level, input, sums, totals

LEMMA LeafValue ==
  ASSUME TypeOK, NEW p \in Party, NEW j \in 0 .. size - 1
  PROVE  /\ hats[p][j] \in Block /\ hatt[p][j] \in Bit
         /\ \A b \in Bit : Convert[hats[p][j]][b] \in Group
<1>0. hats \in [Party -> Layer(Block)] /\ hatt \in [Party -> Layer(Bit)]
  BY DEF TypeOK
<1>1. hats[p][j] \in Block /\ hatt[p][j] \in Bit
  BY <1>0 DEF Layer
<1>2. QED
  BY <1>1, ConvertAssumption

LEMMA LeafType ==
  ASSUME TypeOK, NEW th \in Thread, NEW j \in 0 .. size - 1, Leaf(th, j)
  PROVE  TypeOK'
<1>1. threadW' \in [Party -> [Thread -> [Bit -> Group]]]
  <2>1. \A p \in Party, b \in Bit :
          Add(threadW[p][th][b], Convert[hats[p][j]][b]) \in Group
    BY LeafValue, GroupClosed DEF TypeOK
  <2>2. \A p \in Party :
          [b \in Bit |-> Add(threadW[p][th][b], Convert[hats[p][j]][b])] \in [Bit -> Group]
    BY <2>1
  <2>3. \A p \in Party : threadW[p] \in [Thread -> [Bit -> Group]]
    BY DEF TypeOK
  <2>4. QED
    BY <2>2, <2>3 DEF Leaf
<1>2. threadT' \in [Party -> [Thread -> Nat]]
  <2>1. \A p \in Party : threadT[p][th] + hatt[p][j] \in Nat
    <3>1. \A p \in Party : hatt[p][j] \in Nat
      BY LeafValue DEF Bit
    <3>2. QED
      BY <3>1 DEF TypeOK
  <2>2. \A p \in Party : threadT[p] \in [Thread -> Nat]
    BY DEF TypeOK
  <2>3. QED
    BY <2>1, <2>2 DEF Leaf
<1>3. QED
  BY <1>1, <1>2 DEF TypeOK, Leaf, input, tree, totals, Layer

LEMMA JoinType ==
  ASSUME TypeOK, NEW th \in Thread, Join(th)
  PROVE  TypeOK'
<1>1. W' \in [Party -> [Bit -> Group]]
  <2>1. \A p \in Party, b \in Bit : Add(W[p][b], threadW[p][th][b]) \in Group
    BY GroupClosed DEF TypeOK
  <2>2. QED
    BY <2>1 DEF Join
<1>2. T' \in [Party -> Nat]
  BY DEF TypeOK, Join
<1>3. joined' \in 0 .. Threads
  BY ThreadsAssumption DEF Join, Thread
<1>4. QED
  BY <1>1, <1>2, <1>3 DEF TypeOK, Join, input, tree, sums, Layer

LEMMA BetaType ==
  ASSUME TypeOK, NEW p \in Party, NEW b \in Bit
  PROVE  Beta(p)[b] \in Group
BY ModulusAssumption DEF TypeOK, Beta, Group, Party

LEMMA GammaValueType ==
  ASSUME TypeOK, NEW b \in Bit
  PROVE  Gamma(SignBit(T[0], T[1]), W[0][b], W[1][b], Beta(0)[b], Beta(1)[b]) \in Group
<1>1. W[0][b] \in Group /\ W[1][b] \in Group /\ Beta(0)[b] \in Group /\ Beta(1)[b] \in Group
  BY BetaType DEF TypeOK, Party
<1>2. SignBit(T[0], T[1]) \in Bit
  BY DEF SignBit, Bit
<1>3. QED
  BY <1>1, <1>2, GammaType

LEMMA FinishType == TypeOK /\ Finish => TypeOK'
<1> SUFFICES ASSUME TypeOK, Finish PROVE TypeOK'
  OBVIOUS
<1>1. gamma' \in [Bit -> Group]
  BY GammaValueType DEF Finish
<1>2. QED
  BY <1>1 DEF TypeOK, Finish, input, tree, sums, totals, Layer

LEMMA StutterType == TypeOK /\ UNCHANGED vars => TypeOK'
BY DEF TypeOK, vars, input, tree, sums, totals, Layer

(***************************************************************************)
(* Every variable keeps its type and every table of dpf_keygen the domain  *)
(* its malloc gave it (src/dpf.cpp:145-400).                               *)
(***************************************************************************)
THEOREM TypeCorrect == Spec => []TypeOK
<1>1. TypeOK /\ [Next]_vars => TypeOK'
  BY LevelType, LeafType, JoinType, FinishType, StutterType DEF Next, Main, Worker
<1>2. QED
  BY InitType, <1>1, PTL DEF Spec
-----------------------------------------------------------------------------
(***************************************************************************)
(* The path invariant.                                                     *)
(***************************************************************************)
LEMMA InitPath == Init => PathInvariant
<1> SUFFICES ASSUME Init PROVE PathInvariant
  OBVIOUS
<1>1. TypeOK
  BY InitType
<1>2. Point \in 0 .. Pow2[Height] - 1 /\ Pow2[Height] \in Nat \ {0}
  BY <1>1, PointType, HeightAssumption, Pow2Assumption DEF Domain
<1>3. Height - level = Height
  BY HeightAssumption DEF Init
<1>4. Path = 0
  BY <1>2, <1>3 DEF Path
<1>5. QED
  BY <1>4 DEF Init, PathInvariant, Party

LEMMA LevelPath == TypeOK /\ PathInvariant /\ Level => PathInvariant'
<1> SUFFICES ASSUME TypeOK, PathInvariant, Level PROVE PathInvariant'
  OBVIOUS
<1>1. pc = "level" /\ level < Height
  BY DEF Level, TypeOK
<1>2. Path' = 2 * Path + SigBit
  BY <1>1, PathStep DEF Level, input
<1>3. /\ size \in Nat /\ SigBit \in Bit
      /\ hats[0] \in [0 .. size - 1 -> Block] /\ hats[1] \in [0 .. size - 1 -> Block]
      /\ hatt[0] \in [0 .. size - 1 -> Bit] /\ hatt[1] \in [0 .. size - 1 -> Bit]
  BY <1>1, LevelWords DEF Party
<1>4. Path \in 0 .. size - 1 /\ AgreeExcept(hats[0], hatt[0], hats[1], hatt[1], size, Path)
  BY DEF PathInvariant, AgreeExcept
<1>5. AgreeExcept(CorrectS(hats[0], hatt[0], size, LevelSigma), CorrectT(hats[0], hatt[0], size, LevelTau),
                  CorrectS(hats[1], hatt[1], size, LevelSigma), CorrectT(hats[1], hatt[1], size, LevelTau),
                  2 * size, 2 * Path + SigBit)
  BY <1>3, <1>4, CorrectionStep DEF LevelSigma, LevelTau
<1>6. AgreeExcept(hats'[0], hatt'[0], hats'[1], hatt'[1], size', Path')
  BY <1>2, <1>5 DEF Level, Party
<1>7. Path' \in 0 .. size' - 1
  BY <1>2, <1>3, <1>4 DEF Level, Bit
<1>8. QED
  BY <1>6, <1>7 DEF PathInvariant, AgreeExcept

LEMMA OtherPath ==
  PathInvariant /\ UNCHANGED <<input, tree>> => PathInvariant'
BY DEF PathInvariant, Path, Point, input, tree

(***************************************************************************)
(* After any number of levels the parties' layers differ exactly at the    *)
(* ancestor of the secret point, whatever the PRG and the inputs           *)
(* (src/dpf.cpp:261-313).                                                  *)
(***************************************************************************)
THEOREM PathCorrect == Spec => []PathInvariant
<1>1. TypeOK /\ PathInvariant /\ [Next]_vars => PathInvariant'
  <2> SUFFICES ASSUME TypeOK, PathInvariant, [Next]_vars PROVE PathInvariant'
    OBVIOUS
  <2>1. CASE Level
    BY <2>1, LevelPath
  <2>2. CASE UNCHANGED <<input, tree>>
    BY <2>2, OtherPath
  <2>3. QED
    BY <2>1, <2>2 DEF Next, Main, Worker, Leaf, Join, Finish, vars
<1>2. QED
  BY InitPath, <1>1, TypeCorrect, PTL DEF Spec
-----------------------------------------------------------------------------
(***************************************************************************)
(* The invariant of the sums.                                              *)
(***************************************************************************)
LEMMA OwnerType == \A j \in Nat : Owner(j) \in Thread
BY ThreadsAssumption DEF Owner, Thread

LEMMA LeafDiff ==
  ASSUME TypeOK, PathInvariant
  PROVE  /\ Path \in 0 .. size - 1 /\ Path \in Nat
         /\ \A b \in Bit : LeafDiffW(b) \in Group
         /\ LeafDiffT \in {-1, 1}
         /\ \A j \in (0 .. size - 1) \ {Path} :
              hats[0][j] = hats[1][j] /\ hatt[0][j] = hatt[1][j]
<1>1. Path \in 0 .. size - 1 /\ Path \in Nat
  BY PointType DEF PathInvariant
<1>2. \A b \in Bit : LeafDiffW(b) \in Group
  BY <1>1, LeafValue, GroupClosed DEF LeafDiffW, Party
<1>3. LeafDiffT \in {-1, 1}
  BY <1>1, LeafValue DEF LeafDiffT, PathInvariant, Party, Bit
<1>4. QED
  BY <1>1, <1>2, <1>3 DEF PathInvariant

LEMMA InitSums == Init => SumsInvariant /\ PhaseInvariant
<1> SUFFICES ASSUME Init PROVE SumsInvariant /\ PhaseInvariant
  OBVIOUS
<1>1. ThreadSums
  BY ZeroInGroup, ZeroLaws DEF Init, ThreadSums, Party
<1>2. Owner(Path) \in Nat
  BY InitType, PointType, OwnerType DEF Thread
<1>3. TotalSums
  BY <1>2, ZeroInGroup, ZeroLaws DEF Init, TotalSums, Party
<1>4. PhaseInvariant
  BY DEF Init, PhaseInvariant
<1>5. QED
  BY <1>1, <1>3, <1>4 DEF SumsInvariant

\* Before the leaves are summed no accumulator depends on the layer.
LEMMA LevelSums == IInv /\ Level => SumsInvariant' /\ PhaseInvariant'
<1> SUFFICES ASSUME IInv, Level PROVE SumsInvariant' /\ PhaseInvariant'
  OBVIOUS
<1>1. summed = {} /\ joined = 0 /\ summed' = {} /\ joined' = 0
  BY DEF IInv, PhaseInvariant, Level, sums, totals
<1>2. threadW' = threadW /\ threadT' = threadT /\ W' = W /\ T' = T
  BY DEF Level, sums, totals
<1>3. Owner(Path) \in Nat /\ Owner(Path') \in Nat
  <2>1. Path \in Nat /\ Path' \in Nat
    <3>1. Path \in Nat /\ level < Height /\ SigBit \in {0, 1}
      BY PointType DEF IInv, TypeOK, Level, Bit
    <3>2. Path' = 2 * Path + SigBit
      BY <3>1, PathStep DEF IInv, Level, input
    <3>3. QED
      BY <3>1, <3>2
  <2>2. QED
    BY <2>1, OwnerType DEF Thread
<1>4. ThreadSums'
  BY <1>1, <1>2 DEF IInv, SumsInvariant, ThreadSums
<1>5. ~(Owner(Path) < joined) /\ ~(Owner(Path) < joined)'
  BY <1>1, <1>3 DEF Owner
<1>6. TotalSums'
  BY <1>2, <1>5 DEF IInv, SumsInvariant, TotalSums
<1>7. PhaseInvariant'
  BY <1>1 DEF Level, PhaseInvariant
<1>8. QED
  BY <1>4, <1>6, <1>7 DEF SumsInvariant

\* A leaf off the path changes both parties' accumulators alike.
LEMMA LeafSums ==
  ASSUME IInv, NEW th \in Thread, NEW j \in 0 .. size - 1, Leaf(th, j)
  PROVE  SumsInvariant' /\ PhaseInvariant'
<1>0. TypeOK /\ PathInvariant /\ ThreadSums /\ TotalSums /\ PhaseInvariant
  BY DEF IInv, SumsInvariant
<1>1. /\ j \notin summed /\ summed' = summed \cup {j} /\ Owner(j) = th
      /\ hats' = hats /\ hatt' = hatt /\ Path' = Path /\ size' = size
      /\ joined' = joined /\ W' = W /\ T' = T /\ gamma' = gamma /\ pc' = pc /\ pc = "leaves"
  BY DEF Leaf, NextLeaf, tree, totals, input, Path, Point
<1>2. /\ \A b \in Bit : LeafDiffW(b)' = LeafDiffW(b)
      /\ LeafDiffT' = LeafDiffT
  BY <1>1 DEF LeafDiffW, LeafDiffT
<1>3. ASSUME NEW r \in Thread, NEW b \in Bit
      PROVE  /\ Sub(threadW'[0][r][b], threadW'[1][r][b])
                  = IF Path \in summed' /\ Owner(Path) = r THEN LeafDiffW(b) ELSE 0
             /\ threadT'[0][r] - threadT'[1][r]
                  = IF Path \in summed' /\ Owner(Path) = r THEN LeafDiffT ELSE 0
  <2> DEFINE x == threadW[0][r][b]
             y == threadW[1][r][b]
             c == Convert[hats[0][j]][b]
             d == Convert[hats[1][j]][b]
  <2>1. x \in Group /\ y \in Group /\ c \in Group /\ d \in Group
    BY <1>0, LeafValue, SMTT(30) DEF TypeOK, Party
  <2>2. /\ Sub(x, y) = IF Path \in summed /\ Owner(Path) = r THEN LeafDiffW(b) ELSE 0
        /\ threadT[0][r] - threadT[1][r] = IF Path \in summed /\ Owner(Path) = r THEN LeafDiffT ELSE 0
    BY <1>0 DEF ThreadSums
  <2>3. CASE r # th
    <3>1. /\ threadW'[0][r][b] = x /\ threadW'[1][r][b] = y
          /\ threadT'[0][r] = threadT[0][r] /\ threadT'[1][r] = threadT[1][r]
      BY <1>0, <2>3 DEF Leaf, TypeOK, Party
    <3>2. Path \in summed' /\ Owner(Path) = r <=> Path \in summed /\ Owner(Path) = r
      BY <1>1, <2>3
    <3>3. QED
      BY <2>2, <3>1, <3>2
  <2>4. CASE r = th
    <3>1. threadW'[0][r][b] = Add(x, c) /\ threadW'[1][r][b] = Add(y, d)
      BY <1>0, <2>4 DEF Leaf, TypeOK, Party
    <3>2. threadT'[0][r] = threadT[0][r] + hatt[0][j] /\ threadT'[1][r] = threadT[1][r] + hatt[1][j]
      BY <1>0, <2>4 DEF Leaf, TypeOK, Party
    <3>3. Sub(threadW'[0][r][b], threadW'[1][r][b]) = Add(Sub(x, y), Sub(c, d))
      BY <2>1, <3>1, SubOfAdds
    <3>4. /\ threadT[0][r] \in Int /\ threadT[1][r] \in Int
          /\ hatt[0][j] \in Int /\ hatt[1][j] \in Int
      <4>1. hatt[0][j] \in Bit /\ hatt[1][j] \in Bit
        BY <1>0, LeafValue DEF Party
      <4>2. QED
        BY <1>0, <4>1 DEF TypeOK, Party, Bit
    <3>5. CASE j = Path
      <4>1. Sub(x, y) = 0 /\ threadT[0][r] - threadT[1][r] = 0
        BY <1>1, <2>2, <3>5
      <4>2. Sub(c, d) = LeafDiffW(b) /\ LeafDiffW(b) \in Group
        BY <1>0, <3>5, LeafDiff DEF LeafDiffW
      <4>3. Sub(threadW'[0][r][b], threadW'[1][r][b]) = LeafDiffW(b)
        BY <3>3, <4>1, <4>2, ZeroLaws
      <4>4. threadT'[0][r] - threadT'[1][r] = LeafDiffT
        BY <3>2, <3>4, <3>5, <4>1 DEF LeafDiffT
      <4>5. QED
        BY <1>1, <2>4, <3>5, <4>3, <4>4
    <3>6. CASE j # Path
      <4>1. c = d /\ hatt[0][j] = hatt[1][j]
        BY <1>0, <3>6, LeafDiff
      <4>2. Sub(c, d) = 0 /\ Sub(x, y) \in Group
        BY <2>1, <4>1, ZeroLaws, GroupClosed
      <4>3. Sub(threadW'[0][r][b], threadW'[1][r][b]) = Sub(x, y)
        BY <3>3, <4>2, ZeroLaws
      <4>4. threadT'[0][r] - threadT'[1][r] = threadT[0][r] - threadT[1][r]
        BY <3>2, <3>4, <4>1
      <4>5. Path \in summed' <=> Path \in summed
        BY <1>1, <3>6
      <4>6. QED
        BY <2>2, <4>3, <4>4, <4>5
    <3>7. QED
      BY <3>5, <3>6
  <2>5. QED
    BY <2>3, <2>4
<1>4. ThreadSums'
  BY <1>1, <1>2, <1>3 DEF ThreadSums, Bit
<1>5. TotalSums'
  BY <1>0, <1>1, <1>2 DEF TotalSums, Owner
<1>6. joined = 0
  <2>1. joined \in Nat
    BY <1>0, ThreadsAssumption DEF TypeOK
  <2>2. ~(joined > 0)
    BY <1>0, <1>1 DEF PhaseInvariant
  <2>3. QED
    BY <2>1, <2>2
<1>7. PhaseInvariant'
  BY <1>0, <1>1, <1>6 DEF PhaseInvariant
<1>8. QED
  BY <1>4, <1>5, <1>7 DEF SumsInvariant

\* Joining a thread moves its difference, if it has it, into the totals.
LEMMA JoinSums ==
  ASSUME IInv, NEW th \in Thread, Join(th)
  PROVE  SumsInvariant' /\ PhaseInvariant'
<1>0. TypeOK /\ PathInvariant /\ ThreadSums /\ TotalSums /\ PhaseInvariant
  BY DEF IInv, SumsInvariant
<1>1. /\ summed = 0 .. size - 1 /\ th = joined /\ joined' = joined + 1
      /\ summed' = summed /\ threadW' = threadW /\ threadT' = threadT
      /\ hats' = hats /\ hatt' = hatt /\ Path' = Path /\ size' = size
      /\ gamma' = gamma /\ pc' = pc /\ pc = "leaves"
  BY DEF Join, sums, tree, input, Path, Point
<1>2. /\ \A b \in Bit : LeafDiffW(b)' = LeafDiffW(b)
      /\ LeafDiffT' = LeafDiffT
  BY <1>1 DEF LeafDiffW, LeafDiffT
<1>3. Path \in summed /\ Owner(Path) \in Nat /\ joined \in Nat
  BY <1>0, <1>1, LeafDiff, OwnerType DEF Thread
<1>4. ThreadSums'
  BY <1>0, <1>1, <1>2 DEF ThreadSums, Owner
<1>5. ASSUME NEW b \in Bit
      PROVE  Sub(W'[0][b], W'[1][b]) = IF Owner(Path) < joined + 1 THEN LeafDiffW(b) ELSE 0
  <2> DEFINE x == W[0][b]
             y == W[1][b]
             c == threadW[0][th][b]
             d == threadW[1][th][b]
  <2>1. x \in Group /\ y \in Group /\ c \in Group /\ d \in Group
    BY <1>0 DEF TypeOK, Party
  <2>2. W'[0][b] = Add(x, c) /\ W'[1][b] = Add(y, d)
    BY DEF Join, Party
  <2>3. Sub(W'[0][b], W'[1][b]) = Add(Sub(x, y), Sub(c, d))
    BY <2>1, <2>2, SubOfAdds
  <2>4. Sub(x, y) = IF Owner(Path) < joined THEN LeafDiffW(b) ELSE 0
    BY <1>0 DEF TotalSums
  <2>5. Sub(c, d) = IF Owner(Path) = joined THEN LeafDiffW(b) ELSE 0
    BY <1>0, <1>1, <1>3 DEF ThreadSums
  <2>6. LeafDiffW(b) \in Group
    BY <1>0, LeafDiff
  <2>7. Add(LeafDiffW(b), 0) = LeafDiffW(b) /\ Add(0, LeafDiffW(b)) = LeafDiffW(b) /\ Add(0, 0) = 0
    BY <2>6, ZeroLaws, ZeroInGroup
  <2>8. QED
    BY <1>3, <2>3, <2>4, <2>5, <2>7
<1>6. T'[0] - T'[1] = IF Owner(Path) < joined + 1 THEN LeafDiffT ELSE 0
  <2>1. /\ T'[0] = T[0] + threadT[0][th] /\ T'[1] = T[1] + threadT[1][th]
        /\ T[0] \in Nat /\ T[1] \in Nat /\ threadT[0][th] \in Nat /\ threadT[1][th] \in Nat
    BY <1>0 DEF Join, TypeOK, Party
  <2>2. threadT[0][th] - threadT[1][th] = IF Owner(Path) = joined THEN LeafDiffT ELSE 0
    BY <1>0, <1>1, <1>3 DEF ThreadSums
  <2>3. T[0] - T[1] = IF Owner(Path) < joined THEN LeafDiffT ELSE 0
    BY <1>0 DEF TotalSums
  <2>4. LeafDiffT \in Int
    BY <1>0, LeafDiff
  <2>5. QED
    BY <1>3, <2>1, <2>2, <2>3, <2>4
<1>7. TotalSums'
  BY <1>1, <1>2, <1>5, <1>6 DEF TotalSums, Owner
<1>8. PhaseInvariant'
  BY <1>1 DEF PhaseInvariant
<1>9. QED
  BY <1>4, <1>7, <1>8 DEF SumsInvariant

LEMMA FinishSums == IInv /\ Finish => SumsInvariant' /\ PhaseInvariant'
<1> SUFFICES ASSUME IInv, Finish PROVE SumsInvariant' /\ PhaseInvariant'
  OBVIOUS
<1>1. SumsInvariant'
  BY DEF IInv, Finish, SumsInvariant, ThreadSums, TotalSums, LeafDiffW, LeafDiffT,
         Path, Point, input, tree, sums, totals
<1>2. PhaseInvariant'
  BY DEF IInv, PhaseInvariant, Finish, input, tree, sums, totals, Beta
<1>3. QED
  BY <1>1, <1>2

LEMMA StutterSums == IInv /\ UNCHANGED vars => SumsInvariant' /\ PhaseInvariant'
<1> SUFFICES ASSUME IInv, UNCHANGED vars PROVE SumsInvariant' /\ PhaseInvariant'
  OBVIOUS
<1>1. SumsInvariant'
  BY DEF IInv, vars, SumsInvariant, ThreadSums, TotalSums, LeafDiffW, LeafDiffT,
         Path, Point, input, tree, sums, totals
<1>2. PhaseInvariant'
  BY DEF IInv, PhaseInvariant, vars, input, tree, sums, totals, Beta
<1>3. QED
  BY <1>1, <1>2

(***************************************************************************)
(* The inductive invariant.                                                *)
(***************************************************************************)
THEOREM InvCorrect == Spec => []IInv
<1>1. Init => IInv
  BY InitType, InitPath, InitSums DEF IInv
<1>2. TypeOK /\ PathInvariant /\ TypeOK' /\ PathInvariant' /\ IInv /\ [Next]_vars => IInv'
  BY LevelSums, LeafSums, JoinSums, FinishSums, StutterSums DEF IInv, Next, Main, Worker
<1>3. QED
  BY <1>1, <1>2, TypeCorrect, PathCorrect, PTL DEF Spec

(***************************************************************************)
(* However the threads of dpf.cpp:335-366 interleave, each accumulator and *)
(* the totals differ between the parties by the leaf on the path alone.    *)
(***************************************************************************)
THEOREM SumsCorrect == Spec => []SumsInvariant
<1>1. IInv => SumsInvariant
  BY DEF IInv
<1>2. QED
  BY InvCorrect, <1>1, PTL
-----------------------------------------------------------------------------
(***************************************************************************)
(* The keys share the point function.                                      *)
(***************************************************************************)
LEMMA FinalPath ==
  ASSUME IInv, pc = "done"
  PROVE  Path = Point /\ size = Pow2[Height] /\ Point \in Domain
<1>1. level = Height /\ Pow2[Height - level] = 1
  BY HeightAssumption, Pow2Assumption DEF IInv, TypeOK
<1>2. Point \in Domain /\ Point \in Nat
  BY PointType, HeightAssumption, Pow2Assumption DEF IInv, Domain
<1>3. Path = Point
  BY <1>1, <1>2 DEF Path
<1>4. QED
  BY <1>1, <1>2, <1>3 DEF IInv, TypeOK

LEMMA FinalShares == IInv => ShareCorrect
<1> SUFFICES ASSUME IInv, pc = "done", NEW j \in Domain, NEW b \in Bit
             PROVE  Add(LeafShare(0, j)[b], LeafShare(1, j)[b]) = PointFunction(j)[b]
  BY DEF ShareCorrect
<1>0. TypeOK /\ PathInvariant /\ SumsInvariant /\ PhaseInvariant
  BY DEF IInv
<1>1. Path = Point /\ j \in 0 .. size - 1
  BY FinalPath DEF Domain
<1> DEFINE c0 == Convert[hats[0][j]][b]
           c1 == Convert[hats[1][j]][b]
           t0 == hatt[0][j]
           t1 == hatt[1][j]
           g  == gamma[b]
<1>2. c0 \in Group /\ c1 \in Group /\ t0 \in {0, 1} /\ t1 \in {0, 1} /\ g \in Group
  <2>1. hatt[0][j] \in Bit /\ hatt[1][j] \in Bit
    BY <1>0, <1>1, LeafValue DEF Party
  <2>2. QED
    BY <1>0, <1>1, <2>1, LeafValue DEF Party, Bit, TypeOK
<1>3. /\ LeafShare(0, j)[b] = IF t0 = 0 THEN c0 ELSE Add(c0, g)
      /\ LeafShare(1, j)[b] = IF t1 = 0 THEN Sub(0, c1) ELSE Sub(Sub(0, c1), g)
  BY DEF LeafShare, Share
<1>4. CASE j # Point
  <2>1. c0 = c1 /\ t0 = t1
    BY <1>0, <1>1, <1>4, LeafDiff
  <2>2. Add(c0, Sub(0, c0)) = 0 /\ Add(Add(c0, g), Sub(Sub(0, c0), g)) = 0
    BY <1>2, ZeroLaws, OffPathCancels
  <2>3. PointFunction(j)[b] = 0
    BY <1>4 DEF PointFunction
  <2>4. QED
    BY <1>2, <1>3, <2>1, <2>2, <2>3
<1>5. CASE j = Point
  <2> DEFINE b0 == Beta(0)[b]
             b1 == Beta(1)[b]
  <2>1. b0 \in Group /\ b1 \in Group /\ W[0][b] \in Group /\ W[1][b] \in Group
    BY <1>0, BetaType DEF TypeOK, Party
  <2>2. Owner(Path) < joined
    <3>1. Owner(Path) \in Thread /\ joined = Threads
      BY <1>0, LeafDiff, OwnerType DEF PhaseInvariant
    <3>2. QED
      BY <3>1, ThreadsAssumption DEF Thread
  <2>3. Sub(W[0][b], W[1][b]) = Sub(c0, c1) /\ T[0] - T[1] = t0 - t1
    BY <1>0, <1>1, <1>5, <2>2 DEF SumsInvariant, TotalSums, LeafDiffW, LeafDiffT
  <2>4. g = Gamma(SignBit(T[0], T[1]), W[0][b], W[1][b], b0, b1)
    BY <1>0 DEF PhaseInvariant
  <2>5. t0 # t1
    BY <1>0, <1>1, <1>5 DEF PathInvariant
  <2>6. SharesSumTo(b0, b1, c0, c1, SignBit(T[0], T[1]), g)
    <3>1. SignBit(T[0], T[1]) \in Bit
      BY DEF SignBit, Bit
    <3> HIDE DEF b0, b1, c0, c1, g
    <3>2. SharesSumTo(b0, b1, c0, c1, SignBit(T[0], T[1]),
                      Gamma(SignBit(T[0], T[1]), W[0][b], W[1][b], b0, b1))
      BY <1>2, <2>1, <2>3, <3>1, OnPathSum
    <3>3. QED
      BY <2>4, <3>2
  <2>7. T[0] \in Nat /\ T[1] \in Nat
    BY <1>0 DEF TypeOK, Party
  <2>8. PointFunction(j)[b] = Add(b0, b1)
    BY <1>5 DEF PointFunction
  <2>9. CASE t0 = 0
    <3>1. t1 = 1 /\ SignBit(T[0], T[1]) = 1
      BY <1>2, <2>3, <2>5, <2>7, <2>9 DEF SignBit
    <3>2. QED
      BY <1>3, <2>6, <2>8, <2>9, <3>1 DEF SharesSumTo
  <2>10. CASE t0 = 1
    <3>1. t1 = 0 /\ SignBit(T[0], T[1]) = 0
      BY <1>2, <2>3, <2>5, <2>7, <2>10 DEF SignBit
    <3>2. QED
      BY <1>3, <2>6, <2>8, <2>10, <3>1 DEF SharesSumTo
  <2>11. QED
    BY <1>2, <2>9, <2>10
<1>6. QED
  BY <1>4, <1>5

(***************************************************************************)
(* dpf_keygen keeps its promise: the two finished keys evaluate to shares  *)
(* of (1, alpha) at the secret point and of (0, 0) everywhere else         *)
(* (src/dpf.cpp:379-395 with the output cases of dpf_eval_all, 532-552).   *)
(***************************************************************************)
THEOREM SharesCorrect == Spec => []ShareCorrect
BY InvCorrect, FinalShares, PTL
=============================================================================
