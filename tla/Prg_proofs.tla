------------------------------ MODULE Prg_proofs ------------------------------
(***************************************************************************)
(* Proofs about the two pseudo-random generators.                          *)
(*                                                                         *)
(* PrgLayer, the expansion of a tree's layer: for every layer size, number *)
(* of threads, PRG and block size, and in every interleaving, the threads  *)
(* compute the layer and the XORs that Dpf defines.                        *)
(*                                                                         *)
(* Prng, the generator of secrets and databases: for every block length,   *)
(* buffer size and sequence of requests it hands out its seed's stream.    *)
(***************************************************************************)
EXTENDS PrgLayer, Prng, TLAPS, FiniteSetTheorems, NumberLemmas

(***************************************************************************)
(* The XOR over a family's members with indices in S, and what one more    *)
(* part of the family adds to it.                                          *)
(***************************************************************************)
XorOver(f, S)  == XorAll([k \in S |-> f[k]])
BitsOver(f, S) == XorBits([k \in S |-> f[k]])

LEMMA OddDisjoint ==
  ASSUME NEW A, NEW B, IsFiniteSet(A), IsFiniteSet(B), A \cap B = {}
  PROVE  OddlyMany(A \cup B) <=> ~(OddlyMany(A) <=> OddlyMany(B))
<1>1. Cardinality(A \cap B) = 0
  BY FS_EmptySet
<1>2. Cardinality(A \cup B) = Cardinality(A) + Cardinality(B)
  <2>1. Cardinality(A) \in Nat /\ Cardinality(B) \in Nat
    BY FS_CardinalityType
  <2>2. Cardinality(A \cup B) = Cardinality(A) + Cardinality(B) - Cardinality(A \cap B)
    BY FS_Union
  <2>3. QED
    BY <1>1, <2>1, <2>2
<1>3. Cardinality(A) \in Nat /\ Cardinality(B) \in Nat
  BY FS_CardinalityType
<1>4. QED
  BY <1>2, <1>3 DEF OddlyMany

LEMMA XorOverUnion ==
  ASSUME NEW f, NEW S, NEW R, IsFiniteSet(S), IsFiniteSet(R), S \cap R = {}
  PROVE  XorOver(f, S \cup R) = BlockXor(XorOver(f, S), XorOver(f, R))
<1> DEFINE A(w) == {x \in S : w \in f[x]}
           B(w) == {x \in R : w \in f[x]}
<1>1. ASSUME NEW w \in Word
      PROVE  w \in XorOver(f, S \cup R) <=> ~(w \in XorOver(f, S) <=> w \in XorOver(f, R))
  <2>1. IsFiniteSet(A(w)) /\ IsFiniteSet(B(w))
    BY FS_Subset
  <2>2. A(w) \cap B(w) = {}
    OBVIOUS
  <2>3. OddlyMany(A(w) \cup B(w)) <=> ~(OddlyMany(A(w)) <=> OddlyMany(B(w)))
    BY <2>1, <2>2, OddDisjoint
  <2>4. {x \in DOMAIN [k \in S |-> f[k]] : w \in [k \in S |-> f[k]][x]} = A(w)
    OBVIOUS
  <2>5. {x \in DOMAIN [k \in R |-> f[k]] : w \in [k \in R |-> f[k]][x]} = B(w)
    OBVIOUS
  <2>6. {x \in DOMAIN [k \in S \cup R |-> f[k]] : w \in [k \in S \cup R |-> f[k]][x]}
          = A(w) \cup B(w)
    OBVIOUS
  <2>7. w \in XorOver(f, S) <=> OddlyMany(A(w))
    BY <2>4 DEF XorOver, XorAll
  <2>8. w \in XorOver(f, R) <=> OddlyMany(B(w))
    BY <2>5 DEF XorOver, XorAll
  <2>9. w \in XorOver(f, S \cup R) <=> OddlyMany(A(w) \cup B(w))
    BY <2>6 DEF XorOver, XorAll
  <2>10. QED
    BY <2>3, <2>7, <2>8, <2>9
<1>2. /\ XorOver(f, S \cup R) \subseteq Word
      /\ XorOver(f, S) \subseteq Word /\ XorOver(f, R) \subseteq Word
  BY DEF XorOver, XorAll
<1>3. QED
  BY <1>1, <1>2 DEF BlockXor

LEMMA BitsOverUnion ==
  ASSUME NEW f, NEW S, NEW R, IsFiniteSet(S), IsFiniteSet(R), S \cap R = {}
  PROVE  BitsOver(f, S \cup R) = BitXor(BitsOver(f, S), BitsOver(f, R))
<1> DEFINE A == {x \in S : f[x] = 1}
           B == {x \in R : f[x] = 1}
<1>1. IsFiniteSet(A) /\ IsFiniteSet(B)
  BY FS_Subset
<1>2. A \cap B = {}
  OBVIOUS
<1>3. OddlyMany(A \cup B) <=> ~(OddlyMany(A) <=> OddlyMany(B))
  BY <1>1, <1>2, OddDisjoint
<1>4. {x \in DOMAIN [k \in S |-> f[k]] : [k \in S |-> f[k]][x] = 1} = A
  OBVIOUS
<1>5. {x \in DOMAIN [k \in R |-> f[k]] : [k \in R |-> f[k]][x] = 1} = B
  OBVIOUS
<1>6. {x \in DOMAIN [k \in S \cup R |-> f[k]] : [k \in S \cup R |-> f[k]][x] = 1} = A \cup B
  OBVIOUS
<1>7. BitsOver(f, S) = IF OddlyMany(A) THEN 1 ELSE 0
  BY <1>4 DEF BitsOver, XorBits
<1>8. BitsOver(f, R) = IF OddlyMany(B) THEN 1 ELSE 0
  BY <1>5 DEF BitsOver, XorBits
<1>9. BitsOver(f, S \cup R) = IF OddlyMany(A \cup B) THEN 1 ELSE 0
  BY <1>6 DEF BitsOver, XorBits
<1>10. QED
  BY <1>3, <1>7, <1>8, <1>9 DEF BitXor

LEMMA OverNothing ==
  ASSUME NEW f
  PROVE  XorOver(f, {}) = {} /\ BitsOver(f, {}) = 0
<1>1. ~OddlyMany({})
  BY FS_EmptySet DEF OddlyMany
<1>2. ASSUME NEW w \in Word
      PROVE  {x \in DOMAIN [k \in {} |-> f[k]] : w \in [k \in {} |-> f[k]][x]} = {}
  OBVIOUS
<1>3. {x \in DOMAIN [k \in {} |-> f[k]] : [k \in {} |-> f[k]][x] = 1} = {}
  OBVIOUS
<1>4. XorOver(f, {}) = {}
  BY <1>1, <1>2 DEF XorOver, XorAll
<1>5. BitsOver(f, {}) = 0
  BY <1>1, <1>3 DEF BitsOver, XorBits
<1>6. QED
  BY <1>4, <1>5

LEMMA OddParts ==
  ASSUME NEW p
  PROVE  OddlyMany({p}) /\ ~OddlyMany({})
<1>1. Cardinality({p}) = 1 /\ Cardinality({}) = 0
  BY FS_EmptySet, FS_Singleton
<1>2. QED
  BY <1>1 DEF OddlyMany

LEMMA OverOne ==
  ASSUME NEW f, NEW p, f[p] \in Block
  PROVE  XorOver(f, {p}) = f[p]
<1>1. OddlyMany({p}) /\ ~OddlyMany({})
  BY OddParts
<1>2. ASSUME NEW w \in Word
      PROVE  {x \in DOMAIN [k \in {p} |-> f[k]] : w \in [k \in {p} |-> f[k]][x]}
               = IF w \in f[p] THEN {p} ELSE {}
  OBVIOUS
<1>3. QED
  BY <1>1, <1>2 DEF XorOver, XorAll, Block

LEMMA BitsOverOne ==
  ASSUME NEW f, NEW p, f[p] \in Bit
  PROVE  BitsOver(f, {p}) = f[p]
<1>1. OddlyMany({p}) /\ ~OddlyMany({})
  BY OddParts
<1>2. {x \in DOMAIN [k \in {p} |-> f[k]] : [k \in {p} |-> f[k]][x] = 1}
        = IF f[p] = 1 THEN {p} ELSE {}
  OBVIOUS
<1>3. f[p] = 0 \/ f[p] = 1
  BY DEF Bit
<1>4. QED
  BY <1>1, <1>2, <1>3 DEF BitsOver, XorBits

\* One member more.
LEMMA OverInsert ==
  ASSUME NEW f, NEW S, NEW p, IsFiniteSet(S), p \notin S, f[p] \in Block
  PROVE  XorOver(f, S \cup {p}) = BlockXor(XorOver(f, S), f[p])
<1>1. IsFiniteSet({p}) /\ S \cap {p} = {}
  BY FS_Singleton
<1>2. QED
  BY <1>1, XorOverUnion, OverOne

LEMMA BitsOverInsert ==
  ASSUME NEW f, NEW S, NEW p, IsFiniteSet(S), p \notin S, f[p] \in Bit
  PROVE  BitsOver(f, S \cup {p}) = BitXor(BitsOver(f, S), f[p])
<1>1. IsFiniteSet({p}) /\ S \cap {p} = {}
  BY FS_Singleton
<1>2. QED
  BY <1>1, BitsOverUnion, BitsOverOne

(***************************************************************************)
(* schedule(static, 1): between an index and the next of the same thread   *)
(* there is no other of that thread.                                       *)
(***************************************************************************)
LEMMA NextOwn ==
  ASSUME NEW n \in Nat \ {0}, NEW a \in Nat, NEW k \in Nat,
         a % n = k % n, k < a + n, a <= k
  PROVE  k = a
<1>0. a \in Int /\ k \in Int
  OBVIOUS
<1>1. PICK c \in Int : a = n * c + (a % n)
  BY <1>0, RemainderForm
<1>2. PICK d \in Int : k = n * d + (k % n)
  BY <1>0, RemainderForm
<1>3. a % n \in Int
  OBVIOUS
<1>4. n * (d - c) = k - a
  BY <1>1, <1>2, <1>3
<1>5. CASE d - c >= 1
  <2>1. n * (d - c) >= n
    BY <1>5
  <2>2. QED
    BY <1>4, <2>1
<1>6. CASE d - c <= -1
  <2>1. n * (d - c) <= -n
    BY <1>6
  <2>2. QED
    BY <1>4, <2>1
<1>7. CASE d = c
  BY <1>1, <1>2, <1>7
<1>8. QED
  BY <1>5, <1>6, <1>7
(***************************************************************************)
(* Types.                                                                  *)
(***************************************************************************)
LEMMA Working ==
  ASSUME TypeOK, NEW th \in Thread, at[th] # "barrier"
  PROVE  /\ i[th] \in 0 .. size - 1
         /\ size \in Nat \ {0}
         /\ keynodes[i[th]] \in Block
<1>1. size \in Nat \ {0} /\ i[th] \in Nat /\ ~(i[th] >= size)
  BY PrgSizesAssumption DEF TypeOK
<1>2. i[th] \in 0 .. size - 1
  BY <1>1
<1>3. QED
  BY <1>1, <1>2 DEF TypeOK

LEMMA ChildTypes ==
  ASSUME TypeOK, NEW th \in Thread
  PROVE  ChildS(th) \in [Bit -> Block] /\ ChildT(th) \in [Bit -> Bit]
<1>1. ctt[th] \in [0 .. 3 -> Block]
  BY DEF TypeOK
<1>2. ASSUME NEW b \in Bit
      PROVE  ctt[th][2 * b] \in Block /\ ctt[th][2 * b + 1] \in Block
  <2>1. 2 * b \in 0 .. 3 /\ 2 * b + 1 \in 0 .. 3
    BY DEF Bit
  <2>2. QED
    BY <1>1, <2>1
<1>3. QED
  BY <1>2 DEF ChildS, ChildT, Buffer, Lsb, Bit

LEMMA WrittenType ==
  ASSUME NEW n \in Nat, NEW k \in 0 .. n - 1, NEW table, NEW R, NEW child \in [Bit -> R],
         DOMAIN table \subseteq 0 .. 2 * n - 1, table \in [DOMAIN table -> R]
  PROVE  /\ DOMAIN Written(table, k, child) = DOMAIN table \cup {2 * k, 2 * k + 1}
         /\ DOMAIN Written(table, k, child) \subseteq 0 .. 2 * n - 1
         /\ Written(table, k, child) \in [DOMAIN table \cup {2 * k, 2 * k + 1} -> R]
<1>1. 2 * k \in 0 .. 2 * n - 1 /\ 2 * k + 1 \in 0 .. 2 * n - 1
  OBVIOUS
<1>2. ASSUME NEW j \in DOMAIN table \cup {2 * k, 2 * k + 1}
      PROVE  (IF j \div 2 = k THEN child[j % 2] ELSE table[j]) \in R
  <2>1. j \in Nat
    BY <1>1
  <2>2. j % 2 \in Bit
    BY <2>1 DEF Bit
  <2>3. j \in {2 * k, 2 * k + 1} => j \div 2 = k
    OBVIOUS
  <2>4. QED
    BY <2>2, <2>3
<1>3. QED
  BY <1>1, <1>2 DEF Written

LEMMA TypeInit ==
  Init => TypeOK
<1> SUFFICES ASSUME Init PROVE TypeOK
  OBVIOUS
<1>1. size \in Nat \ {0} /\ Threads \in Nat \ {0}
  BY PrgSizesAssumption, PrgThreadsAssumption DEF Init
<1>2. ASSUME NEW th \in Thread
      PROVE  i[th] \in Nat /\ i[th] % Threads = th /\ (at[th] = "barrier" <=> i[th] >= size)
  <2>1. th \in Nat /\ th < Threads /\ i[th] = th
    BY <1>1 DEF Init, Thread
  <2>2. th % Threads = th
    <3>1. th \in 0 .. Threads - 1
      BY DEF Thread
    <3>2. (Threads * 0 + th) % Threads = th
      BY <1>1, <3>1, RemainderUnique
    <3>3. QED
      BY <1>1, <2>1, <3>2
  <2>3. at[th] = IF th < size THEN "encrypt" ELSE "barrier"
    BY DEF Init
  <2>4. QED
    BY <1>1, <2>1, <2>2, <2>3
<1>3. {} \in Block
  BY DEF Block
<1>4. at \in [Thread -> {"encrypt", "store", "xor", "barrier"}] /\ i \in [Thread -> Nat]
  BY <1>2 DEF Init
<1>5. /\ ctt \in [Thread -> [0 .. 3 -> Block]]
      /\ threadZs \in [Thread -> [Bit -> Block]] /\ zs \in [Bit -> Block]
  BY <1>3 DEF Init
<1>6. threadZt \in [Thread -> [Bit -> Bit]] /\ zt \in [Bit -> Bit]
  BY DEF Init, Bit
<1>7. outputNodes \in [DOMAIN outputNodes -> Block] /\ DOMAIN outputNodes = {}
  BY DEF Init
<1>8. outputT \in [DOMAIN outputNodes -> Bit]
  BY <1>7 DEF Init
<1>9. joined \in 0 .. Threads /\ layer.size = size
  BY <1>1 DEF Init
<1>10. size \in Sizes /\ keynodes \in [0 .. size - 1 -> Block]
  BY DEF Init
<1>11. DOMAIN outputNodes \subseteq 0 .. 2 * size - 1
  BY <1>7
<1>12. QED
  BY <1>2, <1>4, <1>5, <1>6, <1>7, <1>8, <1>9, <1>10, <1>11 DEF TypeOK

LEMMA TypeStep ==
  TypeOK /\ [Next]_vars => TypeOK'
<1> SUFFICES ASSUME TypeOK, [Next]_vars PROVE TypeOK'
  OBVIOUS
<1>0. Threads \in Nat \ {0} /\ size \in Nat \ {0}
  BY PrgThreadsAssumption, PrgSizesAssumption DEF TypeOK
<1>8. \A x, y \in Bit : BitXor(x, y) \in Bit
  BY DEF BitXor, Bit
<1>1. ASSUME NEW th \in Thread, Encrypt(th) PROVE TypeOK'
  <2>1. Aes[keynodes[i[th]]] \in [0 .. 3 -> Block]
    BY <1>1, Working, AesAssumption DEF Encrypt
  <2>2. ctt' \in [Thread -> [0 .. 3 -> Block]]
    BY <1>1, <2>1 DEF Encrypt, Buffer, TypeOK
  <2>3. at' \in [Thread -> {"encrypt", "store", "xor", "barrier"}]
    BY <1>1 DEF Encrypt, TypeOK
  <2>4. \A u \in Thread : at'[u] = "barrier" <=> at[u] = "barrier"
    BY <1>1 DEF Encrypt, TypeOK
  <2>5. QED
    BY <1>1, <2>2, <2>3, <2>4 DEF Encrypt, TypeOK, input, shared, result
<1>2. ASSUME NEW th \in Thread, Store(th) PROVE TypeOK'
  <2>1. ChildS(th) \in [Bit -> Block] /\ ChildT(th) \in [Bit -> Bit]
    BY ChildTypes
  <2>2. i[th] \in 0 .. size - 1
    BY <1>2, Working DEF Store
  <2> DEFINE D == DOMAIN outputNodes \cup {2 * i[th], 2 * i[th] + 1}
  <2>3. /\ DOMAIN outputNodes' = D /\ D \subseteq 0 .. 2 * size - 1
        /\ outputNodes' \in [D -> Block]
    <3>1. size \in Nat /\ DOMAIN outputNodes \subseteq 0 .. 2 * size - 1
          /\ outputNodes \in [DOMAIN outputNodes -> Block]
      BY <1>0 DEF TypeOK
    <3>2. outputNodes' = Written(outputNodes, i[th], ChildS(th))
      BY <1>2 DEF Store
    <3> HIDE DEF D
    <3>3. /\ DOMAIN Written(outputNodes, i[th], ChildS(th)) = D
          /\ DOMAIN Written(outputNodes, i[th], ChildS(th)) \subseteq 0 .. 2 * size - 1
          /\ Written(outputNodes, i[th], ChildS(th)) \in [D -> Block]
      BY <2>1, <2>2, <3>1, WrittenType DEF D
    <3>4. QED
      BY <3>2, <3>3
  <2>4. outputT' \in [D -> Bit]
    <3>1. DOMAIN outputT = DOMAIN outputNodes
      BY DEF TypeOK
    <3>2. Written(outputT, i[th], ChildT(th)) \in [D -> Bit]
      BY <1>0, <2>1, <2>2, <3>1, WrittenType, ZenonT(30) DEF TypeOK
    <3>3. QED
      BY <1>2, <3>2 DEF Store
  <2>5. at' \in [Thread -> {"encrypt", "store", "xor", "barrier"}]
    BY <1>2 DEF Store, TypeOK
  <2>6. \A u \in Thread : at'[u] = "barrier" <=> at[u] = "barrier"
    BY <1>2 DEF Store, TypeOK
  <2> HIDE DEF D
  <2>7. QED
    BY <1>2, <2>3, <2>4, <2>5, <2>6 DEF Store, TypeOK, input, result
<1>3. ASSUME NEW th \in Thread, Accumulate(th) PROVE TypeOK'
  <2>1. ChildS(th) \in [Bit -> Block] /\ ChildT(th) \in [Bit -> Bit]
    BY ChildTypes
  <2>2. threadZs' \in [Thread -> [Bit -> Block]]
    <3>1. [b \in Bit |-> BlockXor(threadZs[th][b], ChildS(th)[b])] \in [Bit -> Block]
      BY <2>1 DEF TypeOK, BlockXor, Block
    <3>2. QED
      BY <1>3, <3>1 DEF Accumulate, TypeOK
  <2>3. threadZt' \in [Thread -> [Bit -> Bit]]
    <3>1. [b \in Bit |-> BitXor(threadZt[th][b], ChildT(th)[b])] \in [Bit -> Bit]
      BY <1>8, <2>1 DEF TypeOK
    <3>2. QED
      BY <1>3, <3>1 DEF Accumulate, TypeOK
  <2>4. i[th] \in Nat /\ i[th] % Threads = th
    BY DEF TypeOK
  <2>5. (i[th] + Threads) % Threads = th
    <3>1. i[th] \in Int /\ 1 \in Int
      BY <2>4
    <3>2. (i[th] + Threads * 1) % Threads = i[th] % Threads
      BY <1>0, <3>1, SameRemainder
    <3>3. Threads * 1 = Threads
      BY <1>0
    <3>4. QED
      BY <2>4, <3>2, <3>3
  <2>6. i' \in [Thread -> Nat] /\ at' \in [Thread -> {"encrypt", "store", "xor", "barrier"}]
    BY <1>0, <1>3 DEF Accumulate, TypeOK
  <2>7. ASSUME NEW u \in Thread
        PROVE  i'[u] % Threads = u /\ (at'[u] = "barrier" <=> i'[u] >= size)
    <3>1. CASE u = th
      <4>1. i'[u] = i[th] + Threads
        BY <1>3, <3>1 DEF Accumulate, TypeOK
      <4>2. at'[u] = IF i[th] + Threads < size THEN "encrypt" ELSE "barrier"
        BY <1>3, <3>1 DEF Accumulate, TypeOK
      <4>3. QED
        BY <1>0, <2>4, <2>5, <3>1, <4>1, <4>2
    <3>2. CASE u # th
      BY <1>3, <3>2 DEF Accumulate, TypeOK
    <3>3. QED
      BY <3>1, <3>2
  <2>8. QED
    BY <1>3, <2>2, <2>3, <2>6, <2>7 DEF Accumulate, TypeOK, input, shared, result
<1>4. ASSUME NEW th \in Thread, Join(th) PROVE TypeOK'
  <2>1. zs' \in [Bit -> Block]
    BY <1>4 DEF Join, TypeOK, BlockXor, Block
  <2>2. zt' \in [Bit -> Bit]
    BY <1>4, <1>8 DEF Join, TypeOK
  <2>3. joined' \in 0 .. Threads
    BY <1>0, <1>4 DEF Join, Thread
  <2>4. QED
    BY <1>4, <2>1, <2>2, <2>3 DEF Join, TypeOK, input, locals, shared
<1>5. CASE Replace
  BY <1>5 DEF Replace, TypeOK, input, locals, shared
<1>6. CASE UNCHANGED vars
  BY <1>6 DEF vars, TypeOK, input, locals, shared, result
<1>7. QED
  BY <1>1, <1>2, <1>3, <1>4, <1>5, <1>6 DEF Next, Main, Body

(***************************************************************************)
(* For layers of any size and any number of threads, the buffers, indices, *)
(* tables and accumulators of prg_eval_all_and_xor keep their types.       *)
(***************************************************************************)
THEOREM TypeCorrect == Spec => []TypeOK
<1>1. QED
  BY TypeInit, TypeStep, PTL DEF Spec

(***************************************************************************)
(* The inductive invariant.  Stored(th) and Added(th) are the indices of   *)
(* which thread th has written the children, and has added them up.        *)
(***************************************************************************)
Kids(b)    == [k \in 0 .. size - 1 |-> PrgS(keynodes[k], b)]
KidBits(b) == [k \in 0 .. size - 1 |-> PrgT(keynodes[k], b)]

Added(th)  == {k \in 0 .. size - 1 : k % Threads = th /\ k < i[th]}
Stored(th) == Added(th) \cup IF at[th] = "xor" THEN {i[th]} ELSE {}
Below(n)   == {k \in 0 .. size - 1 : k % Threads < n}

\* Between its encryption and the next, a thread's buffer holds what it
\* encrypted, whatever the others do.
Buffers == \A th \in Thread :
  at[th] \in {"store", "xor"} => ctt[th] = Aes[keynodes[i[th]]]

Tables ==
  /\ \A j \in 0 .. 2 * size - 1 :
       j \in DOMAIN outputNodes <=> \E th \in Thread : j \div 2 \in Stored(th)
  /\ \A j \in DOMAIN outputNodes :
       /\ outputNodes[j] = PrgS(keynodes[j \div 2], j % 2)
       /\ outputT[j] = PrgT(keynodes[j \div 2], j % 2)

Accumulators == \A th \in Thread, b \in Bit :
  /\ threadZs[th][b] = XorOver(Kids(b), Added(th))
  /\ threadZt[th][b] = BitsOver(KidBits(b), Added(th))

Totals ==
  /\ joined > 0 => AllAtBarrier
  /\ \A b \in Bit : /\ zs[b] = XorOver(Kids(b), Below(joined))
                    /\ zt[b] = BitsOver(KidBits(b), Below(joined))
  /\ layer.size = 2 * size =>
       joined = Threads /\ layer.nodes = outputNodes /\ layer.currt = outputT

IInv == TypeOK /\ Buffers /\ Tables /\ Accumulators /\ Totals

LEMMA Finite ==
  ASSUME TypeOK
  PROVE  /\ \A th \in Thread : IsFiniteSet(Added(th))
         /\ \A n \in Nat : IsFiniteSet(Below(n))
<1>1. size - 1 \in Int
  BY PrgSizesAssumption DEF TypeOK
<1>2. IsFiniteSet(0 .. size - 1)
  BY <1>1, FS_Interval
<1>3. QED
  BY <1>2, FS_Subset DEF Added, Below

\* What thread th finds in its buffer are the children of its node.
LEMMA ChildIs ==
  ASSUME TypeOK, Buffers, NEW th \in Thread, at[th] \in {"store", "xor"}, NEW b \in Bit
  PROVE  /\ ChildS(th)[b] = PrgS(keynodes[i[th]], b)
         /\ ChildT(th)[b] = PrgT(keynodes[i[th]], b)
         /\ ChildS(th)[b] = Kids(b)[i[th]] /\ ChildT(th)[b] = KidBits(b)[i[th]]
         /\ ChildS(th)[b] \in Block /\ ChildT(th)[b] \in Bit
<1>1. ctt[th] = Aes[keynodes[i[th]]]
  BY DEF Buffers
<1>2. i[th] \in 0 .. size - 1
  BY Working
<1>3. ChildS(th)[b] \in Block /\ ChildT(th)[b] \in Bit
  BY ChildTypes
<1>4. ChildS(th)[b] = PrgS(keynodes[i[th]], b) /\ ChildT(th)[b] = PrgT(keynodes[i[th]], b)
  BY <1>1 DEF ChildS, ChildT, Buffer, PrgS, PrgT
<1>5. QED
  BY <1>2, <1>3, <1>4 DEF Kids, KidBits

\* The next index of the thread: only its present one is added.
LEMMA AddedNext ==
  ASSUME TypeOK, NEW th \in Thread, at[th] # "barrier"
  PROVE  /\ {k \in 0 .. size - 1 : k % Threads = th /\ k < i[th] + Threads}
              = Added(th) \cup {i[th]}
         /\ i[th] \notin Added(th)
<1>1. i[th] \in 0 .. size - 1 /\ size \in Nat \ {0}
  BY Working
<1>2. i[th] % Threads = th /\ Threads \in Nat \ {0}
  BY PrgThreadsAssumption DEF TypeOK
<1>3. ASSUME NEW k \in 0 .. size - 1
      PROVE  (k % Threads = th /\ k < i[th] + Threads) <=>
             ((k % Threads = th /\ k < i[th]) \/ k = i[th])
  <2>1. CASE k < i[th]
    BY <1>1, <1>2, <2>1
  <2>2. CASE i[th] <= k /\ k % Threads = th /\ k < i[th] + Threads
    <3>1. k \in Nat /\ i[th] \in Nat /\ i[th] % Threads = k % Threads
      BY <1>1, <1>2, <2>2
    <3>2. k = i[th]
      BY <1>2, <2>2, <3>1, NextOwn
    <3>3. QED
      BY <2>2, <3>2
  <2>3. CASE i[th] <= k /\ ~(k % Threads = th /\ k < i[th] + Threads)
    <3>1. k # i[th]
      BY <1>1, <1>2, <2>3
    <3>2. ~(k < i[th])
      BY <1>1, <2>3
    <3>3. QED
      BY <2>3, <3>1, <3>2
  <2>4. QED
    BY <1>1, <2>1, <2>2, <2>3
<1>4. QED
  BY <1>1, <1>3 DEF Added

LEMMA InvInit ==
  Init => IInv
<1> SUFFICES ASSUME Init PROVE IInv
  OBVIOUS
<1>1. TypeOK
  BY TypeInit
<1>2. size \in Nat \ {0} /\ Threads \in Nat \ {0}
  BY <1>1, PrgSizesAssumption, PrgThreadsAssumption DEF TypeOK
<1>3. ASSUME NEW th \in Thread
      PROVE  at[th] \in {"encrypt", "barrier"} /\ Added(th) = {} /\ Stored(th) = {}
  <2>1. at[th] \in {"encrypt", "barrier"} /\ i[th] = th
    BY DEF Init
  <2>2. ASSUME NEW k \in 0 .. size - 1, k % Threads = th, k < i[th] PROVE FALSE
    <3>1. k \in 0 .. Threads - 1
      BY <1>2, <2>1, <2>2 DEF Thread
    <3>2. (Threads * 0 + k) % Threads = k
      BY <1>2, <3>1, RemainderUnique
    <3>3. Threads * 0 + k = k
      BY <1>2
    <3>4. k \in Nat /\ k % Threads = k
      BY <3>2, <3>3
    <3>5. QED
      BY <2>1, <2>2, <3>4
  <2>3. Added(th) = {}
    BY <2>2 DEF Added
  <2>4. QED
    BY <2>1, <2>3 DEF Stored
<1>4. Buffers
  BY <1>3 DEF Buffers
<1>5. Tables
  BY <1>3 DEF Tables, Init
<1>6. Accumulators
  BY <1>3, OverNothing DEF Accumulators, Init
<1>7. Totals
  <2>1. Below(0) = {}
    <3>1. \A k \in 0 .. size - 1 : ~(k % Threads < 0)
      BY <1>2
    <3>2. QED
      BY <3>1 DEF Below
  <2>2. joined = 0 /\ layer.size = size
    BY DEF Init
  <2>3. \A b \in Bit : zs[b] = XorOver(Kids(b), Below(joined)) /\ zt[b] = BitsOver(KidBits(b), Below(joined))
    BY <2>1, <2>2, OverNothing DEF Init
  <2>4. QED
    BY <1>2, <2>2, <2>3 DEF Totals
<1>8. QED
  BY <1>1, <1>4, <1>5, <1>6, <1>7 DEF IInv

(***************************************************************************)
(* A step of a thread happens before any joining.                          *)
(***************************************************************************)
LEMMA NoneJoined ==
  ASSUME IInv, NEW th \in Thread, at[th] # "barrier"
  PROVE  joined = 0 /\ layer.size = size /\ layer.size # 2 * size
<1>1. ~AllAtBarrier
  BY DEF AllAtBarrier
<1>2. joined = 0
  BY <1>1 DEF IInv, Totals, TypeOK
<1>3. layer.size # 2 * size
  BY <1>2, PrgThreadsAssumption DEF IInv, Totals
<1>4. QED
  BY <1>2, <1>3 DEF IInv, TypeOK

LEMMA EncryptInv ==
  ASSUME IInv, TypeOK', NEW th \in Thread, Encrypt(th)
  PROVE  IInv'
<1>1. at[th] = "encrypt" /\ TypeOK /\ UNCHANGED <<size, keynodes, i>>
  BY DEF Encrypt, IInv, input
<1>2. joined = 0 /\ layer.size # 2 * size
  BY <1>1, NoneJoined
<1>3. \A u \in Thread : Added(u)' = Added(u)
  BY <1>1 DEF Added
<1>4. \A u \in Thread : Stored(u)' = Stored(u)
  <2>1. \A u \in Thread : at'[u] = "xor" <=> at[u] = "xor"
    BY <1>1 DEF Encrypt, TypeOK
  <2>2. QED
    BY <1>1, <1>3, <2>1 DEF Stored
<1>5. \A b \in Bit : Kids(b)' = Kids(b) /\ KidBits(b)' = KidBits(b)
  BY <1>1 DEF Kids, KidBits
<1>6. Buffers'
  <2>1. SUFFICES ASSUME NEW u \in Thread, at'[u] \in {"store", "xor"}
                 PROVE  ctt'[u] = Aes[keynodes[i[u]]]
    BY <1>1 DEF Buffers
  <2>2. CASE u = th
    BY <1>1, <2>2 DEF Encrypt, Buffer, TypeOK
  <2>3. CASE u # th
    BY <1>1, <2>1, <2>3 DEF Encrypt, Buffer, TypeOK, IInv, Buffers
  <2>4. QED
    BY <2>2, <2>3
<1>7. Tables'
  BY <1>1, <1>4 DEF IInv, Tables, Encrypt, shared
<1>8. Accumulators'
  BY <1>3, <1>5 DEF IInv, Accumulators, Encrypt
<1>9. Totals'
  <2>1. Below(joined)' = Below(joined) /\ UNCHANGED <<joined, zs, zt, layer>>
    BY <1>1 DEF Below, Encrypt, result
  <2>2. QED
    BY <1>1, <1>2, <1>5, <2>1 DEF IInv, Totals
<1>10. QED
  BY <1>6, <1>7, <1>8, <1>9 DEF IInv

LEMMA StoreInv ==
  ASSUME IInv, TypeOK', NEW th \in Thread, Store(th)
  PROVE  IInv'
<1>1. at[th] = "store" /\ TypeOK /\ Buffers /\ UNCHANGED <<size, keynodes, i, ctt>>
  BY DEF Store, IInv, input
<1>2. joined = 0 /\ layer.size # 2 * size
  BY <1>1, NoneJoined
<1>3. \A u \in Thread : Added(u)' = Added(u)
  BY <1>1 DEF Added
<1>4. \A u \in Thread : Stored(u)' = IF u = th THEN Stored(th) \cup {i[th]} ELSE Stored(u)
  <2>1. \A u \in Thread : at'[u] = IF u = th THEN "xor" ELSE at[u]
    BY <1>1 DEF Store, TypeOK
  <2>2. QED
    BY <1>1, <1>3, <2>1 DEF Stored
<1>5. \A b \in Bit : Kids(b)' = Kids(b) /\ KidBits(b)' = KidBits(b)
  BY <1>1 DEF Kids, KidBits
<1>6. Buffers'
  <2>1. SUFFICES ASSUME NEW u \in Thread, at'[u] \in {"store", "xor"}
                 PROVE  ctt[u] = Aes[keynodes[i[u]]]
    BY <1>1 DEF Buffers
  <2>2. at[u] \in {"store", "xor"}
    BY <1>1, <2>1 DEF Store, TypeOK
  <2>3. QED
    BY <1>1, <2>2 DEF Buffers
<1>7. Tables'
  <2>1. i[th] \in 0 .. size - 1 /\ size \in Nat \ {0}
    BY <1>1, Working
  <2> DEFINE D == DOMAIN outputNodes \cup {2 * i[th], 2 * i[th] + 1}
  <2>2. \A j \in 0 .. 2 * size - 1 : j \in {2 * i[th], 2 * i[th] + 1} <=> j \div 2 = i[th]
    BY <2>1
  <2>3. /\ outputNodes' = [j \in D |-> IF j \div 2 = i[th] THEN ChildS(th)[j % 2] ELSE outputNodes[j]]
        /\ outputT' = [j \in D |-> IF j \div 2 = i[th] THEN ChildT(th)[j % 2] ELSE outputT[j]]
    <3>1. DOMAIN outputT = DOMAIN outputNodes
      BY <1>1 DEF TypeOK
    <3>2. QED
      BY <3>1 DEF Store, Written
  <2>4. ASSUME NEW j \in 0 .. 2 * size - 1
        PROVE  j \in DOMAIN outputNodes' <=> \E u \in Thread : j \div 2 \in Stored(u)'
    <3>1. j \in DOMAIN outputNodes' <=> j \in DOMAIN outputNodes \/ j \div 2 = i[th]
      BY <2>2, <2>3
    <3>2. j \in DOMAIN outputNodes <=> \E u \in Thread : j \div 2 \in Stored(u)
      BY DEF IInv, Tables
    <3>3. (\E u \in Thread : j \div 2 \in Stored(u)') <=>
            (\E u \in Thread : j \div 2 \in Stored(u)) \/ j \div 2 = i[th]
      BY <1>4
    <3>4. QED
      BY <3>1, <3>2, <3>3
  <2>5. ASSUME NEW j \in DOMAIN outputNodes'
        PROVE  /\ outputNodes'[j] = PrgS(keynodes[j \div 2], j % 2)
               /\ outputT'[j] = PrgT(keynodes[j \div 2], j % 2)
    <3>1. j \in D
      BY <2>3
    <3>2. j \in 0 .. 2 * size - 1
      BY <1>1, <2>1, <3>1 DEF TypeOK
    <3>3. j % 2 \in Bit
      BY <3>2 DEF Bit
    <3>4. CASE j \div 2 = i[th]
      <4>1. /\ ChildS(th)[j % 2] = PrgS(keynodes[i[th]], j % 2)
            /\ ChildT(th)[j % 2] = PrgT(keynodes[i[th]], j % 2)
        BY <1>1, <3>3, ChildIs
      <4>2. QED
        BY <2>3, <3>1, <3>4, <4>1
    <3>5. CASE j \div 2 # i[th]
      <4>1. j \in DOMAIN outputNodes
        BY <2>2, <3>1, <3>2, <3>5
      <4>2. outputNodes'[j] = outputNodes[j] /\ outputT'[j] = outputT[j]
        BY <2>3, <3>1, <3>5
      <4>3. QED
        BY <4>1, <4>2 DEF IInv, Tables
    <3>6. QED
      BY <3>4, <3>5
  <2> HIDE DEF D
  <2>6. QED
    BY <1>1, <2>4, <2>5 DEF Tables
<1>8. Accumulators'
  BY <1>3, <1>5 DEF IInv, Accumulators, Store
<1>9. Totals'
  <2>1. Below(joined)' = Below(joined) /\ UNCHANGED <<joined, zs, zt, layer>>
    BY <1>1 DEF Below, Store, result
  <2>2. QED
    BY <1>1, <1>2, <1>5, <2>1 DEF IInv, Totals
<1>10. QED
  BY <1>6, <1>7, <1>8, <1>9 DEF IInv

LEMMA AccumulateInv ==
  ASSUME IInv, TypeOK', NEW th \in Thread, Accumulate(th)
  PROVE  IInv'
<1>1. at[th] = "xor" /\ TypeOK /\ Buffers
      /\ UNCHANGED <<size, keynodes, ctt, outputNodes, outputT, joined, zs, zt, layer>>
  BY DEF Accumulate, IInv, input, shared, result
<1>2. joined = 0 /\ layer.size # 2 * size
  BY <1>1, NoneJoined
<1>3. /\ i' = [i EXCEPT ![th] = i[th] + Threads]
      /\ \A u \in Thread : i'[u] = IF u = th THEN i[th] + Threads ELSE i[u]
  BY <1>1 DEF Accumulate, TypeOK
<1>4. \A u \in Thread : u # th => at'[u] = at[u]
  BY <1>1 DEF Accumulate, TypeOK
<1>5. at'[th] \in {"encrypt", "barrier"}
  BY <1>1 DEF Accumulate, TypeOK
<1>6. Added(th)' = Added(th) \cup {i[th]} /\ i[th] \notin Added(th)
  <2>1. Added(th)' = {k \in 0 .. size - 1 : k % Threads = th /\ k < i[th] + Threads}
    BY <1>1, <1>3 DEF Added
  <2>2. QED
    BY <1>1, <2>1, AddedNext
<1>7. \A u \in Thread : u # th => Added(u)' = Added(u)
  BY <1>1, <1>3 DEF Added
<1>8. \A u \in Thread : Stored(u)' = Stored(u)
  <2>1. Stored(th)' = Stored(th)
    BY <1>1, <1>5, <1>6 DEF Stored
  <2>2. ASSUME NEW u \in Thread, u # th PROVE Stored(u)' = Stored(u)
    BY <1>3, <1>4, <1>7, <2>2 DEF Stored
  <2>3. QED
    BY <2>1, <2>2
<1>9. \A b \in Bit : Kids(b)' = Kids(b) /\ KidBits(b)' = KidBits(b)
  BY <1>1 DEF Kids, KidBits
<1>10. Buffers'
  <2>1. SUFFICES ASSUME NEW u \in Thread, at'[u] \in {"store", "xor"}
                 PROVE  ctt[u] = Aes[keynodes[i'[u]]]
    BY <1>1 DEF Buffers
  <2>2. u # th
    BY <1>5, <2>1
  <2>3. QED
    BY <1>1, <1>3, <1>4, <2>1, <2>2 DEF Buffers
<1>11. Tables'
  BY <1>1, <1>8 DEF IInv, Tables
<1>12. Accumulators'
  <2>1. SUFFICES ASSUME NEW u \in Thread, NEW b \in Bit
                 PROVE  /\ threadZs'[u][b] = XorOver(Kids(b), Added(u)')
                        /\ threadZt'[u][b] = BitsOver(KidBits(b), Added(u)')
    BY <1>9 DEF Accumulators
  <2>2. /\ threadZs[u][b] = XorOver(Kids(b), Added(u))
        /\ threadZt[u][b] = BitsOver(KidBits(b), Added(u))
    BY DEF IInv, Accumulators
  <2>3. CASE u # th
    <3>1. threadZs'[u] = threadZs[u] /\ threadZt'[u] = threadZt[u]
      BY <1>1, <2>3 DEF Accumulate, TypeOK
    <3>2. QED
      BY <1>7, <2>2, <2>3, <3>1
  <2>4. CASE u = th
    <3>1. /\ threadZs'[th][b] = BlockXor(threadZs[th][b], ChildS(th)[b])
          /\ threadZt'[th][b] = BitXor(threadZt[th][b], ChildT(th)[b])
      BY <1>1 DEF Accumulate, TypeOK
    <3>2. /\ ChildS(th)[b] = Kids(b)[i[th]] /\ ChildT(th)[b] = KidBits(b)[i[th]]
          /\ Kids(b)[i[th]] \in Block /\ KidBits(b)[i[th]] \in Bit
      BY <1>1, ChildIs
    <3>3. IsFiniteSet(Added(th))
      BY <1>1, Finite
    <3>4. XorOver(Kids(b), Added(th) \cup {i[th]}) = BlockXor(XorOver(Kids(b), Added(th)), Kids(b)[i[th]])
      BY <1>6, <3>2, <3>3, OverInsert
    <3>5. BitsOver(KidBits(b), Added(th) \cup {i[th]}) = BitXor(BitsOver(KidBits(b), Added(th)), KidBits(b)[i[th]])
      BY <1>6, <3>2, <3>3, BitsOverInsert
    <3>6. QED
      BY <1>6, <2>2, <2>4, <3>1, <3>2, <3>4, <3>5
  <2>5. QED
    BY <2>3, <2>4
<1>13. Totals'
  <2>1. Below(joined)' = Below(joined)
    BY <1>1 DEF Below
  <2>2. QED
    BY <1>1, <1>2, <1>9, <2>1 DEF IInv, Totals
<1>14. QED
  BY <1>10, <1>11, <1>12, <1>13 DEF IInv

\* At the barrier a thread has added all its indices.
LEMMA AllAdded ==
  ASSUME TypeOK, NEW th \in Thread, at[th] = "barrier"
  PROVE  /\ Added(th) = {k \in 0 .. size - 1 : k % Threads = th}
         /\ Stored(th) = Added(th)
<1>1. i[th] >= size /\ i[th] \in Nat /\ size \in Nat
  BY PrgSizesAssumption DEF TypeOK
<1>2. \A k \in 0 .. size - 1 : k < i[th]
  BY <1>1
<1>3. QED
  BY <1>2 DEF Added, Stored

LEMMA JoinInv ==
  ASSUME IInv, TypeOK', NEW th \in Thread, Join(th)
  PROVE  IInv'
<1>1. AllAtBarrier /\ joined = th /\ joined' = th + 1 /\ TypeOK
      /\ UNCHANGED <<size, keynodes, at, i, ctt, outputNodes, outputT, threadZs, threadZt, layer>>
  BY DEF Join, IInv, input, locals, shared
<1>2. Threads \in Nat \ {0} /\ th \in 0 .. Threads - 1
  BY PrgThreadsAssumption DEF Thread
<1>3. at[th] = "barrier"
  BY <1>1 DEF AllAtBarrier
<1>4. \A u \in Thread : Added(u)' = Added(u) /\ Stored(u)' = Stored(u)
  BY <1>1 DEF Added, Stored
<1>5. \A b \in Bit : Kids(b)' = Kids(b) /\ KidBits(b)' = KidBits(b)
  BY <1>1 DEF Kids, KidBits
<1>6. Below(joined)' = Below(th) \cup Added(th) /\ Below(th) \cap Added(th) = {}
  <2>1. Below(joined)' = Below(th + 1)
    BY <1>1 DEF Below
  <2>2. \A k \in 0 .. size - 1 : k % Threads < th + 1 <=> k % Threads < th \/ k % Threads = th
    BY <1>2
  <2>3. \A k \in 0 .. size - 1 : ~(k % Threads < th /\ k % Threads = th)
    BY <1>2
  <2>4. Added(th) = {k \in 0 .. size - 1 : k % Threads = th}
    BY <1>1, <1>3, AllAdded
  <2>5. QED
    BY <2>1, <2>2, <2>3, <2>4 DEF Below
<1>7. ASSUME NEW b \in Bit
      PROVE  /\ zs'[b] = XorOver(Kids(b), Below(joined)')
             /\ zt'[b] = BitsOver(KidBits(b), Below(joined)')
  <2>1. /\ zs'[b] = BlockXor(zs[b], threadZs[th][b])
        /\ zt'[b] = BitXor(zt[b], threadZt[th][b])
    BY DEF Join
  <2>2. /\ zs[b] = XorOver(Kids(b), Below(th)) /\ threadZs[th][b] = XorOver(Kids(b), Added(th))
        /\ zt[b] = BitsOver(KidBits(b), Below(th)) /\ threadZt[th][b] = BitsOver(KidBits(b), Added(th))
    BY <1>1 DEF IInv, Totals, Accumulators
  <2>3. th \in Nat /\ IsFiniteSet(Below(th)) /\ IsFiniteSet(Added(th))
    BY <1>1, <1>2, Finite
  <2>4. XorOver(Kids(b), Below(th) \cup Added(th))
          = BlockXor(XorOver(Kids(b), Below(th)), XorOver(Kids(b), Added(th)))
    BY <1>6, <2>3, XorOverUnion
  <2>5. BitsOver(KidBits(b), Below(th) \cup Added(th))
          = BitXor(BitsOver(KidBits(b), Below(th)), BitsOver(KidBits(b), Added(th)))
    BY <1>6, <2>3, BitsOverUnion
  <2>6. QED
    BY <1>6, <2>1, <2>2, <2>4, <2>5
<1>8. Buffers'
  BY <1>1 DEF IInv, Buffers
<1>9. Tables'
  BY <1>1, <1>4 DEF IInv, Tables
<1>10. Accumulators'
  BY <1>1, <1>4, <1>5 DEF IInv, Accumulators
<1>11. Totals'
  <2>1. AllAtBarrier'
    BY <1>1 DEF AllAtBarrier
  <2>2. layer.size # 2 * size
    BY <1>1, <1>2 DEF IInv, Totals
  <2>3. QED
    BY <1>1, <1>5, <1>7, <2>1, <2>2 DEF Totals
<1>12. QED
  BY <1>8, <1>9, <1>10, <1>11 DEF IInv

LEMMA ReplaceInv ==
  ASSUME IInv, TypeOK', Replace
  PROVE  IInv'
<1>1. /\ joined = Threads /\ layer' = [nodes |-> outputNodes, currt |-> outputT, size |-> 2 * size]
      /\ UNCHANGED <<size, keynodes, at, i, ctt, outputNodes, outputT, threadZs, threadZt, joined, zs, zt>>
  BY DEF Replace, input, locals, shared
<1>2. \A u \in Thread : Added(u)' = Added(u) /\ Stored(u)' = Stored(u)
  BY <1>1 DEF Added, Stored
<1>3. \A b \in Bit : Kids(b)' = Kids(b) /\ KidBits(b)' = KidBits(b)
  BY <1>1 DEF Kids, KidBits
<1>4. Buffers' /\ Tables' /\ Accumulators'
  BY <1>1, <1>2, <1>3 DEF IInv, Buffers, Tables, Accumulators
<1>5. Totals'
  <2>1. Below(joined)' = Below(joined) /\ AllAtBarrier' = AllAtBarrier
    BY <1>1 DEF Below, AllAtBarrier
  <2>2. QED
    BY <1>1, <1>3, <2>1 DEF IInv, Totals
<1>6. QED
  BY <1>4, <1>5 DEF IInv

LEMMA StutterInv ==
  ASSUME IInv, UNCHANGED vars
  PROVE  IInv'
<1>1. UNCHANGED <<size, keynodes, at, i, ctt, outputNodes, outputT, threadZs, threadZt, joined, zs, zt, layer>>
  BY DEF vars, input, locals, shared, result
<1>2. \A u \in Thread : Added(u)' = Added(u) /\ Stored(u)' = Stored(u)
  BY <1>1 DEF Added, Stored
<1>3. \A b \in Bit : Kids(b)' = Kids(b) /\ KidBits(b)' = KidBits(b)
  BY <1>1 DEF Kids, KidBits
<1>4. Buffers' /\ Tables' /\ Accumulators'
  BY <1>1, <1>2, <1>3 DEF IInv, Buffers, Tables, Accumulators
<1>5. Below(joined)' = Below(joined) /\ AllAtBarrier' = AllAtBarrier
  BY <1>1 DEF Below, AllAtBarrier
<1>6. Totals'
  BY <1>1, <1>3, <1>5 DEF IInv, Totals
<1>7. TypeOK'
  BY <1>1 DEF IInv, TypeOK
<1>8. QED
  BY <1>4, <1>6, <1>7 DEF IInv

LEMMA InvStep ==
  IInv /\ [Next]_vars => IInv'
<1> SUFFICES ASSUME IInv, [Next]_vars PROVE IInv'
  OBVIOUS
<1>1. TypeOK'
  BY TypeStep DEF IInv
<1>2. ASSUME NEW th \in Thread, Body(th) PROVE IInv'
  BY <1>1, <1>2, EncryptInv, StoreInv, AccumulateInv DEF Body
<1>3. ASSUME NEW th \in Thread, Join(th) PROVE IInv'
  BY <1>1, <1>3, JoinInv
<1>4. CASE Replace
  BY <1>1, <1>4, ReplaceInv
<1>5. CASE UNCHANGED vars
  BY <1>5, StutterInv
<1>6. QED
  BY <1>2, <1>3, <1>4, <1>5 DEF Next, Main

(***************************************************************************)
(* When the layer has been replaced every thread has stored and added all  *)
(* its indices, and every index is some thread's.                          *)
(***************************************************************************)
LEMMA InvImpliesLayer ==
  IInv => LayerCorrect
<1> SUFFICES ASSUME IInv, layer.size = 2 * size
    PROVE  /\ layer.nodes = Nodes(keynodes, size) /\ layer.currt = Currt(keynodes, size)
           /\ zs = ZS(keynodes, size) /\ zt = ZT(keynodes, size)
  BY DEF LayerCorrect
<1>1. TypeOK /\ Tables /\ Totals
  BY DEF IInv
<1>2. joined = Threads /\ layer.nodes = outputNodes /\ layer.currt = outputT
  BY <1>1 DEF Totals
<1>3. Threads \in Nat \ {0} /\ size \in Nat \ {0}
  BY <1>1, PrgThreadsAssumption, PrgSizesAssumption DEF TypeOK
<1>4. AllAtBarrier
  BY <1>1, <1>2, <1>3 DEF Totals
<1>5. \A k \in 0 .. size - 1 : k % Threads \in Thread /\ k % Threads < Threads
  BY <1>3 DEF Thread
<1>6. Below(joined) = 0 .. size - 1
  BY <1>2, <1>5 DEF Below
<1>7. DOMAIN outputNodes = 0 .. 2 * size - 1
  <2>1. ASSUME NEW j \in 0 .. 2 * size - 1 PROVE j \in DOMAIN outputNodes
    <3>1. j \div 2 \in 0 .. size - 1
      BY <1>3
    <3> DEFINE u == (j \div 2) % Threads
    <3>2. u \in Thread
      BY <1>5, <3>1
    <3>3. at[u] = "barrier"
      BY <1>4, <3>2 DEF AllAtBarrier
    <3>4. Stored(u) = {k \in 0 .. size - 1 : k % Threads = u}
      BY <1>1, <3>2, <3>3, AllAdded
    <3>5. j \div 2 \in Stored(u)
      BY <3>1, <3>4
    <3>6. QED
      BY <1>1, <3>2, <3>5 DEF Tables
  <2>2. QED
    BY <1>1, <2>1 DEF TypeOK
<1>8. outputNodes = Nodes(keynodes, size) /\ outputT = Currt(keynodes, size)
  <2>1. \A j \in 0 .. 2 * size - 1 : /\ outputNodes[j] = PrgS(keynodes[j \div 2], j % 2)
                                     /\ outputT[j] = PrgT(keynodes[j \div 2], j % 2)
    BY <1>1, <1>7 DEF Tables
  <2>2. /\ outputNodes = [j \in 0 .. 2 * size - 1 |-> outputNodes[j]]
        /\ outputT = [j \in 0 .. 2 * size - 1 |-> outputT[j]]
    BY <1>1, <1>7 DEF TypeOK
  <2>3. QED
    BY <2>1, <2>2 DEF Nodes, Currt
<1>9. zs = ZS(keynodes, size) /\ zt = ZT(keynodes, size)
  <2>1. ASSUME NEW b \in Bit
        PROVE  /\ zs[b] = XorAll([j \in 0 .. size - 1 |-> PrgS(keynodes[j], b)])
               /\ zt[b] = XorBits([j \in 0 .. size - 1 |-> PrgT(keynodes[j], b)])
    <3>1. zs[b] = XorOver(Kids(b), 0 .. size - 1) /\ zt[b] = BitsOver(KidBits(b), 0 .. size - 1)
      BY <1>1, <1>6 DEF Totals
    <3>2. /\ [k \in 0 .. size - 1 |-> Kids(b)[k]] = [j \in 0 .. size - 1 |-> PrgS(keynodes[j], b)]
          /\ [k \in 0 .. size - 1 |-> KidBits(b)[k]] = [j \in 0 .. size - 1 |-> PrgT(keynodes[j], b)]
      BY DEF Kids, KidBits
    <3>3. QED
      BY <3>1, <3>2 DEF XorOver, BitsOver
  <2>2. zs = [b \in Bit |-> zs[b]] /\ zt = [b \in Bit |-> zt[b]]
    BY <1>1 DEF TypeOK
  <2>3. QED
    BY <2>1, <2>2 DEF ZS, ZT
<1>10. QED
  BY <1>2, <1>8, <1>9

(***************************************************************************)
(* In every interleaving of any number of threads the expansion of a layer *)
(* of any size is the one DpfKeygen and DpfEval take in one step: children *)
(* in place, XORs of the left and of the right ones.                       *)
(***************************************************************************)
THEOREM LayersCorrect == Spec => []LayerCorrect
<1>1. Spec => []IInv
  BY InvInit, InvStep, PTL DEF Spec
<1>2. QED
  BY <1>1, InvImpliesLayer, PTL
-----------------------------------------------------------------------------
(***************************************************************************)
(* Prng.  The places of the bytes in the buffer, in the blocks, and in the *)
(* stream are tied together by Aligned.                                    *)
(***************************************************************************)

(***************************************************************************)
(* The buffer holds the blocks before the counter, and the bytes handed    *)
(* out are those up to the index.                                          *)
(***************************************************************************)
Aligned ==
  IF seed = NoSeed THEN blocks = 0 /\ got = 0 /\ lengthu8 = 0
  ELSE /\ blocks # 0
       /\ mBlockIdx - blocks \in Nat
       /\ mBuffer = [j \in 0 .. blocks * BlockBytes - 1 |->
                       Cipher(seed, mBlockIdx - blocks, j)]
       /\ got = (mBlockIdx - blocks) * BlockBytes + mBytesIdx

PrngInv == PrngTypeOK /\ Aligned /\ StreamContinues
-----------------------------------------------------------------------------
(***************************************************************************)
(* Arithmetic: whole blocks add to the quotient and leave the remainder.   *)
(***************************************************************************)
LEMMA DivUnique ==
  ASSUME NEW B \in Nat \ {0}, NEW q \in Nat, NEW r \in 0 .. B - 1
  PROVE  (q * B + r) \div B = q /\ (q * B + r) % B = r
BY Z3T(60)

LEMMA DivShift ==
  ASSUME NEW c \in Nat, NEW j \in Nat
  PROVE  /\ (c * BlockBytes + j) \div BlockBytes = c + (j \div BlockBytes)
         /\ (c * BlockBytes + j) % BlockBytes = j % BlockBytes
<1> DEFINE q == j \div BlockBytes
           r == j % BlockBytes
<1>1. BlockBytes \in Nat \ {0}
  BY PrngAssumption
<1>2. q \in Nat /\ r \in 0 .. BlockBytes - 1 /\ j = q * BlockBytes + r
  BY <1>1, Z3T(60)
<1>3. c * BlockBytes + j = (c + q) * BlockBytes + r /\ c + q \in Nat
  <2> HIDE DEF q, r
  <2> QED BY <1>1, <1>2, Z3T(60)
<1>4. ((c + q) * BlockBytes + r) \div BlockBytes = c + q
      /\ ((c + q) * BlockBytes + r) % BlockBytes = r
  <2> HIDE DEF q, r
  <2> QED BY <1>1, <1>2, <1>3, DivUnique
<1> QED BY <1>3, <1>4

\* Byte j of the blocks from c on is byte c * BlockBytes + j of the stream.
LEMMA CipherIsStream ==
  ASSUME NEW s, NEW c \in Nat, NEW j \in Nat
  PROVE  Cipher(s, c, j) = Stream(s, c * BlockBytes + j)
<1>1. /\ (c * BlockBytes + j) \div BlockBytes = c + (j \div BlockBytes)
      /\ (c * BlockBytes + j) % BlockBytes = j % BlockBytes
  BY DivShift
<1>2. BlockBytes \in Nat \ {0}
  BY PrngAssumption
<1>3. c + (j \div BlockBytes) \in Int
  BY <1>2
<1>4. 0 + (c + (j \div BlockBytes)) = c + (j \div BlockBytes)
  BY <1>3
<1> QED BY <1>1, <1>4 DEF Cipher, Stream
-----------------------------------------------------------------------------
LEMMA InitInv == PrngInit => PrngInv
BY PrngAssumption DEF PrngInit, PrngInv, PrngTypeOK, Aligned, StreamContinues

LEMMA SetSeedInv ==
  ASSUME PrngInv, NEW s \in Seeds, NEW n \in BufferSizes, SetSeed(s, n)
  PROVE  PrngInv'
<1> DEFINE m == IF blocks = 0 THEN n ELSE blocks
<1>1. m \in BufferSizes /\ m \in Nat \ {0}
  BY PrngAssumption DEF PrngInv, PrngTypeOK
<1>2. m * BlockBytes \in Nat \ {0} /\ m - m = 0 /\ m - m \in Nat
  BY <1>1, PrngAssumption
<1>3. /\ seed' = s /\ seed' # NoSeed /\ blocks' = m
      /\ mBufferByteCapacity' = m * BlockBytes
      /\ mBuffer' = [j \in 0 .. m * BlockBytes - 1 |-> Cipher(s, 0, j)]
      /\ mBlockIdx' = m /\ mBytesIdx' = 0 /\ lengthu8' = 0
      /\ got' = 0 /\ taken' = [k \in {} |-> 0]
  BY <1>1, PrngAssumption DEF SetSeed, RefillBuffer, PrngInv, PrngTypeOK
<1> HIDE DEF m
<1>4. PrngTypeOK'
  BY <1>1, <1>2, <1>3 DEF PrngTypeOK
<1>5. 0 = 0 * BlockBytes + 0
  BY PrngAssumption
<1>6. Aligned'
  BY <1>1, <1>2, <1>3, <1>5 DEF Aligned
<1>7. StreamContinues'
  BY <1>3 DEF StreamContinues
<1> QED BY <1>4, <1>6, <1>7 DEF PrngInv

LEMMA GetInv ==
  ASSUME PrngInv, NEW length \in Lengths, Get(length)
  PROVE  PrngInv'
BY PrngAssumption DEF Get, buffer, given, PrngInv, PrngTypeOK, Aligned, StreamContinues

\* What a turn of get()'s loop copies fits the buffer.
LEMMA StepBounds ==
  ASSUME PrngTypeOK, seed # NoSeed, lengthu8 > 0
  PROVE  /\ Step(lengthu8) \in 1 .. lengthu8
         /\ mBytesIdx + Step(lengthu8) \in 0 .. mBufferByteCapacity
         /\ mBufferByteCapacity \in Nat
<1>1. blocks \in Nat /\ blocks * BlockBytes \in Nat
  BY PrngAssumption DEF PrngTypeOK
<1> QED BY <1>1 DEF PrngTypeOK, Step, Left

LEMMA CopyInv ==
  ASSUME PrngInv, Copy
  PROVE  PrngInv'
<1> DEFINE step == Step(lengthu8)
           c == mBlockIdx - blocks
<1>1. seed # NoSeed
  BY DEF PrngInv, Aligned, Copy
<1>2. lengthu8 > 0
  BY DEF Copy
<1>3. /\ step \in 1 .. lengthu8
      /\ mBytesIdx + step \in 0 .. mBufferByteCapacity
      /\ mBufferByteCapacity \in Nat
  BY <1>1, <1>2, StepBounds DEF PrngInv
<1>4. /\ blocks # 0 /\ blocks \in Nat /\ c \in Nat /\ mBlockIdx \in Nat
      /\ mBuffer = [j \in 0 .. blocks * BlockBytes - 1 |-> Cipher(seed, c, j)]
      /\ got = c * BlockBytes + mBytesIdx
      /\ blocks * BlockBytes = mBufferByteCapacity
      /\ mBytesIdx \in Nat /\ got \in Nat /\ lengthu8 \in Nat
  BY <1>1, PrngAssumption DEF PrngInv, PrngTypeOK, Aligned
<1>5. /\ got' = got + step
      /\ taken' = [k \in 0 .. got + step - 1 |->
                     IF k < got THEN taken[k] ELSE mBuffer[mBytesIdx + k - got]]
      /\ lengthu8' = lengthu8 - step
      /\ seed' = seed /\ blocks' = blocks /\ mBufferByteCapacity' = mBufferByteCapacity
  BY DEF Copy
<1> HIDE DEF step, c
<1>6. ASSUME NEW k \in got .. got + step - 1
      PROVE  mBuffer[mBytesIdx + k - got] = Stream(seed, k)
  <2>1. mBytesIdx + k - got \in 0 .. blocks * BlockBytes - 1
    BY <1>3, <1>4
  <2>2. mBuffer[mBytesIdx + k - got] = Cipher(seed, c, mBytesIdx + k - got)
    BY <1>4, <2>1
  <2>3. c * BlockBytes \in Nat
    BY <1>4, PrngAssumption
  <2>4. c * BlockBytes + (mBytesIdx + k - got) = k /\ mBytesIdx + k - got \in Nat
    <3> DEFINE start == c * BlockBytes
    <3>1. start \in Nat /\ got = start + mBytesIdx
      BY <1>4, <2>3
    <3> HIDE DEF start
    <3>2. k \in Int /\ mBytesIdx \in Nat /\ k >= got
      BY <1>3, <1>4, <1>6
    <3>3. start + (mBytesIdx + k - got) = k /\ mBytesIdx + k - got \in Nat
      BY <3>1, <3>2
    <3> QED BY <3>3 DEF start
  <2>5. Cipher(seed, c, mBytesIdx + k - got)
          = Stream(seed, c * BlockBytes + (mBytesIdx + k - got))
    BY <1>4, <2>4, CipherIsStream
  <2> QED BY <2>2, <2>4, <2>5
<1>7. StreamContinues'
  <2>1. ASSUME NEW k \in 0 .. got + step - 1
        PROVE  taken'[k] = Stream(seed, k)
    <3>1. CASE k < got
      <4>1. k \in 0 .. got - 1
        BY <1>3, <1>4, <3>1
      <4>2. taken[k] = Stream(seed, k)
        BY <4>1 DEF PrngInv, StreamContinues
      <4> QED BY <1>5, <3>1, <4>2
    <3>2. CASE ~(k < got)
      <4>1. k \in got .. got + step - 1
        BY <1>3, <1>4, <3>2
      <4> QED BY <1>5, <1>6, <3>2, <4>1
    <3> QED BY <3>1, <3>2
  <2>2. \A k \in 0 .. got + step - 1 : taken'[k] = Stream(seed, k)
    BY <2>1
  <2>3. \A k \in 0 .. got' - 1 : taken'[k] = Stream(seed, k)
    <3>1. 0 .. got' - 1 = 0 .. got + step - 1
      BY <1>3, <1>4, <1>5
    <3> QED BY <2>2, <3>1, Zenon
  <2> QED BY <1>5, <2>3 DEF StreamContinues, Stream, Cipher
<1>8. got' \in Nat /\ lengthu8' \in Nat /\ DOMAIN taken' = 0 .. got' - 1
  BY <1>3, <1>4, <1>5
<1>9. CASE mBytesIdx + step = mBufferByteCapacity
  <2>1. /\ mBuffer' = [j \in 0 .. blocks * BlockBytes - 1 |-> Cipher(seed, mBlockIdx, j)]
        /\ mBlockIdx' = mBlockIdx + blocks
        /\ mBytesIdx' = 0
    BY <1>9 DEF Copy, RefillBuffer, step
  <2>2. mBlockIdx' - blocks' = mBlockIdx /\ mBlockIdx' \in Nat
    BY <1>4, <1>5, <2>1
  <2>3. c * BlockBytes + blocks * BlockBytes = mBlockIdx * BlockBytes
    <3>1. mBlockIdx = c + blocks
      BY <1>4 DEF c
    <3>2. (c + blocks) * BlockBytes = c * BlockBytes + blocks * BlockBytes
      BY <1>4, PrngAssumption, Z3T(30)
    <3> QED BY <3>1, <3>2
  <2>4. c * BlockBytes \in Nat
    BY <1>4, PrngAssumption
  <2>5. got' = mBlockIdx * BlockBytes + 0
    <3> DEFINE start == c * BlockBytes
               next  == mBlockIdx * BlockBytes
               cap   == blocks * BlockBytes
    <3>1. /\ start \in Nat /\ cap \in Nat /\ start + cap = next
          /\ got = start + mBytesIdx /\ mBytesIdx + step = cap
      BY <1>3, <1>4, <1>9, <2>3, <2>4
    <3> HIDE DEF start, next, cap
    <3>2. got' = next + 0
      BY <1>3, <1>4, <1>5, <3>1, SMTT(30)
    <3> QED BY <3>2 DEF next
  <2>6. Aligned'
    BY <1>1, <1>4, <1>5, <2>1, <2>2, <2>5 DEF Aligned
  <2>7. 0 < mBufferByteCapacity
    BY <1>3, <1>4, <1>9
  <2>8. PrngTypeOK'
    BY <1>3, <1>4, <1>5, <1>8, <2>1, <2>2, <2>7 DEF PrngInv, PrngTypeOK
  <2> QED BY <1>7, <2>6, <2>8 DEF PrngInv
<1>10. CASE mBytesIdx + step # mBufferByteCapacity
  <2>1. mBytesIdx' = mBytesIdx + step /\ mBuffer' = mBuffer /\ mBlockIdx' = mBlockIdx
    BY <1>10 DEF Copy, step
  <2>2. c * BlockBytes \in Nat
    BY <1>4, PrngAssumption
  <2>3. got' = c * BlockBytes + mBytesIdx'
    BY <1>3, <1>4, <1>5, <2>1, <2>2
  <2>4. Aligned'
    BY <1>1, <1>4, <1>5, <2>1, <2>3 DEF Aligned, c
  <2>5. mBytesIdx' \in 0 .. mBufferByteCapacity /\ mBytesIdx' < mBufferByteCapacity
    BY <1>3, <1>4, <1>10, <2>1
  <2>6. PrngTypeOK'
    BY <1>5, <1>8, <2>1, <2>5 DEF PrngInv, PrngTypeOK
  <2> QED BY <1>7, <2>4, <2>6 DEF PrngInv
<1> QED BY <1>9, <1>10

LEMMA PrngInvStutter == PrngInv /\ UNCHANGED prngVars => PrngInv'
BY DEF prngVars, buffer, given, PrngInv, PrngTypeOK, Aligned, StreamContinues, Stream, Cipher

(***************************************************************************)
(* The inductive invariant holds in every state.                           *)
(***************************************************************************)
THEOREM InvCorrect == PrngSpec => []PrngInv
<1>1. PrngInv /\ [PrngNext]_prngVars => PrngInv'
  BY SetSeedInv, GetInv, CopyInv, PrngInvStutter DEF PrngNext
<1> QED BY InitInv, <1>1, PTL DEF PrngSpec

(***************************************************************************)
(* PRNG::get (PRNG.h:79-98) hands out the seed's stream without a gap or a *)
(* repetition, for every block length, buffer size and request.            *)
(***************************************************************************)
THEOREM StreamCorrect == PrngSpec => []StreamContinues
<1>1. PrngInv => StreamContinues
  BY DEF PrngInv
<1> QED BY InvCorrect, <1>1, PTL

(***************************************************************************)
(* The types, and that the index stays inside the buffer.                  *)
(***************************************************************************)
THEOREM PrngTypeCorrect == PrngSpec => []PrngTypeOK
<1>1. PrngInv => PrngTypeOK
  BY DEF PrngInv
<1> QED BY InvCorrect, <1>1, PTL
=============================================================================
