-------------------------- MODULE LeafSums_proofs --------------------------
(***************************************************************************)
(* Proofs about LeafSums, for every Bout and bitlength up to the word      *)
(* size, every number of leaves and threads, and whatever was left above   *)
(* a received value; whether the keys arrive is decided by Bout.           *)
(***************************************************************************)
EXTENDS LeafSums, NumberLemmas

(***************************************************************************)
(* Group elements.                                                         *)
(***************************************************************************)
LEMMA Powers ==
  ASSUME NEW w \in 0 .. Width
  PROVE  Pow2[w] \in Nat \ {0}
BY Pow2Assumption

LEMMA GeType ==
  ASSUME NEW v \in Int, NEW w \in 0 .. Width
  PROVE  Ge(v, w) \in Elements(w)
<1>1. v % Pow2[w] \in 0 .. Pow2[w] - 1
  BY Powers
<1>2. QED
  BY <1>1 DEF Ge, Elements

LEMMA ElementType ==
  ASSUME NEW w \in 0 .. Width, NEW x \in Elements(w)
  PROVE  x.value \in Int /\ x.bitsize = w /\ x.value \in 0 .. Pow2[w] - 1
<1>1. Pow2[w] \in Nat \ {0}
  BY Powers
<1>2. QED
  BY <1>1 DEF Elements

LEMMA OperatorTypes ==
  ASSUME NEW w \in 0 .. Width, NEW x \in Elements(w), NEW y, y.value \in Int
  PROVE  Plus(x, y) \in Elements(w) /\ Minus(x, y) \in Elements(w)
<1>1. x.value \in Int /\ x.bitsize = w
  BY ElementType
<1>2. x.value + y.value \in Int /\ x.value - y.value \in Int
  BY <1>1
<1>3. QED
  BY <1>1, <1>2, GeType DEF Plus, Minus

\* Reducing to more bits first does not change the lowest m.
LEMMA LowBits ==
  ASSUME NEW w \in 0 .. Width, NEW m \in 0 .. w, NEW v \in Int
  PROVE  (v % Pow2[w]) % Pow2[m] = v % Pow2[m]
<1>1. /\ m \in 0 .. Width /\ w - m \in 0 .. Width
      /\ m + (w - m) = w /\ m + (w - m) <= Width
  BY WidthAssumption
<1>2. Pow2[w] = Pow2[m] * Pow2[w - m]
  BY <1>1, Pow2Assumption
<1>3. Pow2[m] \in Nat \ {0} /\ Pow2[w - m] \in Nat \ {0}
  BY <1>1, Powers
<1>4. (v % (Pow2[m] * Pow2[w - m])) % Pow2[m] = v % Pow2[m]
  BY <1>3, CoarserRemainder
<1>5. QED
  BY <1>2, <1>4

LEMMA GeLow ==
  ASSUME NEW w \in 0 .. Width, NEW m \in 0 .. w, NEW v \in Int
  PROVE  Same(Ge(v, w).value, v, Pow2[m])
BY LowBits DEF Ge, Same

\* Arithmetic on elements is arithmetic in their lowest bits.
LEMMA PlusLow ==
  ASSUME NEW w \in 0 .. Width, NEW m \in 0 .. w, NEW x \in Elements(w), NEW y, y.value \in Int,
         NEW u \in Int, NEW v \in Int,
         Same(x.value, u, Pow2[m]), Same(y.value, v, Pow2[m])
  PROVE  /\ Same(Plus(x, y).value, u + v, Pow2[m])
         /\ Same(Minus(x, y).value, u - v, Pow2[m])
<1>1. x.value \in Int /\ x.bitsize = w
  BY ElementType
<1>2. Pow2[m] \in Nat \ {0}
  <2>1. m \in 0 .. Width
    BY WidthAssumption
  <2>2. QED
    BY <2>1, Powers
<1>3. /\ Same(x.value + y.value, u + v, Pow2[m])
      /\ Same(x.value - y.value, u - v, Pow2[m])
  BY <1>1, <1>2, AddSame, SubSame
<1>4. x.value + y.value \in Int /\ x.value - y.value \in Int
  BY <1>1
<1>5. /\ Same(Plus(x, y).value, x.value + y.value, Pow2[m])
      /\ Same(Minus(x, y).value, x.value - y.value, Pow2[m])
  BY <1>1, <1>4, GeLow DEF Plus, Minus
<1>6. QED
  BY <1>3, <1>5, SameChain

(***************************************************************************)
(* convert() stays inside the block, and its elements are of Bout bits.    *)
(***************************************************************************)
LEMMA BytesizeBound ==
  ASSUME NEW w \in Bouts
  PROVE  Bytesize(w) \in 0 .. WordBytes
<1>1. /\ ByteBits \in Nat \ {0} /\ WordBytes \in Nat \ {0} /\ w \in Nat
      /\ w <= WordBytes * ByteBits
  BY WidthAssumption DEF WordBits
<1> DEFINE q == w \div ByteBits
           r == w % ByteBits
<1>2. q \in Nat /\ r \in 0 .. ByteBits - 1 /\ w = ByteBits * q + r
  BY <1>1
<1>3. Bytesize(w) = IF r = 0 THEN q ELSE q + 1
  BY DEF Bytesize
<1> HIDE DEF q, r
<1>4. CASE q >= WordBytes + 1
  <2>1. ByteBits * q >= ByteBits * (WordBytes + 1)
    BY <1>1, <1>2, <1>4
  <2>2. QED
    BY <1>1, <1>2, <2>1
<1>5. CASE q = WordBytes
  BY <1>1, <1>2, <1>3, <1>5
<1>6. CASE q < WordBytes
  BY <1>1, <1>2, <1>3, <1>6
<1>7. QED
  BY <1>1, <1>2, <1>4, <1>5, <1>6

LEMMA ConvertType ==
  ASSUME NEW w \in Bouts, NEW block \in Nat, NEW b \in {0, 1}
  PROVE  Convert(w, block)[b] \in Elements(w)
<1>1. Bytesize(w) \in 0 .. WordBytes
  BY BytesizeBound
<1>2. b * Bytesize(w) \in 0 .. WordBytes
  BY <1>1, WidthAssumption
<1>3. ByteBits * (b * Bytesize(w)) \in 0 .. WordBytes * ByteBits
  BY <1>2, WidthAssumption
<1>4. /\ ByteBits * (b * Bytesize(w)) \in 0 .. Width /\ WordBits \in 0 .. Width
      /\ w \in 0 .. Width
  BY <1>3, WidthAssumption DEF WordBits
<1>5. /\ Pow2[ByteBits * (b * Bytesize(w))] \in Nat \ {0}
      /\ Pow2[WordBits] \in Nat \ {0}
  BY <1>4, Powers
<1>6. WordAt(block, b * Bytesize(w)) \in Int
  BY <1>5 DEF WordAt
<1>7. QED
  BY <1>4, <1>6, GeType DEF Convert

(***************************************************************************)
(* What is received in bitlength bits is what was sent in w, when these    *)
(* take as many bytes.                                                     *)
(***************************************************************************)
LEMMA Transport ==
  ASSUME NEW x, x.value \in Int, NEW w, GeBytes(w) = GeBytes(Bitlength), NEW above \in Garbage
  PROVE  RecvGe(SendGe(x, w), Bitlength, above) = Ge(x.value, Bitlength)
<1> DEFINE v == x.value
           n == ByteBits * GeBytes(Bitlength)
<1>1. /\ Bitlength \in Nat /\ ByteBits \in Nat \ {0} /\ Bitlength <= 8 * ByteBits
      /\ 8 * ByteBits <= Width /\ Width \in Nat
  BY WidthAssumption, LeafSumsAssumption DEF WordBits
<1>2. n \in 0 .. Width /\ Bitlength \in 0 .. n /\ Bitlength \in 0 .. Width
  BY <1>1 DEF GeBytes
<1>0. v \in Int /\ above \in Nat
  BY LeafSumsAssumption
<1> HIDE DEF n, v
<1>3. n - Bitlength \in 0 .. Width /\ Bitlength + (n - Bitlength) = n
  BY <1>2, <1>1
<1>4. Pow2[n] = Pow2[Bitlength] * Pow2[n - Bitlength]
  BY <1>2, <1>3, Pow2Assumption
<1> DEFINE m == Pow2[Bitlength]
           k == Pow2[n - Bitlength] * above
           carried == v % Pow2[n]
<1>5. m \in Nat \ {0} /\ k \in Int /\ carried \in Int
  BY <1>0, <1>2, <1>3, Powers
<1>6. carried + Pow2[n] * above = carried + m * k
  BY <1>0, <1>2, <1>3, <1>4, Powers
<1>7. carried % m = v % m
  BY <1>0, <1>2, LowBits
<1> HIDE DEF m, k, carried
<1>8. (carried + m * k) % m = carried % m
  BY <1>5, SameRemainder
<1>9. (carried + Pow2[n] * above) % m = v % m
  BY <1>6, <1>7, <1>8
<1>10. SendGe(x, w) = carried
  BY DEF SendGe, carried, n, v
<1>11. QED
  BY <1>9, <1>10 DEF RecvGe, Ge, n, m, v

\* A received element has the size it was asked for, whatever came.
LEMMA SentNumber ==
  ASSUME NEW x, x.value \in Int, NEW w, GeBytes(w) = GeBytes(Bitlength)
  PROVE  SendGe(x, w) \in Int
<1>1. ByteBits * GeBytes(Bitlength) \in 0 .. Width
  BY WidthAssumption, LeafSumsAssumption DEF GeBytes, WordBits
<1>2. Pow2[ByteBits * GeBytes(Bitlength)] \in Nat \ {0}
  BY <1>1, Powers
<1>3. QED
  BY <1>2 DEF SendGe

LEMMA ReceivedNumber ==
  ASSUME NEW wire \in Int, NEW above \in Garbage
  PROVE  wire + Pow2[ByteBits * GeBytes(Bitlength)] * above \in Int
<1>1. ByteBits * GeBytes(Bitlength) \in 0 .. Width
  BY WidthAssumption, LeafSumsAssumption DEF GeBytes, WordBits
<1>2. Pow2[ByteBits * GeBytes(Bitlength)] \in Nat \ {0}
  BY <1>1, Powers
<1>3. above \in Nat
  BY LeafSumsAssumption
<1>4. QED
  BY <1>2, <1>3

(***************************************************************************)
(* Gamma, known from its arguments in their lowest bits.                   *)
(***************************************************************************)
InIntegers(i0, i1, b0, b1) ==
  IF t1 = 1 THEN i0 - b0 - b1 - i1 ELSE b0 + b1 - i0 + i1

LEMMA GammaLow ==
  ASSUME NEW w \in 0 .. Width, NEW m \in 0 .. w,
         NEW w0 \in Elements(w), NEW w1 \in Elements(w),
         NEW beta, beta[0] \in Elements(w), beta[1] \in Elements(w),
         NEW i0 \in Int, NEW i1 \in Int, NEW b0 \in Int, NEW b1 \in Int,
         Same(w0.value, i0, Pow2[m]), Same(w1.value, i1, Pow2[m]),
         Same(beta[0].value, b0, Pow2[m]), Same(beta[1].value, b1, Pow2[m])
  PROVE  /\ Gamma(w0, w1, beta) \in Elements(w)
         /\ Same(Gamma(w0, w1, beta).value, InIntegers(i0, i1, b0, b1), Pow2[m])
<1>1. /\ w0.value \in Int /\ w1.value \in Int
      /\ beta[0].value \in Int /\ beta[1].value \in Int
  BY ElementType
<1>2. CASE t1 = 1
  <2> DEFINE x == Minus(w0, beta[0])
             y == Minus(x, beta[1])
             z == Minus(y, w1)
  <2>1. x \in Elements(w) /\ Same(x.value, i0 - b0, Pow2[m])
    BY <1>1, OperatorTypes, PlusLow
  <2> HIDE DEF x
  <2>2. y \in Elements(w) /\ Same(y.value, i0 - b0 - b1, Pow2[m])
    <3>1. i0 - b0 \in Int
      OBVIOUS
    <3>2. QED
      BY <1>1, <2>1, <3>1, OperatorTypes, PlusLow
  <2> HIDE DEF y
  <2>3. z \in Elements(w) /\ Same(z.value, i0 - b0 - b1 - i1, Pow2[m])
    <3>1. i0 - b0 - b1 \in Int
      OBVIOUS
    <3>2. QED
      BY <1>1, <2>2, <3>1, OperatorTypes, PlusLow
  <2>4. QED
    BY <1>2, <2>3 DEF Gamma, InIntegers, x, y
<1>3. CASE t1 # 1
  <2> DEFINE x == Plus(beta[0], beta[1])
             y == Minus(x, w0)
             z == Plus(y, w1)
  <2>1. x \in Elements(w) /\ Same(x.value, b0 + b1, Pow2[m])
    BY <1>1, OperatorTypes, PlusLow
  <2> HIDE DEF x
  <2>2. y \in Elements(w) /\ Same(y.value, b0 + b1 - i0, Pow2[m])
    <3>1. y \in Elements(w)
      BY <1>1, <2>1, OperatorTypes
    <3> DEFINE b == b0 + b1
    <3>2. b \in Int
      OBVIOUS
    <3> HIDE DEF b
    <3>3. Same(x.value, b, Pow2[m])
      BY <2>1 DEF b
    <3>4. Same(y.value, b - i0, Pow2[m])
      BY <1>1, <2>1, <3>2, <3>3, PlusLow
    <3>5. QED
      BY <3>1, <3>4 DEF b
  <2> HIDE DEF y
  <2>3. z \in Elements(w) /\ Same(z.value, b0 + b1 - i0 + i1, Pow2[m])
    <3>1. b0 + b1 - i0 \in Int
      OBVIOUS
    <3>2. QED
      BY <1>1, <2>2, <3>1, OperatorTypes, PlusLow
  <2>4. QED
    BY <1>3, <2>3 DEF Gamma, InIntegers, x, y
<1>4. QED
  BY <1>2, <1>3
-----------------------------------------------------------------------------
(***************************************************************************)
(* The types.                                                              *)
(***************************************************************************)
LEMMA Sizes ==
  ASSUME bout \in Bouts
  PROVE  /\ bout \in 0 .. Width /\ Bitlength \in 0 .. Width
         /\ \A th \in Thread, b \in Bit :
              /\ Accumulator(th, b).bitsize \in {bout, Bitlength}
              /\ Accumulator(th, b) \in Elements(Accumulator(th, b).bitsize)
              /\ Accumulator(th, b).value = 0
<1>1. bout \in 1 .. Width /\ Bitlength \in 1 .. Width
  BY WidthAssumption DEF WordBits
<1>2. \A w \in 1 .. Width : Zero(w) \in Elements(w) /\ Zero(w).bitsize = w /\ Zero(w).value = 0
  <2>1. TAKE w \in 1 .. Width
  <2>2. Pow2[w] \in Nat \ {0}
    BY Powers
  <2>3. 0 % Pow2[w] = 0
    BY <2>2
  <2>4. QED
    BY <2>2, <2>3 DEF Zero, Ge, Elements
<1>3. QED
  BY <1>1, <1>2 DEF Accumulator

LEMMA BlocksAreNumbers ==
  ASSUME TypeOK, NEW p \in Party, NEW j \in Leaf, NEW b \in Bit
  PROVE  Convert(bout, hats[p][j])[b] \in Elements(bout)
<1>1. bout \in Bouts /\ hats[p] \in [Leaf -> Blocks]
  BY DEF TypeOK
<1>2. hats[p][j] \in Nat
  BY <1>1, LeafSumsAssumption
<1>3. QED
  BY <1>1, <1>2, ConvertType DEF Bit

LEMMA BetaType ==
  ASSUME NEW w \in 0 .. Width, NEW b \in Bit, NEW pay,
         pay[0] \in Elements(w), pay[1] \in Elements(w)
  PROVE  Beta(pay, w, b)[0] \in Elements(w) /\ Beta(pay, w, b)[1] \in Elements(w)
BY GeType DEF Beta, Party, Bit

LEMMA TypeInit ==
  ASSUME Init
  PROVE  TypeOK
<1>1. bout \in Bouts /\ bout \in 0 .. Width /\ Bitlength \in 0 .. Width
  BY Sizes DEF Init
<1>2. \A v \in Int : Ge(v, bout) \in Elements(bout) /\ Ge(v, Bitlength) \in Elements(Bitlength)
  BY <1>1, GeType
<1>3. Zero(bout) \in Elements(bout) /\ Zero(Bitlength) \in Elements(Bitlength)
  BY <1>2 DEF Zero
<1>4. hats \in [Party -> [Leaf -> Blocks]]
  <2>1. PICK s \in [Leaf -> Blocks], other \in Blocks :
          hats = [p \in Party |-> IF p = 0 THEN s ELSE [s EXCEPT ![point] = other]]
    BY DEF Init
  <2>2. [s EXCEPT ![point] = other] \in [Leaf -> Blocks]
    OBVIOUS
  <2>3. QED
    BY <2>1, <2>2
<1>5. payload \in [Party -> Elements(bout)]
  BY <1>2, LeafSumsAssumption DEF Init
<1>6. \A p \in Party, th \in Thread, b \in Bit :
        threadW[p][th][b] \in Elements(Accumulator(th, b).bitsize)
  BY <1>1, Sizes DEF Init
<1>7. /\ W \in [Party -> [Bit -> Elements(bout)]]
      /\ gamma \in [Bit -> Elements(bout)]
      /\ received \in [Party -> Elements(Bitlength)]
      /\ key \in [Party -> [Bit -> Elements(Bitlength)]]
  BY <1>3 DEF Init, Zeros
<1>8. /\ pack \in [Party -> [payload : Elements(Bitlength),
                             W       : [Bit -> Elements(Bitlength)],
                             gamma   : [Bit -> Elements(Bitlength)]]]
      /\ pack2 \in [payload : [Party -> Elements(Bitlength)],
                    W       : [Party -> [Bit -> Elements(Bitlength)]],
                    gamma   : [Bit -> Elements(Bitlength)]]
  BY <1>3 DEF Init, Zeros
<1>9. QED
  BY <1>1, <1>4, <1>5, <1>6, <1>7, <1>8, LeafSumsAssumption DEF Init, TypeOK

LEMMA TypeStep ==
  ASSUME TypeOK, Next
  PROVE  TypeOK'
<1>0. /\ bout \in Bouts /\ joined \in 0 .. Threads
      /\ at = "sum" => joined < Threads
  BY DEF TypeOK
<1>1. bout \in 0 .. Width /\ Bitlength \in 0 .. Width
  BY <1>0, Sizes
<1>2. \A v \in Int : Ge(v, Bitlength) \in Elements(Bitlength)
  BY <1>1, GeType
<1>3. \A p \in Party, th \in Thread, b \in Bit :
        /\ Accumulator(th, b).bitsize \in 0 .. Width
        /\ threadW[p][th][b] \in Elements(Accumulator(th, b).bitsize)
        /\ threadW[p][th][b].value \in Int
  <2>1. TAKE p \in Party, th \in Thread, b \in Bit
  <2>2. Accumulator(th, b).bitsize \in 0 .. Width
    BY <1>0, <1>1, Sizes
  <2>3. threadW[p][th][b] \in Elements(Accumulator(th, b).bitsize)
    BY DEF TypeOK
  <2>4. QED
    BY <2>2, <2>3, ElementType
<1>4. \A p \in Party, b \in Bit :
        /\ W[p][b] \in Elements(bout) /\ W[p][b].value \in Int
        /\ gamma[b].value \in Int /\ key[p][b].value \in Int
        /\ payload[p].value \in Int /\ received[p].value \in Int
  <2>1. TAKE p \in Party, b \in Bit
  <2>2. /\ W[p][b] \in Elements(bout) /\ gamma[b] \in Elements(bout)
        /\ key[p][b] \in Elements(Bitlength)
        /\ payload[p] \in Elements(bout) /\ received[p] \in Elements(Bitlength)
    BY DEF TypeOK
  <2>3. QED
    BY <1>1, <2>2, ElementType
<1>5. ASSUME NEW j \in Leaf, SumLeaf(j)
      PROVE  TypeOK'
  <2>1. \A p \in Party, th \in Thread, b \in Bit :
          threadW'[p][th][b] \in Elements(Accumulator(th, b).bitsize)
    <3>1. TAKE p \in Party, th \in Thread, b \in Bit
    <3>2. Convert(bout, hats[p][j])[b].value \in Int
      BY <1>1, BlocksAreNumbers, ElementType
    <3>3. Plus(threadW[p][th][b], Convert(bout, hats[p][j])[b])
            \in Elements(Accumulator(th, b).bitsize)
      BY <1>3, <3>2, OperatorTypes
    <3>4. QED
      BY <1>3, <1>5, <3>3 DEF SumLeaf
  <2>2. summed' \subseteq Leaf /\ joined = 0
    BY <1>5 DEF SumLeaf, TypeOK
  <2>3. QED
    BY <1>5, <2>1, <2>2 DEF TypeOK, SumLeaf, call, sent, Accumulator
<1>6. CASE Join
  <2>1. /\ joined' \in 0 .. Threads /\ joined' = joined + 1 /\ joined \in Thread
        /\ (at' = "sum") <=> (joined' < Threads)
    BY <1>0, <1>6, LeafSumsAssumption DEF Join, Thread
  <2>2. W' \in [Party -> [Bit -> Elements(bout)]]
    <3>1. \A p \in Party, b \in Bit : Plus(W[p][b], threadW[p][joined][b]) \in Elements(bout)
      BY <1>1, <1>3, <1>4, <2>1, OperatorTypes
    <3>2. QED
      BY <1>6, <3>1 DEF Join
  <2>3. QED
    BY <1>6, <2>1, <2>2 DEF TypeOK, Join, call, sent, Accumulator
<1>7. CASE EndKeygen
  <2>1. gamma' \in [Bit -> Elements(bout)]
    <3>1. \A b \in Bit : Gamma(W[0][b], W[1][b], Beta(payload, bout, b)) \in Elements(bout)
      <4>1. TAKE b \in Bit
      <4>2. payload[0] \in Elements(bout) /\ payload[1] \in Elements(bout)
        BY DEF TypeOK, Party
      <4>3. /\ Beta(payload, bout, b)[0] \in Elements(bout)
            /\ Beta(payload, bout, b)[1] \in Elements(bout)
        BY <1>1, <4>2, BetaType
      <4>4. /\ Beta(payload, bout, b)[0].value \in Int
            /\ Beta(payload, bout, b)[1].value \in Int
        BY <1>1, <4>3, ElementType
      <4>5. 0 \in 0 .. bout
        BY <1>1
      <4>6. QED
        BY <1>1, <1>4, <4>3, <4>4, <4>5, GammaLow, SameItself DEF Party
    <3>2. QED
      BY <1>7, <3>1 DEF EndKeygen
  <2>2. QED
    BY <1>7, <2>1 DEF TypeOK, EndKeygen, call, sums, Accumulator
<1>8. ASSUME NEW x, x.value \in Int, NEW w, GeBytes(w) = GeBytes(Bitlength), NEW above \in Garbage
      PROVE  RecvGe(SendGe(x, w), Bitlength, above) \in Elements(Bitlength)
  BY <1>2, <1>8, Transport
<1>9. CASE ReceiveKeys
  <2>1. PICK above \in Garbage :
          /\ received' = [p \in Party |-> RecvGe(SendGe(payload[p], bout), Bitlength, above)]
          /\ key' = [p \in Party |-> [b \in Bit |->
                      RecvGe(SendGe(gamma[b], bout), Bitlength, above)]]
    BY <1>9 DEF ReceiveKeys
  <2>2. /\ \A p \in Party :
             RecvGe(SendGe(payload[p], bout), Bitlength, above) \in Elements(Bitlength)
        /\ \A b \in Bit :
             RecvGe(SendGe(gamma[b], bout), Bitlength, above) \in Elements(Bitlength)
    BY <1>4, <1>8, <1>9 DEF ReceiveKeys, InFrame, Party, Bit
  <2>3. /\ received' \in [Party -> Elements(Bitlength)]
        /\ key' \in [Party -> [Bit -> Elements(Bitlength)]]
    BY <2>1, <2>2
  <2>4. QED
    BY <1>9, <2>3 DEF TypeOK, ReceiveKeys, call, sums, Accumulator
<1>10. CASE LoseFrame
  BY <1>10 DEF TypeOK, LoseFrame, call, sums, sent, Accumulator
<1>11. CASE SendPacks
  <2> DEFINE Got(x, above) == RecvGe(SendGe(x, Bitlength), Bitlength, above)
  <2>1. PICK above \in Garbage :
          /\ pack' = [p \in Party |-> [payload |-> Got(received[p], above),
                                       W       |-> [b \in Bit |-> Got(W[p][b], above)],
                                       gamma   |-> [b \in Bit |-> Got(key[p][b], above)]]]
          /\ pack2' = [payload |-> [p \in Party |-> Got(payload[p], above)],
                       W       |-> [p \in Party |-> [b \in Bit |-> Got(W[p][b], above)]],
                       gamma   |-> [b \in Bit |-> Got(gamma[b], above)]]
    BY <1>11 DEF SendPacks
  <2>2. /\ \A p \in Party : /\ Got(received[p], above) \in Elements(Bitlength)
                          /\ Got(payload[p], above) \in Elements(Bitlength)
        /\ \A p \in Party, b \in Bit : /\ Got(W[p][b], above) \in Elements(Bitlength)
                                     /\ Got(key[p][b], above) \in Elements(Bitlength)
        /\ \A b \in Bit : Got(gamma[b], above) \in Elements(Bitlength)
    BY <1>4, <1>8 DEF Party, Bit
  <2> HIDE DEF Got
  <2>3. /\ pack' \in [Party -> [payload : Elements(Bitlength),
                                W       : [Bit -> Elements(Bitlength)],
                                gamma   : [Bit -> Elements(Bitlength)]]]
        /\ pack2' \in [payload : [Party -> Elements(Bitlength)],
                       W       : [Party -> [Bit -> Elements(Bitlength)]],
                       gamma   : [Bit -> Elements(Bitlength)]]
    BY <2>1, <2>2
  <2>4. QED
    BY <1>11, <2>3 DEF TypeOK, SendPacks, call, sums, Accumulator
<1>12. QED
  BY <1>5, <1>6, <1>7, <1>9, <1>10, <1>11 DEF Next

(***************************************************************************)
(* TypeOK of LeafSums: whatever is added, received or left above, every    *)
(* group element stays reduced to its own bit size.                        *)
(***************************************************************************)
THEOREM TypeCorrect == Spec => []TypeOK
<1>1. Init => TypeOK
  BY TypeInit
<1>2. TypeOK /\ [Next]_vars => TypeOK'
  <2>1. TypeOK /\ UNCHANGED vars => TypeOK'
    BY DEF TypeOK, vars, call, sums, sent, Accumulator
  <2>2. QED
    BY <2>1, TypeStep
<1>3. QED
  BY <1>1, <1>2, PTL DEF Spec
-----------------------------------------------------------------------------
(***************************************************************************)
(* The strengthening: the sums of the two parties differ, in the low bits, *)
(* by the leaf at the secret point alone, in the accumulator of its thread *)
(* and then in the totals; the other leaves are the same in both.          *)
(***************************************************************************)
Agree == \A j \in Leaf : j # point => hats[0][j] = hats[1][j]

Gap(b) == Convert(bout, hats[0][point])[b].value - Convert(bout, hats[1][point])[b].value

ThreadGap(th, b) == IF point \in summed /\ Owner(point) = th THEN Gap(b) ELSE 0
TotalGap(b)      == IF Owner(point) < joined THEN Gap(b) ELSE 0

ThreadsDiffer ==
  \A th \in Thread, b \in Bit :
    Same(threadW[0][th][b].value - threadW[1][th][b].value, ThreadGap(th, b), Low)

TotalsDiffer ==
  \A b \in Bit : Same(W[0][b].value - W[1][b].value, TotalGap(b), Low)

Dealt ==
  at \notin {"sum", "gamma"} =>
    \A b \in Bit : gamma[b] = Gamma(W[0][b], W[1][b], Beta(payload, bout, b))

Delivered ==
  at \in {"key", "pack"} =>
    \A p \in Party :
      /\ received[p] = Ge(payload[p].value, Bitlength)
      /\ \A b \in Bit : key[p][b] = Ge(gamma[b].value, Bitlength)

Packed ==
  at = "pack" =>
    \A p \in Party :
      /\ pack[p].payload = Ge(received[p].value, Bitlength)
      /\ pack2.payload[p] = Ge(payload[p].value, Bitlength)
      /\ \A b \in Bit :
           /\ pack[p].W[b] = Ge(W[p][b].value, Bitlength)
           /\ pack2.W[p][b] = Ge(W[p][b].value, Bitlength)
           /\ pack[p].gamma[b] = Ge(key[p][b].value, Bitlength)
           /\ pack2.gamma[b] = Ge(gamma[b].value, Bitlength)

Inv ==
  TypeOK /\ Agree /\ ThreadsDiffer /\ TotalsDiffer /\ Dealt /\ Delivered /\ Packed

LEMMA LowType ==
  ASSUME bout \in Bouts
  PROVE  /\ LowSize \in 0 .. Width /\ LowSize <= bout /\ LowSize <= Bitlength
         /\ Low \in Nat \ {0}
<1>1. LowSize \in 0 .. Width /\ LowSize <= bout /\ LowSize <= Bitlength
  BY Sizes DEF LowSize
<1>2. QED
  BY <1>1, Powers DEF Low

\* Adding to two elements moves their difference by that of what is added.
LEMMA PairPlus ==
  ASSUME NEW w \in 0 .. Width, NEW m \in 0 .. w,
         NEW x0 \in Elements(w), NEW x1 \in Elements(w),
         NEW y0, NEW y1, y0.value \in Int, y1.value \in Int,
         NEW g \in Int, NEW h \in Int,
         Same(x0.value - x1.value, g, Pow2[m]), Same(y0.value - y1.value, h, Pow2[m])
  PROVE  Same(Plus(x0, y0).value - Plus(x1, y1).value, g + h, Pow2[m])
<1> DEFINE M == Pow2[m]
           a0 == x0.value
           a1 == x1.value
           b0 == y0.value
           b1 == y1.value
           s0 == Plus(x0, y0).value
           s1 == Plus(x1, y1).value
<1>1. a0 \in Int /\ a1 \in Int /\ b0 \in Int /\ b1 \in Int
  BY ElementType
<1>2. M \in Nat \ {0}
  <2>1. m \in 0 .. Width
    BY WidthAssumption
  <2>2. QED
    BY <2>1, Powers
<1>3. s0 \in Int /\ s1 \in Int
  BY <1>1, OperatorTypes, ElementType
<1>4. Same(s0, a0 + b0, M) /\ Same(s1, a1 + b1, M)
  BY <1>1, SameItself, PlusLow
<1>5. Same(a0 - a1, g, M) /\ Same(b0 - b1, h, M)
  OBVIOUS
<1> HIDE DEF M, a0, a1, b0, b1, s0, s1
<1>6. Same(s0 - s1, (a0 + b0) - (a1 + b1), M)
  BY <1>1, <1>2, <1>3, <1>4, SubSame
<1>7. Same((a0 - a1) + (b0 - b1), g + h, M)
  BY <1>1, <1>2, <1>5, AddSame
<1>8. (a0 + b0) - (a1 + b1) = (a0 - a1) + (b0 - b1)
  BY <1>1
<1>9. Same(s0 - s1, g + h, M)
  BY <1>6, <1>7, <1>8, SameChain
<1>10. QED
  BY <1>9 DEF M, s0, s1

LEMMA GapTypes ==
  ASSUME TypeOK, NEW b \in Bit, NEW th \in Thread
  PROVE  Gap(b) \in Int /\ ThreadGap(th, b) \in Int /\ TotalGap(b) \in Int
<1>1. bout \in 0 .. Width /\ point \in Leaf
  BY Sizes DEF TypeOK
<1>2. /\ Convert(bout, hats[0][point])[b].value \in Int
      /\ Convert(bout, hats[1][point])[b].value \in Int
  BY <1>1, BlocksAreNumbers, ElementType DEF Party
<1>3. QED
  BY <1>2 DEF Gap, ThreadGap, TotalGap

LEMMA InvInit ==
  ASSUME Init
  PROVE  Inv
<1>1. TypeOK
  BY TypeInit
<1>2. Agree
  <2>1. PICK s \in [Leaf -> Blocks], other \in Blocks :
          hats = [p \in Party |-> IF p = 0 THEN s ELSE [s EXCEPT ![point] = other]]
    BY DEF Init
  <2>2. hats[0] = s /\ hats[1] = [s EXCEPT ![point] = other]
    BY <2>1 DEF Party
  <2>3. QED
    BY <2>2 DEF Agree
<1>3. bout \in Bouts /\ summed = {} /\ joined = 0 /\ at = "sum"
  BY DEF Init
<1>4. ThreadsDiffer
  <2>1. SUFFICES ASSUME NEW th \in Thread, NEW b \in Bit
                 PROVE  Same(threadW[0][th][b].value - threadW[1][th][b].value,
                             ThreadGap(th, b), Low)
    BY DEF ThreadsDiffer
  <2>2. threadW[0][th][b].value = 0 /\ threadW[1][th][b].value = 0
    BY <1>3, Sizes DEF Init, Party
  <2>3. ThreadGap(th, b) = 0
    BY <1>3 DEF ThreadGap
  <2>4. QED
    BY <2>2, <2>3, SameItself
<1>5. TotalsDiffer
  <2>1. SUFFICES ASSUME NEW b \in Bit
                 PROVE  Same(W[0][b].value - W[1][b].value, TotalGap(b), Low)
    BY DEF TotalsDiffer
  <2>2. W[0][b].value - W[1][b].value = 0
    <3>1. W[0][b] = Zero(bout) /\ W[1][b] = Zero(bout)
      BY DEF Init, Party
    <3>2. Zero(bout).value \in Int
      BY <1>3, Sizes, GeType, ElementType DEF Zero
    <3>3. QED
      BY <3>1, <3>2
  <2>3. Owner(point) \in Nat
    BY LeafSumsAssumption DEF Init, Owner, Leaf
  <2>4. TotalGap(b) = 0
    BY <1>3, <2>3 DEF TotalGap
  <2>5. QED
    BY <2>2, <2>4, SameItself
<1>6. Dealt /\ Delivered /\ Packed
  BY <1>3 DEF Dealt, Delivered, Packed
<1>7. QED
  BY <1>1, <1>2, <1>4, <1>5, <1>6 DEF Inv

LEMMA SumLeafStep ==
  ASSUME Inv, NEW j \in Leaf, SumLeaf(j)
  PROVE  ThreadsDiffer' /\ TotalsDiffer'
<1>1. /\ TypeOK /\ Agree /\ ThreadsDiffer /\ TotalsDiffer
      /\ bout \in Bouts /\ point \in Leaf
  BY DEF Inv, TypeOK
<1>2. /\ LowSize \in 0 .. Width /\ LowSize <= bout /\ LowSize <= Bitlength
      /\ bout \in 0 .. Width /\ Bitlength \in 0 .. Width
  BY <1>1, LowType, Sizes
<1>3. /\ j \notin summed /\ summed' = summed \cup {j}
      /\ UNCHANGED <<bout, point, hats, joined, W>>
      /\ threadW' = [p \in Party |-> [th \in Thread |-> [b \in Bit |->
            IF th = Owner(j) THEN Plus(threadW[p][th][b], Convert(bout, hats[p][j])[b])
            ELSE threadW[p][th][b]]]]
  BY DEF SumLeaf, call
<1>4. Low' = Low /\ \A b \in Bit : Gap(b)' = Gap(b) /\ TotalGap(b)' = TotalGap(b)
  BY <1>3 DEF Low, LowSize, Gap, TotalGap, Owner
<1>5. TotalsDiffer'
  BY <1>1, <1>3, <1>4 DEF TotalsDiffer
<1>6. ThreadsDiffer'
  <2>1. SUFFICES ASSUME NEW th \in Thread, NEW b \in Bit
                 PROVE  Same(threadW'[0][th][b].value - threadW'[1][th][b].value,
                             ThreadGap(th, b)', Low)
    BY <1>4 DEF ThreadsDiffer
  <2>2. Same(threadW[0][th][b].value - threadW[1][th][b].value, ThreadGap(th, b), Low)
    BY <1>1 DEF ThreadsDiffer
  <2>3. ThreadGap(th, b)' = IF point \in summed \cup {j} /\ Owner(point) = th THEN Gap(b) ELSE 0
    BY <1>3, <1>4 DEF ThreadGap, Owner
  <2>4. CASE th # Owner(j)
    <3>1. threadW'[0][th][b] = threadW[0][th][b] /\ threadW'[1][th][b] = threadW[1][th][b]
      BY <1>3, <2>4 DEF Party
    <3>2. ThreadGap(th, b)' = ThreadGap(th, b)
      BY <2>3, <2>4 DEF ThreadGap
    <3>3. QED
      BY <2>2, <3>1, <3>2
  <2>5. CASE th = Owner(j)
    <3> DEFINE c0 == Convert(bout, hats[0][j])[b]
               c1 == Convert(bout, hats[1][j])[b]
               x0 == threadW[0][th][b]
               x1 == threadW[1][th][b]
               w  == Accumulator(th, b).bitsize
               h  == IF j = point THEN Gap(b) ELSE 0
    <3>1. c0.value \in Int /\ c1.value \in Int
      BY <1>1, <1>2, BlocksAreNumbers, ElementType DEF Party
    <3>2. w \in 0 .. Width /\ LowSize \in 0 .. w
      BY <1>1, <1>2, Sizes
    <3>3. x0 \in Elements(w) /\ x1 \in Elements(w)
      BY <1>1 DEF TypeOK, Party
    <3>4. Gap(b) \in Int /\ ThreadGap(th, b) \in Int /\ h \in Int
      BY <1>1, GapTypes
    <3>5. c0.value - c1.value = h
      <4>1. CASE j = point
        BY <4>1 DEF Gap
      <4>2. CASE j # point
        <5>1. c0 = c1
          BY <1>1, <4>2 DEF Agree
        <5>2. QED
          BY <3>1, <4>2, <5>1
      <4>3. QED
        BY <4>1, <4>2
    <3>6. Same(c0.value - c1.value, h, Low)
      BY <3>5, SameItself
    <3>7. Same(x0.value - x1.value, ThreadGap(th, b), Pow2[LowSize])
      BY <2>2 DEF Low
    <3>8. ThreadGap(th, b)' = ThreadGap(th, b) + h
      BY <1>3, <2>3, <2>5, <3>4 DEF ThreadGap
    <3>9. threadW'[0][th][b] = Plus(x0, c0) /\ threadW'[1][th][b] = Plus(x1, c1)
      BY <1>3, <2>5 DEF Party
    <3> HIDE DEF c0, c1, x0, x1, w, h
    <3>10. Same(Plus(x0, c0).value - Plus(x1, c1).value, ThreadGap(th, b) + h, Pow2[LowSize])
      BY <3>1, <3>2, <3>3, <3>4, <3>6, <3>7, PairPlus DEF Low
    <3>11. QED
      BY <3>8, <3>9, <3>10 DEF Low
  <2>6. QED
    BY <2>4, <2>5
<1>7. QED
  BY <1>5, <1>6

LEMMA JoinStep ==
  ASSUME Inv, Join
  PROVE  ThreadsDiffer' /\ TotalsDiffer'
<1>1. /\ TypeOK /\ Agree /\ ThreadsDiffer /\ TotalsDiffer
      /\ bout \in Bouts /\ point \in Leaf
  BY DEF Inv, TypeOK
<1>2. /\ LowSize \in 0 .. Width /\ LowSize \in 0 .. bout /\ LowSize <= Bitlength
      /\ bout \in 0 .. Width /\ Bitlength \in 0 .. Width
  BY <1>1, LowType, Sizes
<1>3. /\ summed = Leaf /\ joined' = joined + 1 /\ joined \in Thread
      /\ UNCHANGED <<bout, point, hats, summed, threadW>>
      /\ W' = [p \in Party |-> [b \in Bit |-> Plus(W[p][b], threadW[p][joined][b])]]
  BY LeafSumsAssumption DEF Join, call, Inv, TypeOK, Thread
<1>4. /\ Low' = Low
      /\ \A th \in Thread, b \in Bit : Gap(b)' = Gap(b) /\ ThreadGap(th, b)' = ThreadGap(th, b)
  BY <1>3 DEF Low, LowSize, Gap, ThreadGap, Owner
<1>5. ThreadsDiffer'
  BY <1>1, <1>3, <1>4 DEF ThreadsDiffer
<1>6. TotalsDiffer'
  <2>1. SUFFICES ASSUME NEW b \in Bit
                 PROVE  Same(W'[0][b].value - W'[1][b].value, TotalGap(b)', Low)
    BY <1>4 DEF TotalsDiffer
  <2> DEFINE y0 == threadW[0][joined][b]
             y1 == threadW[1][joined][b]
             x0 == W[0][b]
             x1 == W[1][b]
             g  == TotalGap(b)
             h  == ThreadGap(joined, b)
  <2>2. y0.value \in Int /\ y1.value \in Int
    <3>1. Accumulator(joined, b).bitsize \in 0 .. Width
      BY <1>1, <1>2, <1>3, Sizes
    <3>2. /\ y0 \in Elements(Accumulator(joined, b).bitsize)
          /\ y1 \in Elements(Accumulator(joined, b).bitsize)
      BY <1>1, <1>3 DEF TypeOK, Party
    <3>3. QED
      BY <3>1, <3>2, ElementType
  <2>3. x0 \in Elements(bout) /\ x1 \in Elements(bout)
    BY <1>1 DEF TypeOK, Party
  <2>4. g \in Int /\ h \in Int /\ Gap(b) \in Int
    BY <1>1, <1>3, GapTypes
  <2>5. Same(x0.value - x1.value, g, Low) /\ Same(y0.value - y1.value, h, Low)
    BY <1>1, <1>3 DEF TotalsDiffer, ThreadsDiffer
  <2>6. TotalGap(b)' = g + h
    <3>1. Owner(point) \in Int /\ joined \in Int
      BY <1>1, <1>3, LeafSumsAssumption DEF Owner, Leaf, Thread
    <3>2. TotalGap(b)' = IF Owner(point) < joined + 1 THEN Gap(b) ELSE 0
      BY <1>3, <1>4 DEF TotalGap, Owner
    <3>3. h = IF Owner(point) = joined THEN Gap(b) ELSE 0
      BY <1>1, <1>3 DEF ThreadGap
    <3>4. QED
      BY <2>4, <3>1, <3>2, <3>3 DEF TotalGap
  <2>7. W'[0][b] = Plus(x0, y0) /\ W'[1][b] = Plus(x1, y1)
    BY <1>3 DEF Party
  <2> HIDE DEF x0, x1, y0, y1, g, h
  <2>8. Same(Plus(x0, y0).value - Plus(x1, y1).value, g + h, Low)
    BY <1>2, <2>2, <2>3, <2>4, <2>5, PairPlus DEF Low
  <2>9. QED
    BY <2>6, <2>7, <2>8
<1>7. QED
  BY <1>5, <1>6

LEMMA InvStep ==
  ASSUME Inv, [Next]_vars
  PROVE  Inv'
<1>1. CASE UNCHANGED vars
  BY <1>1 DEF Inv, TypeOK, Agree, ThreadsDiffer, TotalsDiffer, Dealt, Delivered, Packed, vars,
              call, sums, sent, Accumulator, Gap, ThreadGap, TotalGap, Owner, Low, LowSize, Gamma
<1>2. ASSUME Next
      PROVE  TypeOK' /\ Agree'
  <2>1. TypeOK'
    BY <1>2, TypeStep DEF Inv
  <2>2. UNCHANGED call
    BY <1>2 DEF Next, SumLeaf, Join, EndKeygen, ReceiveKeys, LoseFrame, SendPacks
  <2>3. QED
    BY <2>1, <2>2 DEF Inv, Agree, call
<1>3. ASSUME UNCHANGED <<call, sums>>
      PROVE  ThreadsDiffer' /\ TotalsDiffer'
  BY <1>3 DEF Inv, ThreadsDiffer, TotalsDiffer, call, sums, Gap, ThreadGap, TotalGap,
              Owner, Low, LowSize
<1>4. ASSUME NEW x, x.value \in Int, NEW above \in Garbage
      PROVE  RecvGe(SendGe(x, Bitlength), Bitlength, above) = Ge(x.value, Bitlength)
  BY <1>4, Transport
<1>5. \A p \in Party, b \in Bit :
        /\ W[p][b].value \in Int /\ gamma[b].value \in Int /\ key[p][b].value \in Int
        /\ payload[p].value \in Int /\ received[p].value \in Int
  <2>1. TAKE p \in Party, b \in Bit
  <2>2. bout \in 0 .. Width /\ Bitlength \in 0 .. Width
    BY Sizes DEF Inv, TypeOK
  <2>3. /\ W[p][b] \in Elements(bout) /\ gamma[b] \in Elements(bout)
        /\ key[p][b] \in Elements(Bitlength)
        /\ payload[p] \in Elements(bout) /\ received[p] \in Elements(Bitlength)
    BY DEF Inv, TypeOK
  <2>4. QED
    BY <2>2, <2>3, ElementType
<1>6. ASSUME NEW j \in Leaf, SumLeaf(j)
      PROVE  Inv'
  <2>1. Dealt' /\ Delivered' /\ Packed'
    BY <1>6 DEF SumLeaf, Dealt, Delivered, Packed
  <2>2. QED
    BY <1>2, <1>6, <2>1, SumLeafStep DEF Inv, Next
<1>7. CASE Join
  <2>1. Dealt' /\ Delivered' /\ Packed'
    BY <1>7 DEF Join, Dealt, Delivered, Packed
  <2>2. QED
    BY <1>2, <1>7, <2>1, JoinStep DEF Inv, Next
<1>8. CASE EndKeygen
  <2>1. Dealt'
    BY <1>8 DEF EndKeygen, Dealt, call, sums, Gamma
  <2>2. Delivered' /\ Packed'
    BY <1>8 DEF EndKeygen, Delivered, Packed
  <2>3. QED
    BY <1>2, <1>3, <1>8, <2>1, <2>2 DEF Inv, Next, EndKeygen
<1>9. CASE ReceiveKeys
  <2>1. Dealt'
    BY <1>9 DEF ReceiveKeys, Inv, Dealt, call, sums, Gamma
  <2>2. Packed'
    BY <1>9 DEF ReceiveKeys, Packed
  <2>3. Delivered'
    <3>1. PICK above \in Garbage :
            /\ received' = [p \in Party |-> RecvGe(SendGe(payload[p], bout), Bitlength, above)]
            /\ key' = [p \in Party |-> [b \in Bit |->
                        RecvGe(SendGe(gamma[b], bout), Bitlength, above)]]
      BY <1>9 DEF ReceiveKeys
    <3>2. /\ \A p \in Party :
               RecvGe(SendGe(payload[p], bout), Bitlength, above) = Ge(payload[p].value, Bitlength)
          /\ \A b \in Bit :
               RecvGe(SendGe(gamma[b], bout), Bitlength, above) = Ge(gamma[b].value, Bitlength)
      BY <1>5, <1>9, Transport DEF ReceiveKeys, InFrame, Party, Bit
    <3>3. QED
      BY <1>9, <3>1, <3>2 DEF ReceiveKeys, Delivered, call
  <2>4. QED
    BY <1>2, <1>3, <1>9, <2>1, <2>2, <2>3 DEF Inv, Next, ReceiveKeys
<1>10. CASE LoseFrame
  <2>1. Dealt'
    BY <1>10 DEF LoseFrame, Inv, Dealt, call, sums, sent, Gamma
  <2>2. Delivered' /\ Packed'
    BY <1>10 DEF LoseFrame, Delivered, Packed
  <2>3. QED
    BY <1>2, <1>3, <1>10, <2>1, <2>2 DEF Inv, Next, LoseFrame
<1>11. CASE SendPacks
  <2>1. Dealt' /\ Delivered'
    BY <1>11 DEF SendPacks, Inv, Dealt, Delivered, call, sums, Gamma
  <2>2. Packed'
    <3> DEFINE Got(x, above) == RecvGe(SendGe(x, Bitlength), Bitlength, above)
    <3>1. PICK above \in Garbage :
            /\ pack' = [p \in Party |-> [payload |-> Got(received[p], above),
                                         W       |-> [b \in Bit |-> Got(W[p][b], above)],
                                         gamma   |-> [b \in Bit |-> Got(key[p][b], above)]]]
            /\ pack2' = [payload |-> [p \in Party |-> Got(payload[p], above)],
                         W       |-> [p \in Party |-> [b \in Bit |-> Got(W[p][b], above)]],
                         gamma   |-> [b \in Bit |-> Got(gamma[b], above)]]
      BY <1>11 DEF SendPacks
    <3>2. /\ \A p \in Party : /\ Got(received[p], above) = Ge(received[p].value, Bitlength)
                            /\ Got(payload[p], above) = Ge(payload[p].value, Bitlength)
          /\ \A p \in Party, b \in Bit : /\ Got(W[p][b], above) = Ge(W[p][b].value, Bitlength)
                                       /\ Got(key[p][b], above) = Ge(key[p][b].value, Bitlength)
          /\ \A b \in Bit : Got(gamma[b], above) = Ge(gamma[b].value, Bitlength)
      BY <1>4, <1>5 DEF Party, Bit
    <3>3. UNCHANGED <<payload, W, gamma, received, key>>
      BY <1>11 DEF SendPacks, call, sums
    <3> HIDE DEF Got
    <3>4. SUFFICES ASSUME NEW p \in Party
                   PROVE  /\ pack'[p].payload = Ge(received[p].value, Bitlength)
                          /\ pack2'.payload[p] = Ge(payload[p].value, Bitlength)
                          /\ \A b \in Bit :
                               /\ pack'[p].W[b] = Ge(W[p][b].value, Bitlength)
                               /\ pack2'.W[p][b] = Ge(W[p][b].value, Bitlength)
                               /\ pack'[p].gamma[b] = Ge(key[p][b].value, Bitlength)
                               /\ pack2'.gamma[b] = Ge(gamma[b].value, Bitlength)
      BY <3>3 DEF Packed
    <3>5. QED
      BY <3>1, <3>2
  <2>3. QED
    BY <1>2, <1>3, <1>11, <2>1, <2>2 DEF Inv, Next, SendPacks
<1>12. QED
  BY <1>1, <1>6, <1>7, <1>8, <1>9, <1>10, <1>11 DEF Next

LEMMA Invariance == Spec => []Inv
<1>1. Init => Inv
  BY InvInit
<1>2. Inv /\ [Next]_vars => Inv'
  BY InvStep
<1>3. QED
  BY <1>1, <1>2, PTL DEF Spec

(***************************************************************************)
(* The shares and gamma need the difference of the parties' sums only, not *)
(* the sums themselves, which are the subject of the last part.            *)
(***************************************************************************)
BetaOf(p, b) == IF b = 0 THEN p ELSE payload[p].value

LEMMA BetaLow ==
  ASSUME TypeOK, NEW b \in Bit, NEW w \in 0 .. Width, NEW m \in 0 .. w, NEW pay,
         \A p \in Party : /\ pay[p] \in Elements(w)
                         /\ Same(pay[p].value, payload[p].value, Pow2[m])
  PROVE  /\ Beta(pay, w, b)[0] \in Elements(w) /\ Beta(pay, w, b)[1] \in Elements(w)
         /\ BetaOf(0, b) \in Int /\ BetaOf(1, b) \in Int
         /\ Same(Beta(pay, w, b)[0].value, BetaOf(0, b), Pow2[m])
         /\ Same(Beta(pay, w, b)[1].value, BetaOf(1, b), Pow2[m])
         /\ BetaOf(0, b) + BetaOf(1, b) = Secret(b)
<1>1. pay[0] \in Elements(w) /\ pay[1] \in Elements(w)
  BY DEF Party
<1>2. Beta(pay, w, b)[0] \in Elements(w) /\ Beta(pay, w, b)[1] \in Elements(w)
  BY <1>1, BetaType
<1>3. \A p \in Party : payload[p].value \in Int
  <2>1. bout \in 0 .. Width /\ \A p \in Party : payload[p] \in Elements(bout)
    BY Sizes DEF TypeOK
  <2>2. QED
    BY <2>1, ElementType
<1>4. BetaOf(0, b) \in Int /\ BetaOf(1, b) \in Int
  BY <1>3 DEF BetaOf, Party
<1>5. \A p \in Party : Same(Beta(pay, w, b)[p].value, BetaOf(p, b), Pow2[m])
  <2>1. TAKE p \in Party
  <2>2. Same(Ge(p, w).value, p, Pow2[m])
    BY GeLow DEF Party
  <2>3. Beta(pay, w, b)[p] = IF b = 0 THEN Ge(p, w) ELSE pay[p]
    BY DEF Beta
  <2>4. QED
    BY <2>2, <2>3 DEF BetaOf
<1>6. BetaOf(0, b) + BetaOf(1, b) = Secret(b)
  BY DEF BetaOf, Secret
<1>7. QED
  BY <1>2, <1>4, <1>5, <1>6 DEF Party

\* What the dealer's gamma is in the low bits, and that of the keys beside it.
LEMMA KeyLow ==
  ASSUME Inv, at \notin {"sum", "gamma"}, NEW b \in Bit, NEW m \in 0 .. LowSize
  PROVE  /\ W[0][b].value \in Int /\ W[1][b].value \in Int
         /\ BetaOf(0, b) \in Int /\ BetaOf(1, b) \in Int
         /\ BetaOf(0, b) + BetaOf(1, b) = Secret(b)
         /\ gamma[b].value \in Int
         /\ Same(gamma[b].value,
                 InIntegers(W[0][b].value, W[1][b].value, BetaOf(0, b), BetaOf(1, b)), Pow2[m])
         /\ at \in {"key", "pack"} =>
              \A p \in Party : /\ key[p][b].value \in Int
                               /\ Same(key[p][b].value, gamma[b].value, Pow2[m])
<1>1. /\ TypeOK /\ Dealt /\ Delivered /\ bout \in Bouts
      /\ bout \in 0 .. Width /\ Bitlength \in 0 .. Width /\ LowSize \in 0 .. Width
      /\ LowSize <= bout /\ LowSize <= Bitlength
  BY LowType, Sizes DEF Inv, TypeOK
<1>2. m \in 0 .. bout /\ m \in 0 .. Bitlength
  BY <1>1
<1>3. \A p \in Party : W[p][b] \in Elements(bout) /\ payload[p] \in Elements(bout)
  BY <1>1 DEF TypeOK
<1>4. W[0][b] \in Elements(bout) /\ W[1][b] \in Elements(bout)
  BY <1>3 DEF Party
<1>5. W[0][b].value \in Int /\ W[1][b].value \in Int
  BY <1>1, <1>4, ElementType
<1> DEFINE beta == Beta(payload, bout, b)
           i == InIntegers(W[0][b].value, W[1][b].value, BetaOf(0, b), BetaOf(1, b))
<1>6. /\ beta[0] \in Elements(bout) /\ beta[1] \in Elements(bout)
      /\ BetaOf(0, b) \in Int /\ BetaOf(1, b) \in Int
      /\ Same(beta[0].value, BetaOf(0, b), Pow2[m])
      /\ Same(beta[1].value, BetaOf(1, b), Pow2[m])
      /\ BetaOf(0, b) + BetaOf(1, b) = Secret(b)
  BY <1>1, <1>2, <1>3, SameItself, BetaLow
<1>7. gamma[b] = Gamma(W[0][b], W[1][b], beta)
  BY <1>1 DEF Dealt
<1> HIDE DEF beta
<1>8. gamma[b] \in Elements(bout) /\ Same(gamma[b].value, i, Pow2[m])
  <2> DEFINE w0 == W[0][b]
             w1 == W[1][b]
             i0 == w0.value
             i1 == w1.value
             b0 == BetaOf(0, b)
             b1 == BetaOf(1, b)
  <2>1. /\ w0 \in Elements(bout) /\ w1 \in Elements(bout) /\ i0 \in Int /\ i1 \in Int
        /\ b0 \in Int /\ b1 \in Int
        /\ Same(w0.value, i0, Pow2[m]) /\ Same(w1.value, i1, Pow2[m])
        /\ Same(beta[0].value, b0, Pow2[m]) /\ Same(beta[1].value, b1, Pow2[m])
    BY <1>4, <1>5, <1>6, SameItself
  <2> HIDE DEF w0, w1, i0, i1, b0, b1
  <2>2. /\ Gamma(w0, w1, beta) \in Elements(bout)
        /\ Same(Gamma(w0, w1, beta).value, InIntegers(i0, i1, b0, b1), Pow2[m])
    BY <1>1, <1>2, <1>6, <2>1, GammaLow
  <2>3. QED
    BY <1>7, <2>2 DEF w0, w1, i0, i1, b0, b1
<1>9. gamma[b].value \in Int
  BY <1>1, <1>8, ElementType
<1>10. ASSUME at \in {"key", "pack"}, NEW p \in Party
       PROVE  key[p][b].value \in Int /\ Same(key[p][b].value, gamma[b].value, Pow2[m])
  <2>1. key[p][b] = Ge(gamma[b].value, Bitlength)
    BY <1>1, <1>10 DEF Delivered
  <2>2. Ge(gamma[b].value, Bitlength) \in Elements(Bitlength)
    BY <1>1, <1>9, GeType
  <2>3. Same(Ge(gamma[b].value, Bitlength).value, gamma[b].value, Pow2[m])
    BY <1>1, <1>2, <1>9, GeLow
  <2>4. QED
    BY <1>1, <2>1, <2>2, <2>3, ElementType
<1>11. QED
  BY <1>5, <1>6, <1>8, <1>9, <1>10

\* An entry of a server's table, in the low bits.
LEMMA OutLow ==
  ASSUME Inv, NEW p \in Party, NEW j \in Leaf, NEW t \in Bit, NEW b \in Bit,
         NEW k \in Int, NEW ge, Same(ge[b].value, k, Low), ge[b].value \in Int
  PROVE  LET g == Convert(bout, hats[p][j])[b].value
             c == IF t = 0 THEN 0 ELSE k
         IN  /\ Out(p, hats[p][j], t, ge, b) \in Elements(bout)
             /\ Same(Out(p, hats[p][j], t, ge, b).value,
                     IF p = 0 THEN g + c ELSE 0 - g - c, Low)
<1> DEFINE e == Convert(bout, hats[p][j])[b]
           g == e.value
           z == Zero(bout)
<1>1. /\ TypeOK /\ bout \in 0 .. Width /\ LowSize \in 0 .. bout
  BY LowType, Sizes DEF Inv, TypeOK
<1>2. e \in Elements(bout) /\ g \in Int
  BY <1>1, BlocksAreNumbers, ElementType
<1>3. z \in Elements(bout) /\ Same(z.value, 0, Low)
  BY <1>1, GeType, GeLow DEF Zero, Low
<1>4. Out(p, hats[p][j], t, ge, b) =
        IF p = 0 THEN IF t = 0 THEN e ELSE Plus(e, ge[b])
        ELSE IF t = 0 THEN Minus(z, e) ELSE Minus(Minus(z, e), ge[b])
  BY DEF Out
<1> HIDE DEF e, z
<1>5. Same(e.value, g, Low)
  BY SameItself
<1>6. CASE p = 0
  <2>1. Plus(e, ge[b]) \in Elements(bout) /\ Same(Plus(e, ge[b]).value, g + k, Low)
    BY <1>1, <1>2, <1>5, <1>6, OperatorTypes, PlusLow DEF Low
  <2>2. g + 0 = g
    BY <1>2
  <2>3. QED
    BY <1>2, <1>4, <1>5, <1>6, <2>1, <2>2 DEF e, Bit
<1>7. CASE p = 1
  <2> DEFINE m == Minus(z, e)
             n == 0 - g
  <2>1. m \in Elements(bout) /\ n \in Int /\ Same(m.value, n, Low)
    <3>1. m \in Elements(bout) /\ n \in Int
      BY <1>1, <1>2, <1>3, OperatorTypes DEF g
    <3> HIDE DEF g
    <3>2. Same(z.value, 0, Pow2[LowSize]) /\ Same(e.value, g, Pow2[LowSize])
      BY <1>3, <1>5 DEF Low
    <3>3. e.value \in Int /\ g \in Int
      BY <1>2 DEF g
    <3>4. Same(m.value, 0 - g, Pow2[LowSize])
      BY <1>1, <1>3, <3>2, <3>3, PlusLow
    <3>5. QED
      BY <3>1, <3>4 DEF Low
  <2> HIDE DEF m, n
  <2>2. Minus(m, ge[b]) \in Elements(bout) /\ Same(Minus(m, ge[b]).value, n - k, Low)
    BY <1>1, <1>7, <2>1, OperatorTypes, PlusLow DEF Low
  <2>3. n - 0 = n
    BY <2>1
  <2>4. QED
    BY <1>4, <1>7, <2>1, <2>2, <2>3 DEF m, n, e, Bit
<1>8. QED
  BY <1>6, <1>7 DEF Party

(***************************************************************************)
(* What the two tables share at leaf j, when the control bits are c0 and   *)
(* c1: the gap of the leaf, and gamma with the sign of the party that has  *)
(* the bit.                                                                *)
(***************************************************************************)
LEMMA PairLow ==
  ASSUME Inv, NEW j \in Leaf, NEW c0 \in Bit, NEW c1 \in Bit, NEW b \in Bit, NEW k \in Int,
         NEW ks, \A p \in Party : Same(ks[p][b].value, k, Low) /\ ks[p][b].value \in Int
  PROVE  LET g0 == Convert(bout, hats[0][j])[b].value
             g1 == Convert(bout, hats[1][j])[b].value
         IN  /\ g0 \in Int /\ g1 \in Int
             /\ Same(Plus(Out(0, hats[0][j], c0, ks[0], b), Out(1, hats[1][j], c1, ks[1], b)).value,
                     (g0 - g1) + ((IF c0 = 0 THEN 0 ELSE k) - (IF c1 = 0 THEN 0 ELSE k)), Low)
<1> DEFINE g0 == Convert(bout, hats[0][j])[b].value
           g1 == Convert(bout, hats[1][j])[b].value
           k0 == IF c0 = 0 THEN 0 ELSE k
           k1 == IF c1 = 0 THEN 0 ELSE k
           x == Out(0, hats[0][j], c0, ks[0], b)
           y == Out(1, hats[1][j], c1, ks[1], b)
           u == g0 + k0
           v == 0 - g1 - k1
<1>1. TypeOK /\ bout \in 0 .. Width /\ LowSize \in 0 .. bout
  BY LowType, Sizes DEF Inv, TypeOK
<1>2. g0 \in Int /\ g1 \in Int
  BY <1>1, BlocksAreNumbers, ElementType DEF Party
<1>3. k0 \in Int /\ k1 \in Int
  OBVIOUS
<1>4. 0 \in Party /\ 1 \in Party /\ 0 # 1
  BY DEF Party
<1>5. x \in Elements(bout) /\ Same(x.value, u, Low)
  BY <1>4, OutLow
<1>6. y \in Elements(bout) /\ Same(y.value, v, Low)
  BY <1>4, OutLow
<1> HIDE DEF g0, g1, k0, k1, x, y
<1>7. u \in Int /\ v \in Int /\ u + v = (g0 - g1) + (k0 - k1)
  BY <1>2, <1>3
<1>8. y.value \in Int
  BY <1>1, <1>6, ElementType
<1> HIDE DEF u, v
<1>9. Same(Plus(x, y).value, u + v, Pow2[LowSize])
  BY <1>1, <1>5, <1>6, <1>7, <1>8, PlusLow DEF Low
<1>10. QED
  BY <1>2, <1>7, <1>9 DEF g0, g1, k0, k1, x, y, Low

LEMMA SharesPointLow ==
  ASSUME Inv, at \notin {"sum", "gamma"}, NEW ks,
         \A p \in Party, b \in Bit : /\ ks[p][b].value \in Int
                                    /\ Same(ks[p][b].value, gamma[b].value, Low)
  PROVE  SharesPoint(ks)
<1>1. SUFFICES ASSUME NEW j \in Leaf, NEW t \in Bit, NEW b \in Bit
               PROVE  Same(Shared(ks, j, t, b).value, IF j = point THEN Secret(b) ELSE 0, Low)
  BY DEF SharesPoint, Same
<1> DEFINE i0 == W[0][b].value
           i1 == W[1][b].value
           b0 == BetaOf(0, b)
           b1 == BetaOf(1, b)
           k  == InIntegers(i0, i1, b0, b1)
<1>2. /\ TypeOK /\ Agree /\ TotalsDiffer /\ bout \in Bouts /\ point \in Leaf /\ t1 \in Party
      /\ joined = Threads
  <2>1. TypeOK /\ Agree /\ TotalsDiffer
    BY DEF Inv
  <2>2. /\ bout \in Bouts /\ point \in Leaf /\ t1 \in Party
        /\ joined \in 0 .. Threads /\ ((at = "sum") <=> (joined < Threads))
    BY <2>1 DEF TypeOK
  <2>3. at # "sum"
    BY <1>1
  <2>4. joined = Threads
    BY <2>2, <2>3, LeafSumsAssumption
  <2>5. QED
    BY <2>1, <2>2, <2>4
<1>3. LowSize \in 0 .. LowSize /\ Low \in Nat \ {0} /\ Low = Pow2[LowSize]
  BY <1>2, LowType DEF Low
<1>4. /\ i0 \in Int /\ i1 \in Int /\ b0 \in Int /\ b1 \in Int /\ b0 + b1 = Secret(b)
      /\ \A p \in Party : Same(ks[p][b].value, k, Low) /\ ks[p][b].value \in Int
  <2>1. /\ i0 \in Int /\ i1 \in Int /\ b0 \in Int /\ b1 \in Int /\ b0 + b1 = Secret(b)
        /\ Same(gamma[b].value, k, Low)
    BY <1>3, KeyLow
  <2>2. QED
    BY <2>1, SameChain
<1>5. k \in Int
  BY <1>4 DEF InIntegers
<1> HIDE DEF i0, i1, b0, b1, k
<1>6. CASE j # point
  <2>1. Shared(ks, j, t, b) = Plus(Out(0, hats[0][j], t, ks[0], b), Out(1, hats[1][j], t, ks[1], b))
    BY <1>6 DEF Shared
  <2> DEFINE g0 == Convert(bout, hats[0][j])[b].value
             g1 == Convert(bout, hats[1][j])[b].value
             kt == IF t = 0 THEN 0 ELSE k
  <2>2. g0 \in Int /\ g1 \in Int /\ Same(Shared(ks, j, t, b).value, (g0 - g1) + (kt - kt), Low)
    BY <1>4, <1>5, <2>1, PairLow
  <2>3. g0 = g1 /\ kt \in Int
    BY <1>2, <1>5, <1>6 DEF Agree
  <2>4. (g0 - g1) + (kt - kt) = 0
    <3> HIDE DEF g0, g1, kt
    <3>1. QED
      BY <2>2, <2>3
  <2>5. QED
    BY <1>6, <2>2, <2>4
<1>7. CASE j = point
  <2> DEFINE g0 == Convert(bout, hats[0][j])[b].value
             g1 == Convert(bout, hats[1][j])[b].value
             s  == IF t1 = 1 THEN 0 - k ELSE k
             x  == Shared(ks, j, t, b).value
  <2>1. Shared(ks, j, t, b) = Plus(Out(0, hats[0][j], 1 - t1, ks[0], b),
                                 Out(1, hats[1][j], t1, ks[1], b))
    BY <1>7 DEF Shared
  <2>2. t1 \in Bit /\ 1 - t1 \in Bit
    BY <1>2 DEF Party, Bit
  <2>3. /\ g0 \in Int /\ g1 \in Int
        /\ Same(x, (g0 - g1) + ((IF 1 - t1 = 0 THEN 0 ELSE k) - (IF t1 = 0 THEN 0 ELSE k)), Low)
    <3> DEFINE c == 1 - t1
               y == Plus(Out(0, hats[0][j], c, ks[0], b), Out(1, hats[1][j], t1, ks[1], b)).value
    <3>1. x = y
      BY <2>1
    <3>2. c \in Bit
      BY <2>2
    <3>3. /\ g0 \in Int /\ g1 \in Int
          /\ Same(y, (g0 - g1) + ((IF c = 0 THEN 0 ELSE k) - (IF t1 = 0 THEN 0 ELSE k)), Low)
      <4> HIDE DEF c
      <4>1. QED
        BY <1>4, <1>5, <2>2, <3>2, PairLow
    <3> HIDE DEF x, y, g0, g1
    <3>4. QED
      BY <3>1, <3>3
  <2>4. (IF 1 - t1 = 0 THEN 0 ELSE k) - (IF t1 = 0 THEN 0 ELSE k) = s
    <3>1. CASE t1 = 0
      BY <1>5, <3>1
    <3>2. CASE t1 = 1
      BY <1>5, <3>2
    <3>3. t1 = 0 \/ t1 = 1
      BY <2>2 DEF Bit
    <3>4. QED
      BY <3>1, <3>2, <3>3
  <2>5. s \in Int
    BY <1>5
  <2>6. Same(i0 - i1, g0 - g1, Low)
    <3>1. Owner(point) < joined
      BY <1>2, LeafSumsAssumption DEF Owner, Leaf
    <3>2. QED
      BY <1>2, <1>7, <3>1 DEF TotalsDiffer, TotalGap, Gap, i0, i1
  <2> HIDE DEF g0, g1, x, s
  <2>7. Same(x, (g0 - g1) + s, Low)
    BY <2>3, <2>4
  <2>8. Same((g0 - g1) + s, (i0 - i1) + s, Low)
    <3>1. g0 - g1 \in Int /\ i0 - i1 \in Int
      BY <1>4, <2>3
    <3>2. Same(g0 - g1, i0 - i1, Low) /\ Same(s, s, Low)
      BY <2>6 DEF Same
    <3>3. QED
      BY <1>3, <2>5, <3>1, <3>2, AddSame
  <2>9. (i0 - i1) + s = b0 + b1
    BY <1>4, <1>5 DEF s, k, InIntegers
  <2>10. Same(x, b0 + b1, Low)
    BY <2>7, <2>8, <2>9, SameChain
  <2>11. QED
    BY <1>4, <1>7, <2>10 DEF x
<1>8. QED
  BY <1>6, <1>7

LEMMA InvReconstructs ==
  ASSUME Inv
  PROVE  Reconstructs
<1>1. LowSize \in 0 .. LowSize /\ Low = Pow2[LowSize]
  BY LowType DEF Inv, TypeOK, Low
<1>2. ASSUME at \notin {"sum", "gamma"}
      PROVE  SharesPoint([p \in Party |-> gamma])
  <2>1. \A b \in Bit : gamma[b].value \in Int
    BY <1>1, <1>2, KeyLow
  <2>2. QED
    BY <1>2, <2>1, SameItself, SharesPointLow
<1>3. ASSUME at \in {"key", "pack"}
      PROVE  SharesPoint(key)
  <2>1. at \notin {"sum", "gamma"}
    BY <1>3
  <2>2. \A p \in Party, b \in Bit : /\ key[p][b].value \in Int
                                   /\ Same(key[p][b].value, gamma[b].value, Low)
    BY <1>1, <1>3, <2>1, KeyLow
  <2>3. QED
    BY <2>1, <2>2, SharesPointLow
<1>4. QED
  BY <1>2, <1>3 DEF Reconstructs

(***************************************************************************)
(* Reconstructs of LeafSums: whatever the number of leaves and threads and *)
(* the blocks of the tree, the two tables share 1 and alpha at the secret  *)
(* point and zero elsewhere, in the lowest min(Bout, bitlength) bits: for  *)
(* every Bout and bitlength when the keys stay in the process, and when    *)
(* the dealer sends them for every two that take as many bytes.            *)
(***************************************************************************)
THEOREM ReconstructsCorrect == Spec => []Reconstructs
<1>1. Inv => Reconstructs
  BY InvReconstructs
<1>2. QED
  BY <1>1, Invariance, PTL
(***************************************************************************)
(* The client's gamma, formed in bitlength bits from the totals in the     *)
(* packs, and the one in the packs are both gamma in the low bits, which   *)
(* for Bout >= bitlength are all the bits they have.                       *)
(***************************************************************************)
LEMMA RecomputedGamma ==
  ASSUME Inv, at = "pack", bout >= Bitlength, NEW p \in Party, NEW b \in Bit
  PROVE  pack[p].gamma[b].value =
           Gamma(pack[0].W[b], pack[1].W[b],
                 Beta([q \in Party |-> pack[q].payload], Bitlength, b)).value
<1> DEFINE B == Bitlength
           pay == [q \in Party |-> pack[q].payload]
<1>1. at \in {"key", "pack"} /\ at \notin {"sum", "gamma"}
  OBVIOUS
<1>2. /\ TypeOK /\ Delivered /\ Packed /\ bout \in Bouts /\ bout \in 0 .. Width /\ B \in 0 .. Width
      /\ B \in 0 .. B /\ LowSize = B /\ Low = Pow2[B] /\ B \in 0 .. bout /\ B \in 0 .. LowSize
  <2>1. TypeOK /\ Delivered /\ Packed /\ bout \in Bouts
    BY DEF Inv, TypeOK
  <2>2. bout \in 0 .. Width /\ Bitlength \in 0 .. Width
    BY <2>1, Sizes
  <2>3. LowSize = Bitlength
    BY <1>1, <2>2 DEF LowSize
  <2>4. QED
    BY <1>1, <2>1, <2>2, <2>3 DEF Low
<1> DEFINE w0 == pack[0].W[b]
           w1 == pack[1].W[b]
           i0 == W[0][b].value
           i1 == W[1][b].value
           b0 == BetaOf(0, b)
           b1 == BetaOf(1, b)
           beta == Beta(pay, B, b)
           k  == InIntegers(i0, i1, b0, b1)
           M  == Pow2[B]
<1>3. /\ i0 \in Int /\ i1 \in Int /\ b0 \in Int /\ b1 \in Int
      /\ key[p][b].value \in Int /\ Same(key[p][b].value, k, M)
  <2>1. /\ i0 \in Int /\ i1 \in Int /\ b0 \in Int /\ b1 \in Int
        /\ key[p][b].value \in Int /\ Same(gamma[b].value, k, M)
        /\ Same(key[p][b].value, gamma[b].value, M)
    BY <1>1, <1>2, KeyLow
  <2>2. QED
    BY <2>1, SameChain
<1>4. /\ w0 \in Elements(B) /\ w1 \in Elements(B)
      /\ Same(w0.value, i0, M) /\ Same(w1.value, i1, M)
  <2>1. \A q \in Party : pack[q].W[b] = Ge(W[q][b].value, B)
    BY <1>1, <1>2 DEF Packed
  <2>2. w0 = Ge(i0, B) /\ w1 = Ge(i1, B)
    BY <2>1 DEF Party
  <2>3. QED
    BY <1>2, <1>3, <2>2, GeType, GeLow
<1>5. /\ beta[0] \in Elements(B) /\ beta[1] \in Elements(B)
      /\ Same(beta[0].value, b0, M) /\ Same(beta[1].value, b1, M)
  <2>1. \A q \in Party : pay[q] \in Elements(B) /\ Same(pay[q].value, payload[q].value, M)
    <3>1. TAKE q \in Party
    <3> DEFINE v == payload[q].value
    <3>2. v \in Int
      BY <1>2, ElementType DEF TypeOK
    <3>3. pay[q] = Ge(Ge(v, B).value, B)
      BY <1>1, <1>2 DEF Delivered, Packed
    <3> HIDE DEF pay, v, B
    <3>4. Ge(v, B) \in Elements(B) /\ Same(Ge(v, B).value, v, Pow2[B])
      BY <1>2, <3>2, GeType, GeLow
    <3>5. Ge(v, B).value \in Int
      BY <1>2, <3>4, ElementType
    <3> DEFINE u == Ge(v, B).value
    <3>6. Ge(u, B) \in Elements(B) /\ Same(Ge(u, B).value, u, Pow2[B])
      BY <1>2, <3>5, GeType, GeLow
    <3>7. QED
      BY <3>3, <3>4, <3>6, SameChain DEF v, M
  <2> HIDE DEF pay, B
  <2>2. QED
    BY <1>2, <2>1, BetaLow
<1>6. pack[p].gamma[b] \in Elements(B) /\ Same(pack[p].gamma[b].value, k, M)
  <2>1. pack[p].gamma[b] = Ge(key[p][b].value, B)
    BY <1>1, <1>2 DEF Packed
  <2>2. QED
    BY <1>2, <1>3, <2>1, GeType, GeLow, SameChain
<1> HIDE DEF B, pay, w0, w1, i0, i1, b0, b1, beta, k, M
<1>7. /\ Gamma(w0, w1, beta) \in Elements(B)
      /\ Same(Gamma(w0, w1, beta).value, k, M)
  BY <1>2, <1>3, <1>4, <1>5, GammaLow DEF k, M
<1>8. \A x, y \in Elements(B) : Same(x.value, k, M) /\ Same(y.value, k, M) => x.value = y.value
  <2>1. SUFFICES ASSUME NEW x \in Elements(B), NEW y \in Elements(B),
                        Same(x.value, k, M), Same(y.value, k, M)
                 PROVE  x.value = y.value
    OBVIOUS
  <2>2. /\ x.value \in 0 .. M - 1 /\ y.value \in 0 .. M - 1 /\ M \in Nat \ {0}
    BY <1>2, Powers DEF Elements, M
  <2>3. x.value % M = y.value % M
    BY <2>1 DEF Same
  <2>4. x.value % M = x.value /\ y.value % M = y.value
    BY <2>2
  <2>5. QED
    BY <2>3, <2>4
<1>9. QED
  BY <1>6, <1>7, <1>8 DEF w0, w1, beta, pay, B

\* Reducing once more to the same size changes nothing.
LEMMA GeTwice ==
  ASSUME NEW w \in 0 .. Width, NEW v \in Int
  PROVE  Ge(Ge(v, w).value, w).value = Ge(v, w).value
<1>1. w \in 0 .. w
  BY WidthAssumption
<1>2. QED
  BY <1>1, LowBits DEF Ge

LEMMA InvGammaAccepted ==
  ASSUME Inv
  PROVE  GammaAccepted
<1>1. SUFFICES ASSUME at = "pack", NEW p \in Party
               PROVE  /\ pack[p].payload.value = pack2.payload[p].value
                      /\ \A b \in Bit :
                           /\ pack[p].W[b].value = pack2.W[p][b].value
                           /\ pack[p].gamma[b].value = pack2.gamma[b].value
  BY RecomputedGamma DEF GammaAccepted
<1>2. /\ TypeOK /\ Delivered /\ Packed /\ bout \in Bouts
      /\ bout \in 0 .. Width /\ Bitlength \in 0 .. Width
  BY Sizes DEF Inv, TypeOK
<1>3. pack[p].payload.value = pack2.payload[p].value
  <2>1. payload[p].value \in Int
    BY <1>2, ElementType DEF TypeOK
  <2>2. QED
    BY <1>1, <1>2, <2>1, GeTwice DEF Delivered, Packed
<1>4. ASSUME NEW b \in Bit
      PROVE  pack[p].gamma[b].value = pack2.gamma[b].value
  <2>1. gamma[b].value \in Int
    BY <1>2, ElementType DEF TypeOK
  <2>2. QED
    BY <1>1, <1>2, <2>1, GeTwice DEF Delivered, Packed
<1>5. QED
  BY <1>1, <1>2, <1>3, <1>4 DEF Packed

(***************************************************************************)
(* GammaAccepted of LeafSums: of servers whose keys arrived, that is for   *)
(* every Bout that takes as many bytes as bitlength, the packs agree with  *)
(* the dealer's, and when Bout is at least bitlength the gamma check_xor   *)
(* computes again from them is the one in the packs.                       *)
(***************************************************************************)
THEOREM GammaAcceptedCorrect == Spec => []GammaAccepted
<1>1. Inv => GammaAccepted
  BY InvGammaAccepted
<1>2. QED
  BY <1>1, Invariance, PTL
-----------------------------------------------------------------------------
(***************************************************************************)
(* Bits of a number: masking to n bits keeps those below n, and dividing   *)
(* by a power moves them down.                                             *)
(***************************************************************************)
LEMMA PowerSum ==
  ASSUME NEW a \in Nat, NEW b \in Nat, a + b <= Width
  PROVE  Pow2[a + b] = Pow2[a] * Pow2[b] /\ Pow2[a] \in Nat \ {0} /\ Pow2[b] \in Nat \ {0}
<1>1. a \in 0 .. Width /\ b \in 0 .. Width
  BY WidthAssumption
<1>2. QED
  BY <1>1, Pow2Assumption, Powers

LEMMA MaskedBit ==
  ASSUME NEW n \in 1 .. Width, NEW i \in 0 .. n - 1, NEW x \in Nat
  PROVE  BitOf(x % Pow2[n], i) = BitOf(x, i)
<1> DEFINE k == n - (i + 1)
<1>1. k \in Nat /\ i \in Nat /\ i + 1 + k = n /\ n <= Width /\ i + 1 <= Width
  BY WidthAssumption
<1> HIDE DEF k
<1>2. Pow2[n] = Pow2[i + 1] * Pow2[k] /\ Pow2[k] \in Nat \ {0}
  <2> DEFINE h == i + 1
  <2>1. h \in Nat /\ h + k = n /\ h + k <= Width
    BY <1>1
  <2> HIDE DEF h
  <2>2. Pow2[h + k] = Pow2[h] * Pow2[k] /\ Pow2[k] \in Nat \ {0}
    BY <1>1, <2>1, PowerSum
  <2>3. QED
    BY <2>1, <2>2 DEF h
<1>3. Pow2[i + 1] = Pow2[i] * 2 /\ Pow2[i] \in Nat \ {0}
  BY <1>1, PowerSum, Pow2Assumption
<1> DEFINE a == Pow2[i]
           b == Pow2[k]
           m == Pow2[n]
           c == x \div m
           y == x % m
           q == y \div a
           r == y % a
           d == b * c
           e == q + 2 * d
<1>4. a \in Nat \ {0} /\ b \in Nat \ {0} /\ m = (a * 2) * b /\ m \in Nat \ {0}
  BY <1>2, <1>3
<1> HIDE DEF a, b, m
<1>0. x \in Nat /\ m \in Nat \ {0}
  BY <1>4
<1>5. c \in Nat /\ y \in Nat /\ x = m * c + y
  BY <1>0
<1> HIDE DEF c, y
<1>6. q \in Nat /\ r \in 0 .. a - 1 /\ y = a * q + r
  BY <1>4, <1>5
<1> HIDE DEF q, r
<1>7. d \in Nat
  BY <1>4, <1>5
<1>8. m * c = a * (2 * d)
  BY <1>4, <1>5
<1> HIDE DEF d
<1>9. e \in Nat /\ a * e = a * q + a * (2 * d)
  BY <1>4, <1>6, <1>7
<1>10. x = a * e + r
  BY <1>4, <1>5, <1>6, <1>7, <1>8, <1>9
<1>11. e % 2 = q % 2
  BY <1>6, <1>7, SameRemainder
<1> HIDE DEF e
<1>12. x \div a = e
  BY <1>4, <1>6, <1>9, <1>10, QuotientUnique
<1>13. QED
  BY <1>11, <1>12 DEF BitOf, q, y, a, m

LEMMA ShiftedBit ==
  ASSUME NEW first \in Nat, NEW i \in Nat, first + i <= Width, NEW x \in Nat
  PROVE  /\ x \div Pow2[first] \in Nat
         /\ BitOf(x \div Pow2[first], i) = BitOf(x, first + i)
<1> DEFINE a == Pow2[first]
           b == Pow2[i]
<1>1. a \in Nat \ {0} /\ b \in Nat \ {0} /\ Pow2[first + i] = a * b
  BY PowerSum
<1> HIDE DEF a, b
<1>2. (x \div a) \div b = x \div (a * b)
  BY <1>1, QuotientOfQuotient
<1>3. x \div a \in Nat
  BY <1>1
<1>4. QED
  BY <1>1, <1>2, <1>3 DEF BitOf, a, b

\* bytesize() rounds up.
LEMMA BytesizeCovers ==
  ASSUME NEW w \in Nat
  PROVE  Bytesize(w) \in Nat /\ ByteBits * Bytesize(w) >= w
<1>1. ByteBits \in Nat \ {0}
  BY WidthAssumption
<1> DEFINE q == w \div ByteBits
           r == w % ByteBits
<1>2. q \in Nat /\ r \in 0 .. ByteBits - 1 /\ w = ByteBits * q + r
  BY <1>1
<1>3. Bytesize(w) = IF r = 0 THEN q ELSE q + 1
  BY DEF Bytesize
<1> HIDE DEF q, r
<1>4. ByteBits * (q + 1) = ByteBits * q + ByteBits
  BY <1>1, <1>2
<1>5. QED
  BY <1>1, <1>2, <1>3, <1>4

LEMMA TypeConvertCuts ==
  ASSUME TypeOK
  PROVE  ConvertCuts
<1>1. SUFFICES ASSUME NEW p \in Party, NEW j \in Leaf, NEW b \in Bit
               PROVE  LET first == b * ByteBits * Bytesize(bout) IN
                      /\ b = 1 => first >= bout
                      /\ \A i \in 0 .. bout - 1 :
                           BitOf(Convert(bout, hats[p][j])[b].value, i)
                             = BitOf(hats[p][j], first + i)
  BY DEF ConvertCuts
<1> DEFINE first == b * ByteBits * Bytesize(bout)
           block == hats[p][j]
           low   == block \div Pow2[first]
<1>2. /\ bout \in Bouts /\ bout \in 1 .. WordBits /\ block \in Nat
      /\ ByteBits \in Nat \ {0} /\ WordBytes \in Nat \ {0}
      /\ WordBits \in 1 .. Width /\ 2 * WordBits <= Width /\ WordBits = WordBytes * ByteBits
  <2>1. bout \in Bouts /\ hats \in [Party -> [Leaf -> Blocks]]
    BY DEF TypeOK
  <2>2. block \in Nat
    BY <2>1, LeafSumsAssumption
  <2> DEFINE n == WordBytes * ByteBits
  <2>3. /\ ByteBits \in Nat \ {0} /\ WordBytes \in Nat \ {0} /\ n \in Nat \ {0}
        /\ WordBits = n /\ 2 * WordBits <= Width /\ Width \in Nat
    BY WidthAssumption DEF WordBits
  <2>4. bout \in 1 .. WordBits
    BY <2>1, WidthAssumption
  <2> HIDE DEF n
  <2>5. WordBits \in 1 .. Width
    BY <2>3
  <2>6. QED
    BY <2>1, <2>2, <2>3, <2>4, <2>5 DEF n
<1>3. Bytesize(bout) \in 0 .. WordBytes /\ ByteBits * Bytesize(bout) >= bout
  BY <1>2, BytesizeBound, BytesizeCovers
<1>4. /\ first \in Nat /\ first <= WordBits /\ ByteBits * (b * Bytesize(bout)) = first
      /\ b = 1 => first >= bout
  <2>1. CASE b = 0
    BY <1>2, <1>3, <2>1
  <2>2. CASE b = 1
    <3>1. first = ByteBits * Bytesize(bout) /\ b * Bytesize(bout) = Bytesize(bout)
      BY <1>2, <1>3, <2>2
    <3>2. ByteBits * Bytesize(bout) <= ByteBits * WordBytes
      BY <1>2, <1>3
    <3>3. QED
      BY <1>2, <1>3, <3>1, <3>2
  <2>3. QED
    BY <2>1, <2>2 DEF Bit
<1> HIDE DEF first, block
<1>5. ASSUME NEW i \in 0 .. bout - 1
      PROVE  BitOf(Convert(bout, block)[b].value, i) = BitOf(block, first + i)
  <2>0. /\ Width \in Nat /\ WordBits \in 1 .. Width /\ bout \in 1 .. WordBits
        /\ first \in Nat /\ first <= WordBits /\ 2 * WordBits <= Width
    BY <1>2, <1>4, WidthAssumption
  <2>1. /\ i \in Nat /\ i \in 0 .. WordBits - 1 /\ first + i <= Width
        /\ bout \in 1 .. Width /\ i \in 0 .. bout - 1
    BY <1>5, <2>0
  <2>2. low \in Nat /\ BitOf(low, i) = BitOf(block, first + i)
    BY <1>2, <1>4, <2>1, ShiftedBit
  <2> HIDE DEF low
  <2>3. Pow2[WordBits] \in Nat \ {0}
    BY <1>2, Powers
  <2>4. low % Pow2[WordBits] \in Nat
    BY <2>2, <2>3
  <2>5. BitOf((low % Pow2[WordBits]) % Pow2[bout], i) = BitOf(low % Pow2[WordBits], i)
    BY <2>1, <2>4, MaskedBit
  <2>6. BitOf(low % Pow2[WordBits], i) = BitOf(low, i)
    BY <1>2, <2>1, <2>2, MaskedBit
  <2>7. Convert(bout, block)[b].value = (low % Pow2[WordBits]) % Pow2[bout]
    BY <1>4 DEF Convert, Ge, WordAt, low, Bit
  <2>8. QED
    BY <2>2, <2>5, <2>6, <2>7
<1>6. QED
  BY <1>4, <1>5 DEF first, block

(***************************************************************************)
(* ConvertCuts of LeafSums: convert() gives its two elements disjoint bits *)
(* of the block, for every Bout and every byte and word size.              *)
(***************************************************************************)
THEOREM ConvertCutsCorrect == Spec => []ConvertCuts
<1>1. TypeOK => ConvertCuts
  BY TypeConvertCuts
<1>2. QED
  BY <1>1, TypeCorrect, PTL
-----------------------------------------------------------------------------
(***************************************************************************)
(* For the sums themselves the invariant says what each accumulator holds  *)
(* in the low bits: the sum over the leaves its thread has done; and each  *)
(* total: the sum over the leaves of the threads that are joined.          *)
(***************************************************************************)
Value(p, b, j) == Convert(bout, hats[p][j])[b].value

ThreadPart(p, th, b) == [j \in Leaf |-> IF j \in summed /\ Owner(j) = th THEN Value(p, b, j) ELSE 0]
TotalPart(p, b)      == [j \in Leaf |-> IF Owner(j) < joined THEN Value(p, b, j) ELSE 0]

Holds(x, f) == \E s \in Int : SumsTo(f, Leaves, s) /\ Same(x.value, s, Low)

ThreadsHold == \A p \in Party, th \in Thread, b \in Bit :
                 Holds(threadW[p][th][b], ThreadPart(p, th, b))
TotalsHold  == \A p \in Party, b \in Bit : Holds(W[p][b], TotalPart(p, b))

SumInv == TypeOK /\ ThreadsHold /\ TotalsHold

LEMMA ValueType ==
  ASSUME TypeOK, NEW p \in Party, NEW b \in Bit, NEW j \in Leaf
  PROVE  Value(p, b, j) \in Int
BY Sizes, BlocksAreNumbers, ElementType DEF TypeOK, Value

\* The recursive function of SumUpTo ends with the sum over all leaves.
LEMMA SumUpToSums ==
  ASSUME NEW p \in Party, NEW b \in Bit, NEW f, NEW x, SumsTo(f, Leaves, x),
         \A j \in Leaf : f[j] = Value(p, b, j)
  PROVE  SumUpTo(p, b) = x
<1>0. Leaves \in Nat /\ \A k \in 1 .. Leaves :
        k - 1 \in Leaf /\ f[k - 1] = Convert(bout, hats[p][k - 1])[b].value
  BY LeafSumsAssumption DEF Leaf, Value
<1>1. PICK s \in [0 .. Leaves -> Int] : Running(s, f, Leaves) /\ s[Leaves] = x
  BY DEF SumsTo
<1> DEFINE Eq(r) == r = [k \in 0 .. Leaves |->
                           IF k = 0 THEN 0 ELSE r[k - 1] + Convert(bout, hats[p][k - 1])[b].value]
           sum == CHOOSE r : Eq(r)
<1>2. Eq(s)
  <2>1. ASSUME NEW k \in 0 .. Leaves
        PROVE  s[k] = IF k = 0 THEN 0 ELSE s[k - 1] + Convert(bout, hats[p][k - 1])[b].value
    BY <1>0, <1>1 DEF Running
  <2>2. s = [k \in 0 .. Leaves |-> s[k]]
    OBVIOUS
  <2>3. QED
    BY <2>1, <2>2
<1>3. Eq(sum)
  <2> HIDE DEF Eq
  <2>1. QED
    BY <1>2 DEF sum
<1> HIDE DEF sum
<1>4. \A k \in 0 .. Leaves : sum[k] = IF k = 0 THEN 0 ELSE sum[k - 1] + f[k - 1]
  BY <1>0, <1>3
<1> DEFINE S == {k \in Nat : k <= Leaves => sum[k] = s[k]}
<1>5. 0 \in S
  BY <1>1, <1>4 DEF Running
<1>6. ASSUME NEW k \in Nat, k \in S PROVE k + 1 \in S
  <2> SUFFICES ASSUME k + 1 <= Leaves PROVE sum[k + 1] = s[k + 1]
    OBVIOUS
  <2>1. k + 1 \in 0 .. Leaves /\ k + 1 # 0 /\ (k + 1) - 1 = k /\ k <= Leaves /\ k + 1 \in 1 .. Leaves
    BY <1>0
  <2>2. sum[k] = s[k]
    BY <1>6, <2>1
  <2>3. sum[k + 1] = sum[k] + f[k]
    BY <1>4, <2>1
  <2>4. s[k + 1] = s[k] + f[k]
    BY <1>1, <2>1 DEF Running
  <2>5. QED
    BY <2>2, <2>3, <2>4
<1> HIDE DEF S
<1>7. \A k \in Nat : k \in S
  BY <1>5, <1>6, SetInduction
<1>8. sum[Leaves] = s[Leaves]
  BY <1>0, <1>7 DEF S
<1>9. QED
  BY <1>1, <1>8 DEF sum, SumUpTo

\* Adding an element to an accumulator adds its value to what it holds.
LEMMA PlusHolds ==
  ASSUME NEW w \in 0 .. Width, bout \in Bouts, LowSize <= w, NEW x \in Elements(w),
         NEW y, y.value \in Int, NEW s \in Int, NEW v \in Int,
         Same(x.value, s, Low), Same(y.value, v, Low)
  PROVE  Same(Plus(x, y).value, s + v, Low)
<1>1. LowSize \in 0 .. w
  BY LowType
<1> DEFINE m == LowSize
<1>2. m \in 0 .. w /\ Low = Pow2[m]
  BY <1>1 DEF Low
<1> HIDE DEF m
<1>3. Same(x.value, s, Pow2[m]) /\ Same(y.value, v, Pow2[m])
  BY <1>2
<1>4. Same(Plus(x, y).value, s + v, Pow2[m])
  BY <1>2, <1>3, PlusLow
<1>5. QED
  BY <1>2, <1>4

LEMMA SumInvInit ==
  ASSUME Init
  PROVE  SumInv
<1>1. TypeOK /\ bout \in Bouts /\ summed = {} /\ joined = 0 /\ Leaves \in Nat
  BY TypeInit, LeafSumsAssumption DEF Init
<1>2. ThreadsHold
  <2>1. SUFFICES ASSUME NEW p \in Party, NEW th \in Thread, NEW b \in Bit
                 PROVE  Holds(threadW[p][th][b], ThreadPart(p, th, b))
    BY DEF ThreadsHold
  <2>2. \A k \in 0 .. Leaves - 1 : ThreadPart(p, th, b)[k] = 0
    BY <1>1 DEF ThreadPart, Leaf
  <2>3. SumsTo(ThreadPart(p, th, b), Leaves, 0)
    BY <1>1, <2>2, SumOfZeros
  <2>4. threadW[p][th][b].value = 0
    BY <1>1, Sizes DEF Init
  <2>5. QED
    BY <2>3, <2>4, SameItself DEF Holds
<1>3. TotalsHold
  <2>1. SUFFICES ASSUME NEW p \in Party, NEW b \in Bit
                 PROVE  Holds(W[p][b], TotalPart(p, b))
    BY DEF TotalsHold
  <2>2. \A k \in Leaf : ~ Owner(k) < joined
    BY <1>1, LeafSumsAssumption DEF Owner, Leaf
  <2>3. \A k \in 0 .. Leaves - 1 : TotalPart(p, b)[k] = 0
    BY <2>2 DEF TotalPart, Leaf
  <2>4. SumsTo(TotalPart(p, b), Leaves, 0)
    BY <1>1, <2>3, SumOfZeros
  <2>5. W[p][b].value = 0
    <3>1. bout \in 0 .. Width
      BY <1>1, Sizes
    <3>2. Pow2[bout] \in Nat \ {0}
      BY <3>1, Powers
    <3>3. 0 % Pow2[bout] = 0
      BY <3>2
    <3>4. QED
      BY <3>3 DEF Init, Zero, Ge
  <2>6. QED
    BY <2>4, <2>5, SameItself DEF Holds
<1>4. QED
  BY <1>1, <1>2, <1>3 DEF SumInv

LEMMA SumInvSumLeaf ==
  ASSUME SumInv, NEW j \in Leaf, SumLeaf(j)
  PROVE  ThreadsHold' /\ TotalsHold'
<1>1. /\ TypeOK /\ ThreadsHold /\ TotalsHold /\ bout \in Bouts /\ Leaves \in Nat
      /\ bout \in 0 .. Width /\ Bitlength \in 0 .. Width
      /\ LowSize <= bout /\ LowSize <= Bitlength
  BY LowType, Sizes, LeafSumsAssumption DEF SumInv, TypeOK
<1>2. /\ j \notin summed /\ summed' = summed \cup {j}
      /\ UNCHANGED <<bout, point, hats, joined, W>>
      /\ threadW' = [p \in Party |-> [th \in Thread |-> [b \in Bit |->
            IF th = Owner(j) THEN Plus(threadW[p][th][b], Convert(bout, hats[p][j])[b])
            ELSE threadW[p][th][b]]]]
  BY DEF SumLeaf, call
<1>3. Low' = Low /\ \A p, b, k : Value(p, b, k)' = Value(p, b, k)
  BY <1>2 DEF Low, LowSize, Value
<1>4. TotalsHold'
  <2>1. \A p, b : TotalPart(p, b)' = TotalPart(p, b)
    BY <1>2, <1>3 DEF TotalPart, Owner
  <2>2. QED
    BY <1>1, <1>2, <1>3, <2>1 DEF TotalsHold, Holds
<1>5. ThreadsHold'
  <2>1. SUFFICES ASSUME NEW p \in Party, NEW th \in Thread, NEW b \in Bit
                 PROVE  \E s \in Int : /\ SumsTo(ThreadPart(p, th, b)', Leaves, s)
                                     /\ Same(threadW'[p][th][b].value, s, Low)
    BY <1>3 DEF ThreadsHold, Holds
  <2>2. PICK s \in Int : /\ SumsTo(ThreadPart(p, th, b), Leaves, s)
                         /\ Same(threadW[p][th][b].value, s, Low)
    BY <1>1 DEF ThreadsHold, Holds
  <2>3. ThreadPart(p, th, b)' =
          [k \in Leaf |-> IF k \in summed \cup {j} /\ Owner(k) = th THEN Value(p, b, k) ELSE 0]
    BY <1>2, <1>3 DEF ThreadPart, Owner
  <2>4. CASE th # Owner(j)
    <3>1. threadW'[p][th][b] = threadW[p][th][b]
      BY <1>2, <2>4
    <3>2. ThreadPart(p, th, b)' = ThreadPart(p, th, b)
      BY <2>3, <2>4 DEF ThreadPart
    <3>3. QED
      BY <2>2, <3>1, <3>2
  <2>5. CASE th = Owner(j)
    <3> DEFINE f == ThreadPart(p, th, b)
               h == [k \in Leaf |->
                       IF k \in summed \cup {j} /\ Owner(k) = th THEN Value(p, b, k) ELSE 0]
               c == Convert(bout, hats[p][j])[b]
               x == threadW[p][th][b]
               w == Accumulator(th, b).bitsize
    <3>1. c.value = Value(p, b, j) /\ c.value \in Int
      BY <1>1, ValueType DEF Value
    <3>2. w \in 0 .. Width /\ LowSize <= w /\ x \in Elements(w)
      <4>1. Accumulator(th, b).bitsize \in {bout, Bitlength}
        BY <1>1, Sizes
      <4>2. x \in Elements(w)
        BY <1>1 DEF TypeOK
      <4>3. QED
        BY <1>1, <4>1, <4>2
    <3>3. /\ \A k \in 0 .. Leaves - 1 : f[k] \in Int
          /\ \A k \in 0 .. Leaves - 1 : h[k] = IF k = j THEN f[k] + c.value ELSE f[k]
      <4>1. SUFFICES ASSUME NEW k \in Leaf
                     PROVE  f[k] \in Int /\ h[k] = IF k = j THEN f[k] + c.value ELSE f[k]
        BY DEF Leaf
      <4>2. f[k] = IF k \in summed /\ Owner(k) = th THEN Value(p, b, k) ELSE 0
        BY DEF ThreadPart
      <4>3. h[k] = IF k \in summed \cup {j} /\ Owner(k) = th THEN Value(p, b, k) ELSE 0
        OBVIOUS
      <4>4. Value(p, b, k) \in Int
        BY <1>1, ValueType
      <4>5. CASE k = j
        BY <1>2, <2>5, <3>1, <4>2, <4>3, <4>4, <4>5
      <4>6. CASE k # j
        BY <4>2, <4>3, <4>4, <4>6
      <4>7. QED
        BY <4>5, <4>6
    <3>4. threadW'[p][th][b] = Plus(x, c)
      BY <1>2, <2>5
    <3> HIDE DEF f, h, c, x, w
    <3>5. SumsTo(h, Leaves, s + c.value)
      <4> DEFINE v == c.value
      <4>1. /\ v \in Int /\ j \in 0 .. Leaves - 1 /\ SumsTo(f, Leaves, s) /\ Leaves \in Nat
            /\ \A k \in 0 .. Leaves - 1 : f[k] \in Int
            /\ \A k \in 0 .. Leaves - 1 : h[k] = IF k = j THEN f[k] + v ELSE f[k]
        BY <1>1, <2>2, <3>1, <3>3 DEF f, Leaf
      <4> HIDE DEF v
      <4>2. SumsTo(h, Leaves, s + v)
        BY <4>1, SumWithOneMore
      <4>3. QED
        BY <4>2 DEF v
    <3>6. Same(Plus(x, c).value, s + c.value, Low)
      <4>1. Same(x.value, s, Low) /\ Same(c.value, c.value, Low)
        BY <2>2, SameItself DEF x
      <4>2. QED
        BY <1>1, <3>1, <3>2, <4>1, PlusHolds
    <3>7. ThreadPart(p, th, b)' = h
      BY <2>3 DEF h
    <3>8. s + c.value \in Int
      BY <3>1
    <3>9. QED
      BY <3>4, <3>5, <3>6, <3>7, <3>8
  <2>6. QED
    BY <2>4, <2>5
<1>6. QED
  BY <1>4, <1>5

LEMMA SumInvJoin ==
  ASSUME SumInv, Join
  PROVE  ThreadsHold' /\ TotalsHold'
<1>1. /\ TypeOK /\ ThreadsHold /\ TotalsHold /\ bout \in Bouts /\ Leaves \in Nat
      /\ bout \in 0 .. Width /\ LowSize <= bout
  BY LowType, Sizes, LeafSumsAssumption DEF SumInv, TypeOK
<1>2. /\ UNCHANGED <<bout, point, hats, threadW, summed>> /\ summed = Leaf
      /\ joined' = joined + 1 /\ joined \in Thread
      /\ W' = [p \in Party |-> [b \in Bit |-> Plus(W[p][b], threadW[p][joined][b])]]
  <2>1. joined \in 0 .. Threads /\ joined < Threads
    BY DEF Join, SumInv, TypeOK
  <2>2. QED
    BY <2>1, LeafSumsAssumption DEF Join, call, Thread
<1>3. Low' = Low /\ \A p, b, k : Value(p, b, k)' = Value(p, b, k)
  BY <1>2 DEF Low, LowSize, Value
<1>4. ThreadsHold'
  <2>1. \A p, th, b : ThreadPart(p, th, b)' = ThreadPart(p, th, b)
    BY <1>2, <1>3 DEF ThreadPart, Owner
  <2>2. QED
    BY <1>1, <1>2, <1>3, <2>1 DEF ThreadsHold, Holds
<1>5. TotalsHold'
  <2>1. SUFFICES ASSUME NEW p \in Party, NEW b \in Bit
                 PROVE  \E s \in Int : /\ SumsTo(TotalPart(p, b)', Leaves, s)
                                     /\ Same(W'[p][b].value, s, Low)
    BY <1>3 DEF TotalsHold, Holds
  <2> DEFINE f == TotalPart(p, b)
             g == ThreadPart(p, joined, b)
             h == TotalPart(p, b)'
             x == W[p][b]
             y == threadW[p][joined][b]
  <2>2. PICK s \in Int : SumsTo(f, Leaves, s) /\ Same(x.value, s, Low)
    BY <1>1 DEF TotalsHold, Holds
  <2>3. PICK u \in Int : SumsTo(g, Leaves, u) /\ Same(y.value, u, Low)
    BY <1>1, <1>2 DEF ThreadsHold, Holds
  <2>4. \A k \in 0 .. Leaves - 1 : f[k] \in Int /\ g[k] \in Int /\ h[k] = f[k] + g[k]
    <3>1. SUFFICES ASSUME NEW k \in Leaf
                   PROVE  f[k] \in Int /\ g[k] \in Int /\ h[k] = f[k] + g[k]
      BY DEF Leaf
    <3>2. Owner(k) \in Int /\ joined \in Int
      BY <1>2, LeafSumsAssumption DEF Owner, Leaf, Thread
    <3>3. Value(p, b, k) \in Int
      BY <1>1, ValueType
    <3>4. f[k] = IF Owner(k) < joined THEN Value(p, b, k) ELSE 0
      BY DEF TotalPart
    <3>5. g[k] = IF Owner(k) = joined THEN Value(p, b, k) ELSE 0
      BY <1>2 DEF ThreadPart
    <3>6. h[k] = IF Owner(k) < joined + 1 THEN Value(p, b, k) ELSE 0
      <4>1. h = [i \in Leaf |-> IF Owner(i) < joined + 1 THEN Value(p, b, i) ELSE 0]
        BY <1>2, <1>3 DEF TotalPart, Owner
      <4> HIDE DEF h
      <4>2. QED
        BY <4>1
    <3> HIDE DEF f, g, h
    <3>7. QED
      BY <3>2, <3>3, <3>4, <3>5, <3>6
  <2>5. x \in Elements(bout) /\ y.value \in Int
    <3>1. x \in Elements(bout)
      BY <1>1 DEF TypeOK
    <3>2. Accumulator(joined, b).bitsize \in 0 .. Width
      BY <1>1, <1>2, Sizes
    <3>3. y \in Elements(Accumulator(joined, b).bitsize)
      BY <1>1, <1>2 DEF TypeOK
    <3>4. QED
      BY <3>1, <3>2, <3>3, ElementType
  <2>6. W'[p][b] = Plus(x, y)
    BY <1>2
  <2> HIDE DEF f, g, h, x, y
  <2>7. SumsTo(h, Leaves, s + u)
    BY <1>1, <2>2, <2>3, <2>4, SumOfTwo
  <2>8. Same(Plus(x, y).value, s + u, Low)
    BY <1>1, <2>2, <2>3, <2>5, PlusHolds
  <2>9. s + u \in Int
    OBVIOUS
  <2>10. QED
    BY <2>6, <2>7, <2>8, <2>9 DEF h
<1>6. QED
  BY <1>4, <1>5

LEMMA SumInvUnchanged ==
  ASSUME SumInv, UNCHANGED <<bout, hats, sums>>
  PROVE  ThreadsHold' /\ TotalsHold'
<1>1. /\ Low' = Low /\ \A p, b, k : Value(p, b, k)' = Value(p, b, k)
      /\ UNCHANGED <<summed, threadW, joined, W>>
  BY DEF Low, LowSize, Value, sums
<1>2. /\ \A p, th, b : ThreadPart(p, th, b)' = ThreadPart(p, th, b)
      /\ \A p, b : TotalPart(p, b)' = TotalPart(p, b)
  BY <1>1 DEF ThreadPart, TotalPart, Owner
<1>3. QED
  BY <1>1, <1>2 DEF SumInv, ThreadsHold, TotalsHold, Holds

LEMMA SumInvSumsRight ==
  ASSUME SumInv
  PROVE  SumsRight
<1>1. SUFFICES ASSUME at # "sum", NEW p \in Party, NEW b \in Bit
               PROVE  W[p][b].value % Low = SumUpTo(p, b) % Low
  BY DEF SumsRight
<1>2. TypeOK /\ joined = Threads
  <2>1. joined \in 0 .. Threads /\ ~ joined < Threads
    BY <1>1 DEF SumInv, TypeOK
  <2>2. QED
    BY <2>1, LeafSumsAssumption DEF SumInv
<1>3. PICK s \in Int : SumsTo(TotalPart(p, b), Leaves, s) /\ Same(W[p][b].value, s, Low)
  BY DEF SumInv, TotalsHold, Holds
<1>4. \A j \in Leaf : TotalPart(p, b)[j] = Value(p, b, j)
  <2>1. \A j \in Leaf : Owner(j) < joined
    BY <1>2, LeafSumsAssumption DEF Owner, Leaf
  <2>2. QED
    BY <2>1 DEF TotalPart
<1>5. SumUpTo(p, b) = s
  BY <1>3, <1>4, SumUpToSums
<1>6. QED
  BY <1>3, <1>5 DEF Same

(***************************************************************************)
(* SumsRight of LeafSums: although the threads' accumulators reduce modulo *)
(* one power of two and the totals modulo another, the totals are the sum  *)
(* over all leaves in the lowest min(Bout, bitlength) bits, for every      *)
(* number of leaves and threads and every order of their iterations.       *)
(***************************************************************************)
THEOREM SumsCorrect == Spec => []SumsRight
<1>1. Init => SumInv
  BY SumInvInit
<1>2. SumInv /\ [Next]_vars => SumInv'
  <2>1. SUFFICES ASSUME SumInv, [Next]_vars PROVE SumInv'
    OBVIOUS
  <2>2. TypeOK'
    <3>1. TypeOK /\ UNCHANGED vars => TypeOK'
      BY DEF TypeOK, vars, call, sums, sent, Accumulator
    <3>2. QED
      BY <2>1, <3>1, TypeStep DEF SumInv
  <2>3. ThreadsHold' /\ TotalsHold'
    <3>1. ASSUME NEW j \in Leaf, SumLeaf(j) PROVE ThreadsHold' /\ TotalsHold'
      BY <2>1, <3>1, SumInvSumLeaf
    <3>2. CASE Join
      BY <2>1, <3>2, SumInvJoin
    <3>3. CASE EndKeygen \/ ReceiveKeys \/ LoseFrame \/ SendPacks \/ UNCHANGED vars
      BY <2>1, <3>3, SumInvUnchanged DEF EndKeygen, ReceiveKeys, LoseFrame, SendPacks, vars,
                                            call
    <3>4. QED
      BY <2>1, <3>1, <3>2, <3>3 DEF Next
  <2>4. QED
    BY <2>2, <2>3 DEF SumInv
<1>3. SumInv => SumsRight
  BY SumInvSumsRight
<1>4. QED
  BY <1>1, <1>2, <1>3, PTL DEF Spec
=============================================================================
