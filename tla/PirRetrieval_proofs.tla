------------------------ MODULE PirRetrieval_proofs ------------------------
(***************************************************************************)
(* Proofs about PirRetrieval: for every database and its size, number of   *)
(* blocks and of threads, group, secret point, alpha, table of shares and  *)
(* wanted entry, the client gets the entry, and an answer that is not the  *)
(* entry is accepted only if alpha annihilates the difference.             *)
(***************************************************************************)
EXTENDS PirRetrieval, FiniteSetTheorems, NumberLemmas

LEMMA Sizes ==
  /\ Points \in Nat \ {0} /\ Modulus \in Nat \ {0}
  /\ Blocks \in Nat \ {0} /\ Threads \in Nat \ {0}
  /\ Ind \in Domain
BY RetrievalAssumption

LEMMA Reduced ==
  ASSUME NEW x \in Int
  PROVE  x % Modulus \in Group
BY Sizes DEF Group

(***************************************************************************)
(* What does not change: the database, the shares, and the two tables,     *)
(* which sum to the point function.                                        *)
(***************************************************************************)
Value(b) == IF b = 0 THEN 1 % Modulus ELSE Alpha
PointValue(j, b) == IF j # Point THEN 0 ELSE Value(b)

Given ==
  /\ db \in [BlockNo -> [Domain -> Group]]
  /\ index \in [Party -> Domain]
  /\ payload \in [Party -> Group]
  /\ out \in [Party -> [Domain -> [Bit -> Group]]]
  /\ \A j \in Domain, b \in Bit :
       out[1][j][b] = (PointValue(j, b) - out[0][j][b]) % Modulus

\* The only rotation the servers are ever told.
Asked == query # NoQuery => query = (Ind - index[0] - index[1]) % Points

LEMMA GivenTypes ==
  ASSUME Given
  PROVE  Point \in Domain /\ Alpha \in Group /\ \A b \in Bit : Value(b) \in Group
<1>1. 0 \in Party /\ 1 \in Party
  BY DEF Party
<1>2. index[0] + index[1] \in Int /\ payload[0] + payload[1] \in Int
  BY <1>1, Sizes DEF Given, Domain, Group
<1>3. Point \in Domain
  BY <1>2, Sizes DEF Point, Domain
<1>4. Alpha \in Group /\ 1 % Modulus \in Group
  BY <1>2, Reduced DEF Alpha, Plus
<1>5. QED
  BY <1>3, <1>4 DEF Value

\* The rotation takes the secret point to the wanted entry.
LEMMA PointRotated ==
  ASSUME Given, Asked, query # NoQuery
  PROVE  Rotated(Point) = Ind
<1>1. 0 \in Party /\ 1 \in Party
  BY DEF Party
<1> DEFINE a == index[0] + index[1]
           c == Ind - index[0] - index[1]
<1>2. a \in Int /\ c \in Int /\ a + c = Ind
  BY <1>1, Sizes DEF Given, Domain
<1>3. Point = a % Points /\ query = c % Points
  BY DEF Point, Asked
<1> HIDE DEF a, c
<1>4. a % Points \in 0 .. Points - 1 /\ c % Points \in 0 .. Points - 1
  BY <1>2, Sizes
<1>5. (a % Points) % Points = a % Points /\ (c % Points) % Points = c % Points
  BY <1>4, Sizes
<1>6. Same(a % Points, a, Points) /\ Same(c % Points, c, Points)
  BY <1>5 DEF Same
<1>7. Same((a % Points) + (c % Points), a + c, Points)
  <2>1. a % Points \in Int /\ c % Points \in Int
    BY <1>4
  <2>2. QED
    BY <1>2, <1>6, <2>1, Sizes, AddSame
<1>8. Ind % Points = Ind
  BY Sizes DEF Domain
<1>9. QED
  BY <1>2, <1>3, <1>7, <1>8 DEF Same, Rotated

LEMMA RotatedInDomain ==
  ASSUME Given, Asked, query # NoQuery, NEW i \in Domain
  PROVE  Rotated(i) \in Domain
<1>1. 0 \in Party /\ 1 \in Party
  BY DEF Party
<1>2. Ind - index[0] - index[1] \in Int
  BY <1>1, Sizes DEF Given, Domain
<1>3. query \in 0 .. Points - 1
  BY <1>2, Sizes DEF Asked
<1>4. i + query \in Int
  BY <1>3 DEF Domain
<1>5. QED
  BY <1>4, Sizes DEF Rotated, Domain

(***************************************************************************)
(* The history of one accumulator: it starts at zero and every entry adds  *)
(* its product.                                                            *)
(***************************************************************************)
Length(h, n) == n \in 0 .. Points /\ h \in [0 .. n -> Group]

Accumulates(h, p, k, b) ==
  /\ h[0] = 0
  /\ \A m \in Domain :
       m + 1 \in DOMAIN h =>
         h[m + 1] = (h[m] + out[p][m][b] * db[k][Rotated(m)]) % Modulus

\* What the two servers' sums add up to after i entries.
Sum(k, b, i) == IF Point < i THEN (Value(b) * db[k][Ind]) % Modulus ELSE 0
SumTo(g, h, k, b) ==
  \A i \in 0 .. Points :
    i \in DOMAIN g \cap DOMAIN h => Plus(g[i], h[i]) = Sum(k, b, i)

\* The two shares of v, each times d, add up to v times d.
LEMMA ProductShares ==
  ASSUME NEW f \in Int, NEW v \in Int, NEW d \in Int
  PROVE  Same(f * d + ((v - f) % Modulus) * d, v * d, Modulus)
<1> DEFINE r == (v - f) % Modulus
<1>1. v - f \in Int
  OBVIOUS
<1>2. PICK c \in Int : v - f = Modulus * c + r
  BY <1>1, Sizes, RemainderForm
<1>3. r \in Int
  BY <1>1, Sizes
<1> HIDE DEF r
<1> DEFINE e == -(c * d)
           x == f * d + r * d
           y == v * d
<1>4. r = v - f - Modulus * c
  BY <1>2, <1>3, Sizes
<1>5. r * d = v * d - f * d - (Modulus * c) * d
  BY <1>4, <1>3, Sizes
<1>6. (Modulus * c) * d = Modulus * (c * d)
  BY Sizes
<1>7. e \in Int /\ x \in Int /\ y \in Int
  BY <1>3
<1>8. Modulus * e = -(Modulus * (c * d))
  BY Sizes
<1>9. f * d \in Int /\ v * d \in Int /\ r * d \in Int /\ Modulus * (c * d) \in Int
  BY <1>3, Sizes
<1>10. x = y + Modulus * e
  BY <1>5, <1>6, <1>8, <1>9
<1> HIDE DEF e, x, y
<1>11. (y + Modulus * e) % Modulus = y % Modulus
  BY <1>7, Sizes, SameRemainder
<1>12. QED
  BY <1>10, <1>11 DEF Same, x, y, r

LEMMA SameReduced ==
  ASSUME NEW x \in Int
  PROVE  Same(x % Modulus, x, Modulus)
<1>1. (x % Modulus) % Modulus = x % Modulus
  <2>1. x % Modulus \in 0 .. Modulus - 1
    BY Sizes
  <2>2. QED
    BY <2>1, Sizes
<1>2. QED
  BY <1>1 DEF Same

\* Two sums, and a and b that add up to w.
LEMMA PlusBoth ==
  ASSUME NEW s \in Int, NEW t \in Int, NEW a \in Int, NEW b \in Int, NEW w \in Int,
         Same(a + b, w, Modulus)
  PROVE  Plus((s + a) % Modulus, (t + b) % Modulus) = (Plus(s, t) + w) % Modulus
<1>1. (s + a) \in Int /\ (t + b) \in Int /\ (s + t) \in Int /\ (a + b) \in Int
  OBVIOUS
<1>2. /\ (s + a) % Modulus \in Int /\ (t + b) % Modulus \in Int
      /\ (s + t) % Modulus \in Int
  BY <1>1, Sizes
<1>3. Same((s + a) % Modulus, s + a, Modulus) /\ Same((t + b) % Modulus, t + b, Modulus)
  BY <1>1, SameReduced
<1>4. Same(((s + a) % Modulus) + ((t + b) % Modulus), (s + a) + (t + b), Modulus)
  BY <1>1, <1>2, <1>3, Sizes, AddSame
<1>5. (s + a) + (t + b) = (s + t) + (a + b)
  OBVIOUS
<1>6. Same(s + t, (s + t) % Modulus, Modulus)
  BY <1>1, SameReduced DEF Same
<1>7. Same((s + t) + (a + b), ((s + t) % Modulus) + w, Modulus)
  BY <1>1, <1>2, <1>6, Sizes, AddSame
<1>8. Same(((s + a) % Modulus) + ((t + b) % Modulus), ((s + t) % Modulus) + w, Modulus)
  BY <1>4, <1>5, <1>7, SameChain
<1>9. QED
  BY <1>8 DEF Same, Plus

LEMMA NextSum ==
  ASSUME Given, Asked, query # NoQuery, NEW k \in BlockNo, NEW b \in Bit,
         NEW g, NEW h, Accumulates(g, 0, k, b), Accumulates(h, 1, k, b),
         NEW i \in Domain, g[i] \in Group, h[i] \in Group,
         i + 1 \in DOMAIN g, i + 1 \in DOMAIN h,
         Plus(g[i], h[i]) = Sum(k, b, i)
  PROVE  Plus(g[i + 1], h[i + 1]) = Sum(k, b, i + 1)
<1> DEFINE f == out[0][i][b]
           v == PointValue(i, b)
           d == db[k][Rotated(i)]
<1>1. 0 \in Party /\ 1 \in Party
  BY DEF Party
<1>2. Point \in Domain /\ Value(b) \in Group
  BY GivenTypes
<1>3. f \in Int /\ v \in Int
  BY <1>1, <1>2, Sizes DEF Given, PointValue, Group
<1>4. d \in Group
  BY RotatedInDomain DEF Given
<1>5. out[1][i][b] = (v - f) % Modulus
  BY DEF Given
<1>6. /\ g[i + 1] = (g[i] + f * d) % Modulus
      /\ h[i + 1] = (h[i] + ((v - f) % Modulus) * d) % Modulus
  BY <1>5 DEF Accumulates
<1>7. d \in Int /\ g[i] \in Int /\ h[i] \in Int
  BY <1>4, Sizes DEF Group
<1>8. Plus(g[i + 1], h[i + 1]) = (Sum(k, b, i) + v * d) % Modulus
  <2> HIDE DEF f, v, d
  <2> DEFINE x == f * d
             y == ((v - f) % Modulus) * d
             w == v * d
  <2>1. (v - f) % Modulus \in Int
    BY <1>3, Sizes
  <2>2. x \in Int /\ y \in Int /\ w \in Int
    BY <1>3, <1>7, <2>1
  <2>3. Same(x + y, w, Modulus)
    BY <1>3, <1>7, ProductShares
  <2>4. g[i + 1] = (g[i] + x) % Modulus /\ h[i + 1] = (h[i] + y) % Modulus
    BY <1>6
  <2> DEFINE Both(s, t, a, c, e) ==
               Same(a + c, e, Modulus)
                 => Plus((s + a) % Modulus, (t + c) % Modulus) = (Plus(s, t) + e) % Modulus
  <2> HIDE DEF x, y, w
  <2>5. \A s, t, a, c, e \in Int : Both(s, t, a, c, e)
    BY ONLY PlusBoth
  <2> HIDE DEF Both
  <2>6. Both(g[i], h[i], x, y, w)
    BY ONLY <1>7, <2>2, <2>5
  <2>7. Plus((g[i] + x) % Modulus, (h[i] + y) % Modulus)
          = (Plus(g[i], h[i]) + w) % Modulus
    BY ONLY <2>3, <2>6 DEF Both
  <2>8. QED
    BY <2>4, <2>7 DEF w
<1> HIDE DEF f, v, d
<1>9. Point \in Int /\ i \in Int
  BY <1>2, Sizes DEF Domain
<1>10. CASE i = Point
  <2>1. v = Value(b) /\ d = db[k][Ind]
    BY <1>10, PointRotated DEF v, d, PointValue
  <2>2. Sum(k, b, i) = 0 /\ Sum(k, b, i + 1) = (v * d) % Modulus
    BY <1>9, <1>10, <2>1 DEF Sum
  <2>3. v * d \in Int
    BY <1>3, <1>7
  <2>4. QED
    BY <1>8, <2>2, <2>3
<1>11. CASE i # Point
  <2>1. v = 0
    BY <1>11 DEF v, PointValue
  <2>2. Point < i <=> Point < i + 1
    BY <1>9, <1>11
  <2>3. Sum(k, b, i + 1) = Sum(k, b, i)
    BY <2>2 DEF Sum
  <2>4. v * d = 0
    BY <1>7, <2>1
  <2>5. Sum(k, b, i) \in Group
    <3>1. db[k][Ind] \in Int
      BY Sizes DEF Given, Group
    <3>2. Value(b) * db[k][Ind] \in Int
      BY <1>2, <3>1, Sizes DEF Group
    <3>3. QED
      BY <3>2, Reduced, Sizes DEF Sum, Group
  <2>6. (Sum(k, b, i) + 0) % Modulus = Sum(k, b, i)
    BY <2>5, Sizes DEF Group
  <2>7. QED
    BY <1>8, <2>3, <2>4, <2>6
<1>12. QED
  BY <1>10, <1>11

\* Longer histories sum up as they should when the shorter ones did.
LEMMA SumsGrow ==
  ASSUME Given, Asked, query # NoQuery, NEW k \in BlockNo, NEW b \in Bit,
         NEW g, NEW h, SumTo(g, h, k, b),
         NEW gn \in 0 .. Points, NEW G \in [0 .. gn -> Group],
         NEW hn \in 0 .. Points, NEW H \in [0 .. hn -> Group],
         Accumulates(G, 0, k, b), Accumulates(H, 1, k, b),
         \A i \in Domain : i + 1 \in DOMAIN G \cap DOMAIN H =>
            i \in DOMAIN g \cap DOMAIN h /\ G[i] = g[i] /\ H[i] = h[i]
  PROVE  SumTo(G, H, k, b)
<1> SUFFICES ASSUME NEW i \in 0 .. Points, i \in DOMAIN G \cap DOMAIN H
             PROVE  Plus(G[i], H[i]) = Sum(k, b, i)
  BY DEF SumTo
<1>1. CASE i = 0
  <2>1. G[0] = 0 /\ H[0] = 0
    BY DEF Accumulates
  <2>2. Plus(0, 0) = 0
    BY Sizes DEF Plus
  <2>3. ~(Point < 0)
    BY GivenTypes, Sizes DEF Domain
  <2>4. QED
    BY <1>1, <2>1, <2>2, <2>3 DEF Sum
<1>2. CASE i # 0
  <2> DEFINE m == i - 1
  <2>1. m \in Domain /\ m \in 0 .. Points /\ i = m + 1
    BY <1>2, Sizes DEF Domain
  <2>2. m \in 0 .. gn /\ m \in 0 .. hn
    BY <2>1
  <2> HIDE DEF m
  <2>3. m \in DOMAIN g \cap DOMAIN h /\ G[m] = g[m] /\ H[m] = h[m]
    BY <2>1
  <2>4. Plus(G[m], H[m]) = Sum(k, b, m)
    BY <2>1, <2>3 DEF SumTo
  <2>5. G[m] \in Group /\ H[m] \in Group
    BY <2>2
  <2>6. QED
    BY <2>1, <2>4, <2>5, NextSum
<1>3. QED
  BY <1>1, <1>2

(***************************************************************************)
(* The inductive invariant.                                                *)
(***************************************************************************)
History == UNION {[0 .. n -> Group] : n \in 0 .. Points}

\* The servers' accumulators, entry by entry.
Scanned ==
  /\ scan \subseteq Party
  /\ scan # {} => query # NoQuery
  /\ oSum \in [Party -> [BlockNo -> History]]
  /\ hatoSum \in [Party -> [BlockNo -> History]]
  /\ \A p \in Party, k \in BlockNo :
       /\ DOMAIN oSum[p][k] = DOMAIN hatoSum[p][k]
       /\ Accumulates(oSum[p][k], p, k, 0)
       /\ Accumulates(hatoSum[p][k], p, k, 1)
       /\ p \notin scan => DOMAIN oSum[p][k] = 0 .. 0

\* What they add up to between the servers.
Sums ==
  \A k \in BlockNo :
    /\ SumTo(oSum[0][k], oSum[1][k], k, 0)
    /\ SumTo(hatoSum[0][k], hatoSum[1][k], k, 1)

\* An answer is given when all blocks are done; only the o of a faulty server is
\* not what it computed.
Answered ==
  /\ faulty \subseteq Party
  /\ answer \in [Party -> {NoAnswer} \cup [o : [BlockNo -> Group], hato : [BlockNo -> Group]]]
  /\ \A p \in Party :
       answer[p] # NoAnswer =>
         /\ answer[p] \in [o : [BlockNo -> Group], hato : [BlockNo -> Group]]
         /\ \A k \in BlockNo : Done(p, k)
         /\ answer[p].hato = Hato(p)
         /\ p \notin faulty => answer[p].o = O(p)

\* The client's verdict is about the two answers it holds.
Judged ==
  result # "none" =>
    /\ \A p \in Party : answer[p] # NoAnswer
    /\ dbout = Entry
    /\ (result = "correct") <=> \A k \in BlockNo : MacHolds(k)

IInv == Given /\ Asked /\ Scanned /\ Sums /\ Answered /\ Judged

LEMMA HistoryForm ==
  ASSUME NEW h \in History
  PROVE  \E n \in 0 .. Points : h \in [0 .. n -> Group]
BY DEF History

\* A server's place in a block, and one more entry.
LEMMA AtPlace ==
  ASSUME Scanned, NEW p \in Party, NEW k \in BlockNo
  PROVE  /\ At(p, k) \in 0 .. Points
         /\ oSum[p][k] \in [0 .. At(p, k) -> Group]
         /\ hatoSum[p][k] \in [0 .. At(p, k) -> Group]
         /\ Done(p, k) <=> At(p, k) = Points
<1>1. oSum[p][k] \in History /\ hatoSum[p][k] \in History
  BY DEF Scanned
<1>2. PICK n \in 0 .. Points : oSum[p][k] \in [0 .. n -> Group]
  BY <1>1, HistoryForm
<1>3. PICK m \in 0 .. Points : hatoSum[p][k] \in [0 .. m -> Group]
  BY <1>1, HistoryForm
<1>4. DOMAIN oSum[p][k] = 0 .. n /\ DOMAIN hatoSum[p][k] = 0 .. m
  BY <1>2, <1>3
<1>5. 0 .. n = 0 .. m
  BY <1>4 DEF Scanned
<1>6. Cardinality(0 .. n) = n + 1
  <2>1. 0 \in Int /\ n \in Int /\ ~(0 > n)
    BY Sizes
  <2>2. Cardinality(0 .. n) = n - 0 + 1
    BY <2>1, FS_Interval
  <2>3. QED
    BY <2>1, <2>2
<1>7. At(p, k) = n
  BY <1>4, <1>6, Sizes DEF At
<1>8. Done(p, k) <=> n = Points
  BY <1>4, Sizes DEF Done
<1>9. QED
  BY <1>2, <1>3, <1>5, <1>7, <1>8

LEMMA AddedAccumulates ==
  ASSUME Given, Asked, query # NoQuery,
         NEW p \in Party, NEW k \in BlockNo, NEW b \in Bit,
         NEW i \in Domain, NEW h \in [0 .. i -> Group], Accumulates(h, p, k, b),
         NEW g, g = Added(h, i, out[p][i][b], db[k][Rotated(i)])
  PROVE  /\ g \in [0 .. i + 1 -> Group]
         /\ g \in History
         /\ Accumulates(g, p, k, b)
         /\ \A m \in 0 .. i : g[m] = h[m]
<1> DEFINE new == (h[i] + out[p][i][b] * db[k][Rotated(i)]) % Modulus
<1>1. i \in Int /\ 0 <= i /\ i + 1 \in 0 .. Points /\ i \in 0 .. i
  BY Sizes DEF Domain
<1>2. new \in Group
  <2> DEFINE x == out[p][i][b]
             d == db[k][Rotated(i)]
  <2>1. x \in Int
    BY Sizes DEF Given, Group
  <2>2. d \in Int
    <3>1. d \in Group
      BY RotatedInDomain DEF Given
    <3>2. QED
      BY <3>1, Sizes DEF Group
  <2>3. h[i] \in Int
    BY <1>1, Sizes DEF Group
  <2> HIDE DEF x, d
  <2>4. h[i] + x * d \in Int
    BY <2>1, <2>2, <2>3
  <2>5. (h[i] + x * d) % Modulus \in Group
    BY <2>4, Reduced
  <2>6. QED
    BY <2>5 DEF x, d
<1>3. g = [n \in 0 .. i + 1 |-> IF n = i + 1 THEN new ELSE h[n]]
  BY DEF Added
<1> HIDE DEF new
<1>4. DOMAIN g = 0 .. i + 1 /\ g[i + 1] = new /\ \A m \in 0 .. i : g[m] = h[m]
  BY <1>1, <1>3
<1>5. g \in [0 .. i + 1 -> Group]
  <2>1. \A n \in 0 .. i + 1 : n # i + 1 => n \in 0 .. i
    BY <1>1
  <2>2. QED
    BY <1>2, <1>3, <2>1
<1>6. g \in History
  BY <1>1, <1>5 DEF History
<1>7. g[0] = 0
  BY <1>1, <1>4 DEF Accumulates
<1>8. ASSUME NEW m \in Domain, m + 1 \in DOMAIN g
      PROVE  g[m + 1] = (g[m] + out[p][m][b] * db[k][Rotated(m)]) % Modulus
  <2>1. m \in 0 .. i
    BY <1>1, <1>4, <1>8 DEF Domain
  <2>2. CASE m = i
    BY <1>4, <2>1, <2>2 DEF new
  <2>3. CASE m # i
    <3>1. m + 1 \in 0 .. i /\ m + 1 \in DOMAIN h
      BY <1>1, <2>1, <2>3
    <3>2. QED
      BY <1>4, <2>1, <3>1 DEF Accumulates
  <2>4. QED
    BY <2>2, <2>3
<1>9. QED
  BY <1>4, <1>5, <1>6, <1>7, <1>8 DEF Accumulates

(***************************************************************************)
(* The parts of the invariant that a step leaves alone.                    *)
(***************************************************************************)
LEMMA GivenKept ==
  ASSUME Given, UNCHANGED given
  PROVE  Given'
BY DEF Given, given, PointValue, Value, Point, Alpha, Plus

LEMMA AskedKept ==
  ASSUME Asked, UNCHANGED <<given, query>>
  PROVE  Asked'
BY DEF Asked, given

LEMMA ScannedKept ==
  ASSUME Scanned, UNCHANGED <<given, query, work>>
  PROVE  Scanned'
BY DEF Scanned, Accumulates, Rotated, given, work

LEMMA SumsKept ==
  ASSUME Sums, UNCHANGED <<given, oSum, hatoSum>>
  PROVE  Sums'
BY DEF Sums, SumTo, Sum, Value, Point, Alpha, Plus, given

LEMMA AnsweredKept ==
  ASSUME Answered, UNCHANGED <<oSum, hatoSum, answer, faulty>>
  PROVE  Answered'
BY DEF Answered, Done, O, Hato

LEMMA JudgedKept ==
  ASSUME Judged, UNCHANGED <<given, answer, client>>
  PROVE  Judged'
BY DEF Judged, Entry, MacHolds, Alpha, Plus, given, client

(***************************************************************************)
(* One lemma per action.                                                   *)
(***************************************************************************)
LEMMA InitInv == Init => IInv
<1> SUFFICES ASSUME Init
             PROVE  IInv
  OBVIOUS
<1>1. 0 \in Party /\ 1 \in Party /\ 0 \in Bit /\ 1 \in Bit
  BY DEF Party, Bit
<1>2. /\ db \in [BlockNo -> [Domain -> Group]]
      /\ index \in [Party -> Domain]
      /\ payload \in [Party -> Group]
  BY RetrievalAssumption DEF Init
<1>3. PICK f \in Masks : out = [p \in Party |-> IF p = 0 THEN f ELSE Complement(f)]
  BY DEF Init
<1>4. f \in [Domain -> [Bit -> Group]]
  BY RetrievalAssumption
<1>5. \A j \in Domain, b \in Bit : out[1][j][b] = (PointValue(j, b) - out[0][j][b]) % Modulus
  BY <1>1, <1>3 DEF Complement, PointValue, Value
<1>6. Complement(f) \in [Domain -> [Bit -> Group]]
  <2>1. Alpha \in Int
    <3>1. payload[0] + payload[1] \in Int
      BY <1>1, <1>2, Sizes DEF Group
    <3>2. QED
      BY <3>1, Reduced, Sizes DEF Alpha, Plus, Group
  <2>2. ASSUME NEW j \in Domain, NEW b \in Bit
        PROVE  Complement(f)[j][b] \in Group
    <3> DEFINE v == IF j # Point THEN 0 ELSE IF b = 0 THEN 1 % Modulus ELSE Alpha
    <3>1. v \in Int
      BY <2>1, Sizes
    <3>2. f[j][b] \in Int
      BY <1>4, Sizes DEF Group
    <3>3. Complement(f)[j][b] = (v - f[j][b]) % Modulus
      BY DEF Complement
    <3> HIDE DEF v
    <3>4. v - f[j][b] \in Int
      BY <3>1, <3>2
    <3>5. QED
      BY <3>3, <3>4, Reduced
  <2>3. QED
    BY <2>2 DEF Complement
<1>7. out \in [Party -> [Domain -> [Bit -> Group]]]
  BY <1>3, <1>4, <1>6
<1>8. Given
  BY <1>2, <1>5, <1>7 DEF Given
<1>9. Asked
  BY DEF Asked, Init
<1> DEFINE zero == [n \in 0 .. 0 |-> 0]
<1>10. zero \in [0 .. 0 -> Group] /\ zero \in History /\ DOMAIN zero = 0 .. 0 /\ zero[0] = 0
  <2>1. 0 \in Group /\ 0 \in 0 .. Points
    BY Sizes DEF Group
  <2>2. zero \in [0 .. 0 -> Group]
    BY <2>1
  <2>3. QED
    BY <2>1, <2>2 DEF History
<1>11. \A p \in Party, k \in BlockNo, b \in Bit : Accumulates(zero, p, k, b)
  <2>1. \A m \in Domain : m + 1 \notin 0 .. 0
    BY Sizes DEF Domain
  <2> HIDE DEF zero
  <2>2. QED
    BY <1>10, <2>1 DEF Accumulates
<1>12. \A p \in Party, k \in BlockNo : oSum[p][k] = zero /\ hatoSum[p][k] = zero
  BY DEF Init
<1>13. /\ oSum \in [Party -> [BlockNo -> History]]
       /\ hatoSum \in [Party -> [BlockNo -> History]]
  BY <1>10 DEF Init
<1> HIDE DEF zero
<1>14. Scanned
  BY <1>1, <1>10, <1>11, <1>12, <1>13 DEF Scanned, Init
<1>15. \A k \in BlockNo, b \in Bit : SumTo(zero, zero, k, b)
  <2>1. ASSUME NEW k \in BlockNo, NEW b \in Bit, NEW i \in 0 .. Points, i \in DOMAIN zero
        PROVE  Plus(zero[i], zero[i]) = Sum(k, b, i)
    <3>1. i = 0
      BY <1>10, <2>1
    <3>2. ~(Point < 0)
      BY <1>8, GivenTypes, Sizes DEF Domain
    <3>3. Plus(0, 0) = 0
      BY Sizes DEF Plus
    <3>4. QED
      BY <1>10, <3>1, <3>2, <3>3 DEF Sum
  <2>2. QED
    BY <2>1 DEF SumTo
<1>16. Sums
  BY <1>1, <1>12, <1>15 DEF Sums
<1>17. Answered
  BY DEF Init, Answered
<1>18. Judged
  BY DEF Init, Judged
<1>19. QED
  BY <1>8, <1>9, <1>14, <1>16, <1>17, <1>18 DEF IInv

LEMMA QueryInv ==
  ASSUME IInv, Query
  PROVE  IInv'
<1>1. Given' /\ Sums' /\ Answered' /\ Judged'
  BY GivenKept, SumsKept, AnsweredKept, JudgedKept DEF IInv, Query, work
<1>2. Asked'
  BY DEF Asked, Query, given
<1>3. scan = {}
  BY DEF Scanned, IInv, Query
<1>4. Scanned'
  <2>1. UNCHANGED <<scan, oSum, hatoSum>>
    BY DEF Query, work
  <2>2. ASSUME NEW p \in Party, NEW k \in BlockNo
        PROVE  Accumulates(oSum[p][k], p, k, 0)' /\ Accumulates(hatoSum[p][k], p, k, 1)'
    <3>1. DOMAIN oSum[p][k] = 0 .. 0 /\ DOMAIN hatoSum[p][k] = 0 .. 0
      BY <1>3 DEF Scanned, IInv
    <3>2. \A m \in Domain : m + 1 \notin 0 .. 0
      BY Sizes DEF Domain
    <3>3. oSum[p][k][0] = 0 /\ hatoSum[p][k][0] = 0
      BY DEF Scanned, IInv, Accumulates
    <3>4. QED
      BY <2>1, <3>1, <3>2, <3>3 DEF Accumulates
  <2>3. QED
    BY <1>3, <2>1, <2>2 DEF Scanned, IInv
<1>5. QED
  BY <1>1, <1>2, <1>4 DEF IInv

LEMMA ReadInv ==
  ASSUME IInv, NEW p \in Party, Read(p)
  PROVE  IInv'
<1>1. Given' /\ Asked' /\ Sums' /\ Answered' /\ Judged'
  BY GivenKept, AskedKept, SumsKept, AnsweredKept, JudgedKept DEF IInv, Read
<1>2. Scanned'
  BY DEF Scanned, IInv, Read, Accumulates, Rotated, given
<1>3. QED
  BY <1>1, <1>2 DEF IInv

LEMMA AccumulateInv ==
  ASSUME IInv, NEW p \in Party, NEW th \in Thread, NEW k \in BlockNo, Accumulate(p, th, k)
  PROVE  IInv'
<1> DEFINE i == At(p, k)
<1> USE DEF IInv
<1>1. 0 \in Party /\ 1 \in Party /\ 0 \in Bit /\ 1 \in Bit
  BY DEF Party, Bit
<1>2. query # NoQuery
  BY DEF Accumulate, Scanned
<1>3. /\ i \in Domain
      /\ oSum[p][k] \in [0 .. i -> Group]
      /\ hatoSum[p][k] \in [0 .. i -> Group]
  <2>1. i \in 0 .. Points /\ i # Points
    BY AtPlace DEF Accumulate
  <2>2. i \in Domain
    BY <2>1, Sizes DEF Domain
  <2>3. QED
    BY <2>2, AtPlace
<1>4. /\ oSum' = [oSum EXCEPT ![p][k] =
                    Added(oSum[p][k], i, out[p][i][0], db[k][Rotated(i)])]
      /\ hatoSum' = [hatoSum EXCEPT ![p][k] =
                       Added(hatoSum[p][k], i, out[p][i][1], db[k][Rotated(i)])]
      /\ UNCHANGED <<given, query, scan, answer, faulty, client>>
  BY DEF Accumulate
<1> HIDE DEF i
<1>5. /\ oSum'[p][k] = Added(oSum[p][k], i, out[p][i][0], db[k][Rotated(i)])
      /\ hatoSum'[p][k] = Added(hatoSum[p][k], i, out[p][i][1], db[k][Rotated(i)])
  BY <1>4 DEF Scanned
<1>6. \A q \in Party, m \in BlockNo : (q # p \/ m # k) =>
         oSum'[q][m] = oSum[q][m] /\ hatoSum'[q][m] = hatoSum[q][m]
  BY <1>4 DEF Scanned
<1>7. Accumulates(oSum[p][k], p, k, 0) /\ Accumulates(hatoSum[p][k], p, k, 1)
  BY DEF Scanned
<1>8. /\ oSum'[p][k] \in [0 .. i + 1 -> Group]
      /\ oSum'[p][k] \in History
      /\ Accumulates(oSum'[p][k], p, k, 0)
      /\ \A m \in 0 .. i : oSum'[p][k][m] = oSum[p][k][m]
  <2>1. ASSUME NEW g, g = oSum'[p][k]
        PROVE  /\ g \in [0 .. i + 1 -> Group] /\ g \in History /\ Accumulates(g, p, k, 0)
               /\ \A m \in 0 .. i : g[m] = oSum[p][k][m]
    BY <1>1, <1>2, <1>3, <1>5, <1>7, <2>1, AddedAccumulates
  <2>2. QED
    BY <2>1
<1>9. /\ hatoSum'[p][k] \in [0 .. i + 1 -> Group]
      /\ hatoSum'[p][k] \in History
      /\ Accumulates(hatoSum'[p][k], p, k, 1)
      /\ \A m \in 0 .. i : hatoSum'[p][k][m] = hatoSum[p][k][m]
  <2>1. ASSUME NEW g, g = hatoSum'[p][k]
        PROVE  /\ g \in [0 .. i + 1 -> Group] /\ g \in History /\ Accumulates(g, p, k, 1)
               /\ \A m \in 0 .. i : g[m] = hatoSum[p][k][m]
    BY <1>1, <1>2, <1>3, <1>5, <1>7, <2>1, AddedAccumulates
  <2>2. QED
    BY <2>1
<1>10. Given' /\ Asked' /\ Judged'
  BY <1>4, GivenKept, AskedKept, JudgedKept
<1>11. \A q \in Party, m \in BlockNo :
         /\ oSum'[q][m] \in History /\ hatoSum'[q][m] \in History
         /\ Accumulates(oSum'[q][m], q, m, 0) /\ Accumulates(hatoSum'[q][m], q, m, 1)
  <2> SUFFICES ASSUME NEW q \in Party, NEW m \in BlockNo
               PROVE  /\ oSum'[q][m] \in History /\ hatoSum'[q][m] \in History
                      /\ Accumulates(oSum'[q][m], q, m, 0) /\ Accumulates(hatoSum'[q][m], q, m, 1)
    OBVIOUS
  <2>1. CASE q = p /\ m = k
    BY <1>8, <1>9, <2>1
  <2>2. CASE q # p \/ m # k
    <3>1. oSum'[q][m] = oSum[q][m] /\ hatoSum'[q][m] = hatoSum[q][m]
      BY <1>6, <2>2
    <3>2. QED
      BY <3>1 DEF Scanned
  <2>3. QED
    BY <2>1, <2>2
<1>12. Scanned'
  <2>1. oSum' \in [Party -> [BlockNo -> History]] /\ hatoSum' \in [Party -> [BlockNo -> History]]
    BY <1>4, <1>5, <1>8, <1>9 DEF Scanned
  <2>2. ASSUME NEW q \in Party, NEW m \in BlockNo
        PROVE  /\ DOMAIN oSum'[q][m] = DOMAIN hatoSum'[q][m]
               /\ q \notin scan => DOMAIN oSum'[q][m] = 0 .. 0
    <3>1. CASE q = p /\ m = k
      <4>1. DOMAIN oSum'[p][k] = 0 .. i + 1 /\ DOMAIN hatoSum'[p][k] = 0 .. i + 1
        BY <1>8, <1>9
      <4>2. p \in scan
        BY DEF Accumulate
      <4>3. QED
        BY <3>1, <4>1, <4>2
    <3>2. CASE q # p \/ m # k
      <4>1. oSum'[q][m] = oSum[q][m] /\ hatoSum'[q][m] = hatoSum[q][m]
        BY <1>6, <3>2
      <4>2. QED
        BY <4>1 DEF Scanned
    <3>3. QED
      BY <3>1, <3>2
  <2>3. ASSUME NEW q \in Party, NEW m \in BlockNo
        PROVE  Accumulates(oSum[q][m], q, m, 0)' /\ Accumulates(hatoSum[q][m], q, m, 1)'
    <3>1. out' = out /\ db' = db /\ query' = query
      BY <1>4 DEF given
    <3>2. ASSUME NEW f, NEW b
          PROVE  /\ oSum' = f /\ Accumulates(f[q][m], q, m, b)
                      => Accumulates(oSum[q][m], q, m, b)'
                 /\ hatoSum' = f /\ Accumulates(f[q][m], q, m, b)
                      => Accumulates(hatoSum[q][m], q, m, b)'
      BY <3>1 DEF Accumulates, Rotated
    <3>3. QED
      BY <1>11, <3>2
  <2>4. scan' = scan /\ query' = query
    BY <1>4
  <2>5. scan' \subseteq Party /\ (scan' # {} => query' # NoQuery)
    BY <2>4 DEF Scanned
  <2>6. QED
    BY <2>1, <2>2, <2>3, <2>4, <2>5 DEF Scanned
<1>13. \A q \in Party, m \in BlockNo, j \in Domain :
         /\ j + 1 \in DOMAIN oSum'[q][m] =>
              j \in DOMAIN oSum[q][m] /\ oSum'[q][m][j] = oSum[q][m][j]
         /\ j + 1 \in DOMAIN hatoSum'[q][m] =>
              j \in DOMAIN hatoSum[q][m] /\ hatoSum'[q][m][j] = hatoSum[q][m][j]
  <2> SUFFICES ASSUME NEW q \in Party, NEW m \in BlockNo, NEW j \in Domain
               PROVE  /\ j + 1 \in DOMAIN oSum'[q][m] =>
                           j \in DOMAIN oSum[q][m] /\ oSum'[q][m][j] = oSum[q][m][j]
                      /\ j + 1 \in DOMAIN hatoSum'[q][m] =>
                           j \in DOMAIN hatoSum[q][m] /\ hatoSum'[q][m][j] = hatoSum[q][m][j]
    OBVIOUS
  <2>1. CASE q = p /\ m = k
    <3>1. j + 1 \in 0 .. i + 1 => j \in 0 .. i
      BY <1>3, Sizes DEF Domain
    <3>2. /\ DOMAIN oSum'[p][k] = 0 .. i + 1 /\ DOMAIN hatoSum'[p][k] = 0 .. i + 1
          /\ DOMAIN oSum[p][k] = 0 .. i /\ DOMAIN hatoSum[p][k] = 0 .. i
      BY <1>3, <1>8, <1>9
    <3>3. QED
      BY <1>8, <1>9, <2>1, <3>1, <3>2
  <2>2. CASE q # p \/ m # k
    <3>1. oSum'[q][m] = oSum[q][m] /\ hatoSum'[q][m] = hatoSum[q][m]
      BY <1>6, <2>2
    <3>2. \E n \in 0 .. Points : DOMAIN oSum[q][m] = 0 .. n /\ DOMAIN hatoSum[q][m] = 0 .. n
      BY AtPlace
    <3>3. \A n \in 0 .. Points : j + 1 \in 0 .. n => j \in 0 .. n
      BY Sizes DEF Domain
    <3>4. QED
      BY <3>1, <3>2, <3>3
  <2>3. QED
    BY <2>1, <2>2
<1>14. ASSUME NEW m \in BlockNo
       PROVE  SumTo(oSum'[0][m], oSum'[1][m], m, 0) /\ SumTo(hatoSum'[0][m], hatoSum'[1][m], m, 1)
  <2>1. SumTo(oSum[0][m], oSum[1][m], m, 0) /\ SumTo(hatoSum[0][m], hatoSum[1][m], m, 1)
    BY DEF Sums
  <2>2. ASSUME NEW b \in Bit, NEW g, NEW h, NEW G, NEW H,
               SumTo(g, h, m, b), G \in History, H \in History,
               Accumulates(G, 0, m, b), Accumulates(H, 1, m, b),
               \A j \in Domain : j + 1 \in DOMAIN G => j \in DOMAIN g /\ G[j] = g[j],
               \A j \in Domain : j + 1 \in DOMAIN H => j \in DOMAIN h /\ H[j] = h[j]
        PROVE  SumTo(G, H, m, b)
    <3>1. PICK gn \in 0 .. Points : G \in [0 .. gn -> Group]
      BY <2>2, HistoryForm
    <3>2. PICK hn \in 0 .. Points : H \in [0 .. hn -> Group]
      BY <2>2, HistoryForm
    <3>3. \A j \in Domain : j + 1 \in DOMAIN G \cap DOMAIN H =>
            j \in DOMAIN g \cap DOMAIN h /\ G[j] = g[j] /\ H[j] = h[j]
      BY <2>2
    <3>4. SumTo(g, h, m, b) /\ Accumulates(G, 0, m, b) /\ Accumulates(H, 1, m, b)
      BY <2>2
    <3>5. Given /\ Asked /\ query # NoQuery
      BY <1>2 DEF IInv
    <3>6. QED
      BY <3>1, <3>2, <3>3, <3>4, <3>5, SumsGrow
  <2>3. SumTo(oSum'[0][m], oSum'[1][m], m, 0)
    BY <1>1, <1>11, <1>13, <2>1, <2>2
  <2>4. SumTo(hatoSum'[0][m], hatoSum'[1][m], m, 1)
    BY <1>1, <1>11, <1>13, <2>1, <2>2
  <2>5. QED
    BY <2>3, <2>4
<1>15. Sums'
  <2>1. db' = db /\ index' = index /\ payload' = payload
    BY <1>4 DEF given
  <2>2. \A n, b, e : Sum(n, b, e)' = Sum(n, b, e)
    BY <2>1 DEF Sum, Value, Point, Alpha, Plus
  <2>3. ASSUME NEW m \in BlockNo
        PROVE  SumTo(oSum[0][m], oSum[1][m], m, 0)' /\ SumTo(hatoSum[0][m], hatoSum[1][m], m, 1)'
    BY <1>14, <2>2 DEF SumTo, Plus
  <2>4. QED
    BY <2>3 DEF Sums
<1>16. Answered'
  <2>1. answer' = answer /\ faulty' = faulty
    BY <1>4
  <2>2. answer[p] = NoAnswer
    BY DEF Answered, Accumulate
  <2>3. ASSUME NEW q \in Party, answer[q] # NoAnswer
        PROVE  (\A m \in BlockNo : Done(q, m))' /\ Hato(q)' = Hato(q) /\ O(q)' = O(q)
    <3>1. q # p
      BY <2>2, <2>3
    <3>2. \A m \in BlockNo : oSum'[q][m] = oSum[q][m] /\ hatoSum'[q][m] = hatoSum[q][m]
      BY <1>6, <3>1
    <3>3. \A m \in BlockNo : Done(q, m)
      BY <2>3 DEF Answered
    <3>4. QED
      BY <3>2, <3>3 DEF Done, O, Hato
  <2>4. QED
    BY <2>1, <2>3 DEF Answered
<1>17. QED
  BY <1>10, <1>12, <1>15, <1>16

LEMMA AnswerTypes ==
  ASSUME IInv, NEW p \in Party, Answers(p)
  PROVE  O(p) \in [BlockNo -> Group] /\ Hato(p) \in [BlockNo -> Group]
<1>1. ASSUME NEW k \in BlockNo
      PROVE  oSum[p][k][Points] \in Group /\ hatoSum[p][k][Points] \in Group
  <2>1. Done(p, k)
    BY DEF Answers
  <2>2. /\ oSum[p][k] \in [0 .. Points -> Group]
        /\ hatoSum[p][k] \in [0 .. Points -> Group]
    BY <2>1, AtPlace DEF IInv
  <2>3. QED
    BY <2>2, Sizes
<1>2. QED
  BY <1>1 DEF O, Hato

\* Both answers, honest and faulty: only a faulty server's o is not its own.
LEMMA AnsweredMore ==
  ASSUME IInv, NEW p \in Party, Answers(p), NEW o \in [BlockNo -> Group],
         answer' = [answer EXCEPT ![p] = [o |-> o, hato |-> Hato(p)]],
         faulty \subseteq faulty', faulty' \subseteq faulty \cup {p},
         p \notin faulty' => o = O(p),
         UNCHANGED <<given, query, work, client>>
  PROVE  IInv'
<1> USE DEF IInv
<1>1. Given' /\ Asked' /\ Scanned' /\ Sums'
  BY GivenKept, AskedKept, ScannedKept, SumsKept DEF work
<1>2. answer[p] = NoAnswer /\ \A k \in BlockNo : Done(p, k)
  BY DEF Answers
<1>3. UNCHANGED <<oSum, hatoSum>>
  BY DEF work
<1> DEFINE new == [o |-> o, hato |-> Hato(p)]
<1>4. new \in [o : [BlockNo -> Group], hato : [BlockNo -> Group]]
  BY AnswerTypes
<1>5. answer'[p] = new /\ \A q \in Party : q # p => answer'[q] = answer[q]
  BY DEF Answered
<1>6. /\ faulty' \subseteq Party
      /\ answer' \in [Party -> {NoAnswer} \cup [o : [BlockNo -> Group], hato : [BlockNo -> Group]]]
  BY <1>4 DEF Answered
<1>7. ASSUME NEW q \in Party, answer'[q] # NoAnswer
      PROVE  /\ answer'[q] \in [o : [BlockNo -> Group], hato : [BlockNo -> Group]]
             /\ \A k \in BlockNo : Done(q, k)
             /\ answer'[q].hato = Hato(q)
             /\ q \notin faulty' => answer'[q].o = O(q)
  <2>1. CASE q = p
    BY <1>2, <1>4, <1>5, <2>1
  <2>2. CASE q # p
    BY <1>5, <1>7, <2>2 DEF Answered
  <2>3. QED
    BY <2>1, <2>2
<1>8. \A q \in Party, k \in BlockNo : (Done(q, k)' <=> Done(q, k))
  BY <1>3 DEF Done
<1>9. \A q \in Party : Hato(q)' = Hato(q) /\ O(q)' = O(q)
  BY <1>3 DEF Hato, O
<1>10. Answered'
  BY <1>6, <1>7, <1>8, <1>9 DEF Answered
<1>11. Judged'
  <2>1. result = "none"
    BY <1>2 DEF Judged
  <2>2. QED
    BY <2>1 DEF Judged, client
<1>12. QED
  BY <1>1, <1>10, <1>11

LEMMA AnswerInv ==
  ASSUME IInv, NEW p \in Party, Answer(p)
  PROVE  IInv'
<1>1. Answers(p) /\ O(p) \in [BlockNo -> Group]
  BY AnswerTypes DEF Answer
<1>2. QED
  BY <1>1, AnsweredMore DEF Answer

LEMMA FaultyAnswerInv ==
  ASSUME IInv, NEW p \in Party, FaultyAnswer(p)
  PROVE  IInv'
<1>1. PICK o \in [BlockNo -> Group] :
        answer' = [answer EXCEPT ![p] = [o |-> o, hato |-> Hato(p)]]
  BY DEF FaultyAnswer
<1>2. /\ Answers(p) /\ faulty' = faulty \cup {p}
      /\ UNCHANGED <<given, query, work, client>>
  BY DEF FaultyAnswer
<1>3. QED
  BY <1>1, <1>2, AnsweredMore

LEMMA ReconstructInv ==
  ASSUME IInv, Reconstruct
  PROVE  IInv'
<1>1. Given' /\ Asked' /\ Scanned' /\ Sums' /\ Answered'
  BY GivenKept, AskedKept, ScannedKept, SumsKept, AnsweredKept DEF IInv, Reconstruct, work
<1>2. Judged'
  <2>1. UNCHANGED <<given, answer>>
    BY DEF Reconstruct
  <2>2. dbout' = Entry'
    BY <2>1 DEF Reconstruct, Entry
  <2>3. \A k \in BlockNo : (MacHolds(k)' <=> MacHolds(k))
    BY <2>1 DEF MacHolds, Entry, Alpha, Plus, given
  <2>4. (result' = "correct") <=> \A k \in BlockNo : MacHolds(k)
    BY DEF Reconstruct
  <2>5. \A p \in Party : answer'[p] # NoAnswer
    BY <2>1 DEF Reconstruct
  <2>6. QED
    BY <2>2, <2>3, <2>4, <2>5 DEF Judged
<1>3. QED
  BY <1>1, <1>2 DEF IInv

LEMMA StutterInv ==
  ASSUME IInv, UNCHANGED vars
  PROVE  IInv'
<1>1. UNCHANGED <<given, query, work, answer, faulty, client>>
  BY DEF vars
<1>2. UNCHANGED <<oSum, hatoSum>>
  BY <1>1 DEF work
<1>3. QED
  BY <1>1, <1>2, GivenKept, AskedKept, ScannedKept, SumsKept, AnsweredKept, JudgedKept DEF IInv

LEMMA NextInv == IInv /\ [Next]_vars => IInv'
<1> SUFFICES ASSUME IInv, [Next]_vars
             PROVE  IInv'
  OBVIOUS
<1>1. CASE Query
  BY <1>1, QueryInv
<1>2. CASE Reconstruct
  BY <1>2, ReconstructInv
<1>3. ASSUME NEW p \in Party, Read(p)
      PROVE  IInv'
  BY <1>3, ReadInv
<1>4. ASSUME NEW p \in Party, Answer(p)
      PROVE  IInv'
  BY <1>4, AnswerInv
<1>5. ASSUME NEW p \in Party, FaultyAnswer(p)
      PROVE  IInv'
  BY <1>5, FaultyAnswerInv
<1>6. ASSUME NEW p \in Party, NEW th \in Thread, NEW k \in BlockNo, Accumulate(p, th, k)
      PROVE  IInv'
  BY <1>6, AccumulateInv
<1>7. CASE UNCHANGED vars
  BY <1>7, StutterInv
<1>8. QED
  BY <1>1, <1>2, <1>3, <1>4, <1>5, <1>6, <1>7 DEF Next, Client, Main, Worker

LEMMA InvCorrect == Spec => []IInv
<1>1. QED
  BY InitInv, NextInv, PTL DEF Spec

LEMMA OneTimes ==
  ASSUME NEW d \in Group
  PROVE  ((1 % Modulus) * d) % Modulus = d
<1>1. Modulus \in Nat \ {0} /\ d \in 0 .. Modulus - 1
  BY Sizes DEF Group
<1>2. CASE Modulus = 1
  <2>1. d = 0
    BY <1>1, <1>2
  <2>2. (1 % Modulus) * d = 0
    BY <1>1, <2>1
  <2>3. QED
    BY <1>2, <2>1, <2>2
<1>3. CASE Modulus # 1
  <2>1. 1 % Modulus = 1
    BY <1>1, <1>3
  <2>2. (1 % Modulus) * d = d
    BY <1>1, <2>1
  <2>3. QED
    BY <1>1, <2>2
<1>4. QED
  BY <1>2, <1>3

LEMMA SumValues ==
  ASSUME Given, NEW k \in BlockNo, NEW i
  PROVE  /\ Sum(k, 0, i) = IF Point < i THEN db[k][Ind] ELSE 0
         /\ Sum(k, 1, i) = IF Point < i THEN (Alpha * db[k][Ind]) % Modulus ELSE 0
<1>1. db[k][Ind] \in Group
  BY Sizes DEF Given
<1>2. ((1 % Modulus) * db[k][Ind]) % Modulus = db[k][Ind]
  BY <1>1, OneTimes
<1>3. Value(0) = 1 % Modulus /\ Value(1) = Alpha
  BY DEF Value
<1>4. QED
  BY <1>2, <1>3 DEF Sum

LEMMA InvPartialSums == IInv => PartialSums
<1> SUFFICES ASSUME IInv, NEW k \in BlockNo, NEW i \in 0 .. Points
             PROVE  /\ i \in DOMAIN oSum[0][k] \cap DOMAIN oSum[1][k] =>
                         Plus(oSum[0][k][i], oSum[1][k][i])
                           = IF Point < i THEN db[k][Ind] ELSE 0
                    /\ i \in DOMAIN hatoSum[0][k] \cap DOMAIN hatoSum[1][k] =>
                         Plus(hatoSum[0][k][i], hatoSum[1][k][i])
                           = IF Point < i THEN (Alpha * db[k][Ind]) % Modulus ELSE 0
  BY DEF PartialSums
<1>1. /\ SumTo(oSum[0][k], oSum[1][k], k, 0)
      /\ SumTo(hatoSum[0][k], hatoSum[1][k], k, 1)
  BY DEF IInv, Sums
<1>2. QED
  BY <1>1, SumValues DEF IInv, SumTo

\* When both answers are there, the servers' own sums give the entry.
LEMMA Finished ==
  ASSUME IInv, \A p \in Party : answer[p] # NoAnswer, NEW k \in BlockNo
  PROVE  /\ Plus(O(0)[k], O(1)[k]) = db[k][Ind]
         /\ Plus(answer[0].hato[k], answer[1].hato[k]) = (Alpha * db[k][Ind]) % Modulus
<1>1. 0 \in Party /\ 1 \in Party
  BY DEF Party
<1>2. Done(0, k) /\ Done(1, k)
  BY <1>1 DEF IInv, Answered
<1>3. /\ Points \in DOMAIN oSum[0][k] \cap DOMAIN oSum[1][k]
      /\ Points \in DOMAIN hatoSum[0][k] \cap DOMAIN hatoSum[1][k]
  BY <1>1, <1>2 DEF Done, IInv, Scanned
<1>4. Points \in 0 .. Points /\ Point < Points
  BY GivenTypes, Sizes DEF IInv, Domain
<1>5. /\ Plus(oSum[0][k][Points], oSum[1][k][Points]) = db[k][Ind]
      /\ Plus(hatoSum[0][k][Points], hatoSum[1][k][Points]) = (Alpha * db[k][Ind]) % Modulus
  BY <1>3, <1>4, InvPartialSums DEF PartialSums
<1>6. answer[0].hato = Hato(0) /\ answer[1].hato = Hato(1)
  BY <1>1 DEF IInv, Answered
<1>7. QED
  BY <1>5, <1>6 DEF O, Hato

LEMMA InvHonest == IInv => HonestRetrieval
<1> SUFFICES ASSUME IInv, result # "none", faulty = {}
             PROVE  result = "correct" /\ dbout = [k \in BlockNo |-> db[k][Ind]]
  BY DEF HonestRetrieval
<1>1. 0 \in Party /\ 1 \in Party
  BY DEF Party
<1>2. /\ \A p \in Party : answer[p] # NoAnswer
      /\ dbout = Entry
      /\ (result = "correct") <=> \A k \in BlockNo : MacHolds(k)
  BY DEF IInv, Judged
<1>3. answer[0].o = O(0) /\ answer[1].o = O(1)
  BY <1>1, <1>2 DEF IInv, Answered
<1>4. ASSUME NEW k \in BlockNo
      PROVE  Entry[k] = db[k][Ind] /\ MacHolds(k)
  <2>1. Entry[k] = db[k][Ind]
    BY <1>2, <1>3, Finished DEF Entry
  <2>2. QED
    BY <1>2, <2>1, Finished DEF MacHolds
<1>5. Entry = [k \in BlockNo |-> db[k][Ind]]
  BY <1>4 DEF Entry
<1>6. QED
  BY <1>2, <1>4, <1>5

LEMMA InvDetected == IInv => WrongOutputDetected
<1> SUFFICES ASSUME IInv, result = "correct", NEW k \in BlockNo
             PROVE  (Alpha * (dbout[k] - db[k][Ind])) % Modulus = 0
  BY DEF WrongOutputDetected
<1> DEFINE x == dbout[k]
           y == db[k][Ind]
<1>1. 0 \in Party /\ 1 \in Party
  BY DEF Party
<1>2. /\ \A p \in Party : answer[p] # NoAnswer
      /\ dbout = Entry
      /\ MacHolds(k)
  BY DEF IInv, Judged
<1>3. x \in Int
  <2>1. answer[0].o[k] \in Int /\ answer[1].o[k] \in Int
    BY <1>1, <1>2, Sizes DEF IInv, Answered, Group
  <2>2. answer[0].o[k] + answer[1].o[k] \in Int
    BY <2>1
  <2>3. QED
    BY <1>2, <2>2, Sizes DEF Entry, Plus
<1>4. y \in Int /\ Alpha \in Int
  BY GivenTypes, Sizes DEF IInv, Given, Group
<1>5. (Alpha * x) % Modulus = (Alpha * y) % Modulus
  BY <1>2, Finished DEF MacHolds
<1> HIDE DEF x, y
<1> DEFINE u == Alpha * x
           v == Alpha * y
<1>6. u \in Int /\ v \in Int /\ Alpha * (x - y) = u - v
  BY <1>3, <1>4
<1>7. Same(u, v, Modulus) /\ Same(v, v, Modulus)
  BY <1>5 DEF Same
<1> HIDE DEF u, v
<1>8. Same(u - v, v - v, Modulus)
  BY <1>6, <1>7, Sizes, SubSame
<1>9. (v - v) % Modulus = 0
  <2>1. v - v = 0
    BY <1>6
  <2>2. QED
    BY <2>1, Sizes
<1>10. QED
  BY <1>6, <1>8, <1>9 DEF Same, x, y

(***************************************************************************)
(* Whatever entries the servers' threads are at, equally long sums of a    *)
(* block add up to zero before the secret point and to the wanted entry    *)
(* behind it.                                                              *)
(***************************************************************************)
THEOREM PartialSumsCorrect == Spec => []PartialSums
<1>1. QED
  BY InvCorrect, InvPartialSums, PTL

(***************************************************************************)
(* Private retrieval with two honest servers is correct for every database *)
(* and every secret point: the MAC holds and the entry is the wanted one.  *)
(***************************************************************************)
THEOREM RetrievalCorrect == Spec => []HonestRetrieval
<1>1. QED
  BY InvCorrect, InvHonest, PTL

(***************************************************************************)
(* What compute_inner_prod_Zp's hato catches: with any blocks of o wrong   *)
(* at either server, "Correct Output" is printed only if alpha times the   *)
(* error is zero in every block.                                           *)
(***************************************************************************)
THEOREM DetectionCorrect == Spec => []WrongOutputDetected
<1>1. QED
  BY InvCorrect, InvDetected, PTL
=============================================================================
