---------------------------- MODULE NumberLemmas ----------------------------
(***************************************************************************)
(* Facts about natural numbers that several proofs rest on: remainders,    *)
(* for group elements of several bit sizes, and induction, for functions   *)
(* that are defined by recursion on a number, and sums of sequences.       *)
(***************************************************************************)
EXTENDS Integers, TLAPS, FiniteSetTheorems

\* The remainder is the one number below m that differs by a multiple of m.
LEMMA RemainderUnique ==
  ASSUME NEW m \in Nat \ {0}, NEW c \in Int, NEW r \in 0 .. m - 1
  PROVE  (m * c + r) % m = r
<1> DEFINE x == m * c + r
           d == x \div m
           s == x % m
<1>1. x \in Int /\ x = m * c + r
  OBVIOUS
<1> HIDE DEF x
<1>2. d \in Int /\ s \in 0 .. m - 1 /\ x = m * d + s
  BY <1>1
<1> HIDE DEF d, s
<1>3. m * (c - d) = s - r
  BY <1>1, <1>2
<1>4. CASE c - d >= 1
  <2>1. m * (c - d) >= m
    BY <1>2, <1>4
  <2>2. QED
    BY <1>2, <1>3, <2>1
<1>5. CASE c - d <= -1
  <2>1. m * (c - d) <= -m
    BY <1>2, <1>5
  <2>2. QED
    BY <1>2, <1>3, <2>1
<1>6. CASE c = d
  BY <1>1, <1>2, <1>6 DEF s, x
<1>7. QED
  BY <1>2, <1>4, <1>5, <1>6

LEMMA RemainderForm ==
  ASSUME NEW m \in Nat \ {0}, NEW x \in Int
  PROVE  \E c \in Int : x = m * c + (x % m)
<1>1. x \div m \in Int /\ x = m * (x \div m) + (x % m)
  OBVIOUS
<1>2. QED
  BY <1>1

\* Equal remainders: the numbers differ by a multiple of m.
LEMMA SameRemainder ==
  ASSUME NEW m \in Nat \ {0}, NEW y \in Int, NEW c \in Int
  PROVE  (y + m * c) % m = y % m
<1>1. PICK d \in Int : y = m * d + (y % m)
  BY RemainderForm
<1>2. y % m \in 0 .. m - 1
  OBVIOUS
<1> DEFINE e == d + c
           r == y % m
<1>3. e \in Int /\ r \in 0 .. m - 1 /\ y + m * c = m * e + r
  BY <1>1, <1>2
<1> HIDE DEF e, r
<1>4. (m * e + r) % m = r
  BY <1>3, RemainderUnique
<1>5. QED
  BY <1>3, <1>4 DEF r

\* The quotient is the one number that leaves a remainder below m.
LEMMA QuotientUnique ==
  ASSUME NEW m \in Nat \ {0}, NEW c \in Int, NEW r \in 0 .. m - 1
  PROVE  (m * c + r) \div m = c
<1> DEFINE x == m * c + r
           d == x \div m
<1>1. x \in Int /\ x = m * c + r /\ x % m = r
  BY RemainderUnique
<1> HIDE DEF x
<1>2. d \in Int /\ x = m * d + (x % m)
  BY <1>1
<1> HIDE DEF d
<1>3. m * (c - d) = 0
  BY <1>1, <1>2
<1>4. CASE c - d >= 1
  <2>1. m * (c - d) >= m
    BY <1>2, <1>4
  <2>2. QED
    BY <1>3, <2>1
<1>5. CASE c - d <= -1
  <2>1. m * (c - d) <= -m
    BY <1>2, <1>5
  <2>2. QED
    BY <1>3, <2>1
<1>6. CASE c = d
  BY <1>6 DEF d, x
<1>7. QED
  BY <1>2, <1>4, <1>5, <1>6

\* Dividing twice is dividing by the product.
LEMMA QuotientOfQuotient ==
  ASSUME NEW a \in Nat \ {0}, NEW b \in Nat \ {0}, NEW x \in Nat
  PROVE  (x \div a) \div b = x \div (a * b)
<1> DEFINE q == x \div a
           r == x % a
           u == q \div b
           v == q % b
           y == a * v + r
           m == a * b
<1>1. q \in Nat /\ r \in 0 .. a - 1 /\ x = a * q + r
  OBVIOUS
<1> HIDE DEF q, r
<1>2. u \in Nat /\ v \in 0 .. b - 1 /\ q = b * u + v
  BY <1>1
<1> HIDE DEF u, v
<1>3. m \in Nat \ {0}
  OBVIOUS
<1>4. y \in 0 .. m - 1
  <2>1. a * v \in Nat
    BY <1>2
  <2>2. a * (b - 1 - v) \in Nat /\ a * (b - 1 - v) = a * b - a - a * v
    BY <1>2
  <2>3. QED
    BY <1>1, <1>3, <2>1, <2>2
<1>5. x = m * u + y
  <2>1. a * q = a * (b * u) + a * v
    BY <1>2
  <2>2. a * (b * u) = m * u
    BY <1>2
  <2> DEFINE aq == a * q
             av == a * v
             mu == m * u
  <2>3. aq \in Int /\ av \in Int /\ mu \in Int
    BY <1>1, <1>2, <1>3
  <2>4. aq = mu + av /\ x = aq + r /\ y = av + r
    BY <1>1, <2>1, <2>2
  <2> HIDE DEF aq, av, y
  <2>5. x = mu + y
    BY <1>1, <2>3, <2>4
  <2>6. QED
    BY <2>5
<1> HIDE DEF m, y
<1>6. x \div m = u
  BY <1>2, <1>3, <1>4, <1>5, QuotientUnique
<1>7. QED
  BY <1>6 DEF u, q, m

\* x and y are the same modulo m.
Same(x, y, m) == x % m = y % m

LEMMA AddSame ==
  ASSUME NEW m \in Nat \ {0}, NEW x \in Int, NEW y \in Int, NEW u \in Int, NEW v \in Int,
         Same(x, u, m), Same(y, v, m)
  PROVE  Same(x + y, u + v, m)
<1>1. PICK a \in Int : x = m * a + (x % m)
  BY RemainderForm
<1>2. PICK b \in Int : y = m * b + (y % m)
  BY RemainderForm
<1>3. PICK c \in Int : u = m * c + (u % m)
  BY RemainderForm
<1>4. PICK d \in Int : v = m * d + (v % m)
  BY RemainderForm
<1>5. /\ (x % m) \in Int /\ (y % m) \in Int
      /\ x % m = u % m /\ y % m = v % m
  BY DEF Same
<1> DEFINE e == (a - c) + (b - d)
           s == x + y
           t == u + v
<1>6. e \in Int /\ s \in Int /\ t \in Int /\ s = t + m * e
  BY <1>1, <1>2, <1>3, <1>4, <1>5
<1> HIDE DEF e, s, t
<1>7. (t + m * e) % m = t % m
  BY <1>6, SameRemainder
<1>8. QED
  BY <1>6, <1>7 DEF s, t, Same

LEMMA SubSame ==
  ASSUME NEW m \in Nat \ {0}, NEW x \in Int, NEW y \in Int, NEW u \in Int, NEW v \in Int,
         Same(x, u, m), Same(y, v, m)
  PROVE  Same(x - y, u - v, m)
<1>1. PICK a \in Int : x = m * a + (x % m)
  BY RemainderForm
<1>2. PICK b \in Int : y = m * b + (y % m)
  BY RemainderForm
<1>3. PICK c \in Int : u = m * c + (u % m)
  BY RemainderForm
<1>4. PICK d \in Int : v = m * d + (v % m)
  BY RemainderForm
<1>5. /\ (x % m) \in Int /\ (y % m) \in Int
      /\ x % m = u % m /\ y % m = v % m
  BY DEF Same
<1> DEFINE e == (a - c) - (b - d)
           s == x - y
           t == u - v
<1>6. e \in Int /\ s \in Int /\ t \in Int /\ s = t + m * e
  BY <1>1, <1>2, <1>3, <1>4, <1>5
<1> HIDE DEF e, s, t
<1>7. (t + m * e) % m = t % m
  BY <1>6, SameRemainder
<1>8. QED
  BY <1>6, <1>7 DEF s, t, Same

LEMMA SameChain ==
  ASSUME NEW m, NEW x, NEW y, NEW z, Same(x, y, m), Same(y, z, m)
  PROVE  Same(x, z, m)
BY DEF Same

LEMMA SameItself ==
  ASSUME NEW m, NEW x
  PROVE  Same(x, x, m)
BY DEF Same

\* Reducing modulo a multiple first changes nothing.
LEMMA CoarserRemainder ==
  ASSUME NEW m \in Nat \ {0}, NEW k \in Nat \ {0}, NEW x \in Int
  PROVE  (x % (m * k)) % m = x % m
<1>1. m * k \in Nat \ {0}
  OBVIOUS
<1>2. PICK c \in Int : x = (m * k) * c + (x % (m * k))
  BY <1>1, RemainderForm
<1>3. x % (m * k) \in Int
  BY <1>1
<1> DEFINE e == k * c
           r == x % (m * k)
<1>4. e \in Int /\ r \in Int /\ x = r + m * e
  BY <1>2, <1>3
<1> HIDE DEF e, r
<1>5. (r + m * e) % m = r % m
  BY <1>4, SameRemainder
<1>6. QED
  BY <1>4, <1>5 DEF r
-----------------------------------------------------------------------------
(***************************************************************************)
(* Induction, for a set instead of a predicate.  If m were missing, adding *)
(* one would map the members below m one-to-one to members below m other   *)
(* than 0: more pigeons than holes.                                        *)
(***************************************************************************)
LEMMA SetInduction ==
  ASSUME NEW S, 0 \in S, \A i \in Nat : i \in S => i + 1 \in S
  PROVE  \A n \in Nat : n \in S
<1> SUFFICES ASSUME NEW m \in Nat, m \notin S PROVE FALSE
  OBVIOUS
<1> DEFINE D == {i \in 0 .. m : i \in S}
           f == [i \in D |-> i + 1]
           E == D \ {0}
<1>1. IsFiniteSet(D)
  <2>1. IsFiniteSet(0 .. m)
    BY FS_Interval
  <2>2. D \subseteq 0 .. m
    OBVIOUS
  <2>3. QED
    BY <2>1, <2>2, FS_Subset
<1>2. IsFiniteSet(E) /\ Cardinality(E) = Cardinality(D) - 1
  <2>1. 0 \in D
    OBVIOUS
  <2> HIDE DEF D
  <2>2. QED
    BY <1>1, <2>1, FS_RemoveElement
<1>3. Cardinality(D) \in Nat /\ Cardinality(E) \in Nat
  BY <1>1, <1>2, FS_CardinalityType
<1>4. \A i \in D : i \in Int /\ i + 1 \in E
  <2> SUFFICES ASSUME NEW i \in D PROVE i \in Int /\ i + 1 \in E
    OBVIOUS
  <2>1. i \in Nat /\ i <= m /\ i \in S /\ i # m
    OBVIOUS
  <2>2. i + 1 \in S
    BY <2>1
  <2>3. QED
    BY <2>1, <2>2
<1>5. f \in [D -> E]
  BY <1>4
<1>6. \A x \in D, y \in D : f[x] = f[y] => x = y
  BY <1>4
<1> HIDE DEF D, E, f
<1>7. \E x, y \in D : x # y /\ f[x] = f[y]
  <2>1. Cardinality(E) < Cardinality(D)
    BY <1>2, <1>3
  <2>2. QED
    BY <1>1, <1>2, <1>5, <2>1, FS_PigeonHole
<1>8. QED
  BY <1>6, <1>7

\* A function on 0..n given by its value at 0 and a step g exists.
Follows(f, n, x0, g) == f[0] = x0 /\ \A i \in 0 .. n - 1 : f[i + 1] = g[i][f[i]]

LEMMA RecursionExists ==
  ASSUME NEW X, NEW x0 \in X, NEW g \in [Nat -> [X -> X]]
  PROVE  \A n \in Nat : \E f \in [0 .. n -> X] : Follows(f, n, x0, g)
<1> DEFINE S == {n \in Nat : \E f \in [0 .. n -> X] : Follows(f, n, x0, g)}
<1>1. 0 \in S
  <2>1. [i \in 0 .. 0 |-> x0] \in [0 .. 0 -> X] /\ Follows([i \in 0 .. 0 |-> x0], 0, x0, g)
    BY DEF Follows
  <2>2. QED
    BY <2>1
<1>2. ASSUME NEW n \in Nat, n \in S PROVE n + 1 \in S
  <2>1. PICK f \in [0 .. n -> X] : Follows(f, n, x0, g)
    BY <1>2
  <2> DEFINE h == [i \in 0 .. n + 1 |-> IF i = n + 1 THEN g[n][f[n]] ELSE f[i]]
  <2>2. h \in [0 .. n + 1 -> X]
    OBVIOUS
  <2>3. h[0] = x0
    BY <2>1 DEF Follows
  <2>4. ASSUME NEW i \in 0 .. n PROVE h[i + 1] = g[i][h[i]]
    <3>1. CASE i = n
      BY <3>1
    <3>2. CASE i \in 0 .. n - 1
      BY <2>1, <3>2 DEF Follows
    <3>3. QED
      BY <3>1, <3>2
  <2> HIDE DEF h
  <2>5. Follows(h, n + 1, x0, g)
    <3>1. (n + 1) - 1 = n
      OBVIOUS
    <3>2. QED
      BY <2>3, <2>4, <3>1 DEF Follows
  <2>6. n + 1 \in Nat
    OBVIOUS
  <2>7. QED
    BY <2>2, <2>5, <2>6
<1> HIDE DEF S
<1>3. \A n \in Nat : n \in S
  BY <1>1, <1>2, SetInduction
<1>4. QED
  BY <1>3 DEF S
-----------------------------------------------------------------------------
(***************************************************************************)
(* x is the sum of f over 0..n-1: what its running sum ends with.          *)
(***************************************************************************)
Running(s, f, n) == s[0] = 0 /\ \A k \in 1 .. n : s[k] = s[k - 1] + f[k - 1]

SumsTo(f, n, x) == \E s \in [0 .. n -> Int] : Running(s, f, n) /\ s[n] = x

LEMMA SumOfZeros ==
  ASSUME NEW n \in Nat, NEW f, \A k \in 0 .. n - 1 : f[k] = 0
  PROVE  SumsTo(f, n, 0)
<1> DEFINE s == [k \in 0 .. n |-> 0]
<1>1. s \in [0 .. n -> Int] /\ s[0] = 0 /\ s[n] = 0
  OBVIOUS
<1>2. ASSUME NEW k \in 1 .. n PROVE s[k] = s[k - 1] + f[k - 1]
  <2>1. k - 1 \in 0 .. n - 1 /\ k - 1 \in 0 .. n /\ k \in 0 .. n
    OBVIOUS
  <2>2. f[k - 1] = 0 /\ s[k - 1] = 0 /\ s[k] = 0
    BY <2>1
  <2>3. QED
    BY <2>2
<1> HIDE DEF s
<1>3. Running(s, f, n)
  BY <1>1, <1>2 DEF Running
<1>4. QED
  BY <1>1, <1>3 DEF SumsTo

\* f and h differ at one place, by x.
LEMMA SumWithOneMore ==
  ASSUME NEW n \in Nat, NEW f, NEW h, NEW y \in Int, NEW j \in 0 .. n - 1, NEW x \in Int,
         SumsTo(f, n, y), \A k \in 0 .. n - 1 : f[k] \in Int,
         \A k \in 0 .. n - 1 : h[k] = IF k = j THEN f[k] + x ELSE f[k]
  PROVE  SumsTo(h, n, y + x)
<1>1. PICK s \in [0 .. n -> Int] : Running(s, f, n) /\ s[n] = y
  BY DEF SumsTo
<1> DEFINE r == [k \in 0 .. n |-> IF k > j THEN s[k] + x ELSE s[k]]
<1>2. r \in [0 .. n -> Int] /\ r[0] = 0 /\ r[n] = y + x
  BY <1>1 DEF Running
<1>3. ASSUME NEW k \in 1 .. n PROVE r[k] = r[k - 1] + h[k - 1]
  <2>1. k - 1 \in 0 .. n - 1 /\ k - 1 \in 0 .. n /\ k \in 0 .. n
    OBVIOUS
  <2>2. /\ r[k] = IF k > j THEN s[k] + x ELSE s[k]
        /\ r[k - 1] = IF k - 1 > j THEN s[k - 1] + x ELSE s[k - 1]
    BY <2>1
  <2>3. /\ s[k] \in Int /\ s[k - 1] \in Int /\ f[k - 1] \in Int
        /\ h[k - 1] = IF k - 1 = j THEN f[k - 1] + x ELSE f[k - 1]
    BY <2>1
  <2>4. s[k] = s[k - 1] + f[k - 1]
    BY <1>1 DEF Running
  <2> HIDE DEF r
  <2>5. QED
    BY <2>1, <2>2, <2>3, <2>4
<1> HIDE DEF r
<1>4. Running(r, h, n)
  BY <1>2, <1>3 DEF Running
<1>5. QED
  BY <1>2, <1>4 DEF SumsTo

LEMMA SumOfTwo ==
  ASSUME NEW n \in Nat, NEW f, NEW g, NEW h, NEW x \in Int, NEW y \in Int,
         SumsTo(f, n, x), SumsTo(g, n, y),
         \A k \in 0 .. n - 1 : f[k] \in Int /\ g[k] \in Int /\ h[k] = f[k] + g[k]
  PROVE  SumsTo(h, n, x + y)
<1>1. PICK s \in [0 .. n -> Int] : Running(s, f, n) /\ s[n] = x
  BY DEF SumsTo
<1>2. PICK u \in [0 .. n -> Int] : Running(u, g, n) /\ u[n] = y
  BY DEF SumsTo
<1> DEFINE r == [k \in 0 .. n |-> s[k] + u[k]]
<1>3. r \in [0 .. n -> Int] /\ r[0] = 0 /\ r[n] = x + y
  BY <1>1, <1>2 DEF Running
<1>4. ASSUME NEW k \in 1 .. n PROVE r[k] = r[k - 1] + h[k - 1]
  <2>1. k - 1 \in 0 .. n - 1 /\ k - 1 \in 0 .. n /\ k \in 0 .. n
    OBVIOUS
  <2>2. r[k] = s[k] + u[k] /\ r[k - 1] = s[k - 1] + u[k - 1]
    BY <2>1
  <2>3. /\ s[k] \in Int /\ s[k - 1] \in Int /\ u[k] \in Int /\ u[k - 1] \in Int
        /\ f[k - 1] \in Int /\ g[k - 1] \in Int /\ h[k - 1] = f[k - 1] + g[k - 1]
    BY <2>1
  <2>4. s[k] = s[k - 1] + f[k - 1] /\ u[k] = u[k - 1] + g[k - 1]
    BY <1>1, <1>2 DEF Running
  <2> DEFINE s0 == s[k - 1]
             u0 == u[k - 1]
             f0 == f[k - 1]
             g0 == g[k - 1]
             h0 == h[k - 1]
  <2>5. r[k] = (s0 + f0) + (u0 + g0) /\ r[k - 1] = s0 + u0
    BY <2>2, <2>4
  <2>6. s0 \in Int /\ u0 \in Int /\ f0 \in Int /\ g0 \in Int /\ h0 = f0 + g0
    BY <2>3
  <2> HIDE DEF r, s0, u0, f0, g0, h0
  <2>7. r[k] = r[k - 1] + h0
    BY <2>5, <2>6
  <2>8. QED
    BY <2>7 DEF h0
<1> HIDE DEF r
<1>5. Running(r, h, n)
  BY <1>3, <1>4 DEF Running
<1>6. QED
  BY <1>3, <1>5 DEF SumsTo
=============================================================================
