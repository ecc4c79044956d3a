---------------------------- MODULE Memory_proofs ----------------------------
(***************************************************************************)
(* Proofs about Memory, for every height up to any bound, every number of  *)
(* threads and every order of their leaves: nothing is used after it was   *)
(* freed or beyond its end, but for what a server overruns when its size   *)
(* is not the key's height, and what is lost is named exactly.             *)
(***************************************************************************)
EXTENDS Memory, TLAPS

(***************************************************************************)
(* The invariant says of every array whether it is allocated: Live, from   *)
(* its name and number and from how far the program is.                    *)
(***************************************************************************)
Names == {"layer", "hats", "hatt", "nodes", "currt", "gamma_ind", "entry", "key", "pack",
          "dpf_key", "correction", "input", "gamma", "t", "database", "out", "o", "hato", "dbout"}

Number == {0, 1, 2}

Growing  == {"levels", "correct", "leaves"}
Building == Growing \cup {"layers"}
Finished == {"send", "accept", "free", "end"}

\* The level whose nodes and currt tree tr has.
Level(tr) == IF tr \in expanded THEN turn + 1 ELSE turn

\* The last control bits that are still allocated.
LastKept == IF pc \in Growing THEN turn ELSE IF pc = "layers" THEN turn - 1 ELSE turn - 2

Live(of, tr, n) ==
  \/ of = "layer" /\ tr \in Tree(role) /\ n = 0 /\ pc \in Building
  \/ of = "hats" /\ tr \in Tree(role) /\ n = turn /\ pc \in Growing
  \/ of = "hatt" /\ tr \in Tree(role) /\ n <= LastKept
  \/ of \in {"nodes", "currt"} /\ tr \in Tree(role) /\ n = Level(tr) /\ n # 0 /\ pc \in Building
  \/ of = "gamma_ind" /\ tr \in Tree(role) /\ n \in busy
  \/ of = "entry" /\ role = "server" /\ tr = 0 /\ n \in busy \cup done
  \/ of = "key" /\ tr \in Tree(role) /\ n = 0 /\ (role = "server" => pc # "end")
  \/ of = "pack" /\ tr \in Party(role) /\ n = 0 /\ (role # "dealer" => pc # "end")
  \/ of \in {"dpf_key", "correction", "input"} /\ role = "dealer" /\ tr \in Tree(role) /\ n = 0
  \/ of = "gamma" /\ role = "server" /\ tr = 0 /\ n = 0 /\ pc # "end"
  \/ of = "gamma" /\ role = "dealer" /\ tr \in Tree(role) /\ n = 0 /\ pc \notin Growing
  \/ of = "t" /\ role = "server" /\ tr = 0 /\ n = 0
  \/ of = "database" /\ role = "server" /\ tr = 0 /\ n = 0 /\ pc # "end"
  \/ of = "out" /\ role = "server" /\ tr = 0 /\ n = 0 /\ pc \notin {"levels", "correct"}
  \/ of \in {"o", "hato"} /\ role = "server" /\ tr = 0 /\ n = 0 /\ accepted
  \/ of \in {"o", "hato"} /\ role = "client" /\ tr \in {0, 1} /\ n = 0 /\ accepted
  \/ of = "dbout" /\ role = "client" /\ tr = 0 /\ n = 0 /\ accepted

HeapIs ==
  /\ \A a \in heap : \E of \in Names, tr \in Number, n \in Nat : a = Array(of, tr, n)
  /\ \A of \in Names, tr \in Number, n \in Nat : Array(of, tr, n) \in heap <=> Live(of, tr, n)

PointersAre ==
  pointer = [tr \in Tree(role) |->
    [hats  |-> Array("hats", tr, turn),
     hatt  |-> Array("hatt", tr, turn),
     nodes |-> IF Level(tr) = 0 THEN Null ELSE Array("nodes", tr, Level(tr)),
     currt |-> IF Level(tr) = 0 THEN Null ELSE Array("currt", tr, Level(tr)),
     prevt |-> IF turn = 0 THEN Null ELSE Array("hatt", tr, turn - 1)]]

\* How far the program is.
Phases ==
  /\ role \in Role
  /\ height \in [Party(role) -> 0 .. MaxHeight]
  /\ turn \in Nat
  /\ expanded \subseteq Tree(role)
  /\ busy \subseteq Leaf /\ done \subseteq Leaf /\ busy \cap done = {}
  /\ accepted \in BOOLEAN
  /\ accepted => pc \in {"free", "end"} /\ role # "dealer"
  /\ IF role = "client"
     THEN pc \in {"check", "free", "end"} /\ busy = {} /\ done = {}
     ELSE /\ \A p \in Party(role) : height[p] = Height
          /\ turn <= Height
          /\ pc \in Building \cup Finished
          /\ pc \in {"accept", "free"} => role = "server"
          /\ pc # "levels" => expanded = {}
          /\ pc = "levels" /\ turn = Height => expanded = {}
          /\ pc = "correct" => turn # 0
          /\ pc \notin {"levels", "correct"} => turn = Height
          /\ pc \in {"levels", "correct"} => busy = {} /\ done = {}
          /\ pc \in {"layers"} \cup Finished => done = Leaf /\ busy = {}

MInv == Phases /\ PointersAre /\ HeapIs /\ SafeAccess
-----------------------------------------------------------------------------
(***************************************************************************)
(* Arrays, and what a step without a fault does.                           *)
(***************************************************************************)
LEMMA ArrayEq ==
  ASSUME NEW o1, NEW t1, NEW n1, NEW o2, NEW t2, NEW n2
  PROVE  Array(o1, t1, n1) = Array(o2, t2, n2) <=> o1 = o2 /\ t1 = t2 /\ n1 = n2
BY DEF Array

LEMMA ArrayFields ==
  ASSUME NEW of, NEW tr, NEW n
  PROVE  Array(of, tr, n).of = of /\ Array(of, tr, n).tree = tr /\ Array(of, tr, n).turn = n
BY DEF Array

LEMMA Lengths ==
  /\ \A of \in {"hats", "hatt", "nodes", "currt"} : \A tr, n : Length(Array(of, tr, n)) = Pow2[n]
  /\ \A of \in {"key", "pack", "correction"} : \A tr, n : Length(Array(of, tr, n)) = height[tr]
  /\ \A of \in {"t", "database"} : \A tr, n : Length(Array(of, tr, n)) = Pow2[InputSize]
  /\ \A tr, n : Length(Array("out", tr, n)) = Pow2[Height]
  /\ \A of \in {"gamma", "gamma_ind", "entry"} : \A tr, n : Length(Array(of, tr, n)) = 2
  /\ \A tr, n : Length(Array("layer", tr, n)) = 1
BY ArrayFields DEF Length

\* A use is safe when the array is allocated and long enough.
Safe(a, n) == a \in heap /\ ~ n > Length(a)

LEMMA NoMisuse ==
  ASSUME NEW uses, NEW frees, NEW allocates, Does(uses, frees, allocates),
         \A u \in uses : Safe(u[1], u[2]),
         \A a \in frees : a = Null \/ a \in heap
  PROVE  faults' = faults /\ heap' = (heap \ frees) \cup allocates
<1>1. Misused(uses, frees) = {}
  BY DEF Misused, Safe
<1>2. QED
  BY <1>1 DEF Does

LEMMA NullIsNone ==
  \A of \in Names : \A tr, n : Array(of, tr, n) # Null
<1>1. \A of \in Names : of # "NULL"
  BY DEF Names
<1>2. QED
  BY <1>1, ArrayEq DEF Null

LEMMA PowFacts ==
  /\ \A n \in 0 .. MaxHeight : Pow2[n] \in Nat \ {0}
  /\ InputSize \in 0 .. MaxHeight /\ MaxHeight \in Nat
BY MemoryAssumption

\* A larger tree has more leaves.
LEMMA PowOrder ==
  ASSUME NEW m \in 0 .. MaxHeight, NEW n \in 0 .. MaxHeight, m < n
  PROVE  Pow2[m] < Pow2[n]
<1> DEFINE d == n - m
<1>1. d \in 0 .. MaxHeight /\ d - 1 \in 0 .. MaxHeight /\ 1 \in 0 .. MaxHeight
      /\ m + d = n /\ 1 + (d - 1) = d /\ n <= MaxHeight /\ d <= MaxHeight
  BY PowFacts
<1> HIDE DEF d
<1>2. Pow2[m + d] = Pow2[m] * Pow2[d]
  BY <1>1, MemoryAssumption
<1>3. Pow2[1 + (d - 1)] = Pow2[1] * Pow2[d - 1]
  BY <1>1, MemoryAssumption
<1>4. Pow2[n] = Pow2[m] * (2 * Pow2[d - 1])
  BY <1>1, <1>2, <1>3, MemoryAssumption
<1>5. Pow2[m] \in Nat \ {0} /\ Pow2[d - 1] \in Nat \ {0}
  BY <1>1, PowFacts
<1>6. \A x, y \in Nat \ {0} : x < x * (2 * y)
  <2>1. ASSUME NEW x \in Nat \ {0}, NEW y \in Nat \ {0}
        PROVE  x < x * (2 * y)
    <3> DEFINE z == y - 1
    <3>1. z \in Nat /\ x * (2 * y) = 2 * x + 2 * (x * z)
      OBVIOUS
    <3>2. x * z \in Nat
      BY <3>1
    <3>3. QED
      BY <3>1, <3>2
  <2>2. QED
    BY <2>1
<1>7. QED
  BY <1>4, <1>5, <1>6

LEMMA RoleFacts ==
  ASSUME Phases
  PROVE  /\ role \in {"dealer", "server", "client"}
         /\ Tree(role) \subseteq Party(role) /\ Party(role) \subseteq Number
         /\ role = "dealer" => Tree(role) = {0, 1}
         /\ role = "server" => Tree(role) = {0}
         /\ role = "client" => Tree(role) = {} /\ Party(role) = {0, 1, 2}
         /\ 0 \in Party(role)
         /\ Height \in 0 .. MaxHeight
         /\ \A p \in Party(role) : height[p] \in 0 .. MaxHeight
<1>1. role \in {"dealer", "server", "client"}
  BY DEF Phases, Role
<1>2. /\ Tree(role) \subseteq Party(role) /\ Party(role) \subseteq Number
      /\ role = "dealer" => Tree(role) = {0, 1}
      /\ role = "server" => Tree(role) = {0}
      /\ role = "client" => Tree(role) = {} /\ Party(role) = {0, 1, 2}
      /\ 0 \in Party(role)
  BY <1>1 DEF Tree, Party, Number
<1>3. \A p \in Party(role) : height[p] \in 0 .. MaxHeight
  BY DEF Phases
<1>4. QED
  BY <1>1, <1>2, <1>3 DEF Height

LEMMA PointerFacts ==
  ASSUME PointersAre
  PROVE  \A tr \in Tree(role) :
           /\ pointer[tr].hats = Array("hats", tr, turn)
           /\ pointer[tr].hatt = Array("hatt", tr, turn)
           /\ pointer[tr].nodes = IF Level(tr) = 0 THEN Null ELSE Array("nodes", tr, Level(tr))
           /\ pointer[tr].currt = IF Level(tr) = 0 THEN Null ELSE Array("currt", tr, Level(tr))
           /\ pointer[tr].prevt = IF turn = 0 THEN Null ELSE Array("hatt", tr, turn - 1)
BY DEF PointersAre
-----------------------------------------------------------------------------
(***************************************************************************)
(* The beginning.                                                          *)
(***************************************************************************)
LEMMA RolesAre ==
  /\ Tree("dealer") = {0, 1} /\ Tree("server") = {0} /\ Tree("client") = {}
  /\ Party("dealer") = {0, 1} /\ Party("server") = {0} /\ Party("client") = {0, 1, 2}
BY DEF Tree, Party

\* An array that is there at the beginning.
Begins(r, of, tr, n) ==
  \/ of \in {"layer", "hats", "hatt", "key"} /\ tr \in Tree(r) /\ n = 0
  \/ of = "pack" /\ tr \in Party(r) /\ n = 0
  \/ of \in {"dpf_key", "correction", "input"} /\ r = "dealer" /\ tr \in Tree(r) /\ n = 0
  \/ of \in {"gamma", "t", "database"} /\ r = "server" /\ tr = 0 /\ n = 0

LEMMA BeginningIs ==
  ASSUME NEW r \in Role
  PROVE  /\ \A of, tr, n : Array(of, tr, n) \in Beginning(r) <=> Begins(r, of, tr, n)
         /\ \A a \in Beginning(r) : \E of \in Names, tr \in Number : a = Array(of, tr, 0)
<1> DEFINE Own == CASE r = "dealer" -> {Array(of, tr, 0) :
                                          of \in {"dpf_key", "correction", "input"}, tr \in Tree(r)}
                    [] r = "server" -> {Gamma(0), T, Database}
                    [] r = "client" -> {}
<1>1. /\ r = "dealer" => Own = {Array(of, tr, 0) :
                                of \in {"dpf_key", "correction", "input"}, tr \in Tree(r)}
      /\ r = "server" => Own = {Gamma(0), T, Database}
      /\ r = "client" => Own = {}
  OBVIOUS
<1>2. Beginning(r) = {Pack(p) : p \in Party(r)}
        \cup {Array(of, tr, 0) : of \in {"layer", "hats", "hatt", "key"}, tr \in Tree(r)} \cup Own
  BY DEF Beginning
<1> HIDE DEF Own
<1>3. r \in {"dealer", "server", "client"} /\ Tree(r) \subseteq Number /\ Party(r) \subseteq Number
  BY RolesAre DEF Role, Number
<1>4. ASSUME NEW of, NEW tr, NEW n
      PROVE  Array(of, tr, n) \in Own <=>
               \/ of \in {"dpf_key", "correction", "input"} /\ r = "dealer" /\ tr \in Tree(r) /\ n = 0
               \/ of \in {"gamma", "t", "database"} /\ r = "server" /\ tr = 0 /\ n = 0
  <2>1. CASE r = "dealer"
    BY <2>1, <1>1, ArrayEq
  <2>2. CASE r = "server"
    BY <2>2, <1>1, ArrayEq DEF Gamma, T, Database
  <2>3. CASE r = "client"
    BY <2>3, <1>1
  <2>4. QED
    BY <2>1, <2>2, <2>3, <1>3
<1>5. ASSUME NEW of, NEW tr, NEW n
      PROVE  Array(of, tr, n) \in Beginning(r) <=> Begins(r, of, tr, n)
  <2>1. Array(of, tr, n) \in {Pack(p) : p \in Party(r)} <=> of = "pack" /\ tr \in Party(r) /\ n = 0
    BY ArrayEq DEF Pack
  <2>2. Array(of, tr, n) \in {Array(o, t, 0) : o \in {"layer", "hats", "hatt", "key"}, t \in Tree(r)}
          <=> of \in {"layer", "hats", "hatt", "key"} /\ tr \in Tree(r) /\ n = 0
    BY ArrayEq
  <2>3. QED
    BY <2>1, <2>2, <1>2, <1>4 DEF Begins
<1>6. \A a \in Own : \E of \in Names, tr \in Number : a = Array(of, tr, 0)
  <2>1. CASE r = "dealer"
    BY <2>1, <1>1, <1>3 DEF Names
  <2>2. CASE r = "server"
    <3>1. 0 \in Number /\ {"gamma", "t", "database"} \subseteq Names
      BY DEF Number, Names
    <3>2. QED
      BY <2>2, <1>1, <3>1 DEF Gamma, T, Database
  <2>3. CASE r = "client"
    BY <2>3, <1>1
  <2>4. QED
    BY <2>1, <2>2, <2>3, <1>3
<1>7. \A a \in Beginning(r) : \E of \in Names, tr \in Number : a = Array(of, tr, 0)
  <2>1. {"pack", "layer", "hats", "hatt", "key"} \subseteq Names
    BY DEF Names
  <2>2. QED
    BY <2>1, <1>2, <1>3, <1>6 DEF Pack
<1>8. QED
  BY <1>5, <1>7

LEMMA InitHolds ==
  ASSUME Init
  PROVE  MInv
<1>1. Phases
  <2>1. height \in [Party(role) -> 0 .. MaxHeight]
    BY MemoryAssumption DEF Init
  <2>2. role # "client" => \A p \in Party(role) : height[p] = Height
    BY DEF Init
  <2>3. 0 \in Party(role)
    BY RolesAre DEF Init, Role
  <2>4. Height \in Nat
    BY <2>1, <2>3, MemoryAssumption DEF Height
  <2>5. role \in Role /\ turn = 0 /\ expanded = {} /\ busy = {} /\ done = {} /\ accepted = FALSE
        /\ pc = IF role = "client" THEN "check" ELSE "levels"
    BY DEF Init
  <2>6. accepted \in BOOLEAN /\ ~ accepted
    BY <2>5
  <2>7. QED
    BY <2>1, <2>2, <2>4, <2>5, <2>6 DEF Phases, Building, Growing, Finished
<1>2. PointersAre
  <2>1. \A tr \in Tree(role) : Level(tr) = 0
    BY DEF Init, Level
  <2>2. turn = 0 /\ pointer = [tr \in Tree(role) |->
       [hats |-> Array("hats", tr, 0), hatt |-> Array("hatt", tr, 0),
        nodes |-> Null, currt |-> Null, prevt |-> Null]]
    BY DEF Init
  <2>3. QED
    BY <2>1, <2>2 DEF PointersAre
<1>3. HeapIs
  <2>1. role \in Role /\ heap = Beginning(role)
    BY DEF Init
  <2>2. \A a \in heap : \E of \in Names, tr \in Number : a = Array(of, tr, 0)
    BY <2>1, BeginningIs
  <2>3. ASSUME NEW of \in Names, NEW tr \in Number, NEW n \in Nat
        PROVE  Begins(role, of, tr, n) <=> Live(of, tr, n)
    <3>1. turn = 0 /\ expanded = {} /\ busy = {} /\ done = {} /\ accepted = FALSE
          /\ role \in {"dealer", "server", "client"}
          /\ pc = IF role = "client" THEN "check" ELSE "levels"
      BY DEF Init, Role
    <3>2. Level(tr) = 0
      BY <3>1 DEF Level
    <3>3. role # "client" => LastKept = 0
      BY <3>1 DEF LastKept, Growing
    <3>4. n <= 0 <=> n = 0
      OBVIOUS
    <3>5. role = "client" => Tree(role) = {}
      BY RolesAre
    <3>6. QED
      BY <3>1, <3>2, <3>3, <3>4, <3>5 DEF Begins, Live, Building, Growing
  <2>4. \A of, tr, n : Array(of, tr, n) \in heap <=> Begins(role, of, tr, n)
    BY <2>1, BeginningIs
  <2>5. QED
    BY <2>2, <2>3, <2>4 DEF HeapIs
<1>4. SafeAccess
  BY DEF Init, SafeAccess, T
<1>5. QED
  BY <1>1, <1>2, <1>3, <1>4 DEF MInv
-----------------------------------------------------------------------------
(***************************************************************************)
(* A step keeps the invariant when it keeps Phases and PointersAre, frees  *)
(* and allocates what Live says, and misuses nothing.                      *)
(***************************************************************************)
Changes(frees, allocates) ==
  /\ \A a \in allocates : \E of \in Names, tr \in Number, n \in Nat : a = Array(of, tr, n)
  /\ \A of \in Names, tr \in Number, n \in Nat :
       Live(of, tr, n)' <=>
         \/ Array(of, tr, n) \in allocates
         \/ Live(of, tr, n) /\ Array(of, tr, n) \notin frees

LEMMA HeapIsStep ==
  ASSUME HeapIs, NEW uses, NEW frees, NEW allocates, Does(uses, frees, allocates),
         Changes(frees, allocates)
  PROVE  HeapIs'
<1>1. heap' = (heap \ frees) \cup allocates
  BY DEF Does
<1>2. \A a \in heap' : \E of \in Names, tr \in Number, n \in Nat : a = Array(of, tr, n)
  BY <1>1 DEF HeapIs, Changes
<1>3. ASSUME NEW of \in Names, NEW tr \in Number, NEW n \in Nat
      PROVE  Array(of, tr, n) \in heap' <=> Live(of, tr, n)'
  <2>1. Array(of, tr, n) \in heap <=> Live(of, tr, n)
    BY <1>3 DEF HeapIs
  <2>2. Live(of, tr, n)' <=>
          \/ Array(of, tr, n) \in allocates
          \/ Live(of, tr, n) /\ Array(of, tr, n) \notin frees
    BY <1>3 DEF Changes
  <2>3. QED
    BY <1>1, <2>1, <2>2
<1>4. QED
  BY <1>2, <1>3 DEF HeapIs

LEMMA OverrunStays ==
  ASSUME role' = role, height' = height
  PROVE  Overrun' = Overrun /\ Height' = Height
BY DEF Overrun, Height, Entries, Array, T, Out, Database

\* Outside the sizes' mismatch, and for the arrays it does not touch.
LEMMA HeapStep ==
  ASSUME HeapIs, SafeAccess, role' = role, height' = height,
         NEW uses, NEW frees, NEW allocates, Does(uses, frees, allocates),
         \A u \in uses : Safe(u[1], u[2]),
         \A a \in frees : a = Null \/ a \in heap,
         Changes(frees, allocates),
         busy' \cup done' = busy \cup done, role = "client" \/ accepted' = accepted
  PROVE  HeapIs' /\ SafeAccess'
<1>1. HeapIs'
  BY HeapIsStep
<1>2. faults' = faults
  BY NoMisuse
<1>3. Overrun' = Overrun /\ Height' = Height
  BY OverrunStays
<1>4. role = "client" => faults = {}
  BY DEF SafeAccess, Overrun
<1>5. SafeAccess'
  BY <1>2, <1>3, <1>4 DEF SafeAccess, T
<1>6. QED
  BY <1>1, <1>5

\* The arrays of a tree are in the heap while they are live.
LEMMA InHeap ==
  ASSUME HeapIs
  PROVE  \A of \in Names, tr \in Number, n \in Nat : Live(of, tr, n) => Array(of, tr, n) \in heap
BY DEF HeapIs

LEMMA ExpandKeeps ==
  ASSUME MInv, NEW tr \in Tree(role), Expand(tr)
  PROVE  MInv'
<1> DEFINE nodes == Array("nodes", tr, turn + 1)
           currt == Array("currt", tr, turn + 1)
<1>1. /\ pc = "levels" /\ turn < Height /\ tr \notin expanded
      /\ Does({<<Layer(tr), 1>>, <<pointer[tr].hats, Pow2[turn]>>},
               {pointer[tr].nodes, pointer[tr].currt}, {nodes, currt})
      /\ pointer' = [pointer EXCEPT ![tr].nodes = nodes, ![tr].currt = currt]
      /\ expanded' = expanded \cup {tr}
      /\ role' = role /\ height' = height /\ turn' = turn /\ busy' = busy /\ done' = done /\ pc' = pc /\ accepted' = accepted
  BY DEF Expand, leafs
<1>2. Phases /\ PointersAre /\ HeapIs /\ SafeAccess
  BY DEF MInv
<1>3. /\ role \in {"dealer", "server", "client"} /\ tr \in Number /\ Height \in Nat
      /\ Tree(role) \subseteq Number
      /\ turn \in Nat /\ turn + 1 \in Nat /\ turn \in 0 .. MaxHeight /\ turn + 1 # 0
  <2>1. turn \in Nat
    BY <1>2 DEF Phases
  <2>2. Height \in 0 .. MaxHeight /\ MaxHeight \in Nat
    BY <1>2, RoleFacts, PowFacts
  <2>3. role \in {"dealer", "server", "client"} /\ Tree(role) \subseteq Number
    BY <1>2, RoleFacts
  <2>4. QED
    BY <1>1, <2>1, <2>2, <2>3
<1>4. Phases'
  <2>1. role # "client"
    BY RolesAre
  <2>2. Height' = Height
    BY <1>1 DEF Height
  <2>3. Leaf' = Leaf
    BY <1>1, <2>2 DEF Leaf
  <2>4. QED
    BY <1>1, <1>2, <2>1, <2>2, <2>3, <1>3 DEF Phases, Building, Growing, Finished
<1>5. \A t \in Tree(role) : Level(t)' = IF t = tr THEN turn + 1 ELSE Level(t)
  BY <1>1 DEF Level
<1>6. Level(tr) = turn
  BY <1>1 DEF Level
<1>7. PointersAre'
  <2>1. pointer' = [t \in Tree(role) |->
          [hats  |-> Array("hats", t, turn),
           hatt  |-> Array("hatt", t, turn),
           nodes |-> IF t = tr THEN nodes ELSE IF Level(t) = 0 THEN Null ELSE Array("nodes", t, Level(t)),
           currt |-> IF t = tr THEN currt ELSE IF Level(t) = 0 THEN Null ELSE Array("currt", t, Level(t)),
           prevt |-> IF turn = 0 THEN Null ELSE Array("hatt", t, turn - 1)]]
    <3>1. pointer[tr] =
            [hats  |-> Array("hats", tr, turn),
             hatt  |-> Array("hatt", tr, turn),
             nodes |-> IF Level(tr) = 0 THEN Null ELSE Array("nodes", tr, Level(tr)),
             currt |-> IF Level(tr) = 0 THEN Null ELSE Array("currt", tr, Level(tr)),
             prevt |-> IF turn = 0 THEN Null ELSE Array("hatt", tr, turn - 1)]
      BY <1>2 DEF PointersAre
    <3>2. pointer'[tr] =
            [hats  |-> Array("hats", tr, turn),
             hatt  |-> Array("hatt", tr, turn),
             nodes |-> nodes,
             currt |-> currt,
             prevt |-> IF turn = 0 THEN Null ELSE Array("hatt", tr, turn - 1)]
      BY <1>1, <1>2, <3>1 DEF PointersAre
    <3>3. \A t \in Tree(role) \ {tr} : pointer'[t] = pointer[t]
      BY <1>1, <1>2 DEF PointersAre
    <3>4. pointer' = [t \in Tree(role) |-> pointer'[t]]
      BY <1>1, <1>2 DEF PointersAre
    <3>5. \A t \in Tree(role) \ {tr} : pointer[t] =
            [hats  |-> Array("hats", t, turn),
             hatt  |-> Array("hatt", t, turn),
             nodes |-> IF Level(t) = 0 THEN Null ELSE Array("nodes", t, Level(t)),
             currt |-> IF Level(t) = 0 THEN Null ELSE Array("currt", t, Level(t)),
             prevt |-> IF turn = 0 THEN Null ELSE Array("hatt", t, turn - 1)]
      BY <1>2 DEF PointersAre
    <3> HIDE DEF nodes, currt
    <3>6. QED
      BY <3>2, <3>3, <3>4, <3>5
  <2>2. QED
    BY <2>1, <1>1, <1>3, <1>5 DEF PointersAre
<1>8. /\ pointer[tr].hats = Array("hats", tr, turn)
      /\ pointer[tr].nodes = IF turn = 0 THEN Null ELSE Array("nodes", tr, turn)
      /\ pointer[tr].currt = IF turn = 0 THEN Null ELSE Array("currt", tr, turn)
  BY <1>2, <1>6, PointerFacts
<1>9. \A a \in {pointer[tr].nodes, pointer[tr].currt} : a = Null \/ a \in heap
  <2>1. turn # 0 => Live("nodes", tr, turn) /\ Live("currt", tr, turn)
    BY <1>1, <1>6 DEF Live, Building, Growing
  <2>2. QED
    BY <2>1, <1>2, <1>3, <1>8, InHeap DEF Names
<1>10. \A u \in {<<Layer(tr), 1>>, <<pointer[tr].hats, Pow2[turn]>>} : Safe(u[1], u[2])
  <2>1. Live("layer", tr, 0) /\ Live("hats", tr, turn)
    BY <1>1 DEF Live, Building, Growing
  <2>2. Layer(tr) \in heap /\ pointer[tr].hats \in heap
    BY <2>1, <1>2, <1>3, <1>8, InHeap DEF Names, Layer
  <2>3. Length(Layer(tr)) = 1 /\ Length(pointer[tr].hats) = Pow2[turn]
    BY <1>8, Lengths DEF Layer
  <2>4. Pow2[turn] \in Nat
    BY <1>3, PowFacts
  <2>5. QED
    BY <2>2, <2>3, <2>4 DEF Safe
<1>11. Changes({pointer[tr].nodes, pointer[tr].currt}, {nodes, currt})
  <2>1. \A a \in {nodes, currt} : \E of \in Names, t \in Number, n \in Nat : a = Array(of, t, n)
    BY <1>3 DEF Names
  <2>2. ASSUME NEW of \in Names, NEW t \in Number, NEW n \in Nat
        PROVE  Live(of, t, n)' <=>
                 \/ Array(of, t, n) \in {nodes, currt}
                 \/ Live(of, t, n) /\ Array(of, t, n) \notin {pointer[tr].nodes, pointer[tr].currt}
    <3>1. Array(of, t, n) \in {nodes, currt} <=> of \in {"nodes", "currt"} /\ t = tr /\ n = turn + 1
      BY ArrayEq
    <3>2. Array(of, t, n) \in {pointer[tr].nodes, pointer[tr].currt}
            <=> of \in {"nodes", "currt"} /\ t = tr /\ n = turn /\ turn # 0
      BY <1>8, <2>2, ArrayEq, NullIsNone
    <3>3. LastKept' = LastKept
      BY <1>1 DEF LastKept
    <3>4. t \in Tree(role) => Level(t)' = IF t = tr THEN turn + 1 ELSE Level(t)
      BY <1>5
    <3>5. CASE of \in {"nodes", "currt"}
      <4>1. Live(of, t, n) <=> t \in Tree(role) /\ n = Level(t) /\ n # 0
        BY <1>1, <3>5 DEF Live, Building, Growing
      <4>2. Live(of, t, n)' <=> t \in Tree(role) /\ n = Level(t)' /\ n # 0
        BY <1>1, <3>5 DEF Live, Building, Growing
      <4>3. QED
        BY <4>1, <4>2, <3>1, <3>2, <3>4, <3>5, <1>3, <1>6
    <3>6. CASE of \notin {"nodes", "currt"}
      <4>1. Live(of, t, n)' <=> Live(of, t, n)
        BY <1>1, <3>3, <3>6 DEF Live
      <4>2. QED
        BY <4>1, <3>1, <3>2, <3>6
    <3>7. QED
      BY <3>5, <3>6
  <2>3. QED
    BY <2>1, <2>2 DEF Changes
<1>12. HeapIs' /\ SafeAccess'
  BY <1>1, <1>2, <1>9, <1>10, <1>11, HeapStep
<1>13. QED
  BY <1>4, <1>7, <1>12 DEF MInv

\* What every step needs of Phases.
LEMMA Basics ==
  ASSUME MInv
  PROVE  /\ Phases /\ PointersAre /\ HeapIs /\ SafeAccess
         /\ role \in {"dealer", "server", "client"}
         /\ Tree(role) \subseteq Number /\ Party(role) \subseteq Number
         /\ Tree(role) \subseteq Party(role)
         /\ Height \in Nat /\ Height \in 0 .. MaxHeight /\ turn \in Nat
         /\ role # "client" => turn \in 0 .. MaxHeight /\ turn <= Height
         /\ role # "client" => \A p \in Party(role) : height[p] = Height
<1>1. Phases /\ PointersAre /\ HeapIs /\ SafeAccess
  BY DEF MInv
<1>2. /\ role \in {"dealer", "server", "client"}
      /\ Tree(role) \subseteq Number /\ Party(role) \subseteq Number
      /\ Tree(role) \subseteq Party(role)
      /\ Height \in 0 .. MaxHeight /\ MaxHeight \in Nat
  BY <1>1, RoleFacts, PowFacts
<1>3. turn \in Nat /\ (role # "client" => turn <= Height /\ \A p \in Party(role) : height[p] = Height)
  BY <1>1 DEF Phases
<1>4. QED
  BY <1>1, <1>2, <1>3

LEMMA LeafStays ==
  ASSUME height' = height
  PROVE  Height' = Height /\ Leaf' = Leaf
BY DEF Height, Leaf

LEMMA SwapKeeps ==
  ASSUME MInv, Swap
  PROVE  MInv'
<1> DEFINE uses  == {<<Pack(tr), turn + 1>> : tr \in Tree(role)}
                      \cup {<<Key(tr), turn + 1>> : tr \in Tree(role)}
                      \cup {<<Array(Corrections, tr, 0), turn + 1>> : tr \in Tree(role)}
           frees == {pointer[tr].hats : tr \in Tree(role)}
           news  == {Array(of, tr, turn + 1) : of \in {"hats", "hatt"}, tr \in Tree(role)}
<1>1. /\ pc = "levels" /\ turn < Height /\ expanded = Tree(role)
      /\ turn' = turn + 1 /\ expanded' = {} /\ pc' = "correct"
      /\ role' = role /\ height' = height /\ busy' = busy /\ done' = done /\ accepted' = accepted
      /\ Does(uses, frees, news)
      /\ pointer' = [tr \in Tree(role) |-> Swapped(tr)]
  BY DEF Swap, leafs
<1> HIDE DEF uses, frees, news
<1>2. /\ Phases /\ PointersAre /\ HeapIs /\ SafeAccess
      /\ role \in {"dealer", "server", "client"} /\ Tree(role) \subseteq Number
      /\ Tree(role) \subseteq Party(role)
      /\ Height \in Nat /\ turn \in Nat /\ turn + 1 \in Nat /\ turn + 1 # 0 /\ (turn + 1) - 1 = turn
      /\ role # "client" => \A p \in Party(role) : height[p] = Height
  BY Basics
<1>3. role # "client"
  BY <1>1, <1>2 DEF Phases
<1>4. Phases'
  BY <1>1, <1>2, <1>3, LeafStays DEF Phases, Building, Growing, Finished
<1>5. \A tr \in Tree(role) : Level(tr) = turn + 1 /\ Level(tr)' = turn + 1
  BY <1>1 DEF Level
<1>6. PointersAre'
  <2>1. ASSUME NEW tr \in Tree(role)
        PROVE  Swapped(tr) =
                 [hats  |-> Array("hats", tr, turn + 1),
                  hatt  |-> Array("hatt", tr, turn + 1),
                  nodes |-> Array("nodes", tr, turn + 1),
                  currt |-> Array("currt", tr, turn + 1),
                  prevt |-> Array("hatt", tr, turn)]
    <3>1. pointer[tr] =
                 [hats  |-> Array("hats", tr, turn),
                  hatt  |-> Array("hatt", tr, turn),
                  nodes |-> Array("nodes", tr, turn + 1),
                  currt |-> Array("currt", tr, turn + 1),
                  prevt |-> IF turn = 0 THEN Null ELSE Array("hatt", tr, turn - 1)]
      BY <2>1, <1>2, <1>5 DEF PointersAre
    <3> DEFINE r    == pointer[tr]
               hats == Array("hats", tr, turn + 1)
               hatt == Array("hatt", tr, turn + 1)
               now  == Array("hatt", tr, turn)
    <3>2. Swapped(tr) = [r EXCEPT !["prevt"] = r.hatt, !["hats"] = hats, !["hatt"] = hatt]
      BY Zenon DEF Swapped
    <3>3. PICK a, c, d, e : r = [hats |-> a, hatt |-> now, nodes |-> c, currt |-> d, prevt |-> e]
                            /\ c = Array("nodes", tr, turn + 1) /\ d = Array("currt", tr, turn + 1)
      BY <3>1
    <3> HIDE DEF r, hats, hatt, now
    <3>4. [r EXCEPT !["prevt"] = r.hatt, !["hats"] = hats, !["hatt"] = hatt]
            = [hats |-> hats, hatt |-> hatt, nodes |-> c, currt |-> d, prevt |-> now]
      BY <3>3
    <3>5. QED
      BY <3>2, <3>3, <3>4, Zenon DEF hats, hatt, now
  <2>2. pointer' = [tr \in Tree(role) |->
                 [hats  |-> Array("hats", tr, turn + 1),
                  hatt  |-> Array("hatt", tr, turn + 1),
                  nodes |-> Array("nodes", tr, turn + 1),
                  currt |-> Array("currt", tr, turn + 1),
                  prevt |-> Array("hatt", tr, turn)]]
    BY <2>1, <1>1
  <2>3. QED
    BY <2>2, <1>1, <1>2, <1>5 DEF PointersAre
<1>7. ASSUME NEW tr \in Tree(role) PROVE  pointer[tr].hats = Array("hats", tr, turn)
  BY <1>2, <1>7, PointerFacts
<1>8. \A a \in frees : a = Null \/ a \in heap
  <2>1. \A tr \in Tree(role) : Live("hats", tr, turn)
    BY <1>1 DEF Live, Growing
  <2>2. QED
    BY <2>1, <1>2, <1>7, InHeap DEF Names, frees
<1>9. ASSUME NEW u \in uses PROVE Safe(u[1], u[2])
  <2>1. ASSUME NEW tr \in Tree(role), NEW of \in {"pack", "key", Corrections}, u = <<Array(of, tr, 0), turn + 1>>
        PROVE  Safe(u[1], u[2])
    <3>1. of \in {"pack", "key", "correction"} /\ (of = "correction" => role = "dealer")
      BY <2>1 DEF Corrections
    <3>2. Live(of, tr, 0)
      BY <2>1, <3>1, <1>1, <1>2 DEF Live
    <3>3. Array(of, tr, 0) \in heap
      BY <3>1, <3>2, <2>1, <1>2, InHeap DEF Names
    <3>4. Length(Array(of, tr, 0)) = Height
      BY <3>1, <2>1, <1>2, <1>3, Lengths
    <3>5. QED
      BY <2>1, <3>3, <3>4, <1>1, <1>2 DEF Safe
  <2>2. \E tr \in Tree(role), of \in {"pack", "key", Corrections} : u = <<Array(of, tr, 0), turn + 1>>
    BY <1>9 DEF uses, Pack, Key
  <2>3. QED
    BY <2>1, <2>2
<1>10. Changes(frees, news)
  <2>1. \A a \in news : \E of \in Names, t \in Number, n \in Nat : a = Array(of, t, n)
    BY <1>2 DEF Names, news
  <2>2. ASSUME NEW of \in Names, NEW t \in Number, NEW n \in Nat
        PROVE  Live(of, t, n)' <=>
                 \/ Array(of, t, n) \in news
                 \/ Live(of, t, n) /\ Array(of, t, n) \notin frees
    <3>1. Array(of, t, n) \in news <=> of \in {"hats", "hatt"} /\ t \in Tree(role) /\ n = turn + 1
      BY ArrayEq DEF news
    <3>2. Array(of, t, n) \in frees <=> of = "hats" /\ t \in Tree(role) /\ n = turn
      BY <1>7, ArrayEq DEF frees
    <3>3. LastKept = turn /\ LastKept' = turn + 1
      BY <1>1 DEF LastKept, Growing
    <3>4. t \in Tree(role) => Level(t)' = Level(t)
      BY <1>5
    <3>5. CASE of = "hats"
      BY <1>1, <1>2, <3>1, <3>2, <3>5 DEF Live, Growing
    <3>6. CASE of = "hatt"
      BY <1>1, <1>2, <3>1, <3>2, <3>3, <3>6 DEF Live
    <3>7. CASE of \notin {"hats", "hatt"}
      <4>1. Live(of, t, n)' <=> Live(of, t, n)
        BY <1>1, <1>2, <3>4, <3>7 DEF Live, Growing, Building
      <4>2. QED
        BY <4>1, <3>1, <3>2, <3>7
    <3>8. QED
      BY <3>5, <3>6, <3>7
  <2>3. QED
    BY <2>1, <2>2 DEF Changes
<1>11. HeapIs' /\ SafeAccess'
  BY <1>1, <1>2, <1>8, <1>9, <1>10, HeapStep
<1>12. QED
  BY <1>4, <1>6, <1>11 DEF MInv

LEMMA CorrectKeeps ==
  ASSUME MInv, Correct
  PROVE  MInv'
<1> DEFINE Of(tr) == {<<pointer[tr].prevt, Pow2[turn - 1]>>, <<pointer[tr].nodes, Pow2[turn]>>,
                      <<pointer[tr].currt, Pow2[turn]>>, <<pointer[tr].hats, Pow2[turn]>>,
                      <<pointer[tr].hatt, Pow2[turn]>>, <<Array(Corrections, tr, 0), turn>>}
           uses == UNION {Of(tr) : tr \in Tree(role)}
<1>1. /\ pc = "correct" /\ pc' = "levels" /\ Does(uses, {}, {})
      /\ role' = role /\ height' = height /\ busy' = busy /\ done' = done /\ accepted' = accepted
      /\ pointer' = pointer /\ turn' = turn /\ expanded' = expanded
  BY DEF Correct, leafs, tree
<1> HIDE DEF uses
<1>2. /\ Phases /\ PointersAre /\ HeapIs /\ SafeAccess
      /\ role \in {"dealer", "server", "client"} /\ Tree(role) \subseteq Number
      /\ Tree(role) \subseteq Party(role)
      /\ Height \in Nat /\ turn \in Nat
      /\ role # "client" => turn \in 0 .. MaxHeight /\ turn <= Height
      /\ role # "client" => \A p \in Party(role) : height[p] = Height
  BY Basics
<1>3. role # "client" /\ turn # 0 /\ expanded = {}
  BY <1>1, <1>2 DEF Phases
<1>4. Phases'
  BY <1>1, <1>2, <1>3, LeafStays DEF Phases, Building, Growing, Finished
<1>5. \A tr \in Tree(role) : Level(tr) = turn /\ Level(tr)' = turn
  BY <1>1, <1>3 DEF Level
<1>6. PointersAre'
  BY <1>1, <1>2, <1>3, <1>5 DEF PointersAre
<1>7. ASSUME NEW u \in uses PROVE Safe(u[1], u[2])
  <2>1. PICK tr \in Tree(role) : u \in Of(tr)
    BY <1>7 DEF uses
  <2>2. turn \in 0 .. MaxHeight /\ turn - 1 \in 0 .. MaxHeight /\ turn - 1 \in Nat
    BY <1>2, <1>3, PowFacts
  <2>3. Pow2[turn] \in Nat /\ Pow2[turn - 1] \in Nat
    BY <2>2, PowFacts
  <2>4. /\ pointer[tr].hats = Array("hats", tr, turn)
        /\ pointer[tr].hatt = Array("hatt", tr, turn)
        /\ pointer[tr].nodes = Array("nodes", tr, turn)
        /\ pointer[tr].currt = Array("currt", tr, turn)
        /\ pointer[tr].prevt = Array("hatt", tr, turn - 1)
    BY <1>2, <1>3, <1>5, PointerFacts
  <2>5. LastKept = turn
    BY <1>1 DEF LastKept, Growing
  <2>6. /\ Live("hats", tr, turn) /\ Live("nodes", tr, turn) /\ Live("currt", tr, turn)
        /\ Live("hatt", tr, turn) /\ Live("hatt", tr, turn - 1)
    BY <1>1, <1>2, <1>3, <1>5, <2>2, <2>5 DEF Live, Building, Growing
  <2>7. Corrections \in {"key", "correction"} /\ (Corrections = "correction" => role = "dealer")
    BY DEF Corrections
  <2>8. Live(Corrections, tr, 0)
    BY <1>1, <2>7 DEF Live
  <2>9. tr \in Number /\ {"hats", "hatt", "nodes", "currt", "key", "correction"} \subseteq Names
    BY <1>2 DEF Names
  <2>10. \A of \in {"hats", "nodes", "currt", "hatt"} : Array(of, tr, turn) \in heap
    BY <2>6, <2>9, <1>2, InHeap
  <2>11. Array("hatt", tr, turn - 1) \in heap /\ Array(Corrections, tr, 0) \in heap
    BY <2>2, <2>6, <2>7, <2>8, <2>9, <1>2, InHeap
  <2>12. Length(Array(Corrections, tr, 0)) = Height
    BY <1>2, <1>3, <2>7, Lengths
  <2>13. /\ \A of \in {"hats", "nodes", "currt", "hatt"} : Length(Array(of, tr, turn)) = Pow2[turn]
         /\ Length(Array("hatt", tr, turn - 1)) = Pow2[turn - 1]
    BY Lengths
  <2>14. \/ \E of \in {"hats", "nodes", "currt", "hatt"} : u = <<Array(of, tr, turn), Pow2[turn]>>
         \/ u = <<Array("hatt", tr, turn - 1), Pow2[turn - 1]>>
         \/ u = <<Array(Corrections, tr, 0), turn>>
    BY <2>1, <2>4
  <2>15. QED
    BY <2>14, <2>3, <2>10, <2>11, <2>12, <2>13, <1>2, <1>3 DEF Safe
<1>8. Changes({}, {})
  <2>1. ASSUME NEW of \in Names, NEW t \in Number, NEW n \in Nat
        PROVE  Live(of, t, n)' <=> Live(of, t, n)
    <3>1. LastKept' = LastKept
      BY <1>1 DEF LastKept, Growing
    <3>2. t \in Tree(role) => Level(t)' = Level(t)
      BY <1>5
    <3>3. QED
      BY <1>1, <3>1, <3>2 DEF Live, Growing, Building
  <2>2. QED
    BY <2>1 DEF Changes
<1>9. HeapIs' /\ SafeAccess'
  BY <1>1, <1>2, <1>7, <1>8, HeapStep
<1>10. QED
  BY <1>4, <1>6, <1>9 DEF MInv

LEMMA EndLevelsKeeps ==
  ASSUME MInv, EndLevels
  PROVE  MInv'
<1> DEFINE news == IF role = "server" THEN {Out} ELSE {}
<1>1. /\ pc = "levels" /\ turn = Height /\ pc' = "leaves" /\ Does({}, {}, news)
      /\ role' = role /\ height' = height /\ busy' = busy /\ done' = done /\ accepted' = accepted
      /\ pointer' = pointer /\ turn' = turn /\ expanded' = expanded
  BY DEF EndLevels, leafs, tree
<1>2. /\ Phases /\ PointersAre /\ HeapIs /\ SafeAccess
      /\ role \in {"dealer", "server", "client"}
      /\ Height \in Nat /\ turn \in Nat
  BY Basics
<1>3. role # "client" /\ expanded = {}
  BY <1>1, <1>2 DEF Phases
<1>4. Phases'
  BY <1>1, <1>2, <1>3, LeafStays DEF Phases, Building, Growing, Finished
<1>5. \A tr \in Tree(role) : Level(tr)' = Level(tr)
  BY <1>1 DEF Level
<1>6. PointersAre'
  BY <1>1, <1>2, <1>5 DEF PointersAre
<1>7. Changes({}, news)
  <2>1. \A a \in news : \E of \in Names, t \in Number, n \in Nat : a = Array(of, t, n)
    BY DEF Names, Number, Out
  <2>2. ASSUME NEW of \in Names, NEW t \in Number, NEW n \in Nat
        PROVE  Live(of, t, n)' <=> Array(of, t, n) \in news \/ Live(of, t, n)
    <3>1. Array(of, t, n) \in news <=> role = "server" /\ of = "out" /\ t = 0 /\ n = 0
      BY ArrayEq DEF Out
    <3>2. LastKept' = LastKept
      BY <1>1 DEF LastKept, Growing
    <3>3. CASE of = "out"
      BY <1>1, <3>1, <3>3 DEF Live
    <3>4. CASE of # "out"
      <4>1. Live(of, t, n)' <=> Live(of, t, n)
        BY <1>1, <1>5, <3>2, <3>4 DEF Live, Growing, Building
      <4>2. QED
        BY <4>1, <3>1, <3>4
    <3>5. QED
      BY <3>3, <3>4
  <2>3. QED
    BY <2>1, <2>2 DEF Changes
<1> HIDE DEF news
<1>8. HeapIs' /\ SafeAccess'
  <2>2. \A a \in {} : a = Null \/ a \in heap
    OBVIOUS
  <2>3. QED
    BY <1>1, <1>2, <1>7, <2>2, HeapStep
<1>9. QED
  BY <1>4, <1>6, <1>8 DEF MInv

LEMMA LeafArrays ==
  ASSUME NEW of, NEW t, NEW n, NEW js
  PROVE  /\ \A j : Array(of, t, n) \in GammaInds(j) <=> of = "gamma_ind" /\ t \in Tree(role) /\ n = j
         /\ Array(of, t, n) \in Entries(js) <=> role = "server" /\ of = "entry" /\ t = 0 /\ n \in js
<1>1. ASSUME NEW j
      PROVE  Array(of, t, n) \in GammaInds(j) <=> of = "gamma_ind" /\ t \in Tree(role) /\ n = j
  BY ArrayEq DEF GammaInds
<1>2. Array(of, t, n) \in Entries(js) <=> role = "server" /\ of = "entry" /\ t = 0 /\ n \in js
  BY ArrayEq DEF Entries
<1>3. QED
  BY <1>1, <1>2

\* At a leaf, hats and hatt have an element for it, and so has out.
LEMMA LeafFacts ==
  ASSUME MInv, pc = "leaves", NEW j \in Leaf
  PROVE  /\ role \in {"dealer", "server"} /\ turn = Height /\ j \in Nat
         /\ \A tr \in Tree(role) : Safe(pointer[tr].hats, j + 1) /\ Safe(pointer[tr].hatt, j + 1)
         /\ role = "server" => Safe(Out, j + 1) /\ Safe(Gamma(0), 2)
         /\ role = "server" => (Safe(T, j + 1) <=> j < Pow2[InputSize])
<1>1. /\ Phases /\ PointersAre /\ HeapIs
      /\ role \in {"dealer", "server", "client"} /\ Tree(role) \subseteq Number
      /\ Height \in Nat /\ Height \in 0 .. MaxHeight /\ turn \in Nat
  BY Basics
<1>2. role # "client" /\ turn = Height
  BY <1>1 DEF Phases
<1>3. Pow2[Height] \in Nat
  BY <1>1, PowFacts
<1>4. j \in Nat /\ ~ j + 1 > Pow2[Height]
  BY <1>3 DEF Leaf
<1>5. ASSUME NEW tr \in Tree(role)
      PROVE  Safe(pointer[tr].hats, j + 1) /\ Safe(pointer[tr].hatt, j + 1)
  <2>1. pointer[tr].hats = Array("hats", tr, Height) /\ pointer[tr].hatt = Array("hatt", tr, Height)
    BY <1>1, <1>2, PointerFacts
  <2>2. Live("hats", tr, Height) /\ Live("hatt", tr, Height)
    BY <1>1, <1>2 DEF Live, LastKept, Growing
  <2>3. Array("hats", tr, Height) \in heap /\ Array("hatt", tr, Height) \in heap
    BY <2>2, <1>1, InHeap DEF Names
  <2>4. QED
    BY <2>1, <2>3, <1>4, Lengths DEF Safe
<1>6. ASSUME role = "server"
      PROVE  /\ Safe(Out, j + 1) /\ Safe(Gamma(0), 2)
             /\ Safe(T, j + 1) <=> j < Pow2[InputSize]
  <2>1. Live("out", 0, 0) /\ Live("gamma", 0, 0) /\ Live("t", 0, 0)
    BY <1>6 DEF Live
  <2>2. Array("out", 0, 0) \in heap /\ Array("gamma", 0, 0) \in heap /\ Array("t", 0, 0) \in heap
    BY <2>1, <1>1, InHeap DEF Names, Number
  <2>3. /\ Length(Array("out", 0, 0)) = Pow2[Height]
        /\ Length(Array("gamma", 0, 0)) = 2
        /\ Length(Array("t", 0, 0)) = Pow2[InputSize]
    BY Lengths
  <2>4. QED
    BY <1>4, <1>6, <2>2, <2>3, PowFacts DEF Safe, Gamma, Out, T
<1>7. QED
  BY <1>1, <1>2, <1>4, <1>5, <1>6

LEMMA BeginLeafKeeps ==
  ASSUME MInv, NEW j \in Leaf, BeginLeaf(j)
  PROVE  MInv'
<1> DEFINE uses == {<<pointer[tr].hats, j + 1>> : tr \in Tree(role)}
                   \cup (IF role = "server"
                         THEN {<<T, j + 1>>, <<Out, j + 1>>} ELSE {})
           news == GammaInds(j) \cup Entries({j})
<1>1. /\ pc = "leaves" /\ pc' = pc /\ j \notin busy \cup done /\ Does(uses, {}, news)
      /\ role' = role /\ height' = height /\ busy' = busy \cup {j} /\ done' = done /\ accepted' = accepted
      /\ pointer' = pointer /\ turn' = turn /\ expanded' = expanded
  BY DEF BeginLeaf, tree
<1>2. /\ Phases /\ PointersAre /\ HeapIs /\ SafeAccess
      /\ role \in {"dealer", "server", "client"} /\ Tree(role) \subseteq Number
  BY Basics
<1>3. role # "client" /\ j \in Nat
  BY <1>1, LeafFacts
<1>4. Phases'
  BY <1>1, <1>2, <1>3, LeafStays DEF Phases, Building, Growing, Finished
<1>5. \A tr \in Tree(role) : Level(tr)' = Level(tr)
  BY <1>1 DEF Level
<1>6. PointersAre'
  BY <1>1, <1>2, <1>5 DEF PointersAre
<1>7. Misused(uses, {}) = IF role = "server" /\ j >= Pow2[InputSize] THEN {T} ELSE {}
  <2>1. /\ \A tr \in Tree(role) : Safe(pointer[tr].hats, j + 1)
        /\ role = "server" => Safe(Out, j + 1) /\ (Safe(T, j + 1) <=> j < Pow2[InputSize])
    BY <1>1, LeafFacts
  <2>2. Misused(uses, {}) = {u[1] : u \in {x \in uses : x[2] > 0 /\ ~ Safe(x[1], x[2])}}
    BY DEF Misused, Safe
  <2>3. j + 1 > 0 /\ (j >= Pow2[InputSize] <=> ~ j < Pow2[InputSize])
    BY <1>3, PowFacts
  <2>4. CASE role = "server"
    <3>1. \A u \in uses : Safe(u[1], u[2]) \/ u = <<T, j + 1>>
      BY <2>1, <2>4
    <3>2. <<T, j + 1>> \in uses /\ (Safe(T, j + 1) <=> j < Pow2[InputSize])
      BY <2>1, <2>4
    <3> HIDE DEF uses
    <3>3. QED
      BY <3>1, <3>2, <2>2, <2>3, <2>4
  <2>5. CASE role # "server"
    BY <2>1, <2>2, <2>5
  <2>6. QED
    BY <2>4, <2>5
<1>8. Changes({}, news)
  <2>1. \A a \in news : \E of \in Names, t \in Number, n \in Nat : a = Array(of, t, n)
    <3>1. {"gamma_ind", "entry"} \subseteq Names /\ 0 \in Number
      BY DEF Names, Number
    <3>2. QED
      BY <3>1, <1>2, <1>3 DEF GammaInds, Entries
  <2>2. ASSUME NEW of \in Names, NEW t \in Number, NEW n \in Nat
        PROVE  Live(of, t, n)' <=> Array(of, t, n) \in news \/ Live(of, t, n)
    <3>1. Array(of, t, n) \in news <=>
            \/ of = "gamma_ind" /\ t \in Tree(role) /\ n = j
            \/ of = "entry" /\ role = "server" /\ t = 0 /\ n = j
      BY LeafArrays
    <3>2. LastKept' = LastKept
      BY <1>1 DEF LastKept
    <3> HIDE DEF news
    <3>3. CASE of \in {"gamma_ind", "entry"}
      BY <1>1, <3>1, <3>3 DEF Live
    <3>4. CASE of \notin {"gamma_ind", "entry"}
      <4>1. Live(of, t, n)' <=> Live(of, t, n)
        BY <1>1, <1>5, <3>2, <3>4 DEF Live
      <4>2. QED
        BY <4>1, <3>1, <3>4
    <3>5. QED
      BY <3>3, <3>4
  <2>3. QED
    BY <2>1, <2>2 DEF Changes
<1> HIDE DEF uses, news
<1>9. HeapIs'
  BY <1>1, <1>2, <1>8, HeapIsStep
<1>10. SafeAccess'
  <2>1. faults' = faults \cup (IF role = "server" /\ j >= Pow2[InputSize] THEN {T} ELSE {})
    BY <1>1, <1>7 DEF Does
  <2>2. Overrun' = Overrun /\ Height' = Height
    BY <1>1, OverrunStays
  <2>3. role = "server" /\ j >= Pow2[InputSize] => T \in Overrun
    <3>1. Height \in 0 .. MaxHeight /\ InputSize \in 0 .. MaxHeight /\ j < Pow2[Height]
          /\ Pow2[Height] \in Nat /\ Pow2[InputSize] \in Nat
      BY Basics, PowFacts DEF Leaf
    <3>2. j >= Pow2[InputSize] => Height > InputSize
      BY <3>1, <1>3, PowOrder
    <3>3. QED
      BY <3>1, <3>2, PowFacts DEF Overrun
  <2>4. faults' \subseteq Overrun'
    BY <1>2, <2>1, <2>2, <2>3 DEF SafeAccess
  <2>5. role = "server" => (T \in faults' <=> \E k \in busy' \cup done' : k >= Pow2[InputSize])
    BY <1>1, <1>2, <2>1 DEF SafeAccess
  <2>6. faults' \ {T} = faults \ {T} /\ faults \subseteq faults'
    BY <2>1
  <2>7. QED
    BY <1>1, <1>2, <2>2, <2>4, <2>5, <2>6 DEF SafeAccess, T
<1>11. QED
  BY <1>4, <1>6, <1>9, <1>10 DEF MInv

LEMMA EndLeafKeeps ==
  ASSUME MInv, NEW j \in Leaf, EndLeaf(j)
  PROVE  MInv'
<1> DEFINE uses == {<<pointer[tr].hatt, j + 1>> : tr \in Tree(role)}
                   \cup {<<a, 2>> : a \in GammaInds(j) \cup Entries({j})}
                   \cup (IF role = "server" THEN {<<Gamma(0), 2>>} ELSE {})
<1>1. /\ pc = "leaves" /\ pc' = pc /\ j \in busy /\ Does(uses, GammaInds(j), {})
      /\ role' = role /\ height' = height /\ busy' = busy \ {j} /\ done' = done \cup {j} /\ accepted' = accepted
      /\ pointer' = pointer /\ turn' = turn /\ expanded' = expanded
  BY DEF EndLeaf, tree
<1>2. /\ Phases /\ PointersAre /\ HeapIs /\ SafeAccess
      /\ role \in {"dealer", "server", "client"} /\ Tree(role) \subseteq Number
  BY Basics
<1>3. role # "client" /\ j \in Nat
  BY <1>1, LeafFacts
<1>4. Phases'
  BY <1>1, <1>2, <1>3, LeafStays DEF Phases, Building, Growing, Finished
<1>5. \A tr \in Tree(role) : Level(tr)' = Level(tr)
  BY <1>1 DEF Level
<1>6. PointersAre'
  BY <1>1, <1>2, <1>5 DEF PointersAre
<1>7. \A a \in GammaInds(j) \cup Entries({j}) : a \in heap /\ Length(a) = 2
  <2>1. /\ \A tr \in Tree(role) : Live("gamma_ind", tr, j)
        /\ role = "server" => Live("entry", 0, j)
    BY <1>1 DEF Live
  <2>2. /\ \A tr \in Tree(role) : Array("gamma_ind", tr, j) \in heap
        /\ role = "server" => Array("entry", 0, j) \in heap
    BY <2>1, <1>2, <1>3, InHeap DEF Names, Number
  <2>3. QED
    BY <2>2, Lengths DEF GammaInds, Entries
<1>8. \A u \in uses : Safe(u[1], u[2])
  <2>1. /\ \A tr \in Tree(role) : Safe(pointer[tr].hatt, j + 1)
        /\ role = "server" => Safe(Gamma(0), 2)
    BY <1>1, LeafFacts
  <2>2. \A a \in GammaInds(j) \cup Entries({j}) : Safe(a, 2)
    BY <1>7 DEF Safe
  <2>3. QED
    BY <2>1, <2>2
<1>9. Changes(GammaInds(j), {})
  <2>1. ASSUME NEW of \in Names, NEW t \in Number, NEW n \in Nat
        PROVE  Live(of, t, n)' <=> Live(of, t, n) /\ Array(of, t, n) \notin GammaInds(j)
    <3>1. Array(of, t, n) \in GammaInds(j) <=> of = "gamma_ind" /\ t \in Tree(role) /\ n = j
      BY LeafArrays
    <3>2. LastKept' = LastKept
      BY <1>1 DEF LastKept
    <3>3. CASE of \in {"gamma_ind", "entry"}
      BY <1>1, <3>1, <3>3 DEF Live
    <3>4. CASE of \notin {"gamma_ind", "entry"}
      <4>1. Live(of, t, n)' <=> Live(of, t, n)
        BY <1>1, <1>5, <3>2, <3>4 DEF Live
      <4>2. QED
        BY <4>1, <3>1, <3>4
    <3>5. QED
      BY <3>3, <3>4
  <2>2. QED
    BY <2>1 DEF Changes
<1> HIDE DEF uses
<1>10. HeapIs' /\ SafeAccess'
  <2>1. \A a \in GammaInds(j) : a = Null \/ a \in heap
    BY <1>7
  <2>2. QED
    BY <1>1, <1>2, <1>8, <1>9, <2>1, HeapStep
<1>11. QED
  BY <1>4, <1>6, <1>10 DEF MInv

LEMMA FreeHatsKeeps ==
  ASSUME MInv, FreeHats
  PROVE  MInv'
<1> DEFINE frees == {pointer[tr].hats : tr \in Tree(role)} \cup {pointer[tr].hatt : tr \in Tree(role)}
           news  == IF role = "dealer" THEN {Gamma(tr) : tr \in Tree(role)} ELSE {}
<1>1. /\ pc = "leaves" /\ pc' = "layers" /\ done = Leaf /\ Does({}, frees, news)
      /\ role' = role /\ height' = height /\ busy' = busy /\ done' = done /\ accepted' = accepted
      /\ pointer' = pointer /\ turn' = turn /\ expanded' = expanded
  BY DEF FreeHats, tree, leafs
<1>2. /\ Phases /\ PointersAre /\ HeapIs /\ SafeAccess
      /\ role \in {"dealer", "server", "client"} /\ Tree(role) \subseteq Number
      /\ turn \in Nat
  BY Basics
<1>3. role # "client" /\ busy = {}
  BY <1>1, <1>2 DEF Phases
<1>4. Phases'
  BY <1>1, <1>2, <1>3, LeafStays DEF Phases, Building, Growing, Finished
<1>5. \A tr \in Tree(role) : Level(tr)' = Level(tr)
  BY <1>1 DEF Level
<1>6. PointersAre'
  BY <1>1, <1>2, <1>5 DEF PointersAre
<1>7. \A tr \in Tree(role) : /\ pointer[tr].hats = Array("hats", tr, turn)
                             /\ pointer[tr].hatt = Array("hatt", tr, turn)
  BY <1>2, PointerFacts
<1>8. LastKept = turn /\ LastKept' = turn - 1
  BY <1>1 DEF LastKept, Growing
<1>9. \A a \in frees : a = Null \/ a \in heap
  <2>1. \A tr \in Tree(role) : Live("hats", tr, turn) /\ Live("hatt", tr, turn)
    BY <1>1, <1>2, <1>8 DEF Live, Growing
  <2>2. QED
    BY <2>1, <1>2, <1>7, InHeap DEF Names
<1>10. Changes(frees, news)
  <2>1. \A a \in news : \E of \in Names, t \in Number, n \in Nat : a = Array(of, t, n)
    BY <1>2 DEF Names, Gamma
  <2>2. ASSUME NEW of \in Names, NEW t \in Number, NEW n \in Nat
        PROVE  Live(of, t, n)' <=>
                 \/ Array(of, t, n) \in news
                 \/ Live(of, t, n) /\ Array(of, t, n) \notin frees
    <3>1. Array(of, t, n) \in news <=> of = "gamma" /\ role = "dealer" /\ t \in Tree(role) /\ n = 0
      BY ArrayEq DEF Gamma
    <3>2. Array(of, t, n) \in frees <=> of \in {"hats", "hatt"} /\ t \in Tree(role) /\ n = turn
      BY <1>7, ArrayEq
    <3> HIDE DEF news, frees
    <3>3. CASE of = "hatt"
      <4>1. n <= turn - 1 <=> n <= turn /\ n # turn
        BY <1>2
      <4>2. QED
        BY <1>1, <1>2, <1>8, <3>1, <3>2, <3>3, <4>1 DEF Live
    <3>4. CASE of = "hats"
      BY <1>1, <3>1, <3>2, <3>4 DEF Live, Growing
    <3>5. CASE of = "gamma"
      BY <1>1, <3>1, <3>2, <3>5 DEF Live, Growing
    <3>6. CASE of \notin {"hatt", "hats", "gamma"}
      <4>1. Live(of, t, n)' <=> Live(of, t, n)
        BY <1>1, <1>5, <3>6 DEF Live, Growing, Building
      <4>2. QED
        BY <4>1, <3>1, <3>2, <3>6
    <3>7. QED
      BY <3>3, <3>4, <3>5, <3>6
  <2>3. QED
    BY <2>1, <2>2 DEF Changes
<1> HIDE DEF frees, news
<1>11. HeapIs' /\ SafeAccess'
  <2>2. QED
    BY <1>1, <1>2, <1>9, <1>10, HeapStep
<1>12. QED
  BY <1>4, <1>6, <1>11 DEF MInv

LEMMA FreeLayersKeeps ==
  ASSUME MInv, FreeLayers
  PROVE  MInv'
<1> DEFINE Of(tr) == {pointer[tr].nodes, pointer[tr].prevt, pointer[tr].currt, Layer(tr)}
           uses   == {<<Layer(tr), 1>> : tr \in Tree(role)}
           frees  == UNION {Of(tr) : tr \in Tree(role)}
<1>1. /\ pc = "layers" /\ pc' = "send" /\ Does(uses, frees, {})
      /\ role' = role /\ height' = height /\ busy' = busy /\ done' = done /\ accepted' = accepted
      /\ pointer' = pointer /\ turn' = turn /\ expanded' = expanded
  BY DEF FreeLayers, tree, leafs
<1>2. /\ Phases /\ PointersAre /\ HeapIs /\ SafeAccess
      /\ role \in {"dealer", "server", "client"} /\ Tree(role) \subseteq Number
      /\ turn \in Nat
  BY Basics
<1>3. role # "client" /\ busy = {} /\ expanded = {}
  BY <1>1, <1>2 DEF Phases
<1>4. Phases'
  BY <1>1, <1>2, <1>3, LeafStays DEF Phases, Building, Growing, Finished
<1>5. \A tr \in Tree(role) : Level(tr) = turn /\ Level(tr)' = turn
  BY <1>1, <1>3 DEF Level
<1>6. PointersAre'
  BY <1>1, <1>2, <1>5 DEF PointersAre
<1>7. \A tr \in Tree(role) :
        /\ pointer[tr].nodes = IF turn = 0 THEN Null ELSE Array("nodes", tr, turn)
        /\ pointer[tr].currt = IF turn = 0 THEN Null ELSE Array("currt", tr, turn)
        /\ pointer[tr].prevt = IF turn = 0 THEN Null ELSE Array("hatt", tr, turn - 1)
  BY <1>2, <1>5, PointerFacts
<1>8. LastKept = turn - 1 /\ LastKept' = turn - 2
  BY <1>1 DEF LastKept, Growing
<1>9. ASSUME NEW tr \in Tree(role)
      PROVE  /\ Layer(tr) \in heap /\ Length(Layer(tr)) = 1
             /\ \A a \in Of(tr) : a = Null \/ a \in heap
  <2>1. /\ Live("layer", tr, 0)
        /\ turn # 0 => Live("nodes", tr, turn) /\ Live("currt", tr, turn) /\ Live("hatt", tr, turn - 1)
    BY <1>1, <1>2, <1>5, <1>8 DEF Live, Building
  <2>2. tr \in Number /\ {"layer", "nodes", "currt", "hatt"} \subseteq Names
        /\ (turn # 0 => turn - 1 \in Nat)
    BY <1>2 DEF Names
  <2>3. /\ Array("layer", tr, 0) \in heap
        /\ turn # 0 => /\ Array("nodes", tr, turn) \in heap /\ Array("currt", tr, turn) \in heap
                       /\ Array("hatt", tr, turn - 1) \in heap
    BY <2>1, <2>2, <1>2, InHeap
  <2>4. QED
    BY <2>3, <1>7, Lengths DEF Layer
<1>10. \A u \in uses : Safe(u[1], u[2])
  BY <1>9 DEF Safe
<1>11. \A a \in frees : a = Null \/ a \in heap
  BY <1>9
<1>12. Changes(frees, {})
  <2>1. ASSUME NEW of \in Names, NEW t \in Number, NEW n \in Nat
        PROVE  Live(of, t, n)' <=> Live(of, t, n) /\ Array(of, t, n) \notin frees
    <3>1. ASSUME NEW tr \in Tree(role)
          PROVE  Array(of, t, n) \in Of(tr) <=>
                   /\ t = tr
                   /\ \/ of = "layer" /\ n = 0
                      \/ of \in {"nodes", "currt"} /\ n = turn /\ turn # 0
                      \/ of = "hatt" /\ n = turn - 1 /\ turn # 0
      <4>1. CASE turn = 0
        BY <4>1, <1>7, <2>1, <3>1, ArrayEq, NullIsNone DEF Layer
      <4>2. CASE turn # 0
        BY <4>2, <1>7, <3>1, ArrayEq DEF Layer
      <4>3. QED
        BY <4>1, <4>2
    <3> HIDE DEF Of
    <3>2. Array(of, t, n) \in frees <=>
            /\ t \in Tree(role)
            /\ \/ of = "layer" /\ n = 0
               \/ of \in {"nodes", "currt"} /\ n = turn /\ turn # 0
               \/ of = "hatt" /\ n = turn - 1 /\ turn # 0
      BY <3>1
    <3> HIDE DEF frees
    <3>3. CASE of = "hatt"
      <4>1. n <= turn - 2 <=> n <= turn - 1 /\ ~ (n = turn - 1 /\ turn # 0)
        BY <1>2
      <4>2. QED
        BY <1>1, <1>2, <1>8, <3>2, <3>3, <4>1 DEF Live
    <3>4. CASE of \in {"nodes", "currt"}
      BY <1>1, <1>5, <3>2, <3>4 DEF Live, Building, Growing
    <3>5. CASE of = "layer"
      BY <1>1, <3>2, <3>5 DEF Live, Building, Growing
    <3>6. CASE of \notin {"hatt", "nodes", "currt", "layer"}
      <4>1. Live(of, t, n)' <=> Live(of, t, n)
        BY <1>1, <3>6 DEF Live, Growing
      <4>2. QED
        BY <4>1, <3>2, <3>6
    <3>7. QED
      BY <3>3, <3>4, <3>5, <3>6
  <2>2. QED
    BY <2>1 DEF Changes
<1> HIDE DEF frees, uses
<1>13. HeapIs' /\ SafeAccess'
  BY <1>1, <1>2, <1>10, <1>11, <1>12, HeapStep
<1>14. QED
  BY <1>4, <1>6, <1>13 DEF MInv

\* In main(), until the packs are freed, nothing else of the heap changes.
LEMMA MainKeepsLive ==
  ASSUME MInv, role' = role, busy' = busy, done' = done, turn' = turn, expanded' = expanded,
         accepted' = accepted,
         \/ pc \in {"send", "accept"} /\ pc' \in {"accept", "free"}
         \/ pc = "send" /\ pc' = "end" /\ role = "dealer"
         \/ pc = "check" /\ pc' = "free"
  PROVE  \A of \in Names, t \in Number, n \in Nat : Live(of, t, n)' <=> Live(of, t, n)
<1>1. \A t : Level(t)' = Level(t)
  BY DEF Level
<1>2. pc = "check" => role = "client" /\ Tree(role) = {}
  BY RolesAre DEF MInv, Phases, Building, Growing, Finished
<1>3. pc # "check" => LastKept' = LastKept
  BY DEF LastKept, Growing
<1>4. QED
  BY <1>1, <1>2, <1>3 DEF Live, Building, Growing

LEMMA SendResultsKeeps ==
  ASSUME MInv, SendResults
  PROVE  MInv'
<1> DEFINE uses == {<<Pack(tr), Height>> : tr \in Tree(role)}
                   \cup (IF role = "dealer"
                         THEN {<<Key(tr), Height>> : tr \in Tree(role)}
                              \cup {<<Gamma(tr), 2>> : tr \in Tree(role)}
                         ELSE {})
<1>1. /\ pc = "send" /\ pc' = (IF role = "dealer" THEN "end" ELSE "accept") /\ Does(uses, {}, {})
      /\ role' = role /\ height' = height /\ busy' = busy /\ done' = done /\ accepted' = accepted
      /\ pointer' = pointer /\ turn' = turn /\ expanded' = expanded
  BY DEF SendResults, tree, leafs
<1>2. /\ Phases /\ PointersAre /\ HeapIs /\ SafeAccess
      /\ role \in {"dealer", "server", "client"} /\ Tree(role) \subseteq Number
      /\ Tree(role) \subseteq Party(role) /\ Height \in Nat
      /\ role # "client" => \A p \in Party(role) : height[p] = Height
  BY Basics
<1>3. role # "client"
  BY <1>1, <1>2 DEF Phases
<1>4. Phases'
  BY <1>1, <1>2, <1>3, LeafStays DEF Phases, Building, Growing, Finished
<1>5. PointersAre'
  BY <1>1, <1>2 DEF PointersAre, Level
<1>6. ASSUME NEW tr \in Tree(role)
      PROVE  /\ Safe(Pack(tr), Height)
             /\ role = "dealer" => Safe(Key(tr), Height) /\ Safe(Gamma(tr), 2)
  <2>1. /\ Live("pack", tr, 0) /\ Live("key", tr, 0)
        /\ role = "dealer" => Live("gamma", tr, 0)
    BY <1>1, <1>2 DEF Live, Growing
  <2>2. /\ Pack(tr) \in heap /\ Key(tr) \in heap
        /\ role = "dealer" => Gamma(tr) \in heap
    BY <2>1, <1>2, InHeap DEF Names, Pack, Key, Gamma
  <2>3. Length(Pack(tr)) = Height /\ Length(Key(tr)) = Height /\ Length(Gamma(tr)) = 2
    BY <1>2, <1>3, Lengths DEF Pack, Key, Gamma
  <2>4. QED
    BY <2>2, <2>3, <1>2 DEF Safe
<1>7. \A u \in uses : Safe(u[1], u[2])
  BY <1>6
<1>8. Changes({}, {})
  BY <1>1, <1>3, MainKeepsLive DEF Changes
<1> HIDE DEF uses
<1>9. HeapIs' /\ SafeAccess'
  BY <1>1, <1>2, <1>7, <1>8, HeapStep
<1>10. QED
  BY <1>4, <1>5, <1>9 DEF MInv

\* Where an answer may go beyond an array, and where it must.
LEMMA AnswerMisuse ==
  ASSUME MInv, role = "server", pc = "accept", NEW rotated \in 0 .. Pow2[Height] - 1,
         NEW uses, uses = {<<Out, Pow2[InputSize]>>}
                            \cup {<<a, 2>> : a \in Entries(0 .. Pow2[InputSize] - 1)}
                            \cup {<<Database, Index(i, rotated) + 1>> : i \in 0 .. Pow2[InputSize] - 1}
  PROVE  /\ Misused(uses, {}) \subseteq Overrun /\ T \notin Misused(uses, {})
         /\ Height < InputSize => Overrun \subseteq Misused(uses, {})
<1> DEFINE size == Pow2[InputSize]
           leaves == Pow2[Height]
<1>1. /\ Phases /\ HeapIs /\ done = Leaf /\ busy = {}
      /\ Height \in 0 .. MaxHeight /\ InputSize \in 0 .. MaxHeight
      /\ Height \in Int /\ InputSize \in Int
  <2>1. Phases /\ HeapIs /\ Height \in 0 .. MaxHeight
    BY Basics
  <2>2. done = Leaf /\ busy = {}
    BY <2>1 DEF Phases, Finished
  <2>3. QED
    BY <2>1, <2>2, PowFacts
<1>2. size \in Nat \ {0} /\ leaves \in Nat \ {0}
  BY <1>1, PowFacts
<1>3. /\ Height = InputSize => leaves = size
      /\ Height > InputSize => size < leaves
      /\ Height < InputSize => leaves < size
  BY <1>1, PowOrder
<1>4. Misused(uses, {}) = {u[1] : u \in {x \in uses : x[2] > 0 /\ ~ Safe(x[1], x[2])}}
  BY DEF Misused, Safe
<1> DEFINE Bad(a, n) == <<a, n>> \in uses /\ n > 0 /\ ~ Safe(a, n)
<1>18. \A a, n : Bad(a, n) => a \in Misused(uses, {})
  <2>1. ASSUME NEW a, NEW n, Bad(a, n)
        PROVE  a \in Misused(uses, {})
    <3> DEFINE u == <<a, n>>
    <3>1. u \in uses /\ u[1] = a /\ u[2] = n /\ u[2] > 0 /\ ~ Safe(u[1], u[2])
      BY <2>1
    <3> HIDE DEF u
    <3>2. QED
      BY <3>1, <1>4
  <2>2. QED
    BY <2>1
<1>5. /\ Live("out", 0, 0) /\ Live("database", 0, 0)
      /\ \A n \in Nat : Live("entry", 0, n) <=> n < leaves
  <2>1. \A n \in Nat : n \in Leaf <=> n < leaves
    BY <1>2 DEF Leaf
  <2>2. QED
    BY <1>1, <2>1 DEF Live
<1>6. /\ Array("out", 0, 0) \in heap /\ Array("database", 0, 0) \in heap
      /\ \A n \in Nat : Array("entry", 0, n) \in heap <=> n < leaves
  BY <1>1, <1>5 DEF HeapIs, Names, Number
<1>7. Safe(Out, size) <=> size <= leaves
  BY <1>2, <1>6, Lengths DEF Safe, Out
<1>8. \A n \in Nat : Safe(Array("entry", 0, n), 2) <=> n < leaves
  BY <1>6, Lengths DEF Safe
<1>9. \A i \in 0 .. size - 1 : Index(i, rotated) \in 0 .. leaves - 1
  BY <1>2 DEF Index
<1>10. leaves <= size => \A i \in 0 .. size - 1 : Safe(Database, Index(i, rotated) + 1)
  BY <1>2, <1>6, <1>9, Lengths DEF Safe, Database
<1>11. Entries(0 .. size - 1) = {Array("entry", 0, n) : n \in 0 .. size - 1}
       /\ Entries(leaves .. size - 1) = {Array("entry", 0, n) : n \in leaves .. size - 1}
  BY DEF Entries
<1>12. \A u \in uses : \/ u = <<Out, size>>
                       \/ \E n \in 0 .. size - 1 : u = <<Array("entry", 0, n), 2>>
                       \/ \E i \in 0 .. size - 1 : u = <<Database, Index(i, rotated) + 1>>
  BY <1>11
<1>13. /\ <<Out, size>> \in uses
       /\ \A n \in 0 .. size - 1 : <<Array("entry", 0, n), 2>> \in uses
  BY <1>11
<1> HIDE DEF size, leaves
<1>14. T \notin Misused(uses, {})
  <2>1. T # Out /\ T # Database /\ \A n : T # Array("entry", 0, n)
    BY ArrayEq DEF T, Out, Database
  <2>2. QED
    BY <2>1, <1>4, <1>12
<1>15. Misused(uses, {}) \subseteq Overrun
  <2>1. SUFFICES ASSUME NEW u \in uses, ~ Safe(u[1], u[2])
                 PROVE  u[1] \in Overrun
    BY <1>4
  <2>2. CASE u = <<Out, size>>
    <3>1. leaves < size /\ Height < InputSize
      BY <2>1, <2>2, <1>1, <1>2, <1>3, <1>7
    <3>2. QED
      BY <2>2, <3>1, <1>1 DEF Overrun
  <2>3. ASSUME NEW n \in 0 .. size - 1, u = <<Array("entry", 0, n), 2>>
        PROVE  u[1] \in Overrun
    <3>1. n \in leaves .. size - 1 /\ Height < InputSize
      BY <2>1, <2>3, <1>1, <1>2, <1>3, <1>8
    <3>2. Array("entry", 0, n) \in Entries(leaves .. size - 1)
      BY <3>1, <1>11
    <3>3. QED
      BY <2>3, <3>1, <3>2, <1>1 DEF Overrun, size, leaves
  <2>4. ASSUME NEW i \in 0 .. size - 1, u = <<Database, Index(i, rotated) + 1>>
        PROVE  u[1] \in Overrun
    <3>1. size < leaves /\ Height > InputSize
      BY <2>1, <2>4, <1>1, <1>2, <1>3, <1>10
    <3>2. QED
      BY <2>4, <3>1, <1>1 DEF Overrun
  <2>5. QED
    BY <2>2, <2>3, <2>4, <1>12
<1>16. ASSUME Height < InputSize PROVE Overrun \subseteq Misused(uses, {})
  <2>1. Overrun = {Out} \cup Entries(leaves .. size - 1)
    BY <1>1, <1>16 DEF Overrun, size, leaves
  <2>2. leaves < size
    BY <1>3, <1>16
  <2>3. Out \in Misused(uses, {})
    <3>1. Bad(Out, size)
      BY <1>2, <1>7, <1>13, <2>2
    <3>2. QED
      BY <3>1, <1>18
  <2>4. ASSUME NEW n \in leaves .. size - 1
        PROVE  Array("entry", 0, n) \in Misused(uses, {})
    <3>1. n \in 0 .. size - 1 /\ n \in Nat /\ ~ n < leaves
      BY <1>2, <2>4
    <3>2. ~ Safe(Array("entry", 0, n), 2) /\ <<Array("entry", 0, n), 2>> \in uses
      BY <3>1, <1>8, <1>13
    <3>3. Bad(Array("entry", 0, n), 2)
      BY <3>2
    <3>4. QED
      BY <3>3, <1>18
  <2>5. QED
    BY <2>1, <2>3, <2>4, <1>11
<1>17. QED
  BY <1>14, <1>15, <1>16

LEMMA AnswersAre ==
  ASSUME NEW r \in Role
  PROVE  \A of, tr, n : Array(of, tr, n) \in Answers(r) <=>
           \/ of \in {"o", "hato"} /\ r = "server" /\ tr = 0 /\ n = 0
           \/ of \in {"o", "hato"} /\ r = "client" /\ tr \in {0, 1} /\ n = 0
           \/ of = "dbout" /\ r = "client" /\ tr = 0 /\ n = 0
<1>1. /\ Answers("dealer") = {}
      /\ Answers("server") = {Array(of, 0, 0) : of \in {"o", "hato"}}
      /\ Answers("client") = {Array(of, p, 0) : of \in {"o", "hato"}, p \in {0, 1}}
                             \cup {Array("dbout", 0, 0)}
  BY DEF Answers
<1>2. TAKE of, tr, n
<1>3. CASE r = "dealer"
  BY <1>1, <1>3
<1>4. CASE r = "server"
  BY <1>1, <1>4, ArrayEq
<1>5. CASE r = "client"
  <2>1. Array(of, tr, n) \in {Array(o, p, 0) : o \in {"o", "hato"}, p \in {0, 1}}
          <=> of \in {"o", "hato"} /\ tr \in {0, 1} /\ n = 0
    BY ArrayEq
  <2>2. Array(of, tr, n) = Array("dbout", 0, 0) <=> of = "dbout" /\ tr = 0 /\ n = 0
    BY ArrayEq
  <2>3. QED
    BY <1>1, <1>5, <2>1, <2>2
<1>6. QED
  BY <1>3, <1>4, <1>5 DEF Role

LEMMA AnswersNamed ==
  ASSUME NEW r \in Role
  PROVE  \A a \in Answers(r) : \E of \in Names, tr \in Number, n \in Nat : a = Array(of, tr, n)
<1>1. {"o", "hato", "dbout"} \subseteq Names /\ {0, 1} \subseteq Number /\ 0 \in Nat
  BY DEF Names, Number
<1>2. /\ Answers("dealer") = {}
      /\ Answers("server") = {Array(of, 0, 0) : of \in {"o", "hato"}}
      /\ Answers("client") = {Array(of, p, 0) : of \in {"o", "hato"}, p \in {0, 1}}
                             \cup {Array("dbout", 0, 0)}
  BY DEF Answers
<1>3. QED
  BY <1>1, <1>2 DEF Role

\* The answers are what is new when a program accepts.
LEMMA AnswersAppear ==
  ASSUME MInv, ~ accepted, accepted' = TRUE, role' = role, busy' = busy, done' = done,
         turn' = turn, expanded' = expanded, pc' = "free",
         \/ pc = "accept" /\ role = "server"
         \/ pc = "check" /\ role = "client"
  PROVE  Changes({}, Answers(role))
<1>1. role \in Role
  BY DEF Role
<1>2. ASSUME NEW of \in Names, NEW t \in Number, NEW n \in Nat
      PROVE  Live(of, t, n)' <=> Array(of, t, n) \in Answers(role) \/ Live(of, t, n)
  <2>1. Array(of, t, n) \in Answers(role) <=>
           \/ of \in {"o", "hato"} /\ role = "server" /\ t = 0 /\ n = 0
           \/ of \in {"o", "hato"} /\ role = "client" /\ t \in {0, 1} /\ n = 0
           \/ of = "dbout" /\ role = "client" /\ t = 0 /\ n = 0
    BY <1>1, AnswersAre
  <2>2. Level(t)' = Level(t)
    BY DEF Level
  <2>3. role = "client" => Tree(role) = {}
    BY RolesAre
  <2>4. pc # "check" => LastKept' = LastKept
    BY DEF LastKept, Growing
  <2>5. CASE of \in {"o", "hato", "dbout"}
    BY <2>1, <2>5 DEF Live
  <2>6. CASE of \notin {"o", "hato", "dbout"}
    <3>1. Live(of, t, n)' <=> Live(of, t, n)
      BY <2>2, <2>3, <2>4, <2>6 DEF Live, Building, Growing
    <3>2. QED
      BY <2>1, <2>6, <3>1
  <2>7. QED
    BY <2>5, <2>6
<1>3. QED
  BY <1>1, <1>2, AnswersNamed DEF Changes

LEMMA AnswerKeeps ==
  ASSUME MInv, Answer
  PROVE  MInv'
<1>1. /\ pc = "accept" /\ pc' = "free" /\ accepted' = TRUE
      /\ role' = role /\ height' = height /\ busy' = busy /\ done' = done
      /\ pointer' = pointer /\ turn' = turn /\ expanded' = expanded
  BY DEF Answer, tree, leafs
<1>2. PICK rotated \in 0 .. Pow2[Height] - 1 :
        Does({<<Out, Pow2[InputSize]>>}
               \cup {<<a, 2>> : a \in Entries(0 .. Pow2[InputSize] - 1)}
               \cup {<<Database, Index(i, rotated) + 1>> : i \in 0 .. Pow2[InputSize] - 1},
             {}, Answers(role))
  BY DEF Answer
<1> DEFINE uses == {<<Out, Pow2[InputSize]>>}
                     \cup {<<a, 2>> : a \in Entries(0 .. Pow2[InputSize] - 1)}
                     \cup {<<Database, Index(i, rotated) + 1>> : i \in 0 .. Pow2[InputSize] - 1}
<1>3. /\ Phases /\ PointersAre /\ HeapIs /\ SafeAccess
      /\ role \in {"dealer", "server", "client"}
  BY Basics
<1>4. role = "server" /\ done = Leaf /\ ~ accepted
  BY <1>1, <1>3 DEF Phases, Finished
<1>5. Phases'
  BY <1>1, <1>3, <1>4, LeafStays DEF Phases, Building, Growing, Finished
<1>6. PointersAre'
  BY <1>1, <1>3 DEF PointersAre, Level
<1>7. Does(uses, {}, Answers(role))
  BY <1>2
<1>8. /\ Misused(uses, {}) \subseteq Overrun /\ T \notin Misused(uses, {})
      /\ Height < InputSize => Overrun \subseteq Misused(uses, {})
  BY <1>1, <1>4, AnswerMisuse
<1> HIDE DEF uses
<1>9. Changes({}, Answers(role))
  BY <1>1, <1>4, AnswersAppear
<1>10. HeapIs'
  BY <1>3, <1>7, <1>9, HeapIsStep
<1>11. SafeAccess'
  <2>1. faults' = faults \cup Misused(uses, {})
    BY <1>7 DEF Does
  <2>2. Overrun' = Overrun /\ Height' = Height
    BY <1>1, OverrunStays
  <2>3. T' = T
    BY DEF T, Array
  <2>4. QED
    BY <1>1, <1>3, <1>8, <2>1, <2>2, <2>3 DEF SafeAccess
<1>12. QED
  BY <1>5, <1>6, <1>10, <1>11 DEF MInv

LEMMA RejectedKeeps ==
  ASSUME MInv, Rejected
  PROVE  MInv'
<1>1. /\ pc = "accept" /\ pc' = "free" /\ heap' = heap /\ faults' = faults
      /\ role' = role /\ height' = height /\ busy' = busy /\ done' = done /\ accepted' = accepted
      /\ pointer' = pointer /\ turn' = turn /\ expanded' = expanded
  BY DEF Rejected, tree, leafs
<1>2. /\ Phases /\ PointersAre /\ HeapIs /\ SafeAccess
      /\ role \in {"dealer", "server", "client"}
  BY Basics
<1>3. role = "server"
  BY <1>1, <1>2 DEF Phases
<1>4. Phases'
  BY <1>1, <1>2, <1>3, LeafStays DEF Phases, Building, Growing, Finished
<1>5. PointersAre'
  BY <1>1, <1>2 DEF PointersAre, Level
<1>6. HeapIs'
  BY <1>1, <1>2, MainKeepsLive DEF HeapIs
<1>7. SafeAccess'
  <2>1. Overrun' = Overrun /\ Height' = Height
    BY <1>1, OverrunStays
  <2>2. QED
    BY <1>1, <1>2, <2>1 DEF SafeAccess, T
<1>8. QED
  BY <1>4, <1>5, <1>6, <1>7 DEF MInv

LEMMA CheckXorKeeps ==
  ASSUME MInv, CheckXor
  PROVE  MInv'
<1> DEFINE same == height[0] = height[1] /\ height[1] = height[2]
           uses == IF same THEN {<<Pack(p), height[1]>> : p \in Party(role)} ELSE {}
           news == IF accepted' THEN Answers(role) ELSE {}
<1>1. /\ pc = "check" /\ pc' = "free" /\ accepted' \in BOOLEAN
      /\ Does(uses, {}, news)
      /\ role' = role /\ height' = height /\ busy' = busy /\ done' = done
      /\ pointer' = pointer /\ turn' = turn /\ expanded' = expanded
  BY DEF CheckXor, tree, leafs
<1>2. /\ Phases /\ PointersAre /\ HeapIs /\ SafeAccess
      /\ role \in {"dealer", "server", "client"}
  BY Basics
<1>3. role = "client" /\ Party(role) = {0, 1, 2} /\ ~ accepted
  BY <1>1, <1>2, RolesAre DEF Phases, Building, Growing, Finished
<1>4. Phases'
  BY <1>1, <1>2, <1>3, LeafStays DEF Phases
<1>5. PointersAre'
  BY <1>1, <1>2 DEF PointersAre, Level
<1>6. \A u \in uses : Safe(u[1], u[2])
  <2>1. ASSUME same, NEW p \in Party(role) PROVE Safe(Pack(p), height[1])
    <3>1. p \in Number /\ "pack" \in Names
      BY <1>3, <2>1 DEF Number, Names
    <3>2. Live("pack", p, 0)
      BY <1>1, <2>1 DEF Live
    <3>3. Pack(p) \in heap
      BY <3>1, <3>2, <1>2, InHeap DEF Pack
    <3>4. Length(Pack(p)) = height[p]
      BY Lengths DEF Pack
    <3>5. height[p] = height[1] /\ height[p] \in Nat
      BY <1>2, <1>3, <2>1, PowFacts DEF Phases
    <3>6. QED
      BY <3>3, <3>4, <3>5 DEF Safe
  <2>2. QED
    BY <2>1
<1>7. Changes({}, news)
  <2>1. CASE accepted'
    BY <2>1, <1>1, <1>3, AnswersAppear
  <2>2. CASE ~ accepted'
    <3>1. accepted' = accepted
      BY <2>2, <1>1, <1>2, <1>3 DEF Phases
    <3>2. \A of \in Names, t \in Number, n \in Nat : Live(of, t, n)' <=> Live(of, t, n)
      BY <1>1, <3>1, MainKeepsLive
    <3>3. QED
      BY <2>2, <3>2 DEF Changes
  <2>3. QED
    BY <2>1, <2>2
<1> HIDE DEF uses, news
<1>8. HeapIs' /\ SafeAccess'
  BY <1>1, <1>2, <1>3, <1>6, <1>7, HeapStep
<1>9. QED
  BY <1>4, <1>5, <1>8 DEF MInv

LEMMA FreeResultsKeeps ==
  ASSUME MInv, FreeResults
  PROVE  MInv'
<1> DEFINE frees == {Pack(p) : p \in Party(role)}
                    \cup (IF role = "server" THEN {Key(0), Gamma(0), Database} ELSE {})
<1>1. /\ pc = "free" /\ pc' = "end" /\ Does({}, frees, {})
      /\ role' = role /\ height' = height /\ busy' = busy /\ done' = done /\ accepted' = accepted
      /\ pointer' = pointer /\ turn' = turn /\ expanded' = expanded
  BY DEF FreeResults, tree, leafs
<1>2. /\ Phases /\ PointersAre /\ HeapIs /\ SafeAccess
      /\ role \in {"dealer", "server", "client"} /\ Party(role) \subseteq Number
  BY Basics
<1>3. role # "dealer" /\ (role = "server" => Tree(role) = {0}) /\ (role = "client" => Tree(role) = {})
  BY <1>1, <1>2, RolesAre DEF Phases
<1>4. Phases'
  BY <1>1, <1>2, <1>3, LeafStays DEF Phases, Building, Growing, Finished
<1>5. PointersAre'
  BY <1>1, <1>2 DEF PointersAre, Level
<1>6. \A a \in frees : a = Null \/ a \in heap
  <2>1. /\ \A p \in Party(role) : Live("pack", p, 0)
        /\ role = "server" => Live("key", 0, 0) /\ Live("gamma", 0, 0) /\ Live("database", 0, 0)
    BY <1>1, <1>3 DEF Live
  <2>2. /\ \A p \in Party(role) : Array("pack", p, 0) \in heap
        /\ role = "server" => /\ Array("key", 0, 0) \in heap /\ Array("gamma", 0, 0) \in heap
                              /\ Array("database", 0, 0) \in heap
    BY <2>1, <1>2, InHeap DEF Names, Number
  <2>3. QED
    BY <2>2 DEF Pack, Key, Gamma, Database
<1>7. Changes(frees, {})
  <2>1. ASSUME NEW of \in Names, NEW t \in Number, NEW n \in Nat
        PROVE  Live(of, t, n)' <=> Live(of, t, n) /\ Array(of, t, n) \notin frees
    <3>1. Array(of, t, n) \in {Pack(p) : p \in Party(role)} <=> of = "pack" /\ t \in Party(role) /\ n = 0
      BY ArrayEq DEF Pack
    <3>2. Array(of, t, n) \in {Key(0), Gamma(0), Database}
            <=> of \in {"key", "gamma", "database"} /\ t = 0 /\ n = 0
      BY ArrayEq DEF Key, Gamma, Database
    <3>3. Array(of, t, n) \in frees <=>
            \/ of = "pack" /\ t \in Party(role) /\ n = 0
            \/ role = "server" /\ of \in {"key", "gamma", "database"} /\ t = 0 /\ n = 0
      BY <3>1, <3>2
    <3> HIDE DEF frees
    <3>4. LastKept' = LastKept /\ Level(t)' = Level(t)
      BY <1>1 DEF LastKept, Growing, Level
    <3>5. CASE of \in {"pack", "key", "gamma", "database"}
      BY <1>1, <1>3, <3>3, <3>5 DEF Live
    <3>6. CASE of \notin {"pack", "key", "gamma", "database"}
      <4>1. Live(of, t, n)' <=> Live(of, t, n)
        BY <1>1, <3>4, <3>6 DEF Live, Growing, Building
      <4>2. QED
        BY <4>1, <3>3, <3>6
    <3>7. QED
      BY <3>5, <3>6
  <2>2. QED
    BY <2>1 DEF Changes
<1> HIDE DEF frees
<1>8. HeapIs' /\ SafeAccess'
  <2>2. QED
    BY <1>1, <1>2, <1>6, <1>7, HeapStep
<1>9. QED
  BY <1>4, <1>5, <1>8 DEF MInv
-----------------------------------------------------------------------------
(***************************************************************************)
(* The invariant holds.                                                    *)
(***************************************************************************)
LEMMA StepHolds ==
  ASSUME MInv, [Next]_vars
  PROVE  MInv'
<1>1. CASE UNCHANGED vars
  <2>1. /\ role' = role /\ height' = height /\ heap' = heap /\ pointer' = pointer /\ turn' = turn
        /\ expanded' = expanded /\ busy' = busy /\ done' = done /\ pc' = pc /\ faults' = faults
        /\ accepted' = accepted
    BY <1>1 DEF vars, tree, leafs
  <2>2. Phases' /\ PointersAre' /\ SafeAccess'
    <3>1. Overrun' = Overrun /\ Height' = Height
      BY <2>1, OverrunStays
    <3>2. QED
      BY <2>1, <3>1, LeafStays DEF MInv, Phases, PointersAre, Level, SafeAccess, T
  <2>3. HeapIs'
    <3>1. \A of, tr, n : Live(of, tr, n)' <=> Live(of, tr, n)
      BY <2>1 DEF Live, LastKept, Level
    <3>2. QED
      BY <2>1, <3>1 DEF MInv, HeapIs
  <2>4. QED
    BY <2>2, <2>3 DEF MInv
<1>2. CASE \E tr \in Tree(role) : Expand(tr)
  BY <1>2, ExpandKeeps
<1>3. CASE Swap
  BY <1>3, SwapKeeps
<1>4. CASE Correct
  BY <1>4, CorrectKeeps
<1>5. CASE EndLevels
  BY <1>5, EndLevelsKeeps
<1>6. CASE \E j \in Leaf : BeginLeaf(j) \/ EndLeaf(j)
  BY <1>6, BeginLeafKeeps, EndLeafKeeps
<1>7. CASE FreeHats
  BY <1>7, FreeHatsKeeps
<1>8. CASE FreeLayers
  BY <1>8, FreeLayersKeeps
<1>9. CASE SendResults
  BY <1>9, SendResultsKeeps
<1>10. CASE Answer
  BY <1>10, AnswerKeeps
<1>11. CASE Rejected
  BY <1>11, RejectedKeeps
<1>12. CASE CheckXor
  BY <1>12, CheckXorKeeps
<1>13. CASE FreeResults
  BY <1>13, FreeResultsKeeps
<1>14. QED
  BY <1>1, <1>2, <1>3, <1>4, <1>5, <1>6, <1>7, <1>8, <1>9, <1>10, <1>11, <1>12, <1>13 DEF Next

\* MInv says which arrays are lost.
LEMMA LostIs ==
  ASSUME MInv
  PROVE  LostIsKnown
<1> DEFINE Owned == UNION {{pointer[tr].hats, pointer[tr].hatt, pointer[tr].nodes, pointer[tr].currt,
                            pointer[tr].prevt, Layer(tr), Array("dpf_key", tr, 0)} : tr \in Tree(role)}
           OfMain == {Pack(p) : p \in Party(role)}
                     \cup {Array(of, tr, 0) :
                             of \in {"key", "gamma", "correction", "input"}, tr \in Tree(role)}
                     \cup {T, Out, Database} \cup Entries(Leaf)
           Busy == UNION {GammaInds(j) : j \in busy}
           Kept == IF pc = "end" THEN NeverFreed(role) ELSE {}
<1>1. /\ Phases /\ PointersAre /\ HeapIs
      /\ role \in {"dealer", "server", "client"} /\ Tree(role) \subseteq Number
      /\ Party(role) \subseteq Number
      /\ turn \in Nat
  BY Basics
<1>2. Building = {"levels", "correct", "leaves", "layers"}
  BY DEF Building, Growing
<1>3. Reachable = (IF pc \in Building THEN Owned ELSE {}) \cup Busy
                  \cup (IF pc # "end" THEN OfMain ELSE {})
  <2>1. Reachable = (IF pc \in {"levels", "correct", "leaves", "layers"} THEN Owned ELSE {}) \cup Busy
                    \cup (IF pc # "end" THEN OfMain ELSE {})
    BY DEF Reachable
  <2> HIDE DEF Owned, OfMain, Busy
  <2>2. QED
    BY <2>1, <1>2
<1>4. ASSUME NEW of \in Names, NEW t \in Number, NEW n \in Nat
      PROVE  Array(of, t, n) \in Owned <=>
               /\ t \in Tree(role)
               /\ \/ of \in {"layer", "dpf_key"} /\ n = 0
                  \/ of \in {"hats", "hatt"} /\ n = turn
                  \/ of \in {"nodes", "currt"} /\ n = Level(t) /\ n # 0
                  \/ of = "hatt" /\ n = turn - 1
  <2>1. ASSUME NEW tr \in Tree(role)
        PROVE  /\ Array(of, t, n) = pointer[tr].hats <=> of = "hats" /\ t = tr /\ n = turn
               /\ Array(of, t, n) = pointer[tr].hatt <=> of = "hatt" /\ t = tr /\ n = turn
               /\ Array(of, t, n) = pointer[tr].nodes <=> of = "nodes" /\ t = tr /\ n = Level(tr) /\ n # 0
               /\ Array(of, t, n) = pointer[tr].currt <=> of = "currt" /\ t = tr /\ n = Level(tr) /\ n # 0
               /\ Array(of, t, n) = pointer[tr].prevt <=> of = "hatt" /\ t = tr /\ n = turn - 1
               /\ Array(of, t, n) = Layer(tr) <=> of = "layer" /\ t = tr /\ n = 0
               /\ Array(of, t, n) = Array("dpf_key", tr, 0) <=> of = "dpf_key" /\ t = tr /\ n = 0
    <3>1. Array(of, t, n) # Null
      BY <1>4, NullIsNone
    <3>2. /\ pointer[tr].hats = Array("hats", tr, turn)
          /\ pointer[tr].hatt = Array("hatt", tr, turn)
          /\ pointer[tr].nodes = IF Level(tr) = 0 THEN Null ELSE Array("nodes", tr, Level(tr))
          /\ pointer[tr].currt = IF Level(tr) = 0 THEN Null ELSE Array("currt", tr, Level(tr))
          /\ pointer[tr].prevt = IF turn = 0 THEN Null ELSE Array("hatt", tr, turn - 1)
      BY <1>1, PointerFacts
    <3>3. /\ Array(of, t, n) = pointer[tr].hats <=> of = "hats" /\ t = tr /\ n = turn
          /\ Array(of, t, n) = pointer[tr].hatt <=> of = "hatt" /\ t = tr /\ n = turn
      BY <3>2, ArrayEq
    <3>4. /\ Array(of, t, n) = pointer[tr].nodes <=> of = "nodes" /\ t = tr /\ n = Level(tr) /\ n # 0
          /\ Array(of, t, n) = pointer[tr].currt <=> of = "currt" /\ t = tr /\ n = Level(tr) /\ n # 0
      BY <3>1, <3>2, ArrayEq
    <3>5. Array(of, t, n) = pointer[tr].prevt <=> of = "hatt" /\ t = tr /\ n = turn - 1
      <4>1. CASE turn = 0
        BY <4>1, <3>1, <3>2
      <4>2. CASE turn # 0
        BY <4>2, <3>2, ArrayEq
      <4>3. QED
        BY <4>1, <4>2
    <3>6. /\ Array(of, t, n) = Layer(tr) <=> of = "layer" /\ t = tr /\ n = 0
          /\ Array(of, t, n) = Array("dpf_key", tr, 0) <=> of = "dpf_key" /\ t = tr /\ n = 0
      BY ArrayEq DEF Layer
    <3>7. QED
      BY <3>3, <3>4, <3>5, <3>6
  <2>2. Array(of, t, n) \in Owned <=>
          \E tr \in Tree(role) :
            \/ Array(of, t, n) = pointer[tr].hats \/ Array(of, t, n) = pointer[tr].hatt
            \/ Array(of, t, n) = pointer[tr].nodes \/ Array(of, t, n) = pointer[tr].currt
            \/ Array(of, t, n) = pointer[tr].prevt \/ Array(of, t, n) = Layer(tr)
            \/ Array(of, t, n) = Array("dpf_key", tr, 0)
    OBVIOUS
  <2> HIDE DEF Owned
  <2>3. QED
    BY <2>1, <2>2
<1>5. ASSUME NEW of \in Names, NEW t \in Number, NEW n \in Nat
      PROVE  Array(of, t, n) \in OfMain <=>
               \/ of = "pack" /\ t \in Party(role) /\ n = 0
               \/ of \in {"key", "gamma", "correction", "input"} /\ t \in Tree(role) /\ n = 0
               \/ of \in {"t", "out", "database"} /\ t = 0 /\ n = 0
               \/ of = "entry" /\ role = "server" /\ t = 0 /\ n \in Leaf
  <2>1. Array(of, t, n) \in {Pack(p) : p \in Party(role)} <=> of = "pack" /\ t \in Party(role) /\ n = 0
    BY ArrayEq DEF Pack
  <2>2. Array(of, t, n) \in {Array(o, tr, 0) :
                               o \in {"key", "gamma", "correction", "input"}, tr \in Tree(role)}
          <=> of \in {"key", "gamma", "correction", "input"} /\ t \in Tree(role) /\ n = 0
    BY ArrayEq
  <2>3. Array(of, t, n) \in {T, Out, Database} <=> of \in {"t", "out", "database"} /\ t = 0 /\ n = 0
    BY ArrayEq DEF T, Out, Database
  <2>4. Array(of, t, n) \in Entries(Leaf) <=> of = "entry" /\ role = "server" /\ t = 0 /\ n \in Leaf
    BY LeafArrays
  <2>5. QED
    BY <2>1, <2>2, <2>3, <2>4
<1>6. ASSUME NEW of \in Names, NEW t \in Number, NEW n \in Nat
      PROVE  Array(of, t, n) \in Reachable <=>
               \/ pc \in Building /\ Array(of, t, n) \in Owned
               \/ of = "gamma_ind" /\ t \in Tree(role) /\ n \in busy
               \/ pc # "end" /\ Array(of, t, n) \in OfMain
  <2>1. \A j : Array(of, t, n) \in GammaInds(j) <=> of = "gamma_ind" /\ t \in Tree(role) /\ n = j
    BY LeafArrays
  <2>2. Array(of, t, n) \in Busy <=> of = "gamma_ind" /\ t \in Tree(role) /\ n \in busy
    BY <2>1
  <2> HIDE DEF Owned, OfMain, Busy
  <2>3. QED
    BY <2>2, <1>3
<1>7. ASSUME NEW of \in Names, NEW t \in Number, NEW n \in Nat
      PROVE  Array(of, t, n) \in Lost <=>
               \/ of = "hatt" /\ t \in Tree(role) /\ n <= turn - 2
               \/ role = "dealer" /\ pc \in {"send", "end"} /\ of = "dpf_key" /\ t \in Tree(role) /\ n = 0
               \/ accepted /\ of \in {"o", "hato"} /\ role = "server" /\ t = 0 /\ n = 0
               \/ accepted /\ of \in {"o", "hato"} /\ role = "client" /\ t \in {0, 1} /\ n = 0
               \/ accepted /\ of = "dbout" /\ role = "client" /\ t = 0 /\ n = 0
  <2>1. Array(of, t, n) \in {Array("hatt", tr, i) : tr \in Tree(role), i \in 0 .. turn - 2}
          <=> of = "hatt" /\ t \in Tree(role) /\ n \in 0 .. turn - 2
    BY ArrayEq
  <2>2. n \in 0 .. turn - 2 <=> n <= turn - 2
    BY <1>1
  <2>3. Array(of, t, n) \in {Array("dpf_key", tr, 0) : tr \in Tree(role)}
          <=> of = "dpf_key" /\ t \in Tree(role) /\ n = 0
    BY ArrayEq
  <2>4. Array(of, t, n) \in Answers(role) <=>
           \/ of \in {"o", "hato"} /\ role = "server" /\ t = 0 /\ n = 0
           \/ of \in {"o", "hato"} /\ role = "client" /\ t \in {0, 1} /\ n = 0
           \/ of = "dbout" /\ role = "client" /\ t = 0 /\ n = 0
    BY <1>1, AnswersAre DEF Role
  <2>5. QED
    BY <2>1, <2>2, <2>3, <2>4 DEF Lost
<1>8. ASSUME NEW of \in Names, NEW t \in Number, NEW n \in Nat
      PROVE  Array(of, t, n) \in Kept <=>
               /\ pc = "end"
               /\ \/ /\ role = "dealer" /\ t \in Tree(role) /\ n = 0
                     /\ of \in {"pack", "key", "gamma", "correction", "input"}
                  \/ role = "server" /\ of \in {"t", "out"} /\ t = 0 /\ n = 0
                  \/ role = "server" /\ of = "entry" /\ t = 0 /\ n \in Leaf
  <2>1. /\ role = "dealer" => NeverFreed(role) =
             {Array(o, tr, 0) : o \in {"pack", "key", "gamma", "correction", "input"}, tr \in Tree(role)}
        /\ role = "server" => NeverFreed(role) = {T, Out} \cup Entries(Leaf)
        /\ role = "client" => NeverFreed(role) = {}
    BY DEF NeverFreed
  <2>2. Array(of, t, n) \in {Array(o, tr, 0) :
                               o \in {"pack", "key", "gamma", "correction", "input"}, tr \in Tree(role)}
          <=> of \in {"pack", "key", "gamma", "correction", "input"} /\ t \in Tree(role) /\ n = 0
    BY ArrayEq
  <2>3. Array(of, t, n) \in {T, Out} <=> of \in {"t", "out"} /\ t = 0 /\ n = 0
    BY ArrayEq DEF T, Out
  <2>4. Array(of, t, n) \in Entries(Leaf) <=> of = "entry" /\ role = "server" /\ t = 0 /\ n \in Leaf
    BY LeafArrays
  <2>5. QED
    BY <2>1, <2>2, <2>3, <2>4, <1>1
<1>9. ASSUME NEW of \in Names, NEW t \in Number, NEW n \in Nat
      PROVE  Array(of, t, n) \in heap \ Reachable <=> Array(of, t, n) \in Lost \cup Kept
  <2> DEFINE Own == Array(of, t, n) \in Owned
             Main == Array(of, t, n) \in OfMain
             Reach == Array(of, t, n) \in Reachable
             Old == Array(of, t, n) \in Lost
             Mine == Array(of, t, n) \in Kept
  <2>1. Array(of, t, n) \in heap <=> Live(of, t, n)
    BY <1>1, <1>9 DEF HeapIs
  <2>2. /\ Own <=> /\ t \in Tree(role)
                   /\ \/ of \in {"layer", "dpf_key"} /\ n = 0
                      \/ of \in {"hats", "hatt"} /\ n = turn
                      \/ of \in {"nodes", "currt"} /\ n = Level(t) /\ n # 0
                      \/ of = "hatt" /\ n = turn - 1
        /\ Main <=> \/ of = "pack" /\ t \in Party(role) /\ n = 0
                    \/ of \in {"key", "gamma", "correction", "input"} /\ t \in Tree(role) /\ n = 0
                    \/ of \in {"t", "out", "database"} /\ t = 0 /\ n = 0
                    \/ of = "entry" /\ role = "server" /\ t = 0 /\ n \in Leaf
        /\ Reach <=> \/ pc \in Building /\ Own
                     \/ of = "gamma_ind" /\ t \in Tree(role) /\ n \in busy
                     \/ pc # "end" /\ Main
    <3> HIDE DEF Owned, OfMain
    <3>1. QED
      BY <1>4, <1>5, <1>6, <1>9
  <2>3. /\ Old <=>
             \/ of = "hatt" /\ t \in Tree(role) /\ n <= turn - 2
             \/ role = "dealer" /\ pc \in {"send", "end"} /\ of = "dpf_key" /\ t \in Tree(role) /\ n = 0
             \/ accepted /\ of \in {"o", "hato"} /\ role = "server" /\ t = 0 /\ n = 0
             \/ accepted /\ of \in {"o", "hato"} /\ role = "client" /\ t \in {0, 1} /\ n = 0
             \/ accepted /\ of = "dbout" /\ role = "client" /\ t = 0 /\ n = 0
        /\ Mine <=>
             /\ pc = "end"
             /\ \/ /\ role = "dealer" /\ t \in Tree(role) /\ n = 0
                   /\ of \in {"pack", "key", "gamma", "correction", "input"}
                \/ role = "server" /\ of \in {"t", "out"} /\ t = 0 /\ n = 0
                \/ role = "server" /\ of = "entry" /\ t = 0 /\ n \in Leaf
    <3> HIDE DEF Kept
    <3>1. QED
      BY <1>7, <1>8, <1>9
  <2>4. SUFFICES Live(of, t, n) /\ ~ Reach <=> Old \/ Mine
    BY <2>1
  <2> HIDE DEF Own, Main, Reach, Old, Mine
  <2>5. /\ role = "dealer" => Tree(role) = {0, 1} /\ Party(role) = {0, 1}
        /\ role = "server" => Tree(role) = {0} /\ Party(role) = {0}
        /\ role = "client" => Tree(role) = {}
        /\ "end" \notin Building /\ "end" \notin Growing
    BY RolesAre DEF Building, Growing
  <2>6. CASE of = "hatt"
    <3>1. Live(of, t, n) <=> t \in Tree(role) /\ n <= LastKept
      BY <2>6 DEF Live
    <3>2. CASE pc \in Building
      <4>1. LastKept \in {turn, turn - 1}
        BY <3>2 DEF LastKept, Building
      <4>2. QED
        BY <4>1, <3>1, <3>2, <2>2, <2>3, <2>6, <1>1
    <3>3. CASE pc \notin Building
      <4>1. LastKept = turn - 2
        BY <3>3 DEF LastKept, Building
      <4>2. QED
        BY <4>1, <3>1, <3>3, <2>2, <2>3, <2>6
    <3>4. QED
      BY <3>2, <3>3
  <2>7. CASE of = "dpf_key"
    <3>1. Live(of, t, n) <=> role = "dealer" /\ t \in Tree(role) /\ n = 0
      BY <2>7 DEF Live
    <3>2. role = "dealer" => (pc \notin Building <=> pc \in {"send", "end"})
      BY <1>1 DEF Phases, Building, Growing, Finished
    <3>3. QED
      BY <3>1, <3>2, <2>2, <2>3, <2>7
  <2>8. CASE of \in {"layer", "hats", "nodes", "currt", "gamma_ind"}
    <3>1. Live(of, t, n) => Reach
      BY <2>2, <2>8 DEF Live, Building
    <3>2. QED
      BY <3>1, <2>3, <2>8
  <2>9. CASE of \in {"pack", "key", "correction", "input"}
    <3>1. of = "pack" \/ of = "key" \/ of \in {"correction", "input"}
      BY <2>9
    <3>2. CASE of = "pack"
      BY <3>2, <2>2, <2>3, <2>5, <1>1 DEF Live
    <3>3. CASE of = "key"
      BY <3>3, <2>2, <2>3, <2>5, <1>1 DEF Live
    <3>4. CASE of \in {"correction", "input"}
      BY <3>4, <2>2, <2>3, <2>5, <1>1 DEF Live
    <3>5. QED
      BY <3>1, <3>2, <3>3, <3>4
  <2>10. CASE of \in {"gamma", "t", "database"}
    BY <2>2, <2>3, <2>5, <2>10 DEF Live
  <2>11. CASE of = "out"
    BY <2>2, <2>3, <2>11 DEF Live
  <2>12. CASE of = "entry"
    <3>1. Live(of, t, n) <=> role = "server" /\ t = 0 /\ n \in busy \cup done
      BY <2>12 DEF Live
    <3>2. busy \cup done \subseteq Leaf /\ (role = "server" /\ pc = "end" => busy \cup done = Leaf)
      BY <1>1 DEF Phases, Finished
    <3>3. QED
      BY <3>1, <3>2, <2>2, <2>3, <2>12
  <2>13. CASE of \in {"o", "hato", "dbout"}
    BY <2>2, <2>3, <2>13 DEF Live
  <2>14. QED
    BY <2>6, <2>7, <2>8, <2>9, <2>10, <2>11, <2>12, <2>13 DEF Names
<1>10. \A a \in heap : \E of \in Names, t \in Number, n \in Nat : a = Array(of, t, n)
  BY <1>1 DEF HeapIs
<1>11. \A a \in Lost \cup Kept : \E of \in Names, t \in Number, n \in Nat : a = Array(of, t, n)
  <2>1. {"hatt", "dpf_key", "pack", "key", "gamma", "correction", "input", "t", "out", "entry"} \subseteq Names
        /\ 0 .. turn - 2 \subseteq Nat /\ 0 \in Nat /\ 0 \in Number /\ Leaf \subseteq Nat
    BY DEF Names, Number, Leaf
  <2>2. \A a \in Answers(role) : \E of \in Names, t \in Number, n \in Nat : a = Array(of, t, n)
    BY <1>1, AnswersNamed DEF Role
  <2>3. \A a \in Lost : \E of \in Names, t \in Number, n \in Nat : a = Array(of, t, n)
    BY <2>1, <2>2, <1>1 DEF Lost
  <2>4. \A a \in Entries(Leaf) : \E of \in Names, t \in Number, n \in Nat : a = Array(of, t, n)
    BY <2>1 DEF Entries
  <2>5. \A a \in Kept : \E of \in Names, t \in Number, n \in Nat : a = Array(of, t, n)
    <3>1. /\ role = "dealer" => NeverFreed(role) =
             {Array(o, tr, 0) : o \in {"pack", "key", "gamma", "correction", "input"}, tr \in Tree(role)}
          /\ role = "server" => NeverFreed(role) = {Array("t", 0, 0), Array("out", 0, 0)} \cup Entries(Leaf)
          /\ role = "client" => NeverFreed(role) = {}
      BY DEF NeverFreed, T, Out
    <3>2. QED
      BY <3>1, <2>1, <2>4, <1>1
  <2>6. QED
    BY <2>3, <2>5
<1> HIDE DEF Owned, OfMain, Busy, Kept
<1>12. heap \ Reachable = Lost \cup Kept
  BY <1>9, <1>10, <1>11
<1>13. QED
  BY <1>12 DEF LostIsKnown, Kept

(***************************************************************************)
(* Whatever the height of the key, the number of threads and the order of  *)
(* their leaves, all that the programs use and free are arrays they have,  *)
(* within their length, but for a server that reads a key of another       *)
(* height than its own: what it overruns then, and when, is named.         *)
(***************************************************************************)
THEOREM SafeAccessCorrect == Spec => []SafeAccess
<1>1. Init => MInv
  BY InitHolds
<1>2. MInv /\ [Next]_vars => MInv'
  BY StepHolds
<1>3. MInv => SafeAccess
  BY DEF MInv
<1>4. QED
  BY <1>1, <1>2, <1>3, PTL DEF Spec

(***************************************************************************)
(* Of all that a program allocates, what no variable reaches any more is   *)
(* known at every moment: the control bits of all levels but the last two, *)
(* the two dpf_key objects and the answers; and when main() returns, also  *)
(* what the dealer dealt, and a server's t and table.                      *)
(***************************************************************************)
THEOREM LostIsKnownCorrect == Spec => []LostIsKnown
<1>1. Init => MInv
  BY InitHolds
<1>2. MInv /\ [Next]_vars => MInv'
  BY StepHolds
<1>3. MInv => LostIsKnown
  BY LostIs
<1>4. QED
  BY <1>1, <1>2, <1>3, PTL DEF Spec
=============================================================================
