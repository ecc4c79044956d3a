--------------------------- MODULE DpfEval_proofs ---------------------------
(***************************************************************************)
(* Proofs about DpfEval and InputCheck, which go on from where DpfKeygen   *)
(* ends, for every height, number of threads, block size, PRG, group and   *)
(* input: the servers rebuild the dealer's layers and XORs, dealer and     *)
(* servers together implement PointSharing, and check_xor is complete and, *)
(* but for T, sound.                                                       *)
(***************************************************************************)
EXTENDS DpfEval, InputCheck, DpfKeygen_proofs, NumberLemmas

(***************************************************************************)
(* The dealer's layers, root to leaves, and what follows one after another *)
(* from the correction words.                                              *)
(***************************************************************************)
Layers ==
  /\ DOMAIN layers = 0 .. level
  /\ layers[level].s = hats /\ layers[level].t = hatt
  /\ \A p \in Party :
       /\ layers[0].s[p] = [j \in {0} |-> seed[p]]
       /\ layers[0].t[p] = [j \in {0} |-> p]
  /\ \A p \in Party, i \in 0 .. level - 1 :
       /\ layers[i + 1].s[p] = CorrectS(layers[i].s[p], layers[i].t[p], Pow2[i], sigma[i])
       /\ layers[i + 1].t[p] = CorrectT(layers[i].s[p], layers[i].t[p], Pow2[i], tau[i])
       /\ zs[p][i] = ZS(layers[i].s[p], Pow2[i])
       /\ zt[p][i] = ZT(layers[i].s[p], Pow2[i])

(***************************************************************************)
(* A server starts when the dealer is done; it has the dealer's XORs up to *)
(* the level it is at, and a table when it is done.                        *)
(***************************************************************************)
ServerTypes ==
  /\ epc \in [Party -> {"key", "level", "leaves", "done"}]
  /\ DOMAIN ehats = Party /\ DOMAIN ehatt = Party
  /\ DOMAIN ezs = Party /\ DOMAIN ezt = Party
  /\ DOMAIN eout = Party

Progress(p) ==
  /\ ELevel(p) \in 0 .. Height
  /\ ezs[p] = [i \in 0 .. ELevel(p) - 1 |-> zs[p][i]]
  /\ ezt[p] = [i \in 0 .. ELevel(p) - 1 |-> zt[p][i]]
  /\ epc[p] = "key" => ELevel(p) = 0
  /\ epc[p] # "key" => pc = "done"
  /\ epc[p] = "level" => ELevel(p) < Height
  /\ epc[p] \in {"leaves", "done"} => ELevel(p) = Height
  /\ eout[p] = IF epc[p] = "done" THEN [j \in Domain |-> LeafShare(p, j)] ELSE NoTable

EInv == IInv /\ Layers /\ ServerTypes /\ LayersMatch /\ \A p \in Party : Progress(p)

LEMMA PowType ==
  ASSUME NEW i \in 0 .. Height
  PROVE  Pow2[i] \in Nat \ {0}
BY Pow2Assumption

\* The number of levels a server has expanded.
LEMMA LevelCount ==
  ASSUME NEW l \in Nat
  PROVE  Cardinality(0 .. l - 1) = l
<1>1. 0 \in Int /\ l - 1 \in Int
  OBVIOUS
<1>2. Cardinality(0 .. l - 1) = IF 0 > l - 1 THEN 0 ELSE (l - 1) - 0 + 1
  BY <1>1, FS_Interval
<1>3. QED
  BY <1>2

LEMMA EInitInv == EvalInit => EInv
<1> SUFFICES ASSUME EvalInit
             PROVE  EInv
  OBVIOUS
<1>1. Init
  BY DEF EvalInit
<1>2. IInv
  BY <1>1, InitType, InitPath, InitSums DEF IInv
<1>3. Layers
  <2>1. level = 0 /\ 0 .. level = {0} /\ 0 .. level - 1 = {} /\ 0 .. 0 = {0}
    BY <1>1 DEF Init
  <2>2. layers = [i \in {0} |-> [s |-> hats, t |-> hatt]]
    BY DEF EvalInit
  <2>3. \A p \in Party : hats[p] = [j \in {0} |-> seed[p]] /\ hatt[p] = [j \in {0} |-> p]
    BY <1>1, <2>1 DEF Init
  <2>4. QED
    BY <2>1, <2>2, <2>3 DEF Layers
<1>4. ServerTypes /\ LayersMatch
  BY DEF EvalInit, ServerTypes, LayersMatch
<1>5. ASSUME NEW p \in Party
      PROVE  Progress(p)
  <2>1. DOMAIN ezs[p] = {} /\ Cardinality({}) = 0 /\ 0 .. 0 - 1 = {}
    BY FS_EmptySet DEF EvalInit
  <2>2. ELevel(p) = 0
    BY <2>1 DEF ELevel
  <2>3. /\ ezs[p] = [i \in 0 .. 0 - 1 |-> zs[p][i]]
        /\ ezt[p] = [i \in 0 .. 0 - 1 |-> zt[p][i]]
    BY <2>1 DEF EvalInit
  <2>4. epc[p] = "key" /\ eout[p] = NoTable
    BY DEF EvalInit
  <2>5. QED
    BY <2>2, <2>3, <2>4, HeightAssumption DEF Progress
<1>6. QED
  BY <1>2, <1>3, <1>4, <1>5 DEF EInv

(***************************************************************************)
(* The dealer's steps.                                                     *)
(***************************************************************************)
LEMMA DealerDone ==
  ASSUME pc = "done"
  PROVE  ~Next
BY DEF Next, Main, Worker, Level, Leaf, Join, Finish

LEMMA DealerStep ==
  ASSUME EvalNext
  PROVE  [Next]_vars
BY DEF EvalNext, Deal, EvalMain, EvalWorker, RecvKey, EvalLevel, EvalLeaf, EvalJoin, Return

\* Only Level changes the level and the trees.
LEMMA OtherSteps ==
  ASSUME TypeOK, Next, ~Level
  PROVE  UNCHANGED <<input, tree>> /\ level' = level
BY DEF Next, Main, Worker, Leaf, Join, Finish, tree

LEMMA DealLayers ==
  ASSUME IInv, Layers, Deal
  PROVE  Layers'
<1>1. TypeOK
  BY DEF IInv
<1>2. CASE Level
  <2>1. /\ level \in 0 .. Height - 1 /\ level' = level + 1 /\ size = Pow2[level]
        /\ UNCHANGED input
    BY <1>1, <1>2, HeightAssumption DEF Level, TypeOK
  <2>2. layers' = [k \in 0 .. level + 1 |->
                     IF k = level + 1 THEN [s |-> hats', t |-> hatt'] ELSE layers[k]]
    BY <2>1 DEF Deal, Extend
  <2>3. /\ DOMAIN layers' = 0 .. level + 1
        /\ layers'[level + 1].s = hats' /\ layers'[level + 1].t = hatt'
        /\ \A k \in 0 .. level : layers'[k] = layers[k]
    BY <2>1, <2>2
  <2>4. /\ 0 \in 0 .. level /\ level \in 0 .. level
        /\ \A i \in 0 .. level - 1 : i \in 0 .. level /\ i + 1 \in 0 .. level
        /\ \A i \in 0 .. level : i = level \/ i \in 0 .. level - 1
        /\ (level + 1) - 1 = level
    BY <2>1
  <2>5. ASSUME NEW p \in Party, NEW i \in 0 .. level
        PROVE  /\ layers'[i + 1].s[p] = CorrectS(layers'[i].s[p], layers'[i].t[p], Pow2[i], sigma'[i])
               /\ layers'[i + 1].t[p] = CorrectT(layers'[i].s[p], layers'[i].t[p], Pow2[i], tau'[i])
               /\ zs'[p][i] = ZS(layers'[i].s[p], Pow2[i])
               /\ zt'[p][i] = ZT(layers'[i].s[p], Pow2[i])
    <3>1. CASE i = level
      <4>1. /\ hats'[p] = CorrectS(hats[p], hatt[p], Pow2[level], sigma'[level])
            /\ hatt'[p] = CorrectT(hats[p], hatt[p], Pow2[level], tau'[level])
            /\ zs'[p][level] = ZS(hats[p], Pow2[level])
            /\ zt'[p][level] = ZT(hats[p], Pow2[level])
        BY <1>2, <2>1, <2>4 DEF Level, Extend
      <4>2. layers'[level].s = hats /\ layers'[level].t = hatt
        BY <2>3, <2>4 DEF Layers
      <4>3. QED
        BY <2>3, <3>1, <4>1, <4>2
    <3>2. CASE i # level
      <4>1. i \in 0 .. level - 1 /\ i + 1 \in 0 .. level
        BY <2>4, <3>2
      <4>2. /\ sigma'[i] = sigma[i] /\ tau'[i] = tau[i]
            /\ zs'[p][i] = zs[p][i] /\ zt'[p][i] = zt[p][i]
        BY <1>2, <3>2 DEF Level, Extend
      <4>3. layers'[i] = layers[i] /\ layers'[i + 1] = layers[i + 1]
        BY <2>3, <4>1
      <4>4. QED
        BY <4>1, <4>2, <4>3 DEF Layers
    <3>3. QED
      BY <3>1, <3>2
  <2>6. \A p \in Party : /\ layers'[0].s[p] = [j \in {0} |-> seed'[p]]
                         /\ layers'[0].t[p] = [j \in {0} |-> p]
    <3>1. layers'[0] = layers[0] /\ seed' = seed
      BY <2>1, <2>3, <2>4 DEF input
    <3>2. \A p \in Party : /\ layers[0].s[p] = [j \in {0} |-> seed[p]]
                           /\ layers[0].t[p] = [j \in {0} |-> p]
      BY DEF Layers
    <3>3. ASSUME NEW p \in Party
          PROVE  /\ layers'[0].s[p] = [j \in {0} |-> seed'[p]]
                 /\ layers'[0].t[p] = [j \in {0} |-> p]
      BY <3>1, <3>2
    <3>4. QED
      BY <3>3
  <2>7. QED
    BY <2>1, <2>3, <2>4, <2>5, <2>6 DEF Layers
<1>3. CASE ~Level
  <2>1. UNCHANGED <<input, tree>> /\ level' = level
    BY <1>1, <1>3, OtherSteps DEF Deal
  <2>2. layers' = layers
    BY <2>1 DEF Deal
  <2>3. QED
    BY <2>1, <2>2 DEF Layers, input, tree
<1>4. QED
  BY <1>2, <1>3

LEMMA DealInv ==
  ASSUME EInv, IInv', Deal
  PROVE  EInv'
<1>1. Layers'
  BY DealLayers DEF EInv
<1>2. pc # "done"
  BY DealerDone DEF Deal
<1>3. UNCHANGED eVars
  BY DEF Deal
<1>4. UNCHANGED <<epc, ehats, ehatt, ezs, ezt, eout>>
  BY <1>3 DEF eVars, eTree
<1>5. \A p \in Party : epc[p] = "key"
  BY <1>2 DEF EInv, Progress
<1>6. ServerTypes' /\ LayersMatch'
  BY <1>4, <1>5 DEF EInv, ServerTypes, LayersMatch
<1>7. ASSUME NEW p \in Party
      PROVE  Progress(p)'
  <2>1. ELevel(p)' = ELevel(p) /\ ELevel(p) = 0
    <3>1. ELevel(p)' = ELevel(p)
      BY <1>4 DEF ELevel
    <3>2. Progress(p)
      BY DEF EInv
    <3>3. QED
      BY <1>5, <3>1, <3>2 DEF Progress
  <2>2. 0 .. 0 - 1 = {}
    OBVIOUS
  <2>3. /\ ezs[p] = [i \in 0 .. 0 - 1 |-> zs'[p][i]]
        /\ ezt[p] = [i \in 0 .. 0 - 1 |-> zt'[p][i]]
    BY <2>1, <2>2 DEF EInv, Progress
  <2>4. epc'[p] = "key" /\ eout'[p] = NoTable
    BY <1>4, <1>5 DEF EInv, Progress
  <2>5. QED
    BY <1>4, <2>1, <2>3, <2>4, HeightAssumption DEF Progress
<1>8. QED
  BY <1>1, <1>6, <1>7 DEF EInv

(***************************************************************************)
(* A server's steps: nothing of the dealer and of the other server moves.  *)
(***************************************************************************)
Matches(p) ==
  epc[p] # "key" =>
    /\ ehats[p] = layers[ELevel(p)].s[p]
    /\ ehatt[p] = layers[ELevel(p)].t[p]

LEMMA ServerKept ==
  ASSUME NEW q \in Party, Progress(q), Matches(q), UNCHANGED <<vars, layers>>,
         epc'[q] = epc[q], ezs'[q] = ezs[q], ezt'[q] = ezt[q],
         ehats'[q] = ehats[q], ehatt'[q] = ehatt[q], eout'[q] = eout[q]
  PROVE  Progress(q)' /\ Matches(q)'
<1>1. ELevel(q)' = ELevel(q)
  BY DEF ELevel
<1>2. pc' = pc /\ zs' = zs /\ zt' = zt /\ layers' = layers
  BY DEF vars, tree
<1>3. [j \in Domain |-> LeafShare(q, j)]' = [j \in Domain |-> LeafShare(q, j)]
  BY DEF LeafShare, vars, tree
<1>4. Progress(q)'
  BY <1>1, <1>2, <1>3 DEF Progress
<1>5. Matches(q)'
  BY <1>1, <1>2 DEF Matches
<1>6. QED
  BY <1>4, <1>5

LEMMA ServerStep ==
  ASSUME EInv, IInv', NEW p \in Party, UNCHANGED <<vars, layers>>, ServerTypes',
         \A q \in Party : q # p =>
           /\ epc'[q] = epc[q] /\ ezs'[q] = ezs[q] /\ ezt'[q] = ezt[q]
           /\ ehats'[q] = ehats[q] /\ ehatt'[q] = ehatt[q] /\ eout'[q] = eout[q],
         Progress(p)', Matches(p)'
  PROVE  EInv'
<1>1. Layers'
  BY DEF EInv, Layers, vars, tree, input
<1>2. ASSUME NEW q \in Party
      PROVE  Progress(q)' /\ Matches(q)'
  <2>1. CASE q = p
    BY <2>1
  <2>2. CASE q # p
    <3>1. Progress(q) /\ Matches(q)
      BY DEF EInv, LayersMatch, Matches
    <3>2. QED
      BY <2>2, <3>1, ServerKept
  <2>3. QED
    BY <2>1, <2>2
<1>3. LayersMatch'
  BY <1>2 DEF LayersMatch, Matches
<1>4. QED
  BY <1>1, <1>2, <1>3 DEF EInv

LEMMA RecvKeyInv ==
  ASSUME EInv, IInv', NEW p \in Party, RecvKey(p)
  PROVE  EInv'
<1>1. /\ UNCHANGED <<vars, layers>> /\ UNCHANGED <<ezs, ezt, eout>>
      /\ pc = "done" /\ epc[p] = "key"
  BY DEF RecvKey
<1>2. ServerTypes
  BY DEF EInv
<1>3. /\ ServerTypes'
      /\ epc'[p] = "level" /\ ehats'[p] = [j \in {0} |-> seed[p]]
      /\ ehatt'[p] = [j \in {0} |-> p]
      /\ \A q \in Party : q # p =>
           epc'[q] = epc[q] /\ ehats'[q] = ehats[q] /\ ehatt'[q] = ehatt[q]
  BY <1>2 DEF RecvKey, ServerTypes
<1>4. Progress(p)
  BY DEF EInv
<1>5. ELevel(p) = 0 /\ ELevel(p)' = ELevel(p)
  BY <1>1, <1>4 DEF Progress, ELevel
<1>6. UNCHANGED <<pc, zs, zt>>
  BY <1>1 DEF vars, tree
<1>7. Progress(p)'
  <2>1. 0 < Height
    BY HeightAssumption
  <2>2. QED
    BY <1>1, <1>3, <1>4, <1>5, <1>6, <2>1 DEF Progress
<1>8. Matches(p)'
  <2>1. layers[0].s[p] = [j \in {0} |-> seed[p]] /\ layers[0].t[p] = [j \in {0} |-> p]
    BY DEF EInv, Layers
  <2>2. QED
    BY <1>1, <1>3, <1>5, <2>1 DEF Matches
<1>9. QED
  BY <1>1, <1>3, <1>7, <1>8, ServerStep

LEMMA EvalLevelInv ==
  ASSUME EInv, IInv', NEW p \in Party, EvalLevel(p)
  PROVE  EInv'
<1> DEFINE l == ELevel(p)
<1>1. Progress(p) /\ Matches(p) /\ Layers /\ ServerTypes /\ TypeOK
  BY DEF EInv, LayersMatch, Matches, IInv
<1>2. /\ epc[p] = "level" /\ pc = "done"
      /\ l \in 0 .. Height - 1
      /\ level = Height
  BY <1>1, HeightAssumption DEF EvalLevel, Progress, TypeOK
<1>3. /\ UNCHANGED <<vars, layers>>
      /\ ezs' = [ezs EXCEPT ![p] = Extend(ezs[p], l, ZS(ehats[p], Pow2[l]))]
      /\ ezt' = [ezt EXCEPT ![p] = Extend(ezt[p], l, ZT(ehats[p], Pow2[l]))]
      /\ ehats' = [ehats EXCEPT ![p] = CorrectS(ehats[p], ehatt[p], Pow2[l], sigma[l])]
      /\ ehatt' = [ehatt EXCEPT ![p] = CorrectT(ehats[p], ehatt[p], Pow2[l], tau[l])]
      /\ epc' = [epc EXCEPT ![p] = IF l + 1 = Height THEN "leaves" ELSE "level"]
      /\ eout' = eout
  BY DEF EvalLevel, ESize
<1>4. /\ ezs[p] = [i \in 0 .. l - 1 |-> zs[p][i]]
      /\ ezt[p] = [i \in 0 .. l - 1 |-> zt[p][i]]
      /\ eout[p] = NoTable
  BY <1>1, <1>2 DEF Progress
<1>5. ehats[p] = layers[l].s[p] /\ ehatt[p] = layers[l].t[p]
  BY <1>1, <1>2 DEF Matches
<1>6. ELevel(p)' = Cardinality(DOMAIN ezs'[p])
  BY DEF ELevel
<1> HIDE DEF l
<1>7. /\ layers[l + 1].s[p] = CorrectS(layers[l].s[p], layers[l].t[p], Pow2[l], sigma[l])
      /\ layers[l + 1].t[p] = CorrectT(layers[l].s[p], layers[l].t[p], Pow2[l], tau[l])
      /\ zs[p][l] = ZS(layers[l].s[p], Pow2[l])
      /\ zt[p][l] = ZT(layers[l].s[p], Pow2[l])
  BY <1>1, <1>2 DEF Layers
<1>8. l \in Nat /\ l + 1 \in 0 .. Height /\ (l + 1) - 1 = l
      /\ \A i \in 0 .. l : i # l => i \in 0 .. l - 1
  BY <1>2, HeightAssumption
<1>9. /\ ezs'[p] = [i \in 0 .. l |-> zs[p][i]]
      /\ ezt'[p] = [i \in 0 .. l |-> zt[p][i]]
  <2>1. /\ Extend(ezs[p], l, zs[p][l]) = [i \in 0 .. l |-> zs[p][i]]
        /\ Extend(ezt[p], l, zt[p][l]) = [i \in 0 .. l |-> zt[p][i]]
    BY <1>4, <1>8 DEF Extend
  <2>2. ZS(ehats[p], Pow2[l]) = zs[p][l] /\ ZT(ehats[p], Pow2[l]) = zt[p][l]
    BY <1>5, <1>7
  <2>3. /\ ezs'[p] = Extend(ezs[p], l, ZS(ehats[p], Pow2[l]))
        /\ ezt'[p] = Extend(ezt[p], l, ZT(ehats[p], Pow2[l]))
    BY <1>1, <1>3 DEF ServerTypes
  <2>4. QED
    BY <2>1, <2>2, <2>3
<1>10. ELevel(p)' = l + 1
  <2>1. DOMAIN ezs'[p] = 0 .. (l + 1) - 1
    BY <1>8, <1>9
  <2>2. l + 1 \in Nat
    BY <1>8
  <2>3. QED
    BY <1>6, <2>1, <2>2, LevelCount
<1>11. epc'[p] = IF l + 1 = Height THEN "leaves" ELSE "level"
  BY <1>1, <1>3 DEF ServerTypes
<1>12. Progress(p)'
  <2>1. UNCHANGED <<pc, zs, zt>>
    BY <1>3 DEF vars, tree
  <2>2. l + 1 # Height => l + 1 < Height
    BY <1>2, HeightAssumption
  <2>3. /\ ezs'[p] = [i \in 0 .. (l + 1) - 1 |-> zs'[p][i]]
        /\ ezt'[p] = [i \in 0 .. (l + 1) - 1 |-> zt'[p][i]]
    BY <1>8, <1>9, <2>1
  <2>4. epc'[p] \in {"leaves", "level"} /\ (epc'[p] = "leaves" => l + 1 = Height)
        /\ (epc'[p] = "level" => l + 1 < Height)
    BY <1>11, <2>2
  <2>5. QED
    BY <1>2, <1>3, <1>4, <1>8, <1>10, <2>1, <2>3, <2>4 DEF Progress
<1>13. Matches(p)'
  <2>1. /\ ehats'[p] = CorrectS(ehats[p], ehatt[p], Pow2[l], sigma[l])
        /\ ehatt'[p] = CorrectT(ehats[p], ehatt[p], Pow2[l], tau[l])
    BY <1>1, <1>3 DEF ServerTypes
  <2>2. ehats'[p] = layers[l + 1].s[p] /\ ehatt'[p] = layers[l + 1].t[p]
    BY <1>5, <1>7, <2>1
  <2>3. layers' = layers
    BY <1>3
  <2>4. QED
    BY <1>10, <2>2, <2>3 DEF Matches
<1>14. ServerTypes'
  BY <1>1, <1>3 DEF ServerTypes
<1>15. \A q \in Party : q # p =>
         /\ epc'[q] = epc[q] /\ ezs'[q] = ezs[q] /\ ezt'[q] = ezt[q]
         /\ ehats'[q] = ehats[q] /\ ehatt'[q] = ehatt[q] /\ eout'[q] = eout[q]
  BY <1>1, <1>3 DEF ServerTypes
<1>16. QED
  BY <1>3, <1>12, <1>13, <1>14, <1>15, ServerStep

\* The leaf loop and the join change neither the tree nor the table.
LEMMA SumStepInv ==
  ASSUME EInv, IInv', NEW p \in Party,
         UNCHANGED <<vars, layers, epc, eTree, eout>>
  PROVE  EInv'
<1>1. UNCHANGED <<vars, layers>> /\ UNCHANGED <<epc, ehats, ehatt, ezs, ezt, eout>>
  BY DEF eTree
<1>2. ServerTypes'
  BY <1>1 DEF EInv, ServerTypes
<1>3. Progress(p) /\ Matches(p)
  BY DEF EInv, LayersMatch, Matches
<1>4. Progress(p)' /\ Matches(p)'
  BY <1>1, <1>3, ServerKept
<1>5. QED
  BY <1>1, <1>2, <1>4, ServerStep

LEMMA ReturnInv ==
  ASSUME EInv, IInv', NEW p \in Party, Return(p)
  PROVE  /\ EInv'
         /\ eout[p] = NoTable
         /\ eout' = [eout EXCEPT ![p] = [j \in Domain |-> LeafShare(p, j)]]
<1>1. Progress(p) /\ Matches(p) /\ Layers /\ ServerTypes /\ TypeOK
  BY DEF EInv, LayersMatch, Matches, IInv
<1>2. /\ epc[p] = "leaves" /\ UNCHANGED <<vars, layers>>
      /\ UNCHANGED <<ehats, ehatt, ezs, ezt>>
      /\ epc' = [epc EXCEPT ![p] = "done"]
  BY DEF Return, eTree
<1>3. /\ pc = "done" /\ ELevel(p) = Height /\ eout[p] = NoTable
      /\ ELevel(p)' = Height
  BY <1>1, <1>2 DEF Progress, ELevel
<1>4. level = Height
  BY <1>1, <1>3, HeightAssumption DEF TypeOK
<1>5. ehats[p] = hats[p] /\ ehatt[p] = hatt[p]
  BY <1>1, <1>2, <1>3, <1>4 DEF Matches, Layers
<1>6. eout' = [eout EXCEPT ![p] = [j \in Domain |-> LeafShare(p, j)]]
  BY <1>5 DEF Return, LeafShare
<1>7. eout'[p] = [j \in Domain |-> LeafShare(p, j)] /\ epc'[p] = "done"
  BY <1>1, <1>2, <1>6 DEF ServerTypes
<1>8. Progress(p)'
  <2>1. UNCHANGED <<pc, zs, zt>>
    BY <1>2 DEF vars, tree
  <2>2. [j \in Domain |-> LeafShare(p, j)]' = [j \in Domain |-> LeafShare(p, j)]
    BY <1>2 DEF LeafShare, vars, tree
  <2>3. QED
    BY <1>1, <1>2, <1>3, <1>7, <2>1, <2>2 DEF Progress
<1>9. Matches(p)'
  BY <1>1, <1>2, <1>3 DEF Matches
<1>10. ServerTypes'
  BY <1>1, <1>2, <1>6 DEF ServerTypes
<1>11. \A q \in Party : q # p =>
         /\ epc'[q] = epc[q] /\ ezs'[q] = ezs[q] /\ ezt'[q] = ezt[q]
         /\ ehats'[q] = ehats[q] /\ ehatt'[q] = ehatt[q] /\ eout'[q] = eout[q]
  BY <1>1, <1>2, <1>6 DEF ServerTypes
<1>12. QED
  BY <1>2, <1>3, <1>6, <1>8, <1>9, <1>10, <1>11, ServerStep

LEMMA ENextInv == EInv /\ IInv' /\ [EvalNext]_allVars => EInv'
<1> SUFFICES ASSUME EInv, IInv', [EvalNext]_allVars
             PROVE  EInv'
  OBVIOUS
<1>1. CASE Deal
  BY <1>1, DealInv
<1>2. ASSUME NEW p \in Party, RecvKey(p)
      PROVE  EInv'
  BY <1>2, RecvKeyInv
<1>3. ASSUME NEW p \in Party, EvalLevel(p)
      PROVE  EInv'
  BY <1>3, EvalLevelInv
<1>4. ASSUME NEW p \in Party, NEW th \in Thread, EvalJoin(p, th)
      PROVE  EInv'
  BY <1>4, SumStepInv DEF EvalJoin
<1>5. ASSUME NEW p \in Party, NEW th \in Thread, NEW j \in Domain, EvalLeaf(p, th, j)
      PROVE  EInv'
  BY <1>5, SumStepInv DEF EvalLeaf
<1>6. ASSUME NEW p \in Party, Return(p)
      PROVE  EInv'
  BY <1>6, ReturnInv
<1>7. CASE UNCHANGED allVars
  <2>1. 0 \in Party
    BY DEF Party
  <2>2. UNCHANGED <<vars, layers, epc, eTree, eout>>
    BY <1>7 DEF allVars, eVars
  <2>3. QED
    BY <2>1, <2>2, SumStepInv
<1>8. QED
  BY <1>1, <1>2, <1>3, <1>4, <1>5, <1>6, <1>7 DEF EvalNext, EvalMain, EvalWorker

LEMMA DealerCorrect == EvalSpec => []IInv
<1>1. EvalInit => Init
  BY DEF EvalInit
<1>2. [EvalNext]_allVars => [Next]_vars
  BY DealerStep DEF allVars
<1>3. EvalSpec => Spec
  BY <1>1, <1>2, PTL DEF EvalSpec, Spec
<1>4. QED
  BY <1>3, InvCorrect, PTL

LEMMA EInvCorrect == EvalSpec => []EInv
<1>1. QED
  BY EInitInv, ENextInv, DealerCorrect, PTL DEF EvalSpec

(***************************************************************************)
(* Both servers rebuild the dealer's layers from one root and the          *)
(* correction words, at their own pace (src/dpf.cpp:470-511 against        *)
(* 244-320), for every tree height and every PRG.                          *)
(***************************************************************************)
THEOREM LayersCorrect == EvalSpec => []LayersMatch
<1>1. EInv => LayersMatch
  BY DEF EInv
<1>2. QED
  BY <1>1, EInvCorrect, PTL
-----------------------------------------------------------------------------
(***************************************************************************)
(* The refinement of PointSharing.                                         *)
(***************************************************************************)
LEMMA InputTypes ==
  ASSUME TypeOK
  PROVE  /\ Point \in Domain
         /\ [b \in Bit |-> Add(Beta(0)[b], Beta(1)[b])] \in [Bit -> Group]
<1>1. \A b \in Bit : Add(Beta(0)[b], Beta(1)[b]) \in Group
  BY BetaType, GroupClosed DEF Party
<1>2. QED
  BY <1>1, PointType

LEMMA ShareType ==
  ASSUME IInv, pc = "done", NEW p \in Party
  PROVE  [j \in Domain |-> LeafShare(p, j)] \in [Domain -> [Bit -> Group]]
<1>1. TypeOK /\ size = Pow2[Height]
  BY FinalPath DEF IInv
<1>2. ASSUME NEW j \in Domain, NEW b \in Bit
      PROVE  LeafShare(p, j)[b] \in Group
  <2>1. j \in 0 .. size - 1
    BY <1>1 DEF Domain
  <2>2. hatt[p][j] \in Bit /\ Convert[hats[p][j]][b] \in Group
    BY <1>1, <2>1, LeafValue
  <2>3. gamma[b] \in Group /\ 0 \in Group
    BY <1>1, ZeroInGroup DEF TypeOK
  <2> DEFINE g == Convert[hats[p][j]][b]
  <2>4. /\ g \in Group /\ Add(g, gamma[b]) \in Group /\ Sub(0, g) \in Group
        /\ Sub(Sub(0, g), gamma[b]) \in Group
    BY <2>2, <2>3, GroupClosed
  <2>5. QED
    BY <2>4 DEF LeafShare, Share
<1>3. \A j \in Domain : LeafShare(p, j) \in [Bit -> Group]
  BY <1>2 DEF LeafShare, Share
<1>4. QED
  BY <1>3

LEMMA SharingInit == EvalInit => Sharing!Init
<1> SUFFICES ASSUME EvalInit
             PROVE  Sharing!Init
  OBVIOUS
<1>1. TypeOK
  BY InitType DEF EvalInit
<1>2. /\ Point \in Domain
      /\ [b \in Bit |-> Add(Beta(0)[b], Beta(1)[b])] \in [Bit -> Group]
  BY <1>1, InputTypes
<1>3. eout = [p \in {0, 1} |-> NoTable]
  BY DEF EvalInit, Party
<1>4. QED
  BY <1>2, <1>3 DEF Sharing!Init, Sharing!Value, Sharing!Component, Bit, Group

LEMMA SharingKept ==
  ASSUME UNCHANGED <<input, eout>>
  PROVE  UNCHANGED Sharing!vars
<1>1. Point' = Point /\ Beta(0)' = Beta(0) /\ Beta(1)' = Beta(1) /\ eout' = eout
  BY DEF input, Point, Beta
<1>2. QED
  BY <1>1 DEF Sharing!vars

LEMMA ReturnPublishes ==
  ASSUME EInv, IInv', NEW p \in Party, Return(p)
  PROVE  Sharing!Next
<1> DEFINE q == 1 - p
           mine == [j \in Domain |-> LeafShare(p, j)]
<1>1. /\ eout[p] = NoTable
      /\ eout' = [eout EXCEPT ![p] = mine]
  BY ReturnInv
<1>2. IInv /\ Progress(p) /\ DOMAIN eout = Party /\ q \in Party /\ Progress(q)
  BY DEF EInv, ServerTypes, Party
<1>3. pc = "done"
  BY <1>2 DEF Progress, Return
<1>4. mine \in [Domain -> [Bit -> Group]]
  BY <1>2, <1>3, ShareType
<1>5. ASSUME eout[q] # NoTable
      PROVE  \A j \in Domain, b \in Bit :
               (mine[j][b] + eout[q][j][b]) % Modulus
                 = IF j = Point THEN Add(Beta(0)[b], Beta(1)[b]) ELSE 0
  <2>1. eout[q] = [j \in Domain |-> LeafShare(q, j)]
    BY <1>2, <1>5 DEF Progress
  <2> SUFFICES ASSUME NEW j \in Domain, NEW b \in Bit
               PROVE  (mine[j][b] + eout[q][j][b]) % Modulus
                        = IF j = Point THEN Add(Beta(0)[b], Beta(1)[b]) ELSE 0
    OBVIOUS
  <2>2. Add(LeafShare(0, j)[b], LeafShare(1, j)[b]) = PointFunction(j)[b]
    BY <1>2, <1>3, FinalShares DEF ShareCorrect
  <2>3. LeafShare(0, j)[b] \in Int /\ LeafShare(1, j)[b] \in Int
    <3>1. ASSUME NEW r \in Party
          PROVE  LeafShare(r, j)[b] \in Group
      <4> DEFINE f == [k \in Domain |-> LeafShare(r, k)]
      <4>1. f \in [Domain -> [Bit -> Group]]
        BY <1>2, <1>3, ShareType
      <4>2. f[j] = LeafShare(r, j)
        OBVIOUS
      <4> HIDE DEF f
      <4>3. QED
        BY <4>1, <4>2
    <3>2. QED
      BY <3>1, ModulusAssumption DEF Group, Party
  <2>4. mine[j][b] = LeafShare(p, j)[b] /\ eout[q][j][b] = LeafShare(q, j)[b]
    BY <2>1
  <2>5. LeafShare(p, j)[b] + LeafShare(q, j)[b] = LeafShare(0, j)[b] + LeafShare(1, j)[b]
    <3>1. (p = 0 /\ q = 1) \/ (p = 1 /\ q = 0)
      BY DEF Party
    <3>2. QED
      BY <2>3, <3>1
  <2>6. QED
    BY <2>2, <2>4, <2>5 DEF Add, PointFunction
<1>6. eout'[p] = mine
  BY <1>1, <1>2
<1>7. UNCHANGED input
  BY DEF Return, vars
<1>8. UNCHANGED <<Point, [b \in Bit |-> Add(Beta(0)[b], Beta(1)[b])]>>
  BY <1>7 DEF input, Point, Beta
<1> HIDE DEF mine
<1>9. Sharing!Publish(p)
  <2>1. eout'[p] \in Sharing!Table
    BY <1>4, <1>6 DEF Sharing!Table, Sharing!Value, Sharing!Component, Bit, Group
  <2>2. eout' = [eout EXCEPT ![p] = eout'[p]]
    BY <1>1, <1>6
  <2>3. eout[1 - p] # NoTable => Sharing!SumsToPoint(eout'[p], eout[1 - p])
    BY <1>5, <1>6 DEF Sharing!SumsToPoint, Sharing!Component, Bit
  <2>4. QED
    BY <1>1, <1>8, <2>1, <2>2, <2>3 DEF Sharing!Publish
<1>10. QED
  BY <1>9 DEF Sharing!Next, Party

LEMMA SharingNext == EInv /\ IInv' /\ [EvalNext]_allVars => [Sharing!Next]_(Sharing!vars)
<1> SUFFICES ASSUME EInv, IInv', [EvalNext]_allVars
             PROVE  [Sharing!Next]_(Sharing!vars)
  OBVIOUS
<1>1. CASE Deal
  <2>1. UNCHANGED <<input, eout>>
    BY <1>1 DEF Deal, Next, Main, Worker, Level, Leaf, Join, Finish, eVars
  <2>2. QED
    BY <2>1, SharingKept
<1>2. ASSUME NEW p \in Party, Return(p)
      PROVE  Sharing!Next
  BY <1>2, ReturnPublishes
<1>3. CASE UNCHANGED <<vars, eout>>
  <2>1. UNCHANGED <<input, eout>>
    BY <1>3 DEF vars
  <2>2. QED
    BY <2>1, SharingKept
<1>4. ASSUME NEW p \in Party, NEW th \in Thread,
             RecvKey(p) \/ EvalLevel(p) \/ EvalJoin(p, th) \/ EvalWorker(p, th)
      PROVE  UNCHANGED <<vars, eout>>
  BY <1>4 DEF RecvKey, EvalLevel, EvalJoin, EvalWorker, EvalLeaf
<1>5. 0 \in Thread
  BY ThreadsAssumption DEF Thread
<1>6. CASE UNCHANGED allVars
  BY <1>3, <1>6 DEF allVars, eVars
<1>7. QED
  BY <1>1, <1>2, <1>3, <1>4, <1>5, <1>6 DEF EvalNext, EvalMain

(***************************************************************************)
(* The offline phase keeps the promise of PointSharing: whenever a server  *)
(* returns, in whatever order and with whatever interleaving of threads,   *)
(* its table and the other's sum to the point function.                    *)
(***************************************************************************)
THEOREM SharingCorrect == EvalSpec => SharingSpec
<1>1. EvalSpec => [][EvalNext]_allVars
  BY PTL DEF EvalSpec
<1>2. QED
  BY SharingInit, SharingNext, EInvCorrect, DealerCorrect, <1>1, PTL
  DEF EvalSpec, SharingSpec, Sharing!Spec
-----------------------------------------------------------------------------
(***************************************************************************)
(* The sums.  The sum over S of a family c of numbers is the size of the   *)
(* set of pairs of an index and a number below the index's member.         *)
(***************************************************************************)
Units(c, S)  == {u \in S \X (0 .. Modulus - 1) : u[2] < c[u[1]]}
Amount(c, S) == Cardinality(Units(c, S))

LEMMA UnitsFinite ==
  ASSUME NEW S, IsFiniteSet(S), NEW c
  PROVE  IsFiniteSet(Units(c, S)) /\ Amount(c, S) \in Nat
<1>1. IsFiniteSet(0 .. Modulus - 1)
  <2>1. 0 \in Int /\ Modulus - 1 \in Int
    BY ModulusAssumption
  <2>2. QED
    BY <2>1, FS_Interval
<1>2. IsFiniteSet(S \X (0 .. Modulus - 1))
  BY <1>1, FS_Product
<1>3. Units(c, S) \subseteq S \X (0 .. Modulus - 1)
  BY DEF Units
<1>4. IsFiniteSet(Units(c, S))
  BY <1>2, <1>3, FS_Subset
<1>5. QED
  BY <1>4, FS_CardinalityType DEF Amount

LEMMA AmountNone ==
  ASSUME NEW c
  PROVE  Amount(c, {}) = 0
<1>1. Units(c, {}) = {}
  BY DEF Units
<1>2. QED
  BY <1>1, FS_EmptySet DEF Amount

LEMMA AmountOne ==
  ASSUME NEW c, NEW j, c[j] \in 0 .. Modulus
  PROVE  Amount(c, {j}) = c[j]
<1> DEFINE R == 0 .. c[j] - 1
<1>1. c[j] \in Nat /\ Modulus \in Nat
  BY ModulusAssumption
<1>2. IsFiniteSet(R) /\ Cardinality(R) = c[j]
  <2>1. 0 \in Int /\ c[j] - 1 \in Int
    BY <1>1
  <2>2. IsFiniteSet(R) /\ Cardinality(R) = IF 0 > c[j] - 1 THEN 0 ELSE (c[j] - 1) - 0 + 1
    BY <2>1, FS_Interval
  <2>3. QED
    BY <1>1, <2>2
<1>3. IsFiniteSet({j}) /\ Cardinality({j}) = 1
  BY FS_Singleton
<1>4. Units(c, {j}) = {j} \X R
  <2>1. \A n \in 0 .. Modulus - 1 : n < c[j] <=> n \in R
    BY <1>1
  <2>2. R \subseteq 0 .. Modulus - 1
    BY <1>1
  <2> HIDE DEF R
  <2>3. QED
    BY <2>1, <2>2 DEF Units
<1> HIDE DEF R
<1>5. Cardinality({j} \X R) = 1 * c[j]
  BY <1>2, <1>3, FS_Product
<1>6. QED
  BY <1>1, <1>4, <1>5 DEF Amount

LEMMA AmountDisjoint ==
  ASSUME NEW c, NEW A, NEW B, IsFiniteSet(A), IsFiniteSet(B), A \cap B = {}
  PROVE  Amount(c, A \cup B) = Amount(c, A) + Amount(c, B)
<1>1. IsFiniteSet(Units(c, A)) /\ IsFiniteSet(Units(c, B))
  BY UnitsFinite
<1>2. Units(c, A \cup B) = Units(c, A) \cup Units(c, B)
  BY DEF Units
<1>3. Units(c, A) \cap Units(c, B) = {}
  BY DEF Units
<1>4. Cardinality(Units(c, A) \cap Units(c, B)) = 0
  BY <1>3, FS_EmptySet
<1>5. Cardinality(Units(c, A) \cup Units(c, B))
        = Cardinality(Units(c, A)) + Cardinality(Units(c, B))
            - Cardinality(Units(c, A) \cap Units(c, B))
  BY <1>1, FS_Union
<1>6. Amount(c, A) \in Nat /\ Amount(c, B) \in Nat
  BY UnitsFinite
<1>7. Amount(c, A \cup B) = Amount(c, A) + Amount(c, B) - 0
  BY <1>2, <1>4, <1>5 DEF Amount
<1>8. QED
  BY <1>6, <1>7

LEMMA ReducedSum ==
  ASSUME NEW x \in Int, NEW y \in Int
  PROVE  Add(x % Modulus, y % Modulus) = (x + y) % Modulus
<1>1. x % Modulus \in 0 .. Modulus - 1 /\ y % Modulus \in 0 .. Modulus - 1
  BY ModulusAssumption
<1>2. (x % Modulus) % Modulus = x % Modulus /\ (y % Modulus) % Modulus = y % Modulus
  BY <1>1, ModulusAssumption
<1>3. Same(x % Modulus, x, Modulus) /\ Same(y % Modulus, y, Modulus)
  BY <1>2 DEF Same
<1>4. x % Modulus \in Int /\ y % Modulus \in Int
  BY <1>1
<1>5. Same((x % Modulus) + (y % Modulus), x + y, Modulus)
  BY <1>3, <1>4, ModulusAssumption, AddSame
<1>6. QED
  BY <1>5 DEF Same, Add

(***************************************************************************)
(* One program's accumulators and totals: what they hold of the leaves hs, *)
(* ht when the leaves in done are added and n threads are joined.          *)
(***************************************************************************)
Leaves(hs, b)  == [j \in Domain |-> Convert[hs[j]][b]]
Part(th, done) == {j \in done : Owner(j) = th}
Below(n)       == {j \in Domain : Owner(j) < n}

PartialW(hs, done, tw) ==
  tw = [th \in Thread |-> [b \in Bit |-> Amount(Leaves(hs, b), Part(th, done)) % Modulus]]
PartialT(ht, done, tt) ==
  tt = [th \in Thread |-> Amount(ht, Part(th, done))]
TotalW(hs, n, w) == w = [b \in Bit |-> Amount(Leaves(hs, b), Below(n)) % Modulus]
TotalT(ht, n, t) == t = Amount(ht, Below(n))

LEMMA DomainFinite == IsFiniteSet(Domain) /\ Domain \subseteq Nat
<1>1. 0 \in Int /\ Pow2[Height] - 1 \in Int
  BY HeightAssumption, Pow2Assumption
<1>2. QED
  BY <1>1, FS_Interval DEF Domain

LEMMA PartFinite ==
  ASSUME NEW th, NEW done \in SUBSET Domain
  PROVE  IsFiniteSet(Part(th, done))
<1>1. Part(th, done) \subseteq Domain
  BY DEF Part
<1>2. QED
  BY <1>1, DomainFinite, FS_Subset

LEMMA LeafAmount ==
  ASSUME NEW done \in SUBSET Domain, NEW j \in Domain \ done,
         NEW c, c[j] \in 0 .. Modulus
  PROVE  /\ Amount(c, Part(Owner(j), done \cup {j})) = Amount(c, Part(Owner(j), done)) + c[j]
         /\ \A th : th # Owner(j) =>
              Amount(c, Part(th, done \cup {j})) = Amount(c, Part(th, done))
<1>1. Part(Owner(j), done \cup {j}) = Part(Owner(j), done) \cup {j}
  BY DEF Part
<1>2. IsFiniteSet(Part(Owner(j), done)) /\ IsFiniteSet({j})
  BY PartFinite, FS_Singleton
<1>3. Part(Owner(j), done) \cap {j} = {}
  BY DEF Part
<1>4. Amount(c, Part(Owner(j), done) \cup {j}) = Amount(c, Part(Owner(j), done)) + Amount(c, {j})
  BY <1>2, <1>3, AmountDisjoint
<1>5. Amount(c, {j}) = c[j]
  BY AmountOne
<1>6. \A th : th # Owner(j) => Part(th, done \cup {j}) = Part(th, done)
  BY DEF Part
<1>7. QED
  BY <1>1, <1>4, <1>5, <1>6

LEMMA JoinAmount ==
  ASSUME NEW n \in Thread, NEW c
  PROVE  Amount(c, Below(n + 1)) = Amount(c, Below(n)) + Amount(c, Part(n, Domain))
<1>1. \A j \in Domain : Owner(j) \in Int
  BY DomainFinite, OwnerType, ThreadsAssumption DEF Thread
<1>2. n \in Int
  BY ThreadsAssumption DEF Thread
<1>3. Below(n + 1) = Below(n) \cup Part(n, Domain) /\ Below(n) \cap Part(n, Domain) = {}
  BY <1>1, <1>2 DEF Below, Part
<1>4. IsFiniteSet(Below(n)) /\ IsFiniteSet(Part(n, Domain))
  BY DomainFinite, FS_Subset DEF Below, Part
<1>5. QED
  BY <1>3, <1>4, AmountDisjoint

\* One more leaf, one more thread.
LEMMA AddLeaf ==
  ASSUME NEW hs \in [Domain -> Block], NEW ht \in [Domain -> Bit],
         NEW done \in SUBSET Domain, NEW j \in Domain \ done,
         NEW tw, PartialW(hs, done, tw), NEW tt, PartialT(ht, done, tt),
         NEW nw, nw = [tw EXCEPT ![Owner(j)] =
                         [b \in Bit |-> Add(tw[Owner(j)][b], Convert[hs[j]][b])]],
         NEW nt, nt = [tt EXCEPT ![Owner(j)] = tt[Owner(j)] + ht[j]]
  PROVE  PartialW(hs, done \cup {j}, nw) /\ PartialT(ht, done \cup {j}, nt)
<1> DEFINE o == Owner(j)
           new == done \cup {j}
<1>1. o \in Thread
  BY DomainFinite, OwnerType
<1>2. Modulus \in Nat \ {0} /\ Group \subseteq 0 .. Modulus /\ Bit \subseteq 0 .. Modulus
  BY ModulusAssumption DEF Group, Bit
<1>3. \A b \in Bit : Convert[hs[j]][b] \in Group /\ Leaves(hs, b)[j] = Convert[hs[j]][b]
  BY ConvertAssumption DEF Leaves
<1>4. ht[j] \in 0 .. Modulus
  BY <1>2
<1>5. ASSUME NEW b \in Bit
      PROVE  Add(tw[o][b], Convert[hs[j]][b]) = Amount(Leaves(hs, b), Part(o, new)) % Modulus
  <2> DEFINE a == Amount(Leaves(hs, b), Part(o, done))
             c == Convert[hs[j]][b]
  <2>1. a \in Int
    BY PartFinite, UnitsFinite
  <2>2. c \in Int /\ c % Modulus = c
    BY <1>3, ModulusAssumption DEF Group
  <2>3. Amount(Leaves(hs, b), Part(o, new)) = a + c
    <3>1. Leaves(hs, b)[j] \in 0 .. Modulus
      BY <1>2, <1>3
    <3>2. QED
      BY <1>3, <3>1, LeafAmount
  <2>4. tw[o][b] = a % Modulus
    BY <1>1 DEF PartialW
  <2> HIDE DEF a, c
  <2>5. Add(a % Modulus, c % Modulus) = (a + c) % Modulus
    BY <2>1, <2>2, ReducedSum
  <2>6. QED
    BY <2>2, <2>3, <2>4, <2>5 DEF c
<1>6. \A th \in Thread, b \in Bit : th # o =>
        Amount(Leaves(hs, b), Part(th, new)) = Amount(Leaves(hs, b), Part(th, done))
  <2> SUFFICES ASSUME NEW th \in Thread, NEW b \in Bit, th # o
               PROVE  Amount(Leaves(hs, b), Part(th, new)) = Amount(Leaves(hs, b), Part(th, done))
    OBVIOUS
  <2> DEFINE c == Leaves(hs, b)
  <2>1. c[j] \in 0 .. Modulus
    BY <1>2, <1>3
  <2> HIDE DEF c
  <2>2. Amount(c, Part(th, new)) = Amount(c, Part(th, done))
    BY <2>1, LeafAmount
  <2>3. QED
    BY <2>2 DEF c
<1>7. Amount(ht, Part(o, new)) = tt[o] + ht[j]
  <2>1. tt[o] = Amount(ht, Part(o, done))
    BY <1>1 DEF PartialT
  <2>2. QED
    BY <1>4, <2>1, LeafAmount
<1>8. \A th \in Thread : th # o => Amount(ht, Part(th, new)) = Amount(ht, Part(th, done))
  <2> SUFFICES ASSUME NEW th \in Thread, th # Owner(j)
               PROVE  Amount(ht, Part(th, done \cup {j})) = Amount(ht, Part(th, done))
    OBVIOUS
  <2> HIDE DEF o, new
  <2>1. QED
    BY <1>4, LeafAmount
<1> HIDE DEF o, new
<1>9. nw = [th \in Thread |-> [b \in Bit |-> Amount(Leaves(hs, b), Part(th, new)) % Modulus]]
  <2>1. nw = [tw EXCEPT ![o] = [b \in Bit |-> Amount(Leaves(hs, b), Part(o, new)) % Modulus]]
    BY <1>5 DEF o
  <2>2. DOMAIN nw = Thread /\ nw = [th \in Thread |-> nw[th]]
    BY <2>1 DEF PartialW
  <2>3. ASSUME NEW th \in Thread
        PROVE  nw[th] = [b \in Bit |-> Amount(Leaves(hs, b), Part(th, new)) % Modulus]
    <3>1. CASE th = o
      BY <1>1, <2>1, <3>1, ZenonT(30) DEF PartialW
    <3>2. CASE th # o
      <4>1. nw[th] = [b \in Bit |-> Amount(Leaves(hs, b), Part(th, done)) % Modulus]
        BY <2>1, <3>2 DEF PartialW
      <4>2. QED
        BY <1>6, <3>2, <4>1
    <3>3. QED
      BY <3>1, <3>2
  <2>4. QED
    BY <2>2, <2>3
<1>10. nt = [th \in Thread |-> Amount(ht, Part(th, new))]
  <2>1. nt = [tt EXCEPT ![o] = Amount(ht, Part(o, new))]
    BY <1>7 DEF o
  <2>2. DOMAIN nt = Thread /\ nt = [th \in Thread |-> nt[th]]
    BY <2>1 DEF PartialT
  <2>3. ASSUME NEW th \in Thread
        PROVE  nt[th] = Amount(ht, Part(th, new))
    <3>1. CASE th = o
      BY <1>1, <2>1, <3>1 DEF PartialT
    <3>2. CASE th # o
      BY <1>8, <2>1, <3>2 DEF PartialT
    <3>3. QED
      BY <3>1, <3>2
  <2>4. QED
    BY <2>2, <2>3
<1>11. QED
  BY <1>9, <1>10 DEF PartialW, PartialT, new

LEMMA JoinThread ==
  ASSUME NEW hs, NEW ht, NEW n \in Thread,
         NEW tw, PartialW(hs, Domain, tw), NEW tt, PartialT(ht, Domain, tt),
         NEW w, TotalW(hs, n, w), NEW t, TotalT(ht, n, t),
         NEW nw, nw = [b \in Bit |-> Add(w[b], tw[n][b])],
         NEW nt, nt = t + tt[n]
  PROVE  TotalW(hs, n + 1, nw) /\ TotalT(ht, n + 1, nt)
<1>1. ASSUME NEW b \in Bit
      PROVE  Add(w[b], tw[n][b]) = Amount(Leaves(hs, b), Below(n + 1)) % Modulus
  <2> DEFINE x == Amount(Leaves(hs, b), Below(n))
             y == Amount(Leaves(hs, b), Part(n, Domain))
  <2>1. w[b] = x % Modulus /\ tw[n][b] = y % Modulus
    BY DEF TotalW, PartialW
  <2>2. x \in Int /\ y \in Int
    <3>1. IsFiniteSet(Below(n)) /\ IsFiniteSet(Part(n, Domain))
      BY DomainFinite, FS_Subset DEF Below, Part
    <3>2. QED
      BY <3>1, UnitsFinite
  <2>3. Amount(Leaves(hs, b), Below(n + 1)) = x + y
    BY JoinAmount
  <2> HIDE DEF x, y
  <2>4. QED
    BY <2>1, <2>2, <2>3, ReducedSum
<1>2. nw = [b \in Bit |-> Amount(Leaves(hs, b), Below(n + 1)) % Modulus]
  BY <1>1
<1>3. nt = Amount(ht, Below(n + 1))
  BY JoinAmount DEF TotalT, PartialT
<1>4. QED
  BY <1>2, <1>3 DEF TotalW, TotalT

\* Before the first leaf and the first thread everything is zero.
LEMMA NothingAdded ==
  ASSUME NEW hs, NEW ht
  PROVE  /\ PartialW(hs, {}, [th \in Thread |-> [b \in Bit |-> 0]])
         /\ PartialT(ht, {}, [th \in Thread |-> 0])
         /\ TotalW(hs, 0, [b \in Bit |-> 0])
         /\ TotalT(ht, 0, 0)
<1>1. \A th : Part(th, {}) = {}
  BY DEF Part
<1>2. Below(0) = {}
  <2>1. \A j \in Domain : ~(Owner(j) < 0)
    BY DomainFinite, OwnerType, ThreadsAssumption DEF Thread
  <2>2. QED
    BY <2>1 DEF Below
<1>3. \A c : Amount(c, {}) = 0
  BY AmountNone
<1>4. 0 % Modulus = 0
  BY ModulusAssumption
<1>5. QED
  BY <1>1, <1>2, <1>3, <1>4 DEF PartialW, PartialT, TotalW, TotalT

\* Nothing added is nothing added, whatever the leaves will be.
LEMMA NothingKept ==
  ASSUME NEW hs, NEW ht, NEW gs, NEW gt,
         NEW tw, PartialW(hs, {}, tw), NEW tt, PartialT(ht, {}, tt),
         NEW w, TotalW(hs, 0, w), NEW t, TotalT(ht, 0, t)
  PROVE  PartialW(gs, {}, tw) /\ PartialT(gt, {}, tt) /\ TotalW(gs, 0, w) /\ TotalT(gt, 0, t)
<1>1. /\ tw = [th \in Thread |-> [b \in Bit |-> 0]] /\ tt = [th \in Thread |-> 0]
      /\ w = [b \in Bit |-> 0] /\ t = 0
  BY NothingAdded DEF PartialW, PartialT, TotalW, TotalT
<1>2. QED
  BY <1>1, NothingAdded

(***************************************************************************)
(* The dealer's sums, and a server's.                                      *)
(***************************************************************************)
DealerSums ==
  \A p \in Party :
    /\ PartialW(hats[p], summed, threadW[p]) /\ PartialT(hatt[p], summed, threadT[p])
    /\ TotalW(hats[p], joined, W[p]) /\ TotalT(hatt[p], joined, T[p])

SumDomains ==
  /\ DOMAIN esummed = Party /\ DOMAIN ethreadW = Party /\ DOMAIN ethreadT = Party
  /\ DOMAIN ejoined = Party /\ DOMAIN eW = Party /\ DOMAIN eT = Party

ServerSums(p) ==
  /\ esummed[p] \subseteq Domain
  /\ epc[p] \in {"key", "level"} => esummed[p] = {} /\ ejoined[p] = 0
  /\ epc[p] = "done" => ejoined[p] = Threads
  /\ PartialW(ehats[p], esummed[p], ethreadW[p]) /\ PartialT(ehatt[p], esummed[p], ethreadT[p])
  /\ TotalW(ehats[p], ejoined[p], eW[p]) /\ TotalT(ehatt[p], ejoined[p], eT[p])

AllSums == DealerSums /\ SumDomains /\ \A p \in Party : ServerSums(p)

LEMMA SumsInit == EvalInit => AllSums
<1> SUFFICES ASSUME EvalInit
             PROVE  AllSums
  OBVIOUS
<1>1. DealerSums
  <2>1. \A p \in Party :
          /\ threadW[p] = [th \in Thread |-> [b \in Bit |-> 0]]
          /\ threadT[p] = [th \in Thread |-> 0]
          /\ W[p] = [b \in Bit |-> 0] /\ T[p] = 0
    BY DEF EvalInit, Init
  <2>2. summed = {} /\ joined = 0
    BY DEF EvalInit, Init
  <2>3. QED
    BY <2>1, <2>2, NothingAdded DEF DealerSums
<1>2. SumDomains
  BY DEF EvalInit, SumDomains
<1>3. ASSUME NEW p \in Party
      PROVE  ServerSums(p)
  <2>1. /\ ethreadW[p] = [th \in Thread |-> [b \in Bit |-> 0]]
        /\ ethreadT[p] = [th \in Thread |-> 0]
        /\ eW[p] = [b \in Bit |-> 0] /\ eT[p] = 0
        /\ esummed[p] = {} /\ ejoined[p] = 0 /\ epc[p] = "key"
    BY DEF EvalInit
  <2>2. QED
    BY <2>1, NothingAdded DEF ServerSums
<1>4. QED
  BY <1>1, <1>2, <1>3 DEF AllSums

LEMMA DealerLeaves ==
  ASSUME TypeOK, pc # "level", NEW p \in Party
  PROVE  /\ level = Height /\ 0 .. size - 1 = Domain
         /\ hats[p] \in [Domain -> Block] /\ hatt[p] \in [Domain -> Bit]
<1>1. level = Height
  BY HeightAssumption DEF TypeOK
<1>2. 0 .. size - 1 = Domain
  BY <1>1 DEF TypeOK, Domain
<1>3. QED
  BY <1>1, <1>2 DEF TypeOK, Layer

LEMMA DealerSumsStep ==
  ASSUME IInv, DealerSums, [Next]_vars
  PROVE  DealerSums'
<1>1. TypeOK /\ PhaseInvariant
  BY DEF IInv
<1>2. CASE Level
  <2>1. summed = {} /\ joined = 0 /\ UNCHANGED <<summed, threadW, threadT, joined, W, T>>
    BY <1>1, <1>2 DEF Level, PhaseInvariant, sums, totals
  <2>2. QED
    BY <2>1, NothingKept DEF DealerSums
<1>3. ASSUME NEW th \in Thread, NEW j \in 0 .. size - 1, Leaf(th, j)
      PROVE  DealerSums'
  <2>1. /\ pc # "level" /\ j \notin summed /\ Owner(j) = th
        /\ summed' = summed \cup {j}
        /\ UNCHANGED <<hats, hatt, joined, W, T>>
    BY <1>3 DEF Leaf, NextLeaf, tree, totals
  <2>2. 0 \in Party
    BY DEF Party
  <2>3. j \in Domain \ summed /\ summed \in SUBSET Domain
    BY <1>1, <2>1, <2>2, DealerLeaves DEF TypeOK
  <2>4. ASSUME NEW p \in Party
        PROVE  PartialW(hats[p], summed', threadW'[p]) /\ PartialT(hatt[p], summed', threadT'[p])
    <3>1. hats[p] \in [Domain -> Block] /\ hatt[p] \in [Domain -> Bit]
      BY <1>1, <2>1, DealerLeaves
    <3>2. PartialW(hats[p], summed, threadW[p]) /\ PartialT(hatt[p], summed, threadT[p])
      BY DEF DealerSums
    <3>3. /\ threadW'[p] = [threadW[p] EXCEPT ![Owner(j)] =
                              [b \in Bit |-> Add(threadW[p][Owner(j)][b], Convert[hats[p][j]][b])]]
          /\ threadT'[p] = [threadT[p] EXCEPT ![Owner(j)] = threadT[p][Owner(j)] + hatt[p][j]]
      BY <1>3, <2>1 DEF Leaf
    <3>4. ASSUME NEW nw, nw = threadW'[p], NEW nt, nt = threadT'[p]
          PROVE  PartialW(hats[p], summed \cup {j}, nw) /\ PartialT(hatt[p], summed \cup {j}, nt)
      BY <2>3, <3>1, <3>2, <3>3, <3>4, AddLeaf, ZenonT(30)
    <3>5. QED
      BY <2>1, <3>4
  <2>5. QED
    BY <2>1, <2>4 DEF DealerSums
<1>4. ASSUME NEW th \in Thread, Join(th)
      PROVE  DealerSums'
  <2>1. /\ pc # "level" /\ summed = 0 .. size - 1 /\ th = joined /\ joined' = joined + 1
        /\ UNCHANGED <<hats, hatt, summed, threadW, threadT>>
    BY <1>4 DEF Join, tree, sums
  <2>2. 0 \in Party
    BY DEF Party
  <2>3. summed = Domain
    BY <1>1, <2>1, <2>2, DealerLeaves
  <2>4. ASSUME NEW p \in Party
        PROVE  TotalW(hats[p], joined', W'[p]) /\ TotalT(hatt[p], joined', T'[p])
    <3>1. /\ PartialW(hats[p], Domain, threadW[p]) /\ PartialT(hatt[p], Domain, threadT[p])
          /\ TotalW(hats[p], th, W[p]) /\ TotalT(hatt[p], th, T[p])
      BY <2>1, <2>3 DEF DealerSums
    <3>2. /\ W'[p] = [b \in Bit |-> Add(W[p][b], threadW[p][th][b])]
          /\ T'[p] = T[p] + threadT[p][th]
      BY <1>4 DEF Join
    <3>3. ASSUME NEW nw, nw = W'[p], NEW nt, nt = T'[p]
          PROVE  TotalW(hats[p], th + 1, nw) /\ TotalT(hatt[p], th + 1, nt)
      BY <3>1, <3>2, <3>3, JoinThread, SMTT(30)
    <3>4. QED
      BY <2>1, <3>3
  <2>5. QED
    BY <2>1, <2>4 DEF DealerSums
<1>5. CASE UNCHANGED <<tree, sums, totals>>
  BY <1>5 DEF DealerSums, tree, sums, totals
<1>6. Finish \/ UNCHANGED vars => UNCHANGED <<tree, sums, totals>>
  BY DEF Finish, vars
<1>7. QED
  BY <1>2, <1>3, <1>4, <1>5, <1>6 DEF Next, Main, Worker

(***************************************************************************)
(* The servers' steps.                                                     *)
(***************************************************************************)
LEMMA SameLeaves ==
  ASSUME EInv, NEW p \in Party, epc[p] \in {"leaves", "done"}
  PROVE  /\ pc = "done" /\ level = Height
         /\ ehats[p] = hats[p] /\ ehatt[p] = hatt[p]
         /\ ehats[p] \in [Domain -> Block] /\ ehatt[p] \in [Domain -> Bit]
<1>1. Progress(p) /\ Matches(p) /\ Layers /\ TypeOK
  BY DEF EInv, LayersMatch, Matches, IInv
<1>2. pc = "done" /\ ELevel(p) = Height
  BY <1>1 DEF Progress
<1>3. /\ level = Height
      /\ hats[p] \in [Domain -> Block] /\ hatt[p] \in [Domain -> Bit]
  BY <1>1, <1>2, DealerLeaves
<1>4. ehats[p] = hats[p] /\ ehatt[p] = hatt[p]
  BY <1>1, <1>2, <1>3 DEF Matches, Layers
<1>5. QED
  BY <1>2, <1>3, <1>4

LEMMA SumsKeptOf ==
  ASSUME NEW q \in Party, ServerSums(q),
         epc'[q] = epc[q], ehats'[q] = ehats[q], ehatt'[q] = ehatt[q],
         esummed'[q] = esummed[q], ethreadW'[q] = ethreadW[q], ethreadT'[q] = ethreadT[q],
         ejoined'[q] = ejoined[q], eW'[q] = eW[q], eT'[q] = eT[q]
  PROVE  ServerSums(q)'
BY DEF ServerSums, PartialW, PartialT, TotalW, TotalT

LEMMA TreeStepSums ==
  ASSUME EInv, SumDomains, NEW p \in Party, ServerSums(p), RecvKey(p) \/ EvalLevel(p)
  PROVE  ServerSums(p)'
<1>1. /\ UNCHANGED <<esummed, ethreadW, ethreadT, ejoined, eW, eT>>
      /\ epc[p] \in {"key", "level"}
  BY DEF RecvKey, EvalLevel, eSums, eTotals
<1>2. esummed[p] = {} /\ ejoined[p] = 0
  BY <1>1 DEF ServerSums
<1>3. epc'[p] # "done"
  BY DEF RecvKey, EvalLevel, EInv, ServerTypes
<1>4. /\ PartialW(ehats[p], {}, ethreadW[p]) /\ PartialT(ehatt[p], {}, ethreadT[p])
      /\ TotalW(ehats[p], 0, eW[p]) /\ TotalT(ehatt[p], 0, eT[p])
  BY <1>2 DEF ServerSums
<1>5. /\ PartialW(ehats'[p], {}, ethreadW[p]) /\ PartialT(ehatt'[p], {}, ethreadT[p])
      /\ TotalW(ehats'[p], 0, eW[p]) /\ TotalT(ehatt'[p], 0, eT[p])
  <2>1. ASSUME NEW gs, NEW gt
        PROVE  /\ PartialW(gs, {}, ethreadW[p]) /\ PartialT(gt, {}, ethreadT[p])
               /\ TotalW(gs, 0, eW[p]) /\ TotalT(gt, 0, eT[p])
    BY <1>4, NothingKept
  <2>2. QED
    BY <2>1
<1>6. QED
  BY <1>1, <1>2, <1>3, <1>5 DEF ServerSums

LEMMA LeafStepSums ==
  ASSUME EInv, SumDomains, NEW p \in Party, ServerSums(p),
         NEW th \in Thread, NEW j \in Domain, EvalLeaf(p, th, j)
  PROVE  ServerSums(p)'
<1>1. /\ epc[p] = "leaves" /\ j \in Domain \ esummed[p] /\ Owner(j) = th
      /\ UNCHANGED <<epc, ehats, ehatt, ejoined, eW, eT>>
  BY DEF EvalLeaf, eTree, eTotals
<1>2. /\ esummed'[p] = esummed[p] \cup {j}
      /\ ethreadW'[p] = [ethreadW[p] EXCEPT ![Owner(j)] =
                           [b \in Bit |-> Add(ethreadW[p][Owner(j)][b], Convert[ehats[p][j]][b])]]
      /\ ethreadT'[p] = [ethreadT[p] EXCEPT ![Owner(j)] = ethreadT[p][Owner(j)] + ehatt[p][j]]
  BY <1>1 DEF EvalLeaf, SumDomains
<1>3. /\ ehats[p] \in [Domain -> Block] /\ ehatt[p] \in [Domain -> Bit]
  BY <1>1, SameLeaves
<1>4. /\ esummed[p] \in SUBSET Domain
      /\ PartialW(ehats[p], esummed[p], ethreadW[p]) /\ PartialT(ehatt[p], esummed[p], ethreadT[p])
  BY DEF ServerSums
<1>5. ASSUME NEW nw, nw = ethreadW'[p], NEW nt, nt = ethreadT'[p]
      PROVE  PartialW(ehats[p], esummed[p] \cup {j}, nw) /\ PartialT(ehatt[p], esummed[p] \cup {j}, nt)
  <2> DEFINE hs == ehats[p]
             ht == ehatt[p]
             done == esummed[p]
             tw == ethreadW[p]
             tt == ethreadT[p]
  <2>1. j \in Domain \ done /\ done \in SUBSET Domain
    BY <1>1, <1>4
  <2>2. nw = [tw EXCEPT ![Owner(j)] =
                [b \in Bit |-> Add(tw[Owner(j)][b], Convert[hs[j]][b])]]
    BY <1>2, <1>5
  <2>3. nt = [tt EXCEPT ![Owner(j)] = tt[Owner(j)] + ht[j]]
    BY <1>2, <1>5
  <2>4. hs \in [Domain -> Block] /\ ht \in [Domain -> Bit]
    BY <1>3
  <2>5. PartialW(hs, done, tw) /\ PartialT(ht, done, tt)
    BY <1>4
  <2> HIDE DEF hs, ht, done, tw, tt
  <2>6. PartialW(hs, done \cup {j}, nw) /\ PartialT(ht, done \cup {j}, nt)
    BY <2>1, <2>2, <2>3, <2>4, <2>5, AddLeaf
  <2>7. QED
    BY <2>6 DEF hs, ht, done
<1>6. /\ PartialW(ehats[p], esummed'[p], ethreadW'[p])
      /\ PartialT(ehatt[p], esummed'[p], ethreadT'[p])
  BY <1>2, <1>5
<1>7. QED
  BY <1>1, <1>2, <1>4, <1>6 DEF ServerSums

LEMMA JoinStepSums ==
  ASSUME EInv, SumDomains, NEW p \in Party, ServerSums(p),
         NEW th \in Thread, EvalJoin(p, th)
  PROVE  ServerSums(p)'
<1>1. /\ epc[p] = "leaves" /\ esummed[p] = Domain /\ th = ejoined[p]
      /\ UNCHANGED <<epc, ehats, ehatt, esummed, ethreadW, ethreadT>>
  BY DEF EvalJoin, eTree, eSums
<1>2. /\ ejoined'[p] = th + 1
      /\ eW'[p] = [b \in Bit |-> Add(eW[p][b], ethreadW[p][th][b])]
      /\ eT'[p] = eT[p] + ethreadT[p][th]
  BY <1>1 DEF EvalJoin, SumDomains
<1>3. /\ PartialW(ehats[p], Domain, ethreadW[p]) /\ PartialT(ehatt[p], Domain, ethreadT[p])
      /\ TotalW(ehats[p], th, eW[p]) /\ TotalT(ehatt[p], th, eT[p])
  BY <1>1 DEF ServerSums
<1>4. ASSUME NEW nw, nw = eW'[p], NEW nt, nt = eT'[p]
      PROVE  TotalW(ehats[p], th + 1, nw) /\ TotalT(ehatt[p], th + 1, nt)
  BY <1>2, <1>3, <1>4, JoinThread, SMTT(30)
<1>5. TotalW(ehats[p], ejoined'[p], eW'[p]) /\ TotalT(ehatt[p], ejoined'[p], eT'[p])
  BY <1>2, <1>4
<1>6. QED
  BY <1>1, <1>3, <1>5 DEF ServerSums

LEMMA ReturnStepSums ==
  ASSUME EInv, SumDomains, NEW p \in Party, ServerSums(p), Return(p)
  PROVE  ServerSums(p)'
<1>1. /\ epc[p] = "leaves" /\ ejoined[p] = Threads /\ epc'[p] = "done"
      /\ UNCHANGED <<ehats, ehatt, esummed, ethreadW, ethreadT, ejoined, eW, eT>>
  BY DEF Return, eTree, eSums, eTotals, EInv, ServerTypes
<1>2. QED
  BY <1>1 DEF ServerSums

\* A server's step leaves the other server's sums alone.
LEMMA OtherSums ==
  ASSUME EInv, SumDomains, NEW p \in Party, NEW q \in Party, q # p, ServerSums(q),
         NEW th \in Thread, EvalMain(p) \/ EvalWorker(p, th)
  PROVE  ServerSums(q)'
<1>1. ServerTypes
  BY DEF EInv
<1>2. /\ epc'[q] = epc[q] /\ ehats'[q] = ehats[q] /\ ehatt'[q] = ehatt[q]
      /\ esummed'[q] = esummed[q] /\ ethreadW'[q] = ethreadW[q] /\ ethreadT'[q] = ethreadT[q]
      /\ ejoined'[q] = ejoined[q] /\ eW'[q] = eW[q] /\ eT'[q] = eT[q]
  BY <1>1 DEF EvalMain, EvalWorker, RecvKey, EvalLevel, EvalLeaf, EvalJoin, Return,
              eTree, eSums, eTotals, ServerTypes, SumDomains
<1>3. QED
  BY <1>2, SumsKeptOf

LEMMA DomainsStep ==
  ASSUME SumDomains, [EvalNext]_allVars
  PROVE  SumDomains'
BY DEF SumDomains, EvalNext, Deal, EvalMain, EvalWorker, RecvKey, EvalLevel, EvalLeaf,
       EvalJoin, Return, eVars, eSums, eTotals, allVars

LEMMA AllSumsStep == EInv /\ AllSums /\ [EvalNext]_allVars => AllSums'
<1> SUFFICES ASSUME EInv, AllSums, [EvalNext]_allVars
             PROVE  AllSums'
  OBVIOUS
<1>1. SumDomains'
  BY DomainsStep DEF AllSums
<1>2. DealerSums'
  <2>1. [Next]_vars
    BY DealerStep DEF allVars
  <2>2. QED
    BY <2>1, DealerSumsStep DEF EInv, AllSums
<1>3. ASSUME NEW q \in Party
      PROVE  ServerSums(q)'
  <2>0. SumDomains /\ ServerSums(q)
    BY DEF AllSums
  <2>1. CASE UNCHANGED eVars
    BY <2>0, <2>1, SumsKeptOf DEF eVars, eTree, eSums, eTotals
  <2>2. ASSUME NEW p \in Party, NEW th \in Thread, EvalMain(p) \/ EvalWorker(p, th)
        PROVE  ServerSums(q)'
    <3>1. CASE q # p
      BY <2>0, <2>2, <3>1, OtherSums
    <3>2. CASE q = p
      <4>1. CASE RecvKey(p) \/ EvalLevel(p)
        BY <2>0, <3>2, <4>1, TreeStepSums
      <4>2. CASE EvalWorker(p, th)
        BY <2>0, <3>2, <4>2, LeafStepSums DEF EvalWorker
      <4>3. ASSUME NEW k \in Thread, EvalJoin(p, k)
            PROVE  ServerSums(q)'
        BY <2>0, <3>2, <4>3, JoinStepSums
      <4>4. CASE Return(p)
        BY <2>0, <3>2, <4>4, ReturnStepSums
      <4>5. QED
        BY <2>2, <4>1, <4>2, <4>3, <4>4 DEF EvalMain
    <3>3. QED
      BY <3>1, <3>2
  <2>3. 0 \in Thread
    BY ThreadsAssumption DEF Thread
  <2>4. Deal \/ UNCHANGED allVars => UNCHANGED eVars
    BY DEF Deal, allVars
  <2>5. QED
    BY <2>1, <2>2, <2>3, <2>4 DEF EvalNext
<1>4. QED
  BY <1>1, <1>2, <1>3 DEF AllSums

LEMMA AllSumsCorrect == EvalSpec => []AllSums
<1>1. QED
  BY SumsInit, AllSumsStep, EInvCorrect, PTL DEF EvalSpec

LEMMA PacksMatch == EInv /\ AllSums => PackMatchesDealer
<1> SUFFICES ASSUME EInv, AllSums, NEW p \in Party, epc[p] = "done"
             PROVE  ezs[p] = zs[p] /\ ezt[p] = zt[p] /\ eW[p] = W[p] /\ eT[p] = T[p]
  BY DEF PackMatchesDealer
<1>1. /\ pc = "done" /\ level = Height /\ ehats[p] = hats[p] /\ ehatt[p] = hatt[p]
  BY SameLeaves
<1>2. /\ ELevel(p) = Height
      /\ ezs[p] = [i \in 0 .. ELevel(p) - 1 |-> zs[p][i]]
      /\ ezt[p] = [i \in 0 .. ELevel(p) - 1 |-> zt[p][i]]
  BY DEF EInv, Progress
<1>3. /\ zs[p] \in [0 .. Height - 1 -> [Bit -> Block]]
      /\ zt[p] \in [0 .. Height - 1 -> [Bit -> Bit]]
  BY <1>1 DEF EInv, IInv, TypeOK
<1>4. ezs[p] = zs[p] /\ ezt[p] = zt[p]
  BY <1>2, <1>3
<1>5. joined = Threads /\ ejoined[p] = Threads
  BY <1>1 DEF EInv, IInv, PhaseInvariant, AllSums, ServerSums
<1>6. /\ TotalW(hats[p], Threads, W[p]) /\ TotalT(hatt[p], Threads, T[p])
      /\ TotalW(hats[p], Threads, eW[p]) /\ TotalT(hatt[p], Threads, eT[p])
  BY <1>1, <1>5 DEF AllSums, DealerSums, ServerSums
<1>7. QED
  BY <1>4, <1>6 DEF TotalW, TotalT

(***************************************************************************)
(* The pack an honest server sends to the client is what the dealer wrote  *)
(* down for it (src/dpf.cpp:504-546 against 285-366): check_xor has equal  *)
(* values to compare, in every interleaving of any number of threads.      *)
(***************************************************************************)
THEOREM PacksCorrect == EvalSpec => []PackMatchesDealer
<1>1. QED
  BY PacksMatch, EInvCorrect, AllSumsCorrect, PTL
-----------------------------------------------------------------------------
(***************************************************************************)
(* One path.  The ancestor of leaf j at level l, the node the dealer has   *)
(* there, and what dpf_eval makes of a node in one turn of its loop.       *)
(***************************************************************************)
Ancestor(j, l) == j \div Pow2[Height - l]

NodeAt(p, j, l) == [s |-> layers[l].s[p][Ancestor(j, l)], t |-> layers[l].t[p][Ancestor(j, l)]]

Down(p, j, l, up) ==
  LET sig == EvalBit(j, l)
      s   == PrgS(up.s, sig)
      t   == PrgT(up.s, sig)
  IN  IF up.t = 1
      THEN [s |-> BlockXor(s, sigma[l - 1]), t |-> BitXor(t, tau[l - 1][sig])]
      ELSE [s |-> s, t |-> t]

LEMMA AncestorStep ==
  ASSUME NEW j \in Domain, NEW l \in 0 .. Height - 1
  PROVE  /\ EvalBit(j, l + 1) \in Bit
         /\ Ancestor(j, l + 1) = 2 * Ancestor(j, l) + EvalBit(j, l + 1)
         /\ Ancestor(j, l) \in Nat
<1> DEFINE m == Pow2[Height - (l + 1)]
<1>1. Height - (l + 1) \in 0 .. Height - 1 /\ Height - l = (Height - (l + 1)) + 1
  BY HeightAssumption
<1>2. m \in Nat \ {0} /\ Pow2[Height - l] = 2 * m
  <2>1. Height - (l + 1) \in 0 .. Height
    BY <1>1, HeightAssumption
  <2>2. m \in Nat \ {0}
    BY <2>1, PowType
  <2>3. Pow2[(Height - (l + 1)) + 1] = 2 * Pow2[Height - (l + 1)]
    BY <1>1, Pow2Assumption
  <2>4. QED
    BY <1>1, <2>2, <2>3
<1>3. j \in Nat
  BY HeightAssumption, Pow2Assumption DEF Domain
<1>4. Ancestor(j, l + 1) = j \div m /\ EvalBit(j, l + 1) = (j \div m) % 2
  BY DEF Ancestor, EvalBit
<1>5. Ancestor(j, l) = j \div (2 * m)
  BY <1>2 DEF Ancestor
<1> HIDE DEF m
<1>6. j \div m = 2 * (j \div (2 * m)) + ((j \div m) % 2)
  BY <1>2, <1>3, DivHalf
<1>7. j \div m \in Nat /\ j \div (2 * m) \in Nat
  BY <1>2, <1>3
<1>8. QED
  BY <1>4, <1>5, <1>6, <1>7 DEF Bit

LEMMA AncestorRange ==
  ASSUME NEW j \in Domain
  PROVE  \A l \in 0 .. Height : Ancestor(j, l) \in 0 .. Pow2[l] - 1
<1> DEFINE S == {l \in Nat : l <= Height => Ancestor(j, l) \in 0 .. Pow2[l] - 1}
<1>1. 0 \in S
  <2>1. Height - 0 = Height /\ Pow2[Height] \in Nat \ {0} /\ Pow2[0] = 1
    BY HeightAssumption, Pow2Assumption
  <2>2. Ancestor(j, 0) = j \div Pow2[Height]
    BY <2>1 DEF Ancestor
  <2>3. Ancestor(j, 0) = 0
    BY <2>1, <2>2 DEF Domain
  <2>4. QED
    BY <2>1, <2>3
<1>2. ASSUME NEW l \in Nat, l \in S PROVE l + 1 \in S
  <2> SUFFICES ASSUME l + 1 <= Height
               PROVE  Ancestor(j, l + 1) \in 0 .. Pow2[l + 1] - 1
    OBVIOUS
  <2>1. l \in 0 .. Height - 1 /\ l \in 0 .. Height
    BY HeightAssumption
  <2>2. Ancestor(j, l) \in 0 .. Pow2[l] - 1
    BY <1>2, <2>1
  <2>3. Pow2[l] \in Nat /\ Pow2[l + 1] = 2 * Pow2[l]
    BY <2>1, Pow2Assumption
  <2>4. /\ Ancestor(j, l + 1) = 2 * Ancestor(j, l) + EvalBit(j, l + 1)
        /\ EvalBit(j, l + 1) \in Bit
    BY <2>1, AncestorStep
  <2>5. QED
    BY <2>2, <2>3, <2>4 DEF Bit
<1> HIDE DEF S
<1>3. \A l \in Nat : l \in S
  BY <1>1, <1>2, SetInduction
<1>4. QED
  BY <1>3, HeightAssumption DEF S

LEMMA NodeStep ==
  ASSUME EInv, pc = "done", NEW p \in Party, NEW j \in Domain, NEW l \in 0 .. Height - 1
  PROVE  NodeAt(p, j, l + 1) = Down(p, j, l + 1, NodeAt(p, j, l))
<1> DEFINE a == Ancestor(j, l)
           c == Ancestor(j, l + 1)
           e == EvalBit(j, l + 1)
           hs == layers[l].s[p]
           ht == layers[l].t[p]
           n == Pow2[l]
<1>1. level = Height /\ Height \in Nat
  BY HeightAssumption DEF EInv, IInv, TypeOK
<1>2. /\ layers[l + 1].s[p] = CorrectS(hs, ht, n, sigma[l])
      /\ layers[l + 1].t[p] = CorrectT(hs, ht, n, tau[l])
  BY <1>1 DEF EInv, Layers
<1>3. /\ e \in {0, 1} /\ c = 2 * a + e /\ a \in 0 .. n - 1 /\ n \in Nat
  <2>1. l \in 0 .. Height
    BY <1>1
  <2>2. QED
    BY <2>1, AncestorStep, AncestorRange, PowType DEF Bit
<1>4. (l + 1) - 1 = l
  OBVIOUS
<1> HIDE DEF a, c, e, n
<1>5. c \in 0 .. 2 * n - 1 /\ c \div 2 = a /\ c % 2 = e
  BY <1>3
<1> HIDE DEF hs, ht
<1>6. Nodes(hs, n)[c] = PrgS(hs[a], e) /\ Currt(hs, n)[c] = PrgT(hs[a], e)
  BY <1>5 DEF Nodes, Currt
<1>7. CorrectS(hs, ht, n, sigma[l])[c] =
        IF ht[a] = 1 THEN BlockXor(PrgS(hs[a], e), sigma[l]) ELSE PrgS(hs[a], e)
  BY <1>5, <1>6 DEF CorrectS
<1>8. CorrectT(hs, ht, n, tau[l])[c] =
        IF ht[a] = 1 THEN BitXor(PrgT(hs[a], e), tau[l][e]) ELSE PrgT(hs[a], e)
  BY <1>5, <1>6 DEF CorrectT
<1>9. NodeAt(p, j, l + 1) =
        [s |-> CorrectS(hs, ht, n, sigma[l])[c], t |-> CorrectT(hs, ht, n, tau[l])[c]]
  BY <1>2 DEF NodeAt, c
<1>10. NodeAt(p, j, l).s = hs[a] /\ NodeAt(p, j, l).t = ht[a]
  BY DEF NodeAt, hs, ht, a
<1>11. Down(p, j, l + 1, NodeAt(p, j, l)) =
         IF ht[a] = 1
         THEN [s |-> BlockXor(PrgS(hs[a], e), sigma[l]), t |-> BitXor(PrgT(hs[a], e), tau[l][e])]
         ELSE [s |-> PrgS(hs[a], e), t |-> PrgT(hs[a], e)]
  BY <1>4, <1>10 DEF Down, e
<1>12. QED
  BY <1>7, <1>8, <1>9, <1>11

\* The loop of dpf_eval, the recursive function of EvalNode, visits the
\* dealer's nodes: they are a solution of its equation, and the only one.
LEMMA PathNodes ==
  ASSUME EInv, pc = "done", NEW p \in Party, NEW j \in Domain
  PROVE  EvalNode(p, j) = NodeAt(p, j, Height)
<1> DEFINE Eq(f) == f = [l \in 0 .. Height |->
                           IF l = 0 THEN [s |-> seed[p], t |-> p]
                           ELSE Down(p, j, l, f[l - 1])]
           A == [l \in 0 .. Height |-> NodeAt(p, j, l)]
           node == CHOOSE f : Eq(f)
<1>0. Height \in Nat
  BY HeightAssumption
<1>1. EvalNode(p, j) = node[Height]
  BY DEF EvalNode, Down
<1>2. NodeAt(p, j, 0) = [s |-> seed[p], t |-> p]
  <2>1. Ancestor(j, 0) = 0
    <3>1. Ancestor(j, 0) \in 0 .. Pow2[0] - 1
      BY <1>0, AncestorRange
    <3>2. QED
      BY <3>1, Pow2Assumption
  <2>2. layers[0].s[p][0] = seed[p] /\ layers[0].t[p][0] = p
    <3>1. layers[0].s[p] = [k \in {0} |-> seed[p]] /\ layers[0].t[p] = [k \in {0} |-> p]
      BY DEF EInv, Layers
    <3>2. QED
      BY <3>1
  <2>3. QED
    BY <2>1, <2>2 DEF NodeAt
<1>3. \A l \in 0 .. Height : l # 0 => NodeAt(p, j, l) = Down(p, j, l, NodeAt(p, j, l - 1))
  <2> SUFFICES ASSUME NEW l \in 0 .. Height, l # 0
               PROVE  NodeAt(p, j, l) = Down(p, j, l, NodeAt(p, j, l - 1))
    OBVIOUS
  <2>1. l - 1 \in 0 .. Height - 1 /\ (l - 1) + 1 = l
    BY <1>0
  <2>2. NodeAt(p, j, (l - 1) + 1) = Down(p, j, (l - 1) + 1, NodeAt(p, j, l - 1))
    BY <2>1, NodeStep
  <2>3. QED
    BY <2>1, <2>2
<1>4. Eq(A)
  <2>1. ASSUME NEW l \in 0 .. Height
        PROVE  A[l] = IF l = 0 THEN [s |-> seed[p], t |-> p] ELSE Down(p, j, l, A[l - 1])
    <3>1. CASE l = 0
      BY <1>2, <3>1
    <3>2. CASE l # 0
      <4>1. l - 1 \in 0 .. Height
        BY <1>0, <3>2
      <4>2. A[l - 1] = NodeAt(p, j, l - 1) /\ A[l] = NodeAt(p, j, l)
        BY <4>1
      <4>3. QED
        BY <1>3, <3>2, <4>2
    <3>3. QED
      BY <3>1, <3>2
  <2>2. A = [l \in 0 .. Height |-> A[l]]
    OBVIOUS
  <2> HIDE DEF A
  <2>3. QED
    BY <2>1, <2>2
<1>5. Eq(node)
  <2> HIDE DEF A, Eq
  <2>1. QED
    BY <1>4 DEF node
<1> HIDE DEF node
<1>6. /\ node[0] = [s |-> seed[p], t |-> p]
      /\ \A l \in 0 .. Height : l # 0 => node[l] = Down(p, j, l, node[l - 1])
  BY <1>0, <1>5
<1> DEFINE S == {l \in Nat : l <= Height => node[l] = NodeAt(p, j, l)}
<1>7. 0 \in S
  BY <1>2, <1>6
<1>8. ASSUME NEW l \in Nat, l \in S PROVE l + 1 \in S
  <2> SUFFICES ASSUME l + 1 <= Height PROVE node[l + 1] = NodeAt(p, j, l + 1)
    OBVIOUS
  <2>1. l + 1 \in 0 .. Height /\ l + 1 # 0 /\ (l + 1) - 1 = l /\ l <= Height
    BY <1>0
  <2>2. node[l] = NodeAt(p, j, l)
    BY <1>8, <2>1
  <2>3. node[l + 1] = Down(p, j, l + 1, node[l])
    BY <1>6, <2>1
  <2>4. NodeAt(p, j, l + 1) = Down(p, j, l + 1, NodeAt(p, j, l))
    BY <1>3, <2>1
  <2>5. QED
    BY <2>2, <2>3, <2>4
<1> HIDE DEF S
<1>9. \A l \in Nat : l \in S
  BY <1>7, <1>8, SetInduction
<1>10. QED
  BY <1>0, <1>1, <1>9 DEF S

(***************************************************************************)
(* The table of dpf_eval_all (src/dpf.cpp:458-569), which a server built   *)
(* from whole layers and with many threads, holds at every point what      *)
(* dpf_eval (402-456) computes on the one path to it, for every height,    *)
(* PRG, group and key.                                                     *)
(***************************************************************************)
THEOREM EvalCorrect == EvalSpec => []EvalAgrees
<1>1. EInv => EvalAgrees
  <2> SUFFICES ASSUME EInv, NEW p \in Party, epc[p] = "done", NEW j \in Domain
               PROVE  eout[p][j] = EvalPoint(p, j)
    BY DEF EvalAgrees
  <2>1. pc = "done" /\ eout[p][j] = LeafShare(p, j)
    BY DEF EInv, Progress
  <2>2. level = Height /\ Height \in Nat
    BY <2>1, HeightAssumption DEF EInv, IInv, TypeOK
  <2>3. layers[Height].s = hats /\ layers[Height].t = hatt
    BY <2>2 DEF EInv, Layers
  <2>4. Ancestor(j, Height) = j
    <3>1. Height - Height = 0 /\ Pow2[0] = 1 /\ j \in Nat
      BY <2>2, Pow2Assumption DEF Domain
    <3>2. QED
      BY <3>1 DEF Ancestor
  <2>5. EvalNode(p, j).s = hats[p][j] /\ EvalNode(p, j).t = hatt[p][j]
    BY <2>1, <2>3, <2>4, PathNodes DEF NodeAt
  <2>6. QED
    BY <2>1, <2>5 DEF EvalPoint, LeafShare
<1>2. QED
  BY <1>1, EInvCorrect, PTL
-----------------------------------------------------------------------------
(***************************************************************************)
(* InputCheck.                                                             *)
(***************************************************************************)
(***************************************************************************)
(* The bit of the point that decided level i, and what dpf_keygen's tables *)
(* say about each other: the correction words follow from the XORs handed  *)
(* to the client.                                                          *)
(***************************************************************************)
BitAt(i) == (Point \div Pow2[Height - 1 - i]) % 2

WordsFollow ==
  \A i \in 0 .. level - 1 :
    /\ sigma[i] = Sigma(zs[0][i], zs[1][i], BitAt(i))
    /\ tau[i] = Tau(zt[0][i], zt[1][i], BitAt(i))

(***************************************************************************)
(* The packs come from servers whose keys are finished, and the verdict is *)
(* what check_xor returns for them.                                        *)
(***************************************************************************)
PacksReceived ==
  /\ DOMAIN pack = Party
  /\ \A p \in Party : pack[p] # NoPack => pc = "done" /\ pack[p] \in Deviating(p)

VerdictGiven ==
  verdict # "none" =>
    /\ \A p \in Party : pack[p] # NoPack
    /\ verdict = IF CheckXor(pack, Dealer) THEN "accept" ELSE "reject"

CheckInv == IInv /\ WordsFollow /\ PacksReceived /\ VerdictGiven
-----------------------------------------------------------------------------
LEMMA WordsKept ==
  ASSUME WordsFollow, UNCHANGED <<input, tree>>
  PROVE  WordsFollow'
BY DEF WordsFollow, BitAt, Point, input, tree

LEMMA WordsLevel == TypeOK /\ WordsFollow /\ Level => WordsFollow'
<1> SUFFICES ASSUME TypeOK, WordsFollow, Level PROVE WordsFollow'
  OBVIOUS
<1>1. level \in Nat /\ level' = level + 1 /\ index' = index
  BY DEF TypeOK, Level, input
<1>2. \A i \in 0 .. level : BitAt(i)' = BitAt(i)
  BY <1>1 DEF BitAt, Point
<1>3. BitAt(level) = SigBit
  BY DEF BitAt, SigBit
<1>4. /\ zs' = [p \in Party |-> Extend(zs[p], level, ZS(hats[p], size))]
      /\ zt' = [p \in Party |-> Extend(zt[p], level, ZT(hats[p], size))]
      /\ sigma' = Extend(sigma, level, LevelSigma)
      /\ tau' = Extend(tau, level, LevelTau)
  BY DEF Level
<1>5. ASSUME NEW i \in 0 .. level - 1
      PROVE  /\ sigma'[i] = sigma[i] /\ tau'[i] = tau[i]
             /\ \A p \in Party : zs'[p][i] = zs[p][i] /\ zt'[p][i] = zt[p][i]
  BY <1>1, <1>4 DEF Extend
<1>6. /\ sigma'[level] = LevelSigma /\ tau'[level] = LevelTau
      /\ \A p \in Party : zs'[p][level] = ZS(hats[p], size) /\ zt'[p][level] = ZT(hats[p], size)
  BY <1>1, <1>4 DEF Extend
<1>7. ASSUME NEW i \in 0 .. level
      PROVE  /\ sigma'[i] = Sigma(zs'[0][i], zs'[1][i], BitAt(i))
             /\ tau'[i] = Tau(zt'[0][i], zt'[1][i], BitAt(i))
  <2>1. CASE i = level
    BY <1>3, <1>6, <2>1 DEF LevelSigma, LevelTau, Party
  <2>2. CASE i # level
    <3>1. i \in 0 .. level - 1
      BY <1>1, <2>2
    <3>2. /\ sigma[i] = Sigma(zs[0][i], zs[1][i], BitAt(i))
          /\ tau[i] = Tau(zt[0][i], zt[1][i], BitAt(i))
      BY <3>1 DEF WordsFollow
    <3>3. QED
      BY <1>5, <3>1, <3>2 DEF Party
  <2>3. QED
    BY <2>1, <2>2
<1>8. QED
  BY <1>1, <1>2, <1>7 DEF WordsFollow

\* A finished dealer does nothing more.
LEMMA DealerIdle == ASSUME IInv, pc = "done" PROVE ~Next
<1>1. joined = Threads
  BY DEF IInv, PhaseInvariant
<1>2. QED
  BY <1>1 DEF Next, Main, Worker, Level, Join, Finish, Leaf

LEMMA CheckInitInv == CheckInit => CheckInv
<1> SUFFICES ASSUME CheckInit PROVE CheckInv
  OBVIOUS
<1>1. Init
  BY DEF CheckInit
<1>2. IInv
  BY <1>1, InitType, InitPath, InitSums DEF IInv
<1>3. WordsFollow
  BY <1>1 DEF Init, WordsFollow
<1>4. PacksReceived /\ VerdictGiven
  BY DEF CheckInit, PacksReceived, VerdictGiven
<1>5. QED
  BY <1>2, <1>3, <1>4 DEF CheckInv

LEMMA DealStep ==
  ASSUME CheckInv, IInv', Keygen
  PROVE  CheckInv'
<1>1. IInv /\ Next /\ UNCHANGED <<pack, verdict>>
  BY DEF CheckInv, Keygen, packVars
<1>2. pc # "done"
  BY <1>1, DealerIdle
<1>3. \A p \in Party : pack[p] = NoPack
  BY <1>2 DEF CheckInv, PacksReceived
<1>4. WordsFollow'
  <2>1. TypeOK /\ WordsFollow
    BY DEF CheckInv, IInv
  <2>2. Level \/ UNCHANGED <<input, tree>>
    BY <1>1 DEF Next, Main, Worker, Leaf, Join, Finish
  <2>3. QED
    BY <2>1, <2>2, WordsLevel, WordsKept
<1>5. PacksReceived'
  BY <1>1, <1>3 DEF CheckInv, PacksReceived
<1>6. VerdictGiven'
  BY <1>1, <1>3 DEF CheckInv, VerdictGiven, Party
<1>7. QED
  BY <1>4, <1>5, <1>6 DEF CheckInv

\* What the client does leaves the dealer's tables alone.
LEMMA DealerKept ==
  ASSUME CheckInv, UNCHANGED vars
  PROVE  /\ WordsFollow'
         /\ \A p \in Party : (Deviating(p))' = Deviating(p)
         /\ pc' = pc /\ Dealer' = Dealer
<1>1. WordsFollow'
  BY WordsKept DEF CheckInv, vars
<1>2. QED
  BY <1>1 DEF vars, input, tree, sums, totals, Deviating, Honest, Dealer

LEMMA ReceiveStep ==
  ASSUME CheckInv, IInv', NEW p \in Party, Receive(p)
  PROVE  CheckInv'
<1>1. PICK received \in Deviating(p) : pack' = [pack EXCEPT ![p] = received]
  BY DEF Receive
<1>2. pc = "done" /\ pack[p] = NoPack /\ UNCHANGED <<vars, verdict>>
  BY DEF Receive
<1>3. /\ WordsFollow' /\ pc' = pc
      /\ \A q \in Party : (Deviating(q))' = Deviating(q)
  BY <1>2, DealerKept
<1>4. PacksReceived'
  BY <1>1, <1>2, <1>3 DEF CheckInv, PacksReceived
<1>5. VerdictGiven'
  BY <1>2 DEF CheckInv, VerdictGiven
<1>6. QED
  BY <1>3, <1>4, <1>5 DEF CheckInv

LEMMA CheckStep ==
  ASSUME CheckInv, IInv', Check
  PROVE  CheckInv'
<1>1. /\ \A p \in Party : pack[p] # NoPack
      /\ verdict' = IF CheckXor(pack, Dealer) THEN "accept" ELSE "reject"
      /\ UNCHANGED <<vars, pack>>
  BY DEF Check
<1>2. /\ WordsFollow' /\ pc' = pc /\ Dealer' = Dealer
      /\ \A q \in Party : (Deviating(q))' = Deviating(q)
  BY <1>1, DealerKept
<1>3. PacksReceived'
  BY <1>1, <1>2 DEF CheckInv, PacksReceived
<1>4. VerdictGiven'
  <2>1. CheckXor(pack, Dealer)' = CheckXor(pack, Dealer)
    BY <1>1, <1>2 DEF CheckXor, LevelMatches, FinalMatches, SumsComparable, Rj, PackBeta
  <2>2. QED
    BY <1>1, <2>1 DEF VerdictGiven
<1>5. QED
  BY <1>2, <1>3, <1>4 DEF CheckInv

LEMMA CheckStutter ==
  ASSUME CheckInv, IInv', UNCHANGED checkVars
  PROVE  CheckInv'
<1>1. UNCHANGED vars /\ UNCHANGED <<pack, verdict>>
  BY DEF checkVars, packVars
<1>2. /\ WordsFollow' /\ pc' = pc /\ Dealer' = Dealer
      /\ \A q \in Party : (Deviating(q))' = Deviating(q)
  BY <1>1, DealerKept
<1>3. CheckXor(pack, Dealer)' = CheckXor(pack, Dealer)
  BY <1>1, <1>2 DEF CheckXor, LevelMatches, FinalMatches, SumsComparable, Rj, PackBeta
<1>4. PacksReceived' /\ VerdictGiven'
  BY <1>1, <1>2, <1>3 DEF CheckInv, PacksReceived, VerdictGiven
<1>5. QED
  BY <1>2, <1>4 DEF CheckInv

LEMMA CheckInvCorrect == CheckSpec => []CheckInv
<1>1. CheckSpec => []IInv
  <2>1. CheckInit => Init
    BY DEF CheckInit
  <2>2. [CheckNext]_checkVars => [Next]_vars
    BY DEF CheckNext, Keygen, Receive, Check, checkVars
  <2>3. CheckSpec => Spec
    BY <2>1, <2>2, PTL DEF CheckSpec, Spec
  <2>4. QED
    BY <2>3, InvCorrect, PTL
<1>2. CheckInv /\ IInv' /\ [CheckNext]_checkVars => CheckInv'
  BY DealStep, ReceiveStep, CheckStep, CheckStutter DEF CheckNext
<1>3. QED
  BY <1>1, <1>2, CheckInitInv, PTL DEF CheckSpec
-----------------------------------------------------------------------------
(***************************************************************************)
(* Completeness.                                                           *)
(***************************************************************************)
LEMMA FinishedDealer ==
  ASSUME CheckInv, pc = "done"
  PROVE  /\ level = Height /\ Height \in Nat
         /\ \A n \in 0 .. Height - 1 :
              /\ sigma[n] = Sigma(zs[0][n], zs[1][n], BitAt(n))
              /\ tau[n] = Tau(zt[0][n], zt[1][n], BitAt(n))
         /\ gamma = [b \in Bit |-> Gamma(SignBit(T[0], T[1]), W[0][b], W[1][b],
                                         Beta(0)[b], Beta(1)[b])]
<1>1. level = Height /\ Height \in Nat
  BY HeightAssumption DEF CheckInv, IInv, TypeOK
<1>2. QED
  BY <1>1 DEF CheckInv, IInv, PhaseInvariant, WordsFollow

LEMMA HonestLevels ==
  ASSUME CheckInv, pc = "done", DOMAIN pack = Party, \A p \in Party : pack[p] = Honest(p),
         NEW n \in 0 .. Height - 1
  PROVE  LevelMatches(pack, Dealer, n)
<1>1. pack[0] = Honest(0) /\ pack[1] = Honest(1)
  BY DEF Party
<1>2. Rj(pack, n) = BitAt(n)
  BY <1>1 DEF Rj, BitAt, Point, Honest
<1>3. QED
  BY <1>1, <1>2, FinishedDealer DEF LevelMatches, Honest, Dealer, Party

LEMMA HonestFinal ==
  ASSUME CheckInv, pc = "done", DOMAIN pack = Party, \A p \in Party : pack[p] = Honest(p)
  PROVE  FinalMatches(pack, Dealer)
<1>1. pack[0] = Honest(0) /\ pack[1] = Honest(1)
  BY DEF Party
<1>2. PackBeta(pack, 0) = Beta(0) /\ PackBeta(pack, 1) = Beta(1)
  BY <1>1 DEF PackBeta, Beta, Honest
<1>3. \A b \in Bit : gamma[b] = Gamma(SignBit(T[0], T[1]), W[0][b], W[1][b], Beta(0)[b], Beta(1)[b])
  BY FinishedDealer
<1>4. QED
  BY <1>1, <1>2, <1>3 DEF FinalMatches, Honest, Dealer, Party

LEMMA HonestCheckXor ==
  ASSUME CheckInv, pc = "done", DOMAIN pack = Party, \A p \in Party : pack[p] = Honest(p)
  PROVE  CheckXor(pack, Dealer)
<1>1. pack[0] = Honest(0) /\ pack[1] = Honest(1)
  BY DEF Party
<1>2. /\ pack[1].size = Height
      /\ \A n \in 0 .. Height - 1 : LevelMatches(pack, Dealer, n)
  BY <1>1, HonestLevels DEF Honest
<1>3. FinalMatches(pack, Dealer)
  BY HonestFinal
<1>4. QED
  BY <1>1, <1>2, <1>3 DEF CheckXor, SumsComparable, Honest, Dealer, Party

(***************************************************************************)
(* check_xor (src/keys.cpp:3-71) accepts the packs of two honest servers,  *)
(* whatever the inputs, the seeds and the PRG.                             *)
(***************************************************************************)
THEOREM CheckComplete == CheckSpec => []HonestAccepted
<1>1. CheckInv => HonestAccepted
  <2> SUFFICES ASSUME CheckInv, verdict # "none", \A p \in Party : pack[p] = Honest(p)
               PROVE  verdict = "accept"
    BY DEF HonestAccepted
  <2>1. pc = "done" /\ DOMAIN pack = Party
    BY DEF CheckInv, VerdictGiven, PacksReceived, Party
  <2>2. QED
    BY <2>1, HonestCheckXor DEF CheckInv, VerdictGiven
<1>2. QED
  BY <1>1, CheckInvCorrect, PTL
-----------------------------------------------------------------------------
(***************************************************************************)
(* Soundness.  A pack has the fields of an honest one, whichever deviates. *)
(***************************************************************************)
PackType ==
  [index : Domain, payload : Group, size : Nat,
   zs : [0 .. Height - 1 -> [Bit -> Block]], zt : [0 .. Height - 1 -> [Bit -> Bit]],
   sigma : [0 .. Height - 1 -> Block], tau : [0 .. Height - 1 -> [Bit -> Bit]],
   T : Nat, W : [Bit -> Group], gamma : [Bit -> Group]]

LEMMA HonestType ==
  ASSUME CheckInv, pc = "done", NEW p \in Party
  PROVE  Honest(p) \in PackType
<1>1. level = Height /\ Height \in Nat
  BY FinishedDealer
<1>2. /\ index[p] \in Domain /\ payload[p] \in Group
      /\ zs[p] \in [0 .. Height - 1 -> [Bit -> Block]]
      /\ zt[p] \in [0 .. Height - 1 -> [Bit -> Bit]]
      /\ sigma \in [0 .. Height - 1 -> Block] /\ tau \in [0 .. Height - 1 -> [Bit -> Bit]]
      /\ T[p] \in Nat /\ W[p] \in [Bit -> Group] /\ gamma \in [Bit -> Group]
  BY <1>1 DEF CheckInv, IInv, TypeOK
<1>3. QED
  BY <1>1, <1>2 DEF Honest, PackType

LEMMA OtherTableType ==
  ASSUME NEW n \in Nat
  PROVE  /\ \A f \in [0 .. n - 1 -> Block] : OtherEntry(f) \subseteq [0 .. n - 1 -> Block]
         /\ \A S : \A f \in [0 .. n - 1 -> [Bit -> S]] :
              OtherPair(f, S) \subseteq [0 .. n - 1 -> [Bit -> S]]
BY DEF OtherEntry, OtherPair

LEMMA DeviatingType ==
  ASSUME CheckInv, pc = "done", NEW p \in Party
  PROVE  Deviating(p) \subseteq PackType
<1> DEFINE h == Honest(p)
<1>1. h \in PackType
  BY HonestType
<1>2. Height \in Nat /\ Pow2[Height] \in Nat
  BY HeightAssumption, Pow2Assumption
<1>3. /\ OtherPair(h.zs, Block) \subseteq [0 .. Height - 1 -> [Bit -> Block]]
      /\ OtherPair(h.zt, Bit) \subseteq [0 .. Height - 1 -> [Bit -> Bit]]
      /\ OtherPair(h.tau, Bit) \subseteq [0 .. Height - 1 -> [Bit -> Bit]]
      /\ OtherEntry(h.sigma) \subseteq [0 .. Height - 1 -> Block]
  BY <1>1, <1>2, OtherTableType DEF PackType
<1> HIDE DEF h
<1>4. \A v \in Domain : [h EXCEPT !.index = v] \in PackType
  BY <1>1 DEF PackType
<1>5. \A v \in Group : [h EXCEPT !.payload = v] \in PackType
  BY <1>1 DEF PackType
<1>6. \A v \in 0 .. Height : [h EXCEPT !.size = v] \in PackType
  <2>1. 0 .. Height \subseteq Nat
    BY <1>2
  <2>2. \A v \in Nat : [h EXCEPT !.size = v] \in PackType
    BY <1>1 DEF PackType
  <2>3. QED
    BY <2>1, <2>2
<1>7. \A v \in 0 .. Pow2[Height] : [h EXCEPT !.T = v] \in PackType
  <2>1. 0 .. Pow2[Height] \subseteq Nat
    BY <1>2
  <2>2. \A v \in Nat : [h EXCEPT !.T = v] \in PackType
    BY <1>1 DEF PackType
  <2>3. QED
    BY <2>1, <2>2
<1>8. /\ \A v \in OtherPair(h.zs, Block) : [h EXCEPT !.zs = v] \in PackType
      /\ \A v \in OtherPair(h.zt, Bit) : [h EXCEPT !.zt = v] \in PackType
      /\ \A v \in OtherEntry(h.sigma) : [h EXCEPT !.sigma = v] \in PackType
      /\ \A v \in OtherPair(h.tau, Bit) : [h EXCEPT !.tau = v] \in PackType
  BY <1>1, <1>3 DEF PackType
<1>9. \A b \in Bit, v \in Group : /\ [h EXCEPT !.W[b] = v] \in PackType
                                 /\ [h EXCEPT !.gamma[b] = v] \in PackType
  BY <1>1 DEF PackType
<1>10. ASSUME NEW r \in Deviating(p) PROVE r \in PackType
  <2>1. \/ \E v \in Domain : r = [h EXCEPT !.index = v]
        \/ \E v \in Group : r = [h EXCEPT !.payload = v]
        \/ \E v \in 0 .. Height : r = [h EXCEPT !.size = v]
        \/ \E v \in OtherPair(h.zs, Block) : r = [h EXCEPT !.zs = v]
        \/ \E v \in OtherPair(h.zt, Bit) : r = [h EXCEPT !.zt = v]
        \/ \E v \in OtherEntry(h.sigma) : r = [h EXCEPT !.sigma = v]
        \/ \E v \in OtherPair(h.tau, Bit) : r = [h EXCEPT !.tau = v]
        \/ \E v \in 0 .. Pow2[Height] : r = [h EXCEPT !.T = v]
        \/ \E b \in Bit, v \in Group : r = [h EXCEPT !.W[b] = v]
        \/ \E b \in Bit, v \in Group : r = [h EXCEPT !.gamma[b] = v]
    BY <1>10, SMTT(30) DEF Deviating, h
  <2>2. QED
    BY <1>4, <1>5, <1>6, <1>7, <1>8, <1>9, <2>1, Zenon
<1>11. QED
  BY <1>10

LEMMA AcceptedFields ==
  ASSUME CheckInv, pc = "done", CheckXor(pack, Dealer), NEW p \in Party, pack[p] \in PackType
  PROVE  /\ pack[p].index = index[p] /\ pack[p].payload = payload[p]
         /\ pack[p].size = Height
         /\ pack[p].zs = zs[p] /\ pack[p].zt = zt[p]
         /\ pack[p].sigma = sigma /\ pack[p].tau = tau
         /\ pack[p].W = W[p] /\ pack[p].gamma = gamma
<1>1. Honest(p) \in PackType
  BY HonestType
<1>2. pack[p].index = index[p] /\ pack[p].payload = payload[p] /\ pack[p].size = Height
  BY DEF CheckXor, Dealer, Party
<1>3. \A n \in 0 .. Height - 1 : /\ pack[p].zs[n] = zs[p][n] /\ pack[p].zt[n] = zt[p][n]
                                 /\ pack[p].sigma[n] = sigma[n] /\ pack[p].tau[n] = tau[n]
  BY DEF CheckXor, LevelMatches, Dealer
<1>4. /\ pack[p].zs = zs[p] /\ pack[p].zt = zt[p]
      /\ pack[p].sigma = sigma /\ pack[p].tau = tau
  <2>1. /\ pack[p].zs \in [0 .. Height - 1 -> [Bit -> Block]]
        /\ pack[p].zt \in [0 .. Height - 1 -> [Bit -> Bit]]
        /\ pack[p].sigma \in [0 .. Height - 1 -> Block]
        /\ pack[p].tau \in [0 .. Height - 1 -> [Bit -> Bit]]
    BY DEF PackType
  <2>2. /\ zs[p] \in [0 .. Height - 1 -> [Bit -> Block]]
        /\ zt[p] \in [0 .. Height - 1 -> [Bit -> Bit]]
        /\ sigma \in [0 .. Height - 1 -> Block]
        /\ tau \in [0 .. Height - 1 -> [Bit -> Bit]]
    BY <1>1 DEF PackType, Honest
  <2>3. \A n \in 0 .. Height - 1 : pack[p].zs[n] = zs[p][n]
    BY <1>3
  <2>4. \A n \in 0 .. Height - 1 : pack[p].zt[n] = zt[p][n]
    BY <1>3
  <2>5. \A n \in 0 .. Height - 1 : pack[p].sigma[n] = sigma[n]
    BY <1>3
  <2>6. \A n \in 0 .. Height - 1 : pack[p].tau[n] = tau[n]
    BY <1>3
  <2>7. pack[p].zs = zs[p]
    <3>1. pack[p].zs = [n \in 0 .. Height - 1 |-> pack[p].zs[n]]
      BY <2>1
    <3>2. zs[p] = [n \in 0 .. Height - 1 |-> zs[p][n]]
      BY <2>2
    <3>3. QED
      BY <2>3, <3>1, <3>2
  <2>8. pack[p].zt = zt[p]
    <3>1. pack[p].zt = [n \in 0 .. Height - 1 |-> pack[p].zt[n]]
      BY <2>1
    <3>2. zt[p] = [n \in 0 .. Height - 1 |-> zt[p][n]]
      BY <2>2
    <3>3. QED
      BY <2>4, <3>1, <3>2
  <2>9. pack[p].sigma = sigma
    <3>1. pack[p].sigma = [n \in 0 .. Height - 1 |-> pack[p].sigma[n]]
      BY <2>1
    <3>2. sigma = [n \in 0 .. Height - 1 |-> sigma[n]]
      BY <2>2
    <3>3. QED
      BY <2>5, <3>1, <3>2
  <2>10. pack[p].tau = tau
    <3>1. pack[p].tau = [n \in 0 .. Height - 1 |-> pack[p].tau[n]]
      BY <2>1
    <3>2. tau = [n \in 0 .. Height - 1 |-> tau[n]]
      BY <2>2
    <3>3. QED
      BY <2>6, <3>1, <3>2
  <2>11. QED
    BY <2>7, <2>8, <2>9, <2>10
<1>5. pack[p].W = W[p] /\ pack[p].gamma = gamma
  BY DEF CheckXor, FinalMatches, Dealer
<1>6. QED
  BY <1>2, <1>4, <1>5

(***************************************************************************)
(* What check_xor accepts is what the dealer handed out, in every field    *)
(* but T, of which line 43 asks for one party's only, whichever fields of  *)
(* the two packs deviated.                                                 *)
(***************************************************************************)
THEOREM CheckSound == CheckSpec => []AcceptedPacksMatch
<1>1. CheckInv => AcceptedPacksMatch
  <2> SUFFICES ASSUME CheckInv, verdict = "accept"
               PROVE  /\ \A p \in Party : [pack[p] EXCEPT !.T = T[p]] = Honest(p)
                      /\ \E p \in Party : pack[p].T = T[p]
    BY DEF AcceptedPacksMatch
  <2>1. CheckXor(pack, Dealer) /\ \A p \in Party : pack[p] # NoPack
    BY DEF CheckInv, VerdictGiven
  <2>2. pc = "done" /\ \A p \in Party : pack[p] \in PackType
    BY <2>1, DeviatingType DEF CheckInv, PacksReceived, Party
  <2>3. ASSUME NEW p \in Party PROVE [pack[p] EXCEPT !.T = T[p]] = Honest(p)
    <3>1. pack[p] \in PackType
      BY <2>2
    <3>2. [pack[p] EXCEPT !.T = T[p]] =
            [index |-> pack[p].index, payload |-> pack[p].payload, size |-> pack[p].size,
             zs |-> pack[p].zs, zt |-> pack[p].zt, sigma |-> pack[p].sigma,
             tau |-> pack[p].tau, T |-> T[p], W |-> pack[p].W, gamma |-> pack[p].gamma]
      BY <3>1 DEF PackType
    <3>3. QED
      BY <2>1, <2>2, <3>1, <3>2, AcceptedFields DEF Honest
  <2>4. \E p \in Party : pack[p].T = T[p]
    BY <2>1 DEF CheckXor, SumsComparable, Dealer, Party
  <2>5. QED
    BY <2>3, <2>4
<1>2. QED
  BY <1>1, CheckInvCorrect, PTL
=============================================================================
