----------------------------- MODULE DpfKeygen -----------------------------
(***************************************************************************)
(* dpf_keygen (src/dpf.cpp): the trusted dealer builds two keys whose      *)
(* evaluations sum to a point function.  The program expands both parties' *)
(* trees level by level, then Threads OpenMP threads add up the leaves in  *)
(* accumulators of their own, which the main thread joins one after the    *)
(* other before it computes the final correction word gamma.               *)
(*                                                                         *)
(* Layers are functions on 0..size-1.  key0, key1 and the client's copy    *)
(* ip2 receive the same sigma, tau and gamma, which appear here once.      *)
(***************************************************************************)
EXTENDS Dpf

CONSTANTS
  Height,   \* levels of the tree, Bin in the code; the domain has 2^Height points
  Threads,  \* nt, the number of OpenMP threads
  Pow2      \* the powers of two up to Height (the shifts by height - 1 - i)

ASSUME HeightAssumption  == Height \in Nat \ {0}
ASSUME ThreadsAssumption == Threads \in Nat \ {0}
ASSUME Pow2Assumption ==
  /\ Pow2 \in [0 .. Height -> Nat \ {0}]
  /\ Pow2[0] = 1
  /\ \A k \in 0 .. Height - 1 : Pow2[k + 1] = 2 * Pow2[k]

Domain == 0 .. Pow2[Height] - 1
Thread == 0 .. Threads - 1

VARIABLES
  pc,       \* "level", "leaves" (sums and their join), "done"
  index,    \* the two parties' shares of the point
  payload,  \* their shares of the MAC value alpha
  seed,     \* the two root blocks, key.s
  level,    \* levels expanded so far
  size,     \* nodes of the current layer
  hats,     \* each party's corrected blocks of the current layer
  hatt,     \* and control bits
  zs, zt,   \* per level, the XORs handed to the client in ip2
  sigma, tau,   \* per level, the correction words
  summed,   \* leaves already added by the thread that owns them
  threadW, threadT,   \* the threads' accumulators
  joined,   \* threads whose accumulators the main thread has added
  W, T,     \* the totals
  gamma     \* the final correction word

input  == <<index, payload, seed>>
tree   == <<level, size, hats, hatt, zs, zt, sigma, tau>>
sums   == <<summed, threadW, threadT>>
totals == <<joined, W, T>>
vars   == <<pc, input, tree, sums, totals, gamma>>

(***************************************************************************)
(* The secret point, the value the parties' shares must sum to there, and  *)
(* the point's ancestor in the current layer.                              *)
(***************************************************************************)
Point  == (index[0] + index[1]) % Pow2[Height]
SigBit == (Point \div Pow2[Height - 1 - level]) % 2
Path   == Point \div Pow2[Height - level]
Beta(p) == [b \in Bit |-> IF b = 0 THEN p % Modulus ELSE payload[p]]

Init ==
  /\ pc = "level"
  /\ index \in [Party -> Domain]
  /\ payload \in [Party -> Group]
  /\ seed \in [Party -> Block]
  /\ level = 0
  /\ size = 1
  /\ hats = [p \in Party |-> [j \in 0 .. 0 |-> seed[p]]]
  /\ hatt = [p \in Party |-> [j \in 0 .. 0 |-> p]]
  /\ zs = [p \in Party |-> [i \in 0 .. -1 |-> [b \in Bit |-> {}]]]
  /\ zt = [p \in Party |-> [i \in 0 .. -1 |-> [b \in Bit |-> 0]]]
  /\ sigma = [i \in 0 .. -1 |-> {}]
  /\ tau = [i \in 0 .. -1 |-> [b \in Bit |-> 0]]
  /\ summed = {}
  /\ threadW = [p \in Party |-> [th \in Thread |-> [b \in Bit |-> 0]]]
  /\ threadT = [p \in Party |-> [th \in Thread |-> 0]]
  /\ joined = 0
  /\ W = [p \in Party |-> [b \in Bit |-> 0]]
  /\ T = [p \in Party |-> 0]
  /\ gamma = [b \in Bit |-> 0]

(***************************************************************************)
(* One turn of the level loop: expand both trees, record the XORs, choose  *)
(* the correction word and correct both new layers.                        *)
(***************************************************************************)
LevelSigma == Sigma(ZS(hats[0], size), ZS(hats[1], size), SigBit)
LevelTau   == Tau(ZT(hats[0], size), ZT(hats[1], size), SigBit)

Level ==
  /\ pc = "level"
  /\ zs' = [p \in Party |-> Extend(zs[p], level, ZS(hats[p], size))]
  /\ zt' = [p \in Party |-> Extend(zt[p], level, ZT(hats[p], size))]
  /\ sigma' = Extend(sigma, level, LevelSigma)
  /\ tau' = Extend(tau, level, LevelTau)
  /\ hats' = [p \in Party |-> CorrectS(hats[p], hatt[p], size, LevelSigma)]
  /\ hatt' = [p \in Party |-> CorrectT(hats[p], hatt[p], size, LevelTau)]
  /\ level' = level + 1
  /\ size' = 2 * size
  /\ pc' = IF level + 1 = Height THEN "leaves" ELSE "level"
  /\ UNCHANGED <<input, sums, totals, gamma>>

\* Variant: one thread more is dealt leaves than runs.
OwnerOfMissing(j) == j % (Threads + 1)

(***************************************************************************)
(* schedule(static, 1) deals the leaves out to the threads like cards, and *)
(* a thread takes its leaves in order.  The accumulators are its own, so   *)
(* the body of the loop is one step.                                       *)
(***************************************************************************)
Owner(j) == j % Threads

NextLeaf(th, j) ==
  /\ Owner(j) = th
  /\ j \notin summed
  /\ \A k \in 0 .. j - 1 : Owner(k) = th => k \in summed

Leaf(th, j) ==
  /\ pc = "leaves"
  /\ NextLeaf(th, j)
  /\ threadW' = [p \in Party |-> [threadW[p] EXCEPT ![th] =
                   [b \in Bit |-> Add(threadW[p][th][b], Convert[hats[p][j]][b])]]]
  /\ threadT' = [p \in Party |-> [threadT[p] EXCEPT ![th] = threadT[p][th] + hatt[p][j]]]
  /\ summed' = summed \cup {j}
  /\ UNCHANGED <<pc, input, tree, totals, gamma>>

\* Variants: the join loop starts at thread 1; the totals are not reduced.
JoinFromOne(th) ==
  /\ pc = "leaves"
  /\ summed = 0 .. size - 1
  /\ th = joined
  /\ IF th = 0 THEN UNCHANGED <<W, T>>
     ELSE /\ W' = [p \in Party |-> [b \in Bit |-> Add(W[p][b], threadW[p][th][b])]]
          /\ T' = [p \in Party |-> T[p] + threadT[p][th]]
  /\ joined' = joined + 1
  /\ UNCHANGED <<pc, input, tree, sums, gamma>>

JoinUnreduced(th) ==
  /\ pc = "leaves"
  /\ summed = 0 .. size - 1
  /\ th = joined
  /\ W' = [p \in Party |-> [b \in Bit |-> W[p][b] + threadW[p][th][b]]]
  /\ T' = [p \in Party |-> T[p] + threadT[p][th]]
  /\ joined' = joined + 1
  /\ UNCHANGED <<pc, input, tree, sums, gamma>>

(***************************************************************************)
(* Behind the barrier that ends the parallel region, one turn of the loop  *)
(* that adds the accumulators up.                                          *)
(***************************************************************************)
Join(th) ==
  /\ pc = "leaves"
  /\ summed = 0 .. size - 1
  /\ th = joined
  /\ W' = [p \in Party |-> [b \in Bit |-> Add(W[p][b], threadW[p][th][b])]]
  /\ T' = [p \in Party |-> T[p] + threadT[p][th]]
  /\ joined' = joined + 1
  /\ UNCHANGED <<pc, input, tree, sums, gamma>>

Finish ==
  /\ pc = "leaves"
  /\ joined = Threads
  /\ gamma' = [b \in Bit |->
                 Gamma(SignBit(T[0], T[1]), W[0][b], W[1][b], Beta(0)[b], Beta(1)[b])]
  /\ pc' = "done"
  /\ UNCHANGED <<input, tree, sums, totals>>

Main == Level \/ (\E th \in Thread : Join(th)) \/ Finish
Worker(th) == \E j \in 0 .. size - 1 : Leaf(th, j)

Next == Main \/ \E th \in Thread : Worker(th)

Spec == Init /\ [][Next]_vars

\* The operating system runs every thread of the process.
Fairness == WF_vars(Main) /\ \A th \in Thread : WF_vars(Worker(th))
FairSpec == Spec /\ Fairness
-----------------------------------------------------------------------------
Layer(S) == [0 .. size - 1 -> S]

(***************************************************************************)
(* Types, with the domain of every per-level table and per-layer array     *)
(* (the code's malloc sizes).                                              *)
(***************************************************************************)
TypeOK ==
  /\ pc \in {"level", "leaves", "done"}
  /\ index \in [Party -> Domain]
  /\ payload \in [Party -> Group]
  /\ seed \in [Party -> Block]
  /\ level \in 0 .. Height
  /\ (pc = "level") <=> (level < Height)
  /\ size = Pow2[level]
  /\ hats \in [Party -> Layer(Block)]
  /\ hatt \in [Party -> Layer(Bit)]
  /\ zs \in [Party -> [0 .. level - 1 -> [Bit -> Block]]]
  /\ zt \in [Party -> [0 .. level - 1 -> [Bit -> Bit]]]
  /\ sigma \in [0 .. level - 1 -> Block]
  /\ tau \in [0 .. level - 1 -> [Bit -> Bit]]
  /\ summed \subseteq 0 .. size - 1
  /\ threadW \in [Party -> [Thread -> [Bit -> Group]]]
  /\ threadT \in [Party -> [Thread -> Nat]]
  /\ joined \in 0 .. Threads
  /\ W \in [Party -> [Bit -> Group]]
  /\ T \in [Party -> Nat]
  /\ gamma \in [Bit -> Group]

(***************************************************************************)
(* What makes the construction a DPF: after every level, and whatever the  *)
(* PRG returned, the two parties hold the same block and bit at each node  *)
(* off the path to the secret point, and different bits at the node on it. *)
(* The correction words of dpf.cpp:261-280 exist for this.                 *)
(***************************************************************************)
PathInvariant ==
  /\ Path \in 0 .. size - 1
  /\ hatt[0][Path] # hatt[1][Path]
  /\ \A j \in (0 .. size - 1) \ {Path} :
       /\ hats[0][j] = hats[1][j]
       /\ hatt[0][j] = hatt[1][j]

(***************************************************************************)
(* However the threads interleave, a thread's accumulators of the two      *)
(* parties differ only by the leaf on the path, and only in the thread     *)
(* that owns this leaf, once it has added it; the totals inherit the       *)
(* difference when that thread is joined (dpf.cpp:335-366).                *)
(***************************************************************************)
LeafDiffW(b) == Sub(Convert[hats[0][Path]][b], Convert[hats[1][Path]][b])
LeafDiffT    == hatt[0][Path] - hatt[1][Path]

ThreadSums ==
  \A th \in Thread :
    LET own == Path \in summed /\ Owner(Path) = th
    IN  /\ \A b \in Bit : Sub(threadW[0][th][b], threadW[1][th][b])
                            = IF own THEN LeafDiffW(b) ELSE 0
        /\ threadT[0][th] - threadT[1][th] = IF own THEN LeafDiffT ELSE 0

TotalSums ==
  LET own == Owner(Path) < joined
  IN  /\ \A b \in Bit : Sub(W[0][b], W[1][b]) = IF own THEN LeafDiffW(b) ELSE 0
      /\ T[0] - T[1] = IF own THEN LeafDiffT ELSE 0

SumsInvariant == ThreadSums /\ TotalSums

(***************************************************************************)
(* The promise of dpf_keygen: the shares the two finished keys give at a   *)
(* leaf sum to (1, alpha) at the secret point and to (0, 0) at every other *)
(* point, the equation that inner_prod and the client's reconstruction     *)
(* rest on.                                                                *)
(***************************************************************************)
LeafShare(p, j) == Share(p, hats[p][j], hatt[p][j], gamma)

PointFunction(j) ==
  [b \in Bit |-> IF j = Point THEN Add(Beta(0)[b], Beta(1)[b]) ELSE 0]

ShareCorrect ==
  pc = "done" =>
    \A j \in Domain, b \in Bit :
      Add(LeafShare(0, j)[b], LeafShare(1, j)[b]) = PointFunction(j)[b]

(***************************************************************************)
(* The key generation ends: no thread waits for a leaf another one owns,   *)
(* and the join finds every leaf summed.                                   *)
(***************************************************************************)
Terminates == <>(pc = "done")
=============================================================================
