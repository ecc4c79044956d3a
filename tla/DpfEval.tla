------------------------------ MODULE DpfEval ------------------------------
(***************************************************************************)
(* dpf_eval_all (src/dpf.cpp:458-569) run by the two servers side by side  *)
(* on the keys that dpf_keygen made: the same tree again from one root and *)
(* the correction words alone, the leaf sums that go into the              *)
(* input_check_pack, and the server's table of output shares.  Also        *)
(* dpf_eval (402-456), the evaluation at one point.                        *)
(*                                                                         *)
(* The key reaches a server when the dealer is done; its fields are the    *)
(* dealer's seed, sigma, tau and gamma.                                    *)
(***************************************************************************)
EXTENDS DpfKeygen

CONSTANT NoTable   \* value of a server's output before it has one

VARIABLES
  layers,      \* history: layers[i] is the dealer's corrected layer at level i
  epc,         \* per server: "key" (waiting), "level", "leaves", "done"
  ehats, ehatt,       \* per server: the corrected layer, hats and hatt
  ezs, ezt,           \* icp->zs, icp->zt
  esummed,            \* leaves processed so far
  ethreadW, ethreadT, \* the threads' accumulators
  ejoined, eW, eT,    \* the totals, icp->W and icp->T
  eout                \* the output table

eTree   == <<ehats, ehatt, ezs, ezt>>
eSums   == <<esummed, ethreadW, ethreadT>>
eTotals == <<ejoined, eW, eT>>
eVars   == <<epc, eTree, eSums, eTotals, eout>>
allVars == <<vars, layers, eVars>>

ELevel(p) == Cardinality(DOMAIN ezs[p])
ESize(p)  == Pow2[ELevel(p)]

EvalInit ==
  /\ Init
  /\ layers = [i \in {0} |-> [s |-> hats, t |-> hatt]]
  /\ epc = [p \in Party |-> "key"]
  /\ ehats = [p \in Party |-> [j \in {} |-> {}]]
  /\ ehatt = [p \in Party |-> [j \in {} |-> 0]]
  /\ ezs = [p \in Party |-> [i \in {} |-> [b \in Bit |-> {}]]]
  /\ ezt = [p \in Party |-> [i \in {} |-> [b \in Bit |-> 0]]]
  /\ esummed = [p \in Party |-> {}]
  /\ ethreadW = [p \in Party |-> [th \in Thread |-> [b \in Bit |-> 0]]]
  /\ ethreadT = [p \in Party |-> [th \in Thread |-> 0]]
  /\ ejoined = [p \in Party |-> 0]
  /\ eW = [p \in Party |-> [b \in Bit |-> 0]]
  /\ eT = [p \in Party |-> 0]
  /\ eout = [p \in Party |-> NoTable]

\* The dealer's step, remembering the layer it leaves.
Deal ==
  /\ Next
  /\ layers' = IF level' = level THEN layers
               ELSE Extend(layers, level', [s |-> hats', t |-> hatt'])
  /\ UNCHANGED eVars

\* Variant: the root's control bit is not the party's number.
RecvKeyZeroBit(p) ==
  /\ pc = "done"
  /\ epc[p] = "key"
  /\ ehats' = [ehats EXCEPT ![p] = [j \in {0} |-> seed[p]]]
  /\ ehatt' = [ehatt EXCEPT ![p] = [j \in {0} |-> 0]]
  /\ epc' = [epc EXCEPT ![p] = "level"]
  /\ UNCHANGED <<vars, layers, ezs, ezt, eSums, eTotals, eout>>

\* recv_dpf_key returned and dpf_eval_all sets up the root.
RecvKey(p) ==
  /\ pc = "done"
  /\ epc[p] = "key"
  /\ ehats' = [ehats EXCEPT ![p] = [j \in {0} |-> seed[p]]]
  /\ ehatt' = [ehatt EXCEPT ![p] = [j \in {0} |-> p]]
  /\ epc' = [epc EXCEPT ![p] = "level"]
  /\ UNCHANGED <<vars, layers, ezs, ezt, eSums, eTotals, eout>>

(***************************************************************************)
(* One turn of the level loop: expand, note the XORs for the client,       *)
(* correct the children of nodes whose control bit is set.                 *)
(***************************************************************************)
EvalLevel(p) ==
  LET l == ELevel(p) IN
  /\ epc[p] = "level"
  /\ ezs' = [ezs EXCEPT ![p] = Extend(ezs[p], l, ZS(ehats[p], ESize(p)))]
  /\ ezt' = [ezt EXCEPT ![p] = Extend(ezt[p], l, ZT(ehats[p], ESize(p)))]
  /\ ehats' = [ehats EXCEPT ![p] = CorrectS(ehats[p], ehatt[p], ESize(p), sigma[l])]
  /\ ehatt' = [ehatt EXCEPT ![p] = CorrectT(ehats[p], ehatt[p], ESize(p), tau[l])]
  /\ epc' = [epc EXCEPT ![p] = IF l + 1 = Height THEN "leaves" ELSE "level"]
  /\ UNCHANGED <<vars, layers, eSums, eTotals, eout>>

\* One iteration of the parallel leaf loop, by the thread that owns leaf j.
EvalLeaf(p, th, j) ==
  /\ epc[p] = "leaves"
  /\ Owner(j) = th
  /\ j \notin esummed[p]
  /\ \A k \in 0 .. j - 1 : Owner(k) = th => k \in esummed[p]
  /\ ethreadW' = [ethreadW EXCEPT ![p][th] =
                    [b \in Bit |-> Add(ethreadW[p][th][b], Convert[ehats[p][j]][b])]]
  /\ ethreadT' = [ethreadT EXCEPT ![p][th] = ethreadT[p][th] + ehatt[p][j]]
  /\ esummed' = [esummed EXCEPT ![p] = @ \cup {j}]
  /\ UNCHANGED <<vars, layers, epc, eTree, eTotals, eout>>

\* Variant: the join loop starts at thread 1.
EvalJoinFromOne(p, th) ==
  /\ epc[p] = "leaves"
  /\ esummed[p] = Domain
  /\ th = ejoined[p]
  /\ IF th = 0 THEN UNCHANGED <<eW, eT>>
     ELSE /\ eW' = [eW EXCEPT ![p] = [b \in Bit |-> Add(eW[p][b], ethreadW[p][th][b])]]
          /\ eT' = [eT EXCEPT ![p] = eT[p] + ethreadT[p][th]]
  /\ ejoined' = [ejoined EXCEPT ![p] = ejoined[p] + 1]
  /\ UNCHANGED <<vars, layers, epc, eTree, eSums, eout>>

EvalJoin(p, th) ==
  /\ epc[p] = "leaves"
  /\ esummed[p] = Domain
  /\ th = ejoined[p]
  /\ eW' = [eW EXCEPT ![p] = [b \in Bit |-> Add(eW[p][b], ethreadW[p][th][b])]]
  /\ eT' = [eT EXCEPT ![p] = eT[p] + ethreadT[p][th]]
  /\ ejoined' = [ejoined EXCEPT ![p] = ejoined[p] + 1]
  /\ UNCHANGED <<vars, layers, epc, eTree, eSums, eout>>

\* The table out[j], whose entries the leaf loop wrote, is returned.
Return(p) ==
  /\ epc[p] = "leaves"
  /\ ejoined[p] = Threads
  /\ eout' = [eout EXCEPT ![p] =
                [j \in Domain |-> Share(p, ehats[p][j], ehatt[p][j], gamma)]]
  /\ epc' = [epc EXCEPT ![p] = "done"]
  /\ UNCHANGED <<vars, layers, eTree, eSums, eTotals>>

EvalWorker(p, th) == \E j \in Domain : EvalLeaf(p, th, j)
EvalMain(p) == RecvKey(p) \/ EvalLevel(p) \/ (\E th \in Thread : EvalJoin(p, th)) \/ Return(p)

EvalNext ==
  \/ Deal
  \/ \E p \in Party : EvalMain(p) \/ \E th \in Thread : EvalWorker(p, th)

EvalSpec == EvalInit /\ [][EvalNext]_allVars
EvalFairness ==
  /\ WF_allVars(Deal)
  /\ \A p \in Party : /\ WF_allVars(EvalMain(p))
                      /\ \A th \in Thread : WF_allVars(EvalWorker(p, th))
EvalFairSpec == EvalSpec /\ EvalFairness

\* Variant: the path read from the lowest bit of the index.
EvalBitLowFirst(idx, l) == (idx \div Pow2[l - 1]) % 2

\* The bit of idx that chooses the child at level l - 1.
EvalBit(idx, l) == (idx \div Pow2[Height - l]) % 2

(***************************************************************************)
(* dpf_eval: down one path, correcting whenever the control bit is set.    *)
(***************************************************************************)
EvalNode(p, idx) ==
  LET node[l \in 0 .. Height] ==
        IF l = 0 THEN [s |-> seed[p], t |-> p]
        ELSE LET up  == node[l - 1]
                 sig == EvalBit(idx, l)
                 s   == PrgS(up.s, sig)
                 t   == PrgT(up.s, sig)
             IN  IF up.t = 1
                 THEN [s |-> BlockXor(s, sigma[l - 1]), t |-> BitXor(t, tau[l - 1][sig])]
                 ELSE [s |-> s, t |-> t]
  IN  node[Height]

EvalPoint(p, idx) == Share(p, EvalNode(p, idx).s, EvalNode(p, idx).t, gamma)
-----------------------------------------------------------------------------
(***************************************************************************)
(* A server rebuilds, from its own root and the correction words alone,    *)
(* exactly the layers the dealer had for it, at its own pace.              *)
(***************************************************************************)
LayersMatch ==
  \A p \in Party : epc[p] # "key" =>
    /\ ehats[p] = layers[ELevel(p)].s[p]
    /\ ehatt[p] = layers[ELevel(p)].t[p]

(***************************************************************************)
(* What the client compares in check_xor agrees for an honest server: its  *)
(* XORs and leaf sums are the dealer's, although both added the leaves in  *)
(* an order of their own threads.                                          *)
(***************************************************************************)
PackMatchesDealer ==
  \A p \in Party : epc[p] = "done" =>
    ezs[p] = zs[p] /\ ezt[p] = zt[p] /\ eW[p] = W[p] /\ eT[p] = T[p]

(***************************************************************************)
(* Evaluating everywhere and evaluating at one point are the same function *)
(* of the key: out[j] of dpf_eval_all is what dpf_eval returns for j.      *)
(***************************************************************************)
EvalAgrees ==
  \A p \in Party : epc[p] = "done" =>
    \A j \in Domain : eout[p][j] = EvalPoint(p, j)

(***************************************************************************)
(* The offline phase implements PointSharing: the tables the servers       *)
(* return, in either order, share the point function.                      *)
(***************************************************************************)
Sharing == INSTANCE PointSharing WITH
  Points <- Domain,
  Order <- Modulus,
  point <- Point,
  value <- [b \in Bit |-> Add(Beta(0)[b], Beta(1)[b])],
  table <- eout

SharingSpec == Sharing!Spec

\* Both servers return.
BothReturn == <>(\A p \in Party : epc[p] = "done")
=============================================================================
