----------------------------- MODULE InputCheck -----------------------------
(***************************************************************************)
(* check_xor (src/keys.cpp:3-71): the client compares the packs the two    *)
(* servers computed with the dealer's, and checks that the dealer's        *)
(* correction words follow from them.  The dealer is DpfKeygen; an honest  *)
(* server's pack equals the dealer's values (DpfEval, PackMatchesDealer).  *)
(* A server that evaluated something else (another key, a lost update in a *)
(* sum, another size) is a pack with one deviating field.                  *)
(***************************************************************************)
EXTENDS DpfKeygen

CONSTANT NoPack

VARIABLES
  pack,    \* pack[p]: what the client received from server p
  verdict  \* "none", then the result of check_xor: "accept" or "reject"

packVars  == <<pack, verdict>>
checkVars == <<vars, packVars>>

\* icp of an honest server, and the dealer's ip2.
Honest(p) ==
  [index |-> index[p], payload |-> payload[p], size |-> Height,
   zs |-> zs[p], zt |-> zt[p], sigma |-> sigma, tau |-> tau,
   T |-> T[p], W |-> W[p], gamma |-> gamma]

Dealer ==
  [index |-> index, payload |-> payload, size |-> Height,
   zs |-> zs, zt |-> zt, sigma |-> sigma, tau |-> tau,
   T |-> T, W |-> W, gamma |-> gamma]

\* Tables of per-level entries with at most one entry changed.
OtherEntry(f) == {[f EXCEPT ![i] = v] : i \in DOMAIN f, v \in Block}
OtherPair(f, S) == {[f EXCEPT ![i][b] = v] : i \in DOMAIN f, b \in Bit, v \in S}

Deviating(p) ==
  LET h == Honest(p) IN
       {[h EXCEPT !.index = v] : v \in Domain}
  \cup {[h EXCEPT !.payload = v] : v \in Group}
  \cup {[h EXCEPT !.size = v] : v \in 0 .. Height}
  \cup {[h EXCEPT !.zs = v] : v \in OtherPair(h.zs, Block)}
  \cup {[h EXCEPT !.zt = v] : v \in OtherPair(h.zt, Bit)}
  \cup {[h EXCEPT !.sigma = v] : v \in OtherEntry(h.sigma)}
  \cup {[h EXCEPT !.tau = v] : v \in OtherPair(h.tau, Bit)}
  \cup {[h EXCEPT !.T = v] : v \in 0 .. Pow2[Height]}
  \cup {[h EXCEPT !.W[b] = v] : b \in Bit, v \in Group}
  \cup {[h EXCEPT !.gamma[b] = v] : b \in Bit, v \in Group}
-----------------------------------------------------------------------------
\* Variant: the bit of the next level.
RjShifted(x, n) ==
  (((x[0].index + x[1].index) % Pow2[Height]) \div Pow2[x[0].size - n]) % 2

(***************************************************************************)
(* The bit of the point at level n, from the shares in the packs.          *)
(***************************************************************************)
Rj(x, n) ==
  (((x[0].index + x[1].index) % Pow2[Height]) \div Pow2[x[0].size - 1 - n]) % 2

\* Variant: the dealer's words are recomputed, but not compared with the packs'.
LevelRecomputed(x, y, n) ==
  /\ y.sigma[n] = Sigma(x[0].zs[n], x[1].zs[n], Rj(x, n))
  /\ y.tau[n] = Tau(x[0].zt[n], x[1].zt[n], Rj(x, n))

LevelMatches(x, y, n) ==
  /\ \A p \in Party : /\ x[p].zs[n] = y.zs[p][n]
                      /\ x[p].zt[n] = y.zt[p][n]
                      /\ x[p].sigma[n] = y.sigma[n]
                      /\ x[p].tau[n] = y.tau[n]
  /\ y.sigma[n] = Sigma(x[0].zs[n], x[1].zs[n], Rj(x, n))
  /\ y.tau[n] = Tau(x[0].zt[n], x[1].zt[n], Rj(x, n))

PackBeta(x, p) == [b \in Bit |-> IF b = 0 THEN p % Modulus ELSE x[p].payload]

FinalMatches(x, y) ==
  /\ \A p \in Party : x[p].W = y.W[p] /\ x[p].gamma = y.gamma
  /\ \A b \in Bit :
       x[0].gamma[b] = Gamma(SignBit(x[0].T, x[1].T), x[0].W[b], x[1].W[b],
                             PackBeta(x, 0)[b], PackBeta(x, 1)[b])

\* Line 43 joins the two comparisons with ||.
SumsComparable(x, y) == x[0].T = y.T[0] \/ x[1].T = y.T[1]

CheckXor(x, y) ==
  /\ \A p \in Party : x[p].index = y.index[p]
  /\ \A p \in Party : x[p].payload = y.payload[p]
  /\ x[0].size = x[1].size /\ x[1].size = y.size
  /\ \A n \in 0 .. x[1].size - 1 : LevelMatches(x, y, n)
  /\ SumsComparable(x, y)
  /\ FinalMatches(x, y)
-----------------------------------------------------------------------------
CheckInit ==
  /\ Init
  /\ pack = [p \in Party |-> NoPack]
  /\ verdict = "none"

Keygen == Next /\ UNCHANGED packVars

\* recv_input_check_pack: party 0's pack first, then party 1's (c.cpp:27-28).
Receive(p) ==
  /\ pc = "done"
  /\ pack[p] = NoPack
  /\ \A q \in Party : q < p => pack[q] # NoPack
  /\ \E received \in Deviating(p) : pack' = [pack EXCEPT ![p] = received]
  /\ UNCHANGED <<vars, verdict>>

Check ==
  /\ \A p \in Party : pack[p] # NoPack
  /\ verdict = "none"
  /\ verdict' = IF CheckXor(pack, Dealer) THEN "accept" ELSE "reject"
  /\ UNCHANGED <<vars, pack>>

CheckNext == Keygen \/ (\E p \in Party : Receive(p)) \/ Check

CheckSpec == CheckInit /\ [][CheckNext]_checkVars
-----------------------------------------------------------------------------
(***************************************************************************)
(* The check is complete: the packs of two honest servers are accepted for *)
(* every choice of inputs, seeds and PRG, so that dpf_keygen's words and   *)
(* the client's recomputation of them agree level by level and for both    *)
(* signs of gamma.                                                         *)
(***************************************************************************)
HonestAccepted ==
  (verdict # "none" /\ \A p \in Party : pack[p] = Honest(p)) => verdict = "accept"

(***************************************************************************)
(* The check is sound for everything but T: after an accept every field    *)
(* of both packs that the shares depend on is the dealer's, whichever      *)
(* fields of the two packs deviated, and at least one T is.                *)
(***************************************************************************)
AcceptedPacksMatch ==
  verdict = "accept" =>
    /\ \A p \in Party : [pack[p] EXCEPT !.T = T[p]] = Honest(p)
    /\ \E p \in Party : pack[p].T = T[p]

(***************************************************************************)
(* What the client's message "Inputs do not match." (c.cpp:106) stands     *)
(* for: packs are accepted only if they match the dealer's, T included.    *)
(* keys.cpp:43 asks for one T only.                                        *)
(***************************************************************************)
OnlyMatchingAccepted == verdict = "accept" => \A p \in Party : pack[p] = Honest(p)
=============================================================================
