------------------------------ MODULE LeafSums ------------------------------
(***************************************************************************)
(* The leaf sums of dpf_keygen and dpf_eval_all once more, with the bit    *)
(* sizes of the group elements that DpfKeygen takes to be the same.  They  *)
(* are not: of the accumulators                                            *)
(*     GroupElement thread_W0[nt][2] = {{GroupElement(0, key0->Bout)}};    *)
(* only the first of the first thread has Bout bits, the others are        *)
(* default elements of bitlength bits.  So what is computed is right in    *)
(* the lowest min(Bout, bitlength) bits, and that is what is shown.        *)
(*                                                                         *)
(* The dealer sends alpha and gamma in as many bytes as Bout takes, and    *)
(* the servers read as many as bitlength takes.  When these are not as     *)
(* many, a server reads beside what was sent, in alpha and in all that     *)
(* follows; then nothing is claimed of it.  p2 passes bitlength for Bout,  *)
(* where all agree, but dpf_keygen and the calls that send take any.  Keys *)
(* that never travel, as in src/tests/main.cpp, are right for every Bout.  *)
(* What goes to the client does so in bitlength bits at both ends.         *)
(*                                                                         *)
(* The tree is what PathInvariant of DpfKeygen says: the parties' leaves   *)
(* agree except at the secret point, where one party's control bit is set. *)
(***************************************************************************)
EXTENDS GroupElement

CONSTANTS
  Leaves,    \* 2^height
  Threads,   \* nt
  Blocks,    \* the blocks a leaf may hold
  Payloads,  \* values of the shares of alpha
  Garbage    \* what unwritten memory may hold above a received value

Party  == {0, 1}
Bit    == {0, 1}
Leaf   == 0 .. Leaves - 1
Thread == 0 .. Threads - 1

ASSUME LeafSumsAssumption ==
  /\ {Leaves, Threads} \subseteq Nat \ {0}
  /\ Blocks \subseteq Nat /\ Payloads \subseteq Nat /\ Garbage \subseteq Nat
  /\ Bitlength <= 8 * ByteBits /\ 8 * ByteBits <= Width

VARIABLES
  bout,     \* group_bitwidth of this call
  point,    \* the secret point
  hats,     \* hats[p][j]: party p's block at leaf j
  t1,       \* the party whose control bit is set at the point
  payload,  \* the shares of alpha
  summed,   \* leaves done
  threadW,  \* threadW[p][th]: the accumulators thread_W0, thread_W1
  joined,   \* accumulators added up
  W,        \* the totals W0, W1
  at,       \* "sum", "gamma", "dealt"; then "key" and "pack" have been received,
            \* or "adrift": the servers read something else
  gamma,    \* the dealer's gamma
  received, \* received[p]: the payload server p received
  key,      \* key[p]: the gamma in the key of server p
  pack,     \* pack[p]: payload, W and gamma in the pack of server p, at the client
  pack2     \* the payloads, W and gamma in the dealer's pack, at the client

call   == <<bout, point, hats, t1, payload>>
sums   == <<summed, threadW, joined, W>>
sent   == <<gamma, received, key, pack, pack2>>
vars   == <<call, sums, at, sent>>

Zero(w) == Ge(0, w)

Zeros == [b \in Bit |-> Zero(Bitlength)]

\* The braces initialise one element; the others are default-constructed.
Accumulator(th, b) == IF th = 0 /\ b = 0 THEN Zero(bout) ELSE Zero(Bitlength)

Init ==
  /\ bout \in Bouts
  /\ point \in Leaf
  /\ \E s \in [Leaf -> Blocks], other \in Blocks :
       hats = [p \in Party |-> IF p = 0 THEN s ELSE [s EXCEPT ![point] = other]]
  /\ t1 \in Party
  /\ payload \in [Party -> {Ge(v, bout) : v \in Payloads}]
  /\ summed = {}
  /\ threadW = [p \in Party |-> [th \in Thread |-> [b \in Bit |-> Accumulator(th, b)]]]
  /\ joined = 0
  /\ W = [p \in Party |-> [b \in Bit |-> Zero(bout)]]
  /\ at = "sum"
  /\ gamma = [b \in Bit |-> Zero(bout)]
  /\ received = [p \in Party |-> Zero(Bitlength)]
  /\ key = [p \in Party |-> Zeros]
  /\ pack = [p \in Party |-> [payload |-> Zero(Bitlength), W |-> Zeros, gamma |-> Zeros]]
  /\ pack2 = [payload |-> [p \in Party |-> Zero(Bitlength)],
              W       |-> [p \in Party |-> Zeros],
              gamma   |-> Zeros]
-----------------------------------------------------------------------------
Owner(j) == j % Threads

\* One iteration of the parallel loop, by thread Owner(j).
SumLeaf(j) ==
  /\ at = "sum"
  /\ j \notin summed
  /\ \A k \in 0 .. j - 1 : Owner(k) = Owner(j) => k \in summed
  /\ threadW' = [p \in Party |-> [th \in Thread |-> [b \in Bit |->
                   IF th = Owner(j) THEN Plus(threadW[p][th][b], Convert(bout, hats[p][j])[b])
                   ELSE threadW[p][th][b]]]]
  /\ summed' = summed \cup {j}
  /\ UNCHANGED <<call, joined, W, at, sent>>

\* Variant: the loop over the threads leaves out the last.
JoinButLast ==
  /\ at = "sum"
  /\ summed = Leaf
  /\ W' = IF joined = Threads - 1 THEN W
          ELSE [p \in Party |-> [b \in Bit |-> Plus(W[p][b], threadW[p][joined][b])]]
  /\ joined' = joined + 1
  /\ at' = IF joined + 1 = Threads THEN "gamma" ELSE at
  /\ UNCHANGED <<call, summed, threadW, sent>>

Join ==
  /\ at = "sum"
  /\ summed = Leaf
  /\ W' = [p \in Party |-> [b \in Bit |-> Plus(W[p][b], threadW[p][joined][b])]]
  /\ joined' = joined + 1
  /\ at' = IF joined + 1 = Threads THEN "gamma" ELSE at
  /\ UNCHANGED <<call, summed, threadW, sent>>

\* beta of dpf_keygen, and the formulas for gamma, also those of check_xor.
Beta(pay, w, b) ==
  [p \in Party |-> IF b = 0 THEN Ge(p, w) ELSE pay[p]]

\* Variant: the shares of beta on the wrong side of the subtraction.
GammaSwapped(w0, w1, beta) ==
  IF t1 = 1 THEN Minus(Minus(Minus(w0, beta[0]), beta[1]), w1)
            ELSE Plus(Minus(Minus(w0, beta[0]), beta[1]), w1)

Gamma(w0, w1, beta) ==
  IF t1 = 1 THEN Minus(Minus(Minus(w0, beta[0]), beta[1]), w1)
            ELSE Plus(Minus(Plus(beta[0], beta[1]), w0), w1)

\* dpf_keygen ends.
EndKeygen ==
  /\ at = "gamma"
  /\ gamma' = [b \in Bit |-> Gamma(W[0][b], W[1][b], Beta(payload, bout, b))]
  /\ at' = "dealt"
  /\ UNCHANGED <<call, sums, received, key, pack, pack2>>

\* The dealer sends alpha and gamma in the width of Bout, a server reads them
\* in that of bitlength.
InFrame == GeBytes(bout) = GeBytes(Bitlength)

ReceiveKeys ==
  /\ at = "dealt"
  /\ InFrame
  /\ \E above \in Garbage :
       /\ received' = [p \in Party |-> RecvGe(SendGe(payload[p], bout), Bitlength, above)]
       /\ key' = [p \in Party |-> [b \in Bit |->
                   RecvGe(SendGe(gamma[b], bout), Bitlength, above)]]
  /\ at' = "key"
  /\ UNCHANGED <<call, sums, gamma, pack, pack2>>

\* Other bytes than those of alpha and gamma are read; not followed further.
LoseFrame ==
  /\ at = "dealt"
  /\ ~ InFrame
  /\ at' = "adrift"
  /\ UNCHANGED <<call, sums, sent>>

\* dpf_eval_all of a server runs the same loop on the same leaves; its pack and
\* the dealer's reach the client.
SendPacks ==
  /\ at = "key"
  /\ \E above \in Garbage :
       LET Received(x) == RecvGe(SendGe(x, Bitlength), Bitlength, above) IN
       /\ pack' = [p \in Party |-> [payload |-> Received(received[p]),
                                    W       |-> [b \in Bit |-> Received(W[p][b])],
                                    gamma   |-> [b \in Bit |-> Received(key[p][b])]]]
       /\ pack2' = [payload |-> [p \in Party |-> Received(payload[p])],
                    W       |-> [p \in Party |-> [b \in Bit |-> Received(W[p][b])]],
                    gamma   |-> [b \in Bit |-> Received(gamma[b])]]
  /\ at' = "pack"
  /\ UNCHANGED <<call, sums, gamma, received, key>>

Next ==
  \/ (\E j \in Leaf : SumLeaf(j)) \/ Join \/ EndKeygen
  \/ ReceiveKeys \/ LoseFrame \/ SendPacks

Spec == Init /\ [][Next]_vars
-----------------------------------------------------------------------------
\* What server p has in its table at a leaf with block x and control bit t,
\* when g is the gamma in its key.
Out(p, x, t, g, b) ==
  LET c == Convert(bout, x)[b] IN
  IF p = 0 THEN IF t = 0 THEN c ELSE Plus(c, g[b])
  ELSE IF t = 0 THEN Minus(Zero(bout), c)
       ELSE Minus(Minus(Zero(bout), c), g[b])

\* The value the two tables share at leaf j when k[p] is the gamma of server p,
\* t being the control bit off the point; the bits in which it is promised;
\* and the value shared at the point.
Shared(k, j, t, b) ==
  Plus(Out(0, hats[0][j], IF j = point THEN 1 - t1 ELSE t, k[0], b),
       Out(1, hats[1][j], IF j = point THEN t1 ELSE t, k[1], b))

LowSize == IF bout <= Bitlength THEN bout ELSE Bitlength
Low     == Pow2[LowSize]

Secret(b) == IF b = 0 THEN 1 ELSE payload[0].value + payload[1].value
-----------------------------------------------------------------------------
(***************************************************************************)
(* Types: every element is reduced to its own bit size, whatever was added *)
(* to it; totals are formed when all leaves are done.                      *)
(***************************************************************************)
TypeOK ==
  /\ bout \in Bouts
  /\ point \in Leaf
  /\ hats \in [Party -> [Leaf -> Blocks]]
  /\ t1 \in Party
  /\ payload \in [Party -> Elements(bout)]
  /\ summed \subseteq Leaf
  /\ \A p \in Party, th \in Thread, b \in Bit :
       threadW[p][th][b] \in Elements(Accumulator(th, b).bitsize)
  /\ joined \in 0 .. Threads
  /\ W \in [Party -> [Bit -> Elements(bout)]]
  /\ at \in {"sum", "gamma", "dealt", "key", "pack", "adrift"}
  /\ (at = "sum") <=> (joined < Threads)
  /\ joined > 0 => summed = Leaf
  /\ gamma \in [Bit -> Elements(bout)]
  /\ received \in [Party -> Elements(Bitlength)]
  /\ key \in [Party -> [Bit -> Elements(Bitlength)]]
  /\ pack \in [Party -> [payload : Elements(Bitlength),
                         W       : [Bit -> Elements(Bitlength)],
                         gamma   : [Bit -> Elements(Bitlength)]]]
  /\ pack2 \in [payload : [Party -> Elements(Bitlength)],
                W       : [Party -> [Bit -> Elements(Bitlength)]],
                gamma   : [Bit -> Elements(Bitlength)]]

(***************************************************************************)
(* The totals of the threads are the sum over all leaves in the lowest     *)
(* min(Bout, bitlength) bits, although the accumulators reduce modulo one  *)
(* power of two and the totals modulo another.                             *)
(***************************************************************************)
SumUpTo(p, b) ==
  LET sum[n \in 0 .. Leaves] ==
        IF n = 0 THEN 0 ELSE sum[n - 1] + Convert(bout, hats[p][n - 1])[b].value
  IN  sum[Leaves]

SumsRight ==
  at # "sum" => \A p \in Party, b \in Bit : W[p][b].value % Low = SumUpTo(p, b) % Low

(***************************************************************************)
(* The tables of two servers that use the dealer's gamma share the point   *)
(* function in the lowest min(Bout, bitlength) bits: 1 and alpha at the    *)
(* point, zero at every other leaf.  So do those of servers that received  *)
(* their keys from the dealer, where Bout and bitlength take as many bytes.*)
(***************************************************************************)
SharesPoint(k) ==
  \A j \in Leaf, t \in Bit, b \in Bit :
    Shared(k, j, t, b).value % Low = (IF j = point THEN Secret(b) ELSE 0) % Low

Reconstructs ==
  /\ at \notin {"sum", "gamma"} => SharesPoint([p \in Party |-> gamma])
  /\ at \in {"key", "pack"} => SharesPoint(key)

(***************************************************************************)
(* The client accepts honest packs: in what it received from servers and   *)
(* dealer payloads, W and gamma agree.  When Bout is at least bitlength    *)
(* and takes as many bytes, so that the servers are not adrift, gamma is   *)
(* also what check_xor computes again, in bitlength bits.                  *)
(***************************************************************************)
GammaAccepted ==
  at = "pack" =>
    \A p \in Party :
      /\ pack[p].payload.value = pack2.payload[p].value
      /\ \A b \in Bit :
           /\ pack[p].W[b].value = pack2.W[p][b].value
           /\ pack[p].gamma[b].value = pack2.gamma[b].value
           /\ bout >= Bitlength =>
                pack[p].gamma[b].value =
                  Gamma(pack[0].W[b], pack[1].W[b],
                        Beta([q \in Party |-> pack[q].payload], Bitlength, b)).value

(***************************************************************************)
(* convert() gives the two elements bits of their own: bit i of element b  *)
(* is bit i after the b * bytesize(Bout) bytes before it, and no bit of    *)
(* the block is in both.                                                   *)
(***************************************************************************)
BitOf(x, i) == (x \div Pow2[i]) % 2

ConvertCuts ==
  \A p \in Party, j \in Leaf, b \in Bit :
    LET first == b * ByteBits * Bytesize(bout) IN
    /\ b = 1 => first >= bout
    /\ \A i \in 0 .. bout - 1 :
         BitOf(Convert(bout, hats[p][j])[b].value, i) = BitOf(hats[p][j], first + i)
=============================================================================
