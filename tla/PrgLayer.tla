------------------------------ MODULE PrgLayer ------------------------------
(***************************************************************************)
(* prg_eval_all_and_xor (src/dpf.cpp:73-141) at the level of its OpenMP    *)
(* threads: one expansion of a layer, the step that DpfKeygen and DpfEval  *)
(* take as a whole.  Every thread encrypts into a buffer, stores the       *)
(* children it found there and adds them to accumulators, three steps      *)
(* between which the other threads run; behind the barrier the main thread *)
(* joins the accumulators and puts the new layer in place of the old one.  *)
(***************************************************************************)
EXTENDS Dpf

CONSTANTS
  Threads,  \* nt
  Sizes     \* the layer sizes considered; the level loops use 1, 2, 4, ...

ASSUME PrgThreadsAssumption == Threads \in Nat \ {0}
ASSUME PrgSizesAssumption   == Sizes \subseteq Nat \ {0}

Thread == 0 .. Threads - 1

VARIABLES
  size,         \* nodes of the layer to expand, dpfl->size on entry
  keynodes,     \* the blocks of the layer, used as AES keys
  at,           \* at[th]: "encrypt", "store", "xor" or "barrier"
  i,            \* i[th]: the index thread th works on
  ctt,          \* the buffers the four ciphertexts are written to
  outputNodes,  \* output_nodes, output_t: the children written so far
  outputT,
  threadZs, threadZt,  \* the threads' accumulators
  joined,       \* threads joined
  zs, zt,       \* dpfl->zs, dpfl->zt
  layer         \* dpfl->nodes, dpfl->currt and dpfl->size

locals == <<at, i, ctt, threadZs, threadZt>>
shared == <<outputNodes, outputT>>
result == <<joined, zs, zt, layer>>
input  == <<size, keynodes>>
vars   == <<input, locals, shared, result>>

\* Variant: ctt declared outside the parallel region, one for all threads.
SharedBuffer(th) == 0

\* The buffer a thread encrypts into.  ctt is declared inside the parallel
\* region (line 97), so each thread has its own.
Buffer(th) == th

Init ==
  /\ size \in Sizes
  /\ keynodes \in [0 .. size - 1 -> Block]
  /\ at = [th \in Thread |-> IF th < size THEN "encrypt" ELSE "barrier"]
  /\ i = [th \in Thread |-> th]
  /\ ctt = [th \in Thread |-> [c \in 0 .. 3 |-> {}]]
  /\ outputNodes = [j \in {} |-> {}]
  /\ outputT = [j \in {} |-> 0]
  /\ threadZs = [th \in Thread |-> [b \in Bit |-> {}]]
  /\ threadZt = [th \in Thread |-> [b \in Bit |-> 0]]
  /\ joined = 0
  /\ zs = [b \in Bit |-> {}]
  /\ zt = [b \in Bit |-> 0]
  /\ layer = [nodes |-> keynodes, currt |-> [j \in {} |-> 0], size |-> size]

Encrypt(th) ==
  /\ at[th] = "encrypt"
  /\ ctt' = [ctt EXCEPT ![Buffer(th)] = Aes[keynodes[i[th]]]]
  /\ at' = [at EXCEPT ![th] = "store"]
  /\ UNCHANGED <<input, i, threadZs, threadZt, shared, result>>

\* The two children in the buffer, and a table with them written at 2k, 2k + 1.
ChildS(th) == [b \in Bit |-> ctt[Buffer(th)][2 * b]]
ChildT(th) == [b \in Bit |-> Lsb(ctt[Buffer(th)][2 * b + 1])]
Written(table, k, child) ==
  [j \in DOMAIN table \cup {2 * k, 2 * k + 1} |->
     IF j \div 2 = k THEN child[j % 2] ELSE table[j]]

Store(th) ==
  /\ at[th] = "store"
  /\ outputNodes' = Written(outputNodes, i[th], ChildS(th))
  /\ outputT' = Written(outputT, i[th], ChildT(th))
  /\ at' = [at EXCEPT ![th] = "xor"]
  /\ UNCHANGED <<input, i, ctt, threadZs, threadZt, result>>

\* Variant: the thread goes on with the next index instead of its own.
AccumulateDense(th) ==
  /\ at[th] = "xor"
  /\ threadZs' = [threadZs EXCEPT ![th] =
                    [b \in Bit |-> BlockXor(threadZs[th][b], ChildS(th)[b])]]
  /\ threadZt' = [threadZt EXCEPT ![th] =
                    [b \in Bit |-> BitXor(threadZt[th][b], ChildT(th)[b])]]
  /\ i' = [i EXCEPT ![th] = i[th] + 1]
  /\ at' = [at EXCEPT ![th] = IF i[th] + 1 < size THEN "encrypt" ELSE "barrier"]
  /\ UNCHANGED <<input, ctt, shared, result>>

\* schedule(static, 1): the thread's next index is nt further on.
Accumulate(th) ==
  /\ at[th] = "xor"
  /\ threadZs' = [threadZs EXCEPT ![th] =
                    [b \in Bit |-> BlockXor(threadZs[th][b], ChildS(th)[b])]]
  /\ threadZt' = [threadZt EXCEPT ![th] =
                    [b \in Bit |-> BitXor(threadZt[th][b], ChildT(th)[b])]]
  /\ i' = [i EXCEPT ![th] = i[th] + Threads]
  /\ at' = [at EXCEPT ![th] = IF i[th] + Threads < size THEN "encrypt" ELSE "barrier"]
  /\ UNCHANGED <<input, ctt, shared, result>>

\* Variant: a thread without an index of its own does not arrive.
AllBusyAtBarrier == \A th \in Thread : at[th] = "barrier" /\ i[th] > th

AllAtBarrier == \A th \in Thread : at[th] = "barrier"

Join(th) ==
  /\ AllAtBarrier
  /\ joined = th
  /\ zs' = [b \in Bit |-> BlockXor(zs[b], threadZs[th][b])]
  /\ zt' = [b \in Bit |-> BitXor(zt[b], threadZt[th][b])]
  /\ joined' = joined + 1
  /\ UNCHANGED <<input, locals, shared, layer>>

\* free the old arrays, take the new ones, double the size (once).
Replace ==
  /\ joined = Threads
  /\ layer.size = size
  /\ layer' = [nodes |-> outputNodes, currt |-> outputT, size |-> 2 * size]
  /\ UNCHANGED <<input, locals, shared, joined, zs, zt>>

Body(th) == Encrypt(th) \/ Store(th) \/ Accumulate(th)
Main     == (\E th \in Thread : Join(th)) \/ Replace
Next     == Main \/ \E th \in Thread : Body(th)

Spec     == Init /\ [][Next]_vars
Fairness == WF_vars(Main) /\ \A th \in Thread : WF_vars(Body(th))
FairSpec == Spec /\ Fairness
-----------------------------------------------------------------------------
(***************************************************************************)
(* Types; a thread's index belongs to it (i mod nt), and the thread is at  *)
(* the barrier exactly when its indices are used up.                       *)
(***************************************************************************)
TypeOK ==
  /\ size \in Sizes
  /\ keynodes \in [0 .. size - 1 -> Block]
  /\ at \in [Thread -> {"encrypt", "store", "xor", "barrier"}]
  /\ i \in [Thread -> Nat]
  /\ \A th \in Thread : /\ i[th] % Threads = th
                        /\ (at[th] = "barrier") <=> (i[th] >= size)
  /\ ctt \in [Thread -> [0 .. 3 -> Block]]
  /\ DOMAIN outputNodes \subseteq 0 .. 2 * size - 1
  /\ outputNodes \in [DOMAIN outputNodes -> Block]
  /\ outputT \in [DOMAIN outputNodes -> Bit]
  /\ threadZs \in [Thread -> [Bit -> Block]]
  /\ threadZt \in [Thread -> [Bit -> Bit]]
  /\ joined \in 0 .. Threads
  /\ zs \in [Bit -> Block]
  /\ zt \in [Bit -> Bit]
  /\ layer.size \in {size, 2 * size}

(***************************************************************************)
(* The result: the new layer holds the children of every node, and zs, zt  *)
(* are the XOR of all left and of all right children: the operators of     *)
(* Dpf that the level loops of keygen and evaluation are built on.  It     *)
(* rests on the buffers being the threads' own (the comment at dpf.cpp:90):*)
(* between encrypting and storing, other threads encrypt.                  *)
(***************************************************************************)
LayerCorrect ==
  layer.size = 2 * size =>
    /\ layer.nodes = Nodes(keynodes, size)
    /\ layer.currt = Currt(keynodes, size)
    /\ zs = ZS(keynodes, size)
    /\ zt = ZT(keynodes, size)

(***************************************************************************)
(* The barrier is reached by every thread, also by one with no index of    *)
(* its own (a layer smaller than nt), and the layer is replaced.           *)
(***************************************************************************)
Replaced == <>(layer.size = 2 * size)
=============================================================================
