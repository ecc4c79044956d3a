# A TLA+ development of the two-server PIR

The repository is a two-server private information retrieval with a trusted
dealer. A client learns one entry of a database that two servers hold, the
servers do not learn which one, and the client can tell a wrong answer by a MAC.
The tool behind it is a distributed point function (DPF): the dealer turns a
secret point into two keys, each server expands its key into a table over the
whole domain, and the two tables sum to zero everywhere but at the point.

Paths below are relative to `src/src/` unless they start with `src/`.

## 1. Inventory

| component | source | state it keeps | operations |
|---|---|---|---|
| DPF key generation | `dpf.cpp:145-400` | the layers of both parties' trees (`hats`, `hatt`), per level `zs`, `zt`, `sigma`, `tau`, the sums `W`, `T`, `gamma` | `dpf_keygen` |
| PRG layer expansion | `dpf.cpp:73-143` | a layer (`nodes`, `currt`, `size`), per thread `ctt` and accumulators | `prg_eval_all_and_xor` |
| DPF evaluation | `dpf.cpp:402-569` | one party's tree, sums and table `out` | `dpf_eval`, `dpf_eval_all` |
| convert | `dpf.cpp:5-71` | none | `convert` |
| Input check | `keys.cpp:3-71`, `keys.h` | the packs `icp0`, `icp1`, `ip2` | `check_xor` |
| Protocol programs | `tests/protocol/{c,p0,p1,p2}.cpp` | position in the program, keys, packs, `accept` | four `main`s |
| Wire layer | `server.cpp`, `server_trusted.cpp`, `client.cpp` | one socket per pair of programs | `send_*`, `recv_*` |
| Connection set-up | constructors and `connect_to_client` of the same files, `src/run.sh` | listening and connected sockets | `listen`, `accept`, `connect`, `sleep` |
| Inner products, reconstruction | `dpf.cpp:571-647`, `c.cpp:82-101` | `o`, `hato`, `dbout` | `compute_inner_prod_Zp`, `inner_prod`, `compute_hato` |
| Group elements | `deps/EzPC/group_element.h` | a value and a number of bits | `+`, `-`, `*`, masking |
| Pseudo-random generator | `deps/cryptoTools/.../PRNG` | a key, a counter, a buffer | `SetSeed`, `get` |
| AES | `deps/cryptoTools/.../AES` | a key schedule | `ecbEncTwoBlocks`, ... |
| Memory ownership | `keys.h`, `dpf.cpp`, programs | who holds which array | `malloc`, `new`, `free_*` |
| Local test driver | `tests/main.cpp` | none of its own | keygen, evaluation, products in one process |

**How they interact.** The dealer `p2` runs `dpf_keygen`, which calls
`prg_eval_all_and_xor` on both trees for each level, and sends one key to each
server and its own record `ip2` to the client. Each server runs `dpf_eval_all`,
which calls the same layer expansion, fills its `icp` pack on the way and sends
that to the client. The client runs `check_xor` over the two packs and `ip2`,
and sends both servers a byte `accept` and, if it is set, the rotated index.
Each server answers with the inner products of its table and the database. The
client adds the answers and checks the MAC. Inside a program, OpenMP threads
share the layer and the output arrays and keep accumulators of their own.

**What is hard, and what makes each part correct.**

* Key generation and evaluation: the leaf sums are split over `nt` threads; the
  correction words depend on the side the secret point takes at every level; the
  sign of `gamma` is inferred from a comparison of two sums. Correct: off the
  path the two trees agree, on it their bits differ, and the shares of the
  finished keys sum to the point function for every schedule.
* Layer expansion: encrypt, store and accumulate are separate steps with a
  shared output and private buffers. Correct: the result is the sequential one.
* Evaluation: three programs on three machines compute the same tree. Correct: a
  server's layers and sums are the dealer's bit for bit.
* Input check: many fields, compared one by one. Correct: honest servers pass,
  any deviation is noticed.
* Programs and wire: no framing, fixed order of blocking calls, no result of
  `recv` is looked at. Correct: streams stay in frame, servers and client take
  the same branch, nobody waits forever, also if a process dies.
* Retrieval: two servers at their own pace; indices wrap around. Correct: the
  client gets its entry; an error survives only if the MAC value annihilates it.
* Connections: synchronised by `sleep` alone, and every program goes on as soon
  as its own are made. Correct: in time every `connect` meets a listening peer;
  out of time nobody takes a partial protocol for a complete one.
* Group elements: each has its own number of bits, operators take it from their
  left operand, and on the wire each side goes by a width of its own. Correct:
  what the shares mean does not depend on it, in the bits that all of them have,
  as long as both ends of a connection count the same bytes.
* Memory: one layer is handed from turn to turn of the level loop while the one
  before is freed, threads allocate and free at every leaf, and lengths come
  from three different counts. Correct: no use after free, and none out of
  bounds if the counts agree. Much is never released: the dealer frees nothing
  it dealt, a server neither `t` nor its table, nobody the answers, and the
  level loop loses all control bits but the last. A program serves one query and
  returns, so that all of it goes back to the operating system; what must hold
  is that nothing else is lost.
* Generator: both servers derive the database from one seed through a buffered
  stream. Correct: the two databases are equal.

`PROJECT.json` lists the hazards line by line, with the properties that cover
them.

## 2. Modules

```
Dpf                 the pure algorithm: PRG expansion, correction words, gamma, shares
 |- DpfKeygen       dpf_keygen, step by step with its threads
 |   |- DpfEval     + both servers' dpf_eval_all; dpf_eval;  refines PointSharing
 |   '- InputCheck  + the client's check_xor on the two packs
 '- PrgLayer        prg_eval_all_and_xor, thread by thread
PointSharing        what the offline phase promises            (abstract)
PirRetrieval        online phase: query, inner products, reconstruction and MAC
GroupElement        numbers with a bit size, convert(), elements on the wire
 '- LeafSums        the leaf sums with the bit sizes they really have
Deployment          the whole system, as run.sh starts it
 |- Connect         how the four programs come to be connected
 '- PirSession      the four programs over their connections
Memory              who owns which array in dealer, server and client
Prng                the buffered generator behind database, secrets and roots

NumberLemmas        remainders, induction on a set, running sums   (lemmas)
 |- LeafSums_proofs           theorems about LeafSums
 |- PirRetrieval_proofs       theorems about PirRetrieval
 |- Deployment_proofs         theorems about Connect, PirSession, Deployment
 '- DpfEval_proofs            theorems about DpfEval, the refinement, InputCheck
     '- uses DpfKeygen_proofs     theorems about DpfKeygen
Prg_proofs                    theorems about PrgLayer and Prng
Memory_proofs                 theorems about Memory
MC*                 tables and constants for TLC;  MCTables is shared
```

**Dpf.** A block is the set of positions of its one bits, `operator^` the
symmetric difference, `lsb` membership of 0. AES with the node as key is a
constant table `Aes` (four ciphertexts per key, `dpf.cpp:99-106`), `convert` a
constant table `Convert`. Nothing is assumed of either but its type, so what is
proved holds for every PRG. `PrgS`/`PrgT` are a node's children, `ZS`/`ZT` the
XORs of a layer's left and right children, `Sigma`/`Tau` the correction word,
`CorrectS`/`CorrectT` a corrected layer, `SignBit`/`Gamma` the last correction
word, `Share` a leaf's output. Group elements are numbers modulo `Modulus`
(2^bitlength in the code); LeafSums shows what becomes of this when their sizes
differ.

**DpfKeygen.** `Level` is one turn of the loop at `dpf.cpp:244-320`. `Leaf(th,
j)` is one iteration of the parallel leaf loop for both parties by the thread
that `schedule(static, 1)` gives leaf `j` to (`Owner`), `Join(th)` the main
thread's addition of one thread's accumulator behind the barrier, `Finish` the
computation of `gamma`. The inputs (shares of the point, shares of alpha, two
roots) are arbitrary in `Init`.

**PrgLayer.** One call of `prg_eval_all_and_xor`, with `Encrypt`, `Store`,
`Accumulate` as a thread's three steps per node, `Join` and `Replace` for the
main thread. Its property `LayerCorrect` says that the call computes what `Dpf`
calls `ZS`, `ZT` and the uncorrected children: it justifies that DpfKeygen and
DpfEval expand a layer in one step.

**DpfEval.** The dealer and two servers. `RecvKey(p)`, `EvalLevel(p)`,
`EvalLeaf(p, th, j)`, `EvalJoin(p, th)`, `Return(p)` are the stages of
`dpf_eval_all` (`dpf.cpp:458-569`). `layers` is a history variable with the
dealer's layers. `EvalPoint` is `dpf_eval`, as a function of the key. `Sharing`
is the refinement mapping to PointSharing: a server's table counts as published
when `dpf_eval_all` returns.

**InputCheck.** `CheckXor` is `check_xor` conjunct by conjunct in its order. A
server's pack is the honest one or deviates in at most one field (for arrays,
one entry); two servers may deviate at once. The client's one action is `Check`;
`Receive(p)` takes the packs in the order of `c.cpp:27-28`.

**PirSession.** For each program the list of calls it has still to make. The
lists of senders and of receivers are translated separately, from the `send_*`
functions of one file and the `recv_*` functions of another. A field is a name
and a width; a section is the fields between two decisions, and is sent or read
in one step. Values are kept only where they decide what happens next (`height`,
`size`, `accept`, and the verdict). `SendSection` blocks when the connection is
full and `RecvSection` when it is empty. `SendToGone` is a `send` to a dead peer
(bytes lost, or SIGPIPE). `RecvEndOfFile` is a `recv` at the end of the stream,
which returns at once and leaves the buffer unwritten: whatever was in it is
used. `AllocationFails` is `operator new` throwing for a count read that way.
`Crash` kills a process at any point. `counted` holds the counters `bytes_sent`
and `bytes_recieved`, which every call adds to by hand.

**PirRetrieval.** Starts from what PointSharing promises. `Query`, `Read(p)`,
`Accumulate(p, th, k)` (one turn of `inner_prod`'s loop for block `k`),
`Answer(p)`, `FaultyAnswer(p)`, `Reconstruct`. A faulty server's `o` is any list
of group elements, wrong in as many blocks as it likes. `oSum` and `hatoSum`
keep the value of the two accumulators after every entry.

**GroupElement** and **LeafSums.** An element is a value with its number of
bits; `Plus` and `Minus` take the bits of the left operand and mask. `Convert`
cuts two elements out of a block at byte offsets (`dpf.cpp:5-71`). `SendGe`
keeps as many bytes as the sender's width takes, `RecvGe` reads a word whose
upper part is whatever was in memory and masks it to the receiver's width.
LeafSums runs the leaf loop, the join and `gamma` with these elements
(`SumLeaf`, `Join`, `EndKeygen`): only `thread_W0[0][0]` has `Bout` bits, the
other accumulators have `bitlength` (`dpf.cpp:335-336`), the totals have `Bout`.
Then the keys travel. The dealer sends alpha and gamma in `Bout` bits
(`p2.cpp:50,55`, `server_trusted.cpp:323-324`), the servers read them in
`bitlength` bits (`p0.cpp:50-51`): if these are equally many bytes (`InFrame`),
`ReceiveKeys` delivers them, otherwise the servers read beside what was sent and
`LoseFrame` leaves them adrift, of which nothing is claimed but what holds of
the dealer's own keys. `p2.cpp:20` sets `Bout = bitlength`, so the programs as
they are compiled stay in frame; `tests/main.cpp` hands keys over in one
process. `SendPacks` is the way of both servers' packs and of the dealer's to
the client, in `bitlength` bits at both ends. The tree is any that satisfies
`PathInvariant`.

**Connect.** From `run.sh` to the end of `connect_to_client`. Each program is
the list of its `listen`, `accept`, `connect` and `sleep` calls. A `connect`
succeeds once the port is listened on, and otherwise ends its program
(`Refused`), as the code does; `accept` blocks. Time passes in ticks (`Tick`),
sleeping programs wait exactly, and a call that could return does so within
`pace.lag` ticks. A server is busy with its database for `pace.gen[p]` ticks
before it first listens. `pace` is chosen in `Init`, so that one run has starts
that are in time (`InTime`) and starts that are not.

**Deployment.** Extends Connect and PirSession and interleaves their actions: a
program takes the steps of PirSession (`Talk`) as soon as its own set-up has
returned, while others sleep, generate or connect. A refused program (`Exit`)
is, for PirSession, one that has died, so that a peer that was connected to it
reads an end of file.

**Memory.** Dealer, server or client, chosen by `role`. An array is named after
the variable it was allocated for, the tree and the turn of the level loop, and
`pointer` says which array a variable holds. `Does(uses, frees, allocates)`
records in `faults` which array was read or written after its release or beyond
its length, or freed twice. `Expand`, `Swap`, `Correct`, `EndLevels` are the
level loop, `BeginLeaf`/`EndLeaf` the threads' leaf loop with what `convert`
allocates, `FreeHats`, `FreeLayers` the end of the function, and `SendResults`,
`Answer`, `Rejected`, `CheckXor`, `FreeResults` what `main` does afterwards,
with the `o` and `hato` that `compute_inner_prod_Zp` allocates and the client's
buffers for them. A server whose own `input_size` differs from the height it
received overruns `t`, `out` or the database: `SafeAccess` says which
(`Overrun`), that `t` is overrun when the first leaf beyond its end is begun and
not before, that the others need an accepted query, and that an answer from a
smaller key does read beyond `out`. `LostIsKnown` compares the heap at every
moment with what a variable still reaches (`Reachable`), and names the rest:
`Lost` while the program runs, and what its `main` never frees (`NeverFreed`) at
its end.

**Prng.** The generator of cryptoTools. `SetSeed(s, n)`, `Get(length)` and one
`Copy` per turn of `get`'s loop, with `RefillBuffer` at the end of the buffer. A
byte is the triple of seed, counter and position in the block, so that two bytes
are equal only if they come from the same place of the same stream.

**Variants.** Operators introduced by a comment that starts with *Variant* are
not part of any specification. Each is a definition with a plausible slip (a
swapped side, a loop that starts at 1, a missing mask, a call out of order) that
must make the property it stands for fail; `PROJECT.json` pairs them.

## 3. Model checking

| run | bounds | what it shows |
|---|---|---|
| `keygen` | height 2, 2 threads, group of order 4, blocks of 2 bits | for all points, payloads and pairs of roots and every schedule of the threads: `TypeOK`, `PathInvariant`, `SumsInvariant`, `ShareCorrect`, `Terminates` |
| `prg_layer` | layers of 1, 2, 4 nodes, 3 threads, blocks of 2 bits | the layer is the sequential one (`LayerCorrect`, `TypeOK`), and it is put in place (`Replaced`) |
| `eval` | height 2, 2 threads per server, group of order 2 | `LayersMatch`, `PackMatchesDealer`, `EvalAgrees` (`dpf_eval_all` and `dpf_eval` are one function), the offline phase implements PointSharing (`SharingSpec`), and both servers return (`BothReturn`) |
| `leaf_sums` | 3 leaves, 2 threads, bytes of 2 bits, words of 4 bytes, bitlength 6, `Bout` 4 to 7, of which 5 to 7 take as many bytes on the wire as bitlength and 4 takes fewer | `TypeOK`, `SumsRight`, `Reconstructs`, `GammaAccepted`, `ConvertCuts` |
| `input_check` | height 2, group of order 2, blocks of 1 bit, every single-field deviation of each server | `HonestAccepted`; `AcceptedPacksMatch`: accepted packs match in every field but `T`, and one `T` does |
| `input_check_T` | the same | a counterexample: see section 5 |
| `session` | height 2, entries of 2 blocks, connections that hold one section, one crash at any point, made-up counts up to 2 | `TypeOK`, `Framed`, `AcceptIsVerdict`, `CleanFinish`, `AllStop` |
| `retrieval` | 4 entries of 2 blocks, group of order 4, 2 threads per server, every dealer point and alpha, any wrong blocks of `o` per server | `PartialSums`, `HonestRetrieval`, `WrongOutputDetected`, `Retrieved` |
| `connect` | 3 ticks a second, calls late by up to 1 or 3 ticks, databases that take 0, 13 or 15 ticks | refusals happen; `SetupTypeOK`, `OnlyTogether`: the client still never begins without all the others |
| `deployment` | the same, with one-block entries and trees of one level | `Completes`: in time, all four return and the servers have the client's verdict; `VerdictOnlyTogether`, `AllOrNothing`: out of time nobody ends with a result; `ClientLeftWaiting` |
| `memory` | heights 0 to 4 for key and packs, a server's own size 3, 3 threads | `SafeAccess`, also what is overrun when the sizes differ; `LostIsKnown` |
| `prng` | blocks of 3 bytes, buffers of 1 to 3 blocks, requests of 0, 1, 3 and 8 bytes, 20 bytes per seed, 2 seeds | `PrngTypeOK`, `StreamContinues`, `Answered` |

**Why the bounds are enough to be interesting.** Height 2 has a first level, a
level that expands corrected nodes, and leaves off the path both next to the
point and in the other half. With four leaves and two threads each thread has
two leaves, so an accumulator is both started and added to, and the join has a
thread that is not the first. In `prg_layer` the layers of one and two nodes
leave threads without work, and with four nodes one of the three threads has
two. A group of order 4 tells addition from XOR and a sign from its opposite;
order 2 does not, so the runs that use it (`eval`, `input_check`) concern
agreement of two computations and leave the sign to `keygen`, where order 4 and
all payloads are used, and to the theorem. `MCTables` mixes the key into all
outputs of the two tables and lets them collide, as they must on so few blocks.
In `session`, `ByteBits = 1`, `Bitlength = 5` and `Bin = 2` put the index and
the payload into integers of different width, as `Bin = 18` and `bitlength = 40`
do in the programs (`GeBytes` chooses among 1, 2, 4 and 8 bytes); `Capacity = 1`
is the smallest buffer, hence the worst case for blocking, and larger ones were
tried by hand with the same outcome. In `retrieval` the wanted entry is 1 and
the point ranges over all four, so the rotated index wraps for some; the entries
of the database are distinct and the two blocks are in different order.

In `connect` and `deployment` a start is in time when `2 * lag < Second` (the
dealer sleeps one second between two ports of a server, which has to accept and
listen in it) and both databases take less than `5 * Second - lag` (the dealer
reaches `p1` five seconds after its start). With `Second = 3` the lag of 1 and
13 ticks are the largest values in time, the lag of 3 and 15 ticks are late, so
both sides of the condition are reached and `Completes` is about its boundary;
with 14 ticks, tried by hand, the dealer is already refused. `deployment` has
`Bin = 1` and `Blocks = 1` to pay for the clock; the longer protocol is that of
`session`.

In `leaf_sums` the bit sizes are whole bytes and not, on either side of
`bitlength`, with `Bout = 4` for keys that lose their frame; three leaves on two
threads give one thread two leaves, and the garbage above a received value is
zero or not. In `memory` the heights include trees without levels, packs of
three different sizes at the client, and a server whose key is shorter or longer
than its own size; 3 threads on up to 16 leaves have several arrays each in the
heap at a time. In `prng` a request can be empty, be inside a block, end at the
end of a block or buffer, and span several buffers.

`MaxBytes` bounds the bytes taken from one seed; `MaxCount` bounds the counts
that a program can make up at an end of file; `MaxCrashes` the processes killed
from outside (deaths by SIGPIPE or a failed allocation are not counted;
`deployment` has none). `MaxHeight` is the largest height of Memory. No other
counter is bounded by hand.

Deadlock is not checked: every one of these programs ends, or waits in `accept`
after a refusal, which `ClientLeftWaiting` is about.

**Fairness.** In DpfKeygen, PrgLayer, DpfEval and PirRetrieval every OpenMP
thread and every main thread is weakly fair: the threads of a parallel region
are operating system threads, none waits for another except at the barrier that
ends the region, and an enabled step stays enabled. In PirSession each process
is weakly fair, which is what the scheduler of each machine gives it and what
TCP gives a blocked call once there is room or data. In Deployment the steps of
every program and the passing of time are weakly fair, in Prng the turns of
`get`'s loop. Connect, InputCheck, LeafSums and Memory state no liveness and
assume no fairness. `Crash` is never fair: nothing forces a process to die. No
strong fairness is used.

## 4. Proofs

Every safety property that a passing run checks is also a theorem, proved with
TLAPS for every value of the constants that satisfies the named assumptions of
the modules. These are type statements, that `Pow2` lists the powers of two,
that the modulus of the group and the bit sizes are positive and fit the words
they are kept in, and in PirSession that `MaxCount` is at least `Bin`. Nothing
is assumed of AES, of `convert` in Dpf, of the database or of the inputs.

| component | theorem | states |
|---|---|---|
| DpfKeygen | `TypeCorrect`, `PathCorrect`, `SumsCorrect`, `SharesCorrect` | `TypeOK`, `PathInvariant`, `SumsInvariant`, `ShareCorrect` |
| PrgLayer | `TypeCorrect`, `LayersCorrect` | `TypeOK`, `LayerCorrect` |
| DpfEval | `LayersCorrect`, `PacksCorrect`, `EvalCorrect`, `SharingCorrect` | `LayersMatch`, `PackMatchesDealer`, `EvalAgrees`, the refinement `SharingSpec` |
| InputCheck | `CheckComplete`, `CheckSound` | `HonestAccepted`, `AcceptedPacksMatch` |
| LeafSums | `TypeCorrect`, `SumsCorrect`, `ReconstructsCorrect`, `GammaAcceptedCorrect`, `ConvertCutsCorrect` | `TypeOK`, `SumsRight`, `Reconstructs`, `GammaAccepted`, `ConvertCuts` |
| PirRetrieval | `PartialSumsCorrect`, `RetrievalCorrect`, `DetectionCorrect` | `PartialSums`, `HonestRetrieval`, `WrongOutputDetected` |
| Prng | `PrngTypeCorrect`, `StreamCorrect` | `PrngTypeOK`, `StreamContinues` |
| Memory | `SafeAccessCorrect`, `LostIsKnownCorrect` | `SafeAccess`, `LostIsKnown` |
| Connect | `SetupTypeCorrect`, `OnlyTogetherCorrect` | `SetupTypeOK`, `OnlyTogether` |
| PirSession | `SessionTypeCorrect`, `FramedCorrect`, `AcceptCorrect`, `CleanFinishCorrect` | `TypeOK`, `Framed`, `AcceptIsVerdict`, `CleanFinish` |
| Deployment | `VerdictOnlyTogetherCorrect`, `AllOrNothingCorrect`, `ClientLeftWaitingCorrect` | `VerdictOnlyTogether`, `AllOrNothing`, `ClientLeftWaiting` |

**DpfKeygen.** `PathInvariant` needs only the types: `LevelPath` splits the
nodes of the next layer into the path's two children, where the correction word
makes one side agree and the other differ (`CorrectionStep`, with the parity
lemma `XorAllDiff`: if two families of blocks agree but at one index, so do the
XORs over all of them), and the rest, where equal nodes are corrected equally.
`ShareCorrect` is not inductive. Off the path the shares cancel because the
leaves are equal (`OffPathCancels`). On the path they sum to beta only if gamma
was computed from the right difference and with the right sign; the two facts
behind that are that `W0 - W1` is the difference of the two `convert`s at the
path leaf and that `T0 - T1` is its sign. They have to be carried through all
interleavings of the leaf loop and the join, one claim per accumulator. This is
`SumsInvariant`: a thread's two accumulators are equal until it has added the
path leaf, and differ by that leaf afterwards; the joined totals likewise.
`PhaseInvariant` ties the phase to the level, to the summed leaves and to the
joined threads, and says that at the end `gamma` is `Gamma` of the totals. The
inductive invariant is

    IInv == TypeOK /\ PathInvariant /\ SumsInvariant /\ PhaseInvariant

`InvCorrect` proves `Spec => []IInv`, with one lemma per action. `FinalShares`
proves `IInv => ShareCorrect`, from `OnPathSum`, the algebra of `gamma` for both
signs. TLC checks the conjuncts of `IInv` other than `PhaseInvariant` as
invariants of `keygen`.

**PrgLayer.** This theorem entitles DpfKeygen and DpfEval to expand a layer in
one step. The inductive invariant is

    IInv == TypeOK /\ Buffers /\ Tables /\ Accumulators /\ Totals

`Buffers`: between its encryption and the next a thread's buffer holds what it
encrypted. `Tables`: exactly the children of the nodes some thread has stored
are written. `Accumulators` and `Totals`: XORs over the nodes a thread has added
up (`Added(th)`) and over those of the joined threads (`Below(joined)`). As XOR
over a set is the parity of a cardinality, adding a node or a thread is a lemma
on disjoint unions (`OddDisjoint`, `XorOverUnion`), and no induction over the
layer is needed.

**DpfEval.** `EInv` says how each of the dealer's layers follows from the one
before by its correction word (`Layers`, about the history variable), and that a
server is at the dealer's layer of its level (`LayersMatch`, `Progress`). A
server's step then computes what the dealer's step did, from the same node and
the same correction word. The sums are summed in different orders: `Amount(c,
S)` is the sum of `c` over the set `S`, defined as the number of pairs `<<j,
n>>` with `n < c[j]`, so that again disjoint unions are all that is needed; a
partial sum of either is the amount over the leaves added so far (`PartialW`,
`PartialT`), a total the amount over the leaves of the threads joined (`TotalW`,
`TotalT`), and at the end both are the amount over the whole domain. For the
refinement, `ReturnPublishes` maps a server's `Return` to a publication, which
by `ShareCorrect` (`FinalShares`) sums to the point function with the other
server's; every other step changes nothing that PointSharing sees, or deals.
`EvalCorrect` is about the recursion of `dpf_eval`: `PathNodes` shows that the
node it has after `l` turns is the node of the dealer's layer `l` at the
ancestor of the leaf, by one turn (`NodeStep`) and `SetInduction`.

**InputCheck.** Behind `CheckInv` is `WordsFollow`: the dealer's correction
words are the functions of its XORs that `check_xor` computes again, level by
level. Completeness is then one lemma per group of fields (`HonestLevels`,
`HonestFinal`, for `gamma` with the equality of the sums). Soundness
(`AcceptedFields`) reads the conjuncts of `check_xor` backwards and does not use
that a server deviates in one field only.

**LeafSums.** All equations are modulo `Low`, 2 to the smaller of `Bout` and
`bitlength`: reduction modulo a larger power of two does not change a value
modulo `Low` (`LowBits`). For `Reconstructs` and `GammaAccepted` the invariant
has `Agree`, `ThreadsDiffer`, `TotalsDiffer` (the two parties' accumulators
differ, modulo `Low`, by the leaf at the secret point alone), `Dealt`,
`Delivered` and `Packed` (what is known of gamma when it is formed, when it has
reached a server, and of the packs at the client). `Transport` is the arithmetic
of a field: what is read has the sender's bits, as many as both sizes have, if
both count the same bytes. `SharesPointLow` shows once, for any gamma that has
the right bits, that the tables share the point; `Reconstructs` takes it for the
dealer's gamma and for the received ones. The sign of gamma is taken from the
party whose bit is set at the point, which is what comparing `T0` and `T1` gives
by `SumsInvariant`. For `SumsRight` it says what each accumulator and each total
is a sum of (`SumInv`): `SumsTo(f, n, x)` says that some running sum of `f` ends
with `x`, and NumberLemmas how one more leaf changes it. `ConvertCuts` is
arithmetic of masks and quotients (`MaskedBit`, `ShiftedBit`).

**PirRetrieval.** What `inner_prod` computes is a sum over the entries; the
invariant keeps all partial sums. `Scanned` says that the histories `oSum` and
`hatoSum` follow the recurrence of the loop, `Sums` that at every entry both
servers have reached the two histories add up to the entry wanted times the
value shared at the point, or to nothing before the point. An action appends one
value to one history, and `SumsGrow` proves the new equation from the one before
it (`NextSum`), whichever server is ahead. `PointRotated` is the modular
arithmetic of the rotated index: the entry that meets the secret point is the
one asked for. `Answered` and `Judged` carry this to the client. Detection needs
only that a faulty server's `hato` is honest; its `o` is arbitrary.

**Prng.** The invariant adds `Aligned`: the buffer holds the blocks just before
the counter, and the number of bytes handed out is the place of the index in the
stream. `CopyInv` distinguishes whether a copy ends at the end of the buffer;
the arithmetic behind it is `DivShift`, that whole blocks add to the quotient
and leave the remainder.

**Memory.** That no fault was recorded is not inductive. The invariant says of
every array, by its variable, tree and turn of the loop, whether it is allocated
(`Live`, from the phase, the turn and the leaves that are busy or done), and
what every pointer points at:

    MInv == Phases /\ PointersAre /\ HeapIs /\ SafeAccess

An action keeps `HeapIs` when it allocates and frees exactly where `Live`
changes (`HeapStep`), and has no fault when `Live` holds of all it uses
(`NoMisuse`). `LostIsKnown` is then a statement about `Live` alone.

**Connect.** `SetupInv` says that each program has made an initial part of its
calls, `Made(p)` many, that a connection waits only where the acceptor listens
and has not accepted it yet (`QueuedHeard`), and that what waits or was accepted
was made by its connector (`ConnectedFirst`). Tables give each port's two
programs and the places of the two calls among theirs, `PortCalls` and
`CallPorts` tie them to the lists of calls. With the client's last accept all
others have then made their last connect (`TogetherFacts`).

**PirSession.** The calls a program has still to make are determined by how many
points of its text it has passed, and by the counts and the byte `accept` it has
read. `SInv(pc)` is the invariant for given points `pc`, and `SessionInv` that
there are some:

* `AtPoints`: the tables `DealerTodo`, `ServerTodo`, `ClientTodo` list the
  remaining calls point by point; `PointOK` says which points go with an
  `accept` or verdict that was read or not.
* `LinksOK`: a connection holds the sections that its sender has sent (`Sent`, a
  function of the sender's point) and its receiver not yet read (`Read`), in
  order (`Aligned`), with the value that decides what the receiver goes on with.
  This is the claim of framing for a connection that holds any number of
  sections. After a death the receiver may be ahead, and the connection is
  empty.
* `AcceptTold`: an accept that was read is the verdict, or the client is dead
  and had not told this server yet. By `NotToldIsDue` the points before the byte
  are those at which it is among the calls the client has still to make, which
  is how `AcceptIsVerdict` says it.
* `SizesAgree`: the client and a server have read equal counts, or the server is
  gone. Together with `VerdictMatches` (an accept means that the client's three
  sizes are equal) it gives the width of the rotated index, which the client
  takes from one count and the server from another.
* `Tallied`: a program's byte counters are the bytes of the sections before its
  point. `SameBytes` shows that both ends of a connection count the same once
  they have read and sent the same sections, `Square` exchanges the sums.

`Gone` says that somebody has died. Nobody dies of a broken pipe or reads an end
of file unless somebody died before, because who has ended has sent all that is
read (`EndedSent`) and read all that is sent to it (`EndedRead`). With that
`CleanFinish` follows by counting: at the end everybody is at the last point.

**Deployment.** A step of Connect keeps `SessionInv` and a step of PirSession
`SetupInv`; what relates them is `Related`. Who has stopped was connected or
refused; the client stops and gives a verdict only when all are connected; and
nobody is gone unless somebody was refused. A server that returns has read an
accept, hence a verdict was given. The dealer returns without having read
anything, and with the client possibly still in its constructor: `Answered`,
that a port is listened on only after the connection before it was accepted,
shows that its last connect comes after both servers' (`DealerLast`), so that
nobody can be refused any more. `ClientLeftWaiting` is proved although it is no
invariant, because it needs no fairness: `exited` only grows.

**NumberLemmas.** Arithmetic modulo a number, with lemmas that Z3 cannot find
alone because products are not linear. `SetInduction` is induction on the
natural numbers for a set, derived from the pigeonhole principle for finite
sets, because the library's induction takes a predicate as a parameter;
`RecursionExists` gives functions defined by recursion, and the lemmas on
`SumsTo` are its use.

**Model-checked only.** The liveness properties `Terminates`, `Replaced`,
`BothReturn`, `AllStop`, `Retrieved`, `Completes` and Prng's `Answered`: they
need fairness and `ENABLED`, which TLAPS does not reach.

## 5. Finding

`keys.cpp:43` enters the last block of `check_xor` when

    x0.T == x2.T[0] || x1.T == x2.T[1]

while each of the other fields is compared for both servers. One server's `T`
may therefore differ from the dealer's in a pack that is accepted; it is only
noticed when it changes the sign of `T0 - T1` and that changes `gamma`.
`c.cpp:106` reports a failed check as "Inputs do not match.", which is what
`OnlyMatchingAccepted` says an accept excludes; run `input_check_T` shows the
accepted pack. `AcceptedPacksMatch` shows how far the effect goes: every field
that the shares depend on is still the dealer's.

## 6. What is not modelled, and why

* **AES inside.** A fixed function of its inputs; any table stands for it. Its
  arithmetic is out of TLC's reach and nothing depends on it.
* **Dead code.** `compute_hato` has no caller and differs from `inner_prod` by
  leaving out entry 0; `getBufferSpan` and moving a generator; the branch of
  `convert` for elements that take more than 16 bytes, which two elements of at
  most 64 bits never do; the operators of `GroupElement` that the programs do
  not use.
* **The single-block branch** of the programs (`entry_size <= bitlength`), which
  their constants exclude: the client would return -1 without closing its
  connections. On the wire it is the case `Blocks = 1`, which `deployment` uses.
* **That both servers make the same requests of their generators** is read off
  `p0.cpp:23-33` and `p1.cpp:24-34`; PirRetrieval has one database for both.
* **Wrong answers are wrong in `o`.** A server that also chooses `hato` is
  outside of what the MAC of this code claims for one wrong computation.
* **Short sends and short reads** within a field, timing and printing; the
  contents of a field where no decision depends on it.
* **Which allocator an array came from.** `keys.h:37` frees with `delete[]` what
  a server and partly the client got from `malloc()`; Memory tells whether
  something is allocated, not by whom. Memory also takes the arrays of a struct
  that have one element per level as one.
* **The local test driver** `tests/main.cpp`, which is the programs' calls in
  one process, and the vendored support code of cryptoTools and EzPC.

`src/README.md` speaks of a database of 2^24 entries and of index 2859; the
programs have `input_size = 18` and ask for `GroupElement(1, ip2.size)`. No
property rests on either.

## 7. Plan

All modules of the plan are written and their safety properties proved. What
would be worth adding, in this order:

1. PirRetrieval on top of DpfEval, with PointSharing's promise as the glue:
   today it starts from any state that satisfies the promise.
2. The steps of an abstract session, in which whole messages are exchanged, that
   PirSession refines.
3. The single-block branch, if the programs' constants are ever changed to it.
