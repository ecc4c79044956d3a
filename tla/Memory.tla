------------------------------- MODULE Memory -------------------------------
(***************************************************************************)
(* Who owns which array: allocation, use and release in dpf_keygen (the    *)
(* dealer), recv_dpf_key, dpf_eval_all and compute_inner_prod_Zp (a        *)
(* server), the packs and answers of the client, and what main() of each   *)
(* allocates and frees, until it returns.                                  *)
(*                                                                         *)
(* An array is named by the variable it was allocated for, the tree or     *)
(* party, and the turn of the loop.  The arrays of one struct that have    *)
(* one element per level are one, the blocks of the database are one, and  *)
(* those of two elements that nothing can overrun belong to them.  What is *)
(* read or written out of bounds or after free(), or freed twice, goes     *)
(* into faults.                                                            *)
(***************************************************************************)
EXTENDS Integers

CONSTANTS
  MaxHeight,  \* bound: the largest height
  Pow2,       \* Pow2[n] = 2^n
  Heights,    \* heights and sizes a program may be given or read
  InputSize,  \* input_size, for which servers allocate t and the database
  Threads     \* nt

ASSUME MemoryAssumption ==
  /\ MaxHeight \in Nat \ {0} /\ Heights \subseteq 0 .. MaxHeight /\ InputSize \in 0 .. MaxHeight
  /\ Threads \in Nat \ {0}
  /\ Pow2 \in [0 .. MaxHeight -> Nat \ {0}]
  /\ Pow2[1] = 2
  /\ \A a, b \in 0 .. MaxHeight : a + b <= MaxHeight => Pow2[a + b] = Pow2[a] * Pow2[b]

Role     == {"dealer", "server", "client"}
Tree(r)  == CASE r = "dealer" -> {0, 1} [] r = "server" -> {0} [] r = "client" -> {}
Party(r) == IF r = "client" THEN {0, 1, 2} ELSE Tree(r)

Array(of, tr, n) == [of |-> of, tree |-> tr, turn |-> n]

Null == Array("NULL", 0, 0)

VARIABLES
  role,      \* whose program this is
  height,    \* height[p]: the height of the trees; the client: the size of pack p
  heap,      \* the arrays that are allocated
  pointer,   \* pointer[tree]: the variables hats, hatt, dpfl->nodes, currt, prevt
  turn,      \* turns of the level loop done; dpfl->size is Pow2[turn]
  expanded,  \* trees expanded in this turn
  busy,      \* leaves some thread is working at
  done,      \* leaves done
  accepted,  \* accept of a server, output of the client
  pc,
  faults     \* arrays misused

tree  == <<pointer, turn, expanded>>
leafs == <<busy, done>>
vars  == <<role, height, heap, tree, leafs, accepted, pc, faults>>

Height   == height[0]
Leaf     == 0 .. Pow2[Height] - 1
Owner(j) == j % Threads

Length(a) ==
  CASE a.of \in {"hats", "hatt", "nodes", "currt"} -> Pow2[a.turn]
    [] a.of \in {"key", "pack", "correction"}      -> height[a.tree]
    [] a.of \in {"t", "database"}                  -> Pow2[InputSize]
    [] a.of = "out"                                -> Pow2[Height]
    [] a.of \in {"gamma", "gamma_ind", "entry"}    -> 2
    [] OTHER                                       -> 1

\* What a step reads or writes, as <<array, how many of its elements>>, and
\* what it frees: free(NULL) does nothing.
Misused(uses, frees) ==
  {u[1] : u \in {x \in uses : x[2] > 0 /\ (x[1] \notin heap \/ x[2] > Length(x[1]))}}
  \cup {a \in frees : a # Null /\ a \notin heap}

Does(uses, frees, allocates) ==
  /\ faults' = faults \cup Misused(uses, frees)
  /\ heap' = (heap \ frees) \cup allocates

Layer(tr) == Array("layer", tr, 0)
Key(tr)   == Array("key", tr, 0)
Gamma(tr) == Array("gamma", tr, 0)
Pack(p)   == Array("pack", p, 0)
T         == Array("t", 0, 0)
Out       == Array("out", 0, 0)
Database  == Array("database", 0, 0)

\* What is allocated when the level loop begins, or the packs are received;
\* "input" is a dpf_input_pack with its alpha, "correction" its sigma and tau.
Beginning(r) ==
  {Pack(p) : p \in Party(r)}
  \cup {Array(of, tr, 0) : of \in {"layer", "hats", "hatt", "key"}, tr \in Tree(r)}
  \cup (CASE r = "dealer" -> {Array(of, tr, 0) :
                                   of \in {"dpf_key", "correction", "input"}, tr \in Tree(r)}
          [] r = "server" -> {Gamma(0), T, Database}
          [] r = "client" -> {})

Init ==
  /\ role \in Role
  /\ height \in [Party(role) -> Heights]
  /\ role # "client" => \A p \in Party(role) : height[p] = Height
  /\ heap = Beginning(role)
  /\ pointer = [tr \in Tree(role) |->
       [hats |-> Array("hats", tr, 0), hatt |-> Array("hatt", tr, 0),
        nodes |-> Null, currt |-> Null, prevt |-> Null]]
  /\ turn = 0
  /\ expanded = {}
  /\ busy = {} /\ done = {}
  /\ accepted = FALSE
  /\ pc = IF role = "client" THEN "check" ELSE "levels"
  /\ faults = {}
-----------------------------------------------------------------------------
(***************************************************************************)
(* The level loop.  prg_eval_all_and_xor: the children are new arrays, the *)
(* old ones are freed.                                                     *)
(***************************************************************************)
Expand(tr) ==
  LET nodes == Array("nodes", tr, turn + 1)
      currt == Array("currt", tr, turn + 1)
  IN
  /\ pc = "levels"
  /\ turn < Height
  /\ tr \notin expanded
  /\ \A other \in Tree(role) : other < tr => other \in expanded
  /\ Does({<<Layer(tr), 1>>, <<pointer[tr].hats, Pow2[turn]>>},
          {pointer[tr].nodes, pointer[tr].currt}, {nodes, currt})
  /\ pointer' = [pointer EXCEPT ![tr].nodes = nodes, ![tr].currt = currt]
  /\ expanded' = expanded \cup {tr}
  /\ UNCHANGED <<role, height, turn, leafs, accepted, pc>>

Corrections == IF role = "dealer" THEN "correction" ELSE "key"

\* The level is done: hatt becomes prevt, hats and hatt are new.
Swapped(tr) ==
  [pointer[tr] EXCEPT !.prevt = pointer[tr].hatt,
                      !.hats = Array("hats", tr, turn + 1),
                      !.hatt = Array("hatt", tr, turn + 1)]

\* Variant: the control bits of the level before are freed at once.
SwapFreeing ==
  /\ pc = "levels"
  /\ turn < Height
  /\ expanded = Tree(role)
  /\ Does({<<Pack(tr), turn + 1>> : tr \in Tree(role)}
            \cup {<<Key(tr), turn + 1>> : tr \in Tree(role)}
            \cup {<<Array(Corrections, tr, 0), turn + 1>> : tr \in Tree(role)},
          {pointer[tr].hats : tr \in Tree(role)} \cup {pointer[tr].hatt : tr \in Tree(role)},
          {Array(of, tr, turn + 1) : of \in {"hats", "hatt"}, tr \in Tree(role)})
  /\ pointer' = [tr \in Tree(role) |-> Swapped(tr)]
  /\ turn' = turn + 1
  /\ expanded' = {}
  /\ pc' = "correct"
  /\ UNCHANGED <<role, height, leafs, accepted>>

\* The level is noted in the packs and keys, the control bits before the last
\* are forgotten, and hats and hatt are allocated for the next level.
Swap ==
  /\ pc = "levels"
  /\ turn < Height
  /\ expanded = Tree(role)
  /\ Does({<<Pack(tr), turn + 1>> : tr \in Tree(role)}
            \cup {<<Key(tr), turn + 1>> : tr \in Tree(role)}
            \cup {<<Array(Corrections, tr, 0), turn + 1>> : tr \in Tree(role)},
          {pointer[tr].hats : tr \in Tree(role)},
          {Array(of, tr, turn + 1) : of \in {"hats", "hatt"}, tr \in Tree(role)})
  /\ pointer' = [tr \in Tree(role) |-> Swapped(tr)]
  /\ turn' = turn + 1
  /\ expanded' = {}
  /\ pc' = "correct"
  /\ UNCHANGED <<role, height, leafs, accepted>>

\* The parallel loop over the nodes of the new level.
Correct ==
  /\ pc = "correct"
  /\ Does(UNION {{<<pointer[tr].prevt, Pow2[turn - 1]>>, <<pointer[tr].nodes, Pow2[turn]>>,
                  <<pointer[tr].currt, Pow2[turn]>>, <<pointer[tr].hats, Pow2[turn]>>,
                  <<pointer[tr].hatt, Pow2[turn]>>, <<Array(Corrections, tr, 0), turn>>}
                 : tr \in Tree(role)}, {}, {})
  /\ pc' = "levels"
  /\ UNCHANGED <<role, height, tree, leafs, accepted>>

\* A server allocates its table.
EndLevels ==
  /\ pc = "levels"
  /\ turn = Height
  /\ Does({}, {}, IF role = "server" THEN {Out} ELSE {})
  /\ pc' = "leaves"
  /\ UNCHANGED <<role, height, tree, leafs, accepted>>
-----------------------------------------------------------------------------
(***************************************************************************)
(* The parallel loop over the leaves: convert() allocates, the thread      *)
(* frees.  A server also writes t[j] and a new out[j].                     *)
(***************************************************************************)
GammaInds(j) == {Array("gamma_ind", tr, j) : tr \in Tree(role)}
Entries(js)  == IF role = "server" THEN {Array("entry", 0, j) : j \in js} ELSE {}

BeginLeaf(j) ==
  /\ pc = "leaves"
  /\ j \notin busy \cup done
  /\ \A k \in 0 .. j - 1 : Owner(k) = Owner(j) => k \in done
  /\ Does({<<pointer[tr].hats, j + 1>> : tr \in Tree(role)}
          \cup (IF role = "server"
                THEN {<<T, j + 1>>, <<Out, j + 1>>} ELSE {}),
          {}, GammaInds(j) \cup Entries({j}))
  /\ busy' = busy \cup {j}
  /\ UNCHANGED <<role, height, tree, done, accepted, pc>>

\* Variant: the result of convert() is not freed.
EndLeafKeeping(j) ==
  /\ pc = "leaves"
  /\ j \in busy
  /\ Does({<<pointer[tr].hatt, j + 1>> : tr \in Tree(role)}, {}, {})
  /\ busy' = busy \ {j}
  /\ done' = done \cup {j}
  /\ UNCHANGED <<role, height, tree, accepted, pc>>

EndLeaf(j) ==
  /\ pc = "leaves"
  /\ j \in busy
  /\ Does({<<pointer[tr].hatt, j + 1>> : tr \in Tree(role)}
            \cup {<<a, 2>> : a \in GammaInds(j) \cup Entries({j})}
            \cup (IF role = "server" THEN {<<Gamma(0), 2>>} ELSE {}),
          GammaInds(j), {})
  /\ busy' = busy \ {j}
  /\ done' = done \cup {j}
  /\ UNCHANGED <<role, height, tree, accepted, pc>>

\* The dealer's keys get their gamma.
FreeHats ==
  /\ pc = "leaves"
  /\ done = Leaf
  /\ Does({}, {pointer[tr].hats : tr \in Tree(role)} \cup {pointer[tr].hatt : tr \in Tree(role)},
          IF role = "dealer" THEN {Gamma(tr) : tr \in Tree(role)} ELSE {})
  /\ pc' = "layers"
  /\ UNCHANGED <<role, height, tree, leafs, accepted>>

\* free_dpf_layer, of each tree; the function returns.
FreeLayers ==
  /\ pc = "layers"
  /\ Does({<<Layer(tr), 1>> : tr \in Tree(role)},
          UNION {{pointer[tr].nodes, pointer[tr].prevt, pointer[tr].currt, Layer(tr)}
                 : tr \in Tree(role)}, {})
  /\ pc' = "send"
  /\ UNCHANGED <<role, height, tree, leafs, accepted>>
-----------------------------------------------------------------------------
(***************************************************************************)
(* What main() does with the results.  The dealer sends keys and pack and  *)
(* returns; a server sends its pack, answers if it is accepted, and frees  *)
(* pack, key and database.                                                 *)
(***************************************************************************)
SendResults ==
  /\ pc = "send"
  /\ Does({<<Pack(tr), Height>> : tr \in Tree(role)}
            \cup (IF role = "dealer"
                  THEN {<<Key(tr), Height>> : tr \in Tree(role)}
                       \cup {<<Gamma(tr), 2>> : tr \in Tree(role)}
                  ELSE {}), {}, {})
  /\ pc' = IF role = "dealer" THEN "end" ELSE "accept"
  /\ UNCHANGED <<role, height, tree, leafs, accepted>>

\* The results of the inner products: o and hato; o0, o1, hato0, hato1, dbout.
Answers(r) ==
  CASE r = "dealer" -> {}
    [] r = "server" -> {Array(of, 0, 0) : of \in {"o", "hato"}}
    [] r = "client" -> {Array(of, p, 0) : of \in {"o", "hato"}, p \in {0, 1}}
                       \cup {Array("dbout", 0, 0)}

\* The inner products run over 2^input_size elements of the table, whatever
\* the height of the key; the index wraps at 2^height, whatever the database.
Index(i, rotated) == (i + rotated) % Pow2[Height]

Answer ==
  /\ pc = "accept"
  /\ \E rotated \in 0 .. Pow2[Height] - 1 :
       Does({<<Out, Pow2[InputSize]>>}
              \cup {<<a, 2>> : a \in Entries(0 .. Pow2[InputSize] - 1)}
              \cup {<<Database, Index(i, rotated) + 1>> : i \in 0 .. Pow2[InputSize] - 1},
            {}, Answers(role))
  /\ accepted' = TRUE
  /\ pc' = "free"
  /\ UNCHANGED <<role, height, tree, leafs>>

Rejected ==
  /\ pc = "accept"
  /\ pc' = "free"
  /\ UNCHANGED <<role, height, heap, tree, leafs, accepted, faults>>

\* check_xor looks at the arrays of the three packs up to the first's size,
\* unless the sizes differ; the client allocates the answers if it accepts.
CheckXor ==
  LET agree == height[0] = height[1] /\ height[1] = height[2] IN
  /\ pc = "check"
  /\ accepted' \in BOOLEAN
  /\ accepted' => agree
  /\ Does(IF agree THEN {<<Pack(p), height[1]>> : p \in Party(role)} ELSE {},
          {}, IF accepted' THEN Answers(role) ELSE {})
  /\ pc' = "free"
  /\ UNCHANGED <<role, height, tree, leafs>>

FreeResults ==
  /\ pc = "free"
  /\ Does({}, {Pack(p) : p \in Party(role)}
              \cup (IF role = "server" THEN {Key(0), Gamma(0), Database} ELSE {}), {})
  /\ pc' = "end"
  /\ UNCHANGED <<role, height, tree, leafs, accepted>>

Next ==
  \/ (\E tr \in Tree(role) : Expand(tr)) \/ Swap \/ Correct \/ EndLevels
  \/ (\E j \in Leaf : BeginLeaf(j) \/ EndLeaf(j)) \/ FreeHats \/ FreeLayers
  \/ SendResults \/ Answer \/ Rejected \/ CheckXor \/ FreeResults

Spec == Init /\ [][Next]_vars
-----------------------------------------------------------------------------
(***************************************************************************)
(* Nothing is used after it was freed or beyond its end, or freed twice,   *)
(* in any order of the threads and whatever sizes the client reads, but    *)
(* for a server whose key has another height than its own input_size.  It  *)
(* writes t by the one and reads out by the other.  With a larger key it   *)
(* writes beyond t as soon as a thread begins a leaf beyond 2^input_size,  *)
(* and may read beyond the database when it answers; with a smaller one it *)
(* reads beyond out, and follows what it reads there, when it answers.     *)
(***************************************************************************)
Overrun ==
  IF role # "server" \/ Height = InputSize THEN {}
  ELSE IF Height > InputSize THEN {T, Database}
  ELSE {Out} \cup Entries(Pow2[Height] .. Pow2[InputSize] - 1)

SafeAccess ==
  /\ faults \subseteq Overrun
  /\ role = "server" => (T \in faults <=> \E j \in busy \cup done : j >= Pow2[InputSize])
  /\ faults \ {T} # {} => accepted
  /\ role = "server" /\ Height < InputSize /\ accepted => Overrun \subseteq faults

(***************************************************************************)
(* Every array is freed, is still in reach of a variable, or is one of     *)
(* these.  While a program runs it has lost the control bits of the levels *)
(* before the last (prevt is overwritten in each turn, and only its last   *)
(* array is freed), the two dpf_key objects dpf_keygen returns copies of,  *)
(* and the answers, whose pointers end with the block that asked for them. *)
(* When main() returns, the dealer has freed nothing it dealt, and a       *)
(* server neither t nor its table.                                         *)
(***************************************************************************)
Reachable ==
  (IF pc \in {"levels", "correct", "leaves", "layers"}
   THEN UNION {{pointer[tr].hats, pointer[tr].hatt, pointer[tr].nodes, pointer[tr].currt,
                pointer[tr].prevt, Layer(tr), Array("dpf_key", tr, 0)} : tr \in Tree(role)}
   ELSE {})
  \cup (UNION {GammaInds(j) : j \in busy})
  \cup (IF pc # "end"
        THEN {Pack(p) : p \in Party(role)}
             \cup {Array(of, tr, 0) : of \in {"key", "gamma", "correction", "input"}, tr \in Tree(role)}
             \cup {T, Out, Database} \cup Entries(Leaf)
        ELSE {})

Lost ==
  {Array("hatt", tr, i) : tr \in Tree(role), i \in 0 .. turn - 2}
  \cup (IF role = "dealer" /\ pc \in {"send", "end"}
        THEN {Array("dpf_key", tr, 0) : tr \in Tree(role)} ELSE {})
  \cup (IF accepted THEN Answers(role) ELSE {})

NeverFreed(r) ==
  CASE r = "dealer" -> {Array(of, tr, 0) :
                          of \in {"pack", "key", "gamma", "correction", "input"}, tr \in Tree(r)}
    [] r = "server" -> {T, Out} \cup Entries(Leaf)
    [] r = "client" -> {}

LostIsKnown ==
  heap \ Reachable = Lost \cup (IF pc = "end" THEN NeverFreed(role) ELSE {})
=============================================================================
