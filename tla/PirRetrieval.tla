---------------------------- MODULE PirRetrieval ----------------------------
(***************************************************************************)
(* The online phase: the client's rotated query, compute_inner_prod_Zp and *)
(* inner_prod (src/dpf.cpp) on the two servers, and the client's           *)
(* reconstruction and MAC check (src/tests/protocol/c.cpp).  It starts     *)
(* from what DpfEval delivers: two tables of shares that sum to the point  *)
(* function of the dealer's random point.                                  *)
(***************************************************************************)
EXTENDS Integers, FiniteSets

CONSTANTS
  Points,    \* database_size, 2^input_size
  Modulus,   \* 2^bitlength
  Blocks,    \* group elements in a database entry
  Threads,   \* nt
  Ind,       \* the entry the client wants, the index of c.cpp:39
  Databases, \* the databases considered; both servers generate the same one
  Masks      \* the tables considered for party 0; party 1's follows

Party  == {0, 1}
Bit    == {0, 1}
Group  == 0 .. Modulus - 1
Domain == 0 .. Points - 1
BlockNo == 0 .. Blocks - 1
Thread == 0 .. Threads - 1

ASSUME RetrievalAssumption ==
  /\ {Points, Modulus, Blocks, Threads} \subseteq Nat \ {0}
  /\ Ind \in Domain
  /\ Databases \subseteq [BlockNo -> [Domain -> Group]]
  /\ Masks \subseteq [Domain -> [Bit -> Group]]

VARIABLES
  db,        \* databaseB
  index,     \* the dealer's random point in shares, from ip2 and the keys
  payload,   \* the MAC value alpha in shares
  out,       \* out[p]: what dpf_eval_all returned to server p
  query,     \* the rotated index, or NoQuery
  scan,      \* servers that have read the query
  oSum,      \* oSum[p][k]: history of ovalue of block k, after 0, 1, ... entries
  hatoSum,   \* and of ohatvalue
  answer,    \* answer[p]: the o and hato received from p, or NoAnswer
  faulty,    \* servers whose answer was not what inner_prod computed
  dbout,     \* the reconstructed entry
  result     \* "none", "correct", "incorrect"

given  == <<db, index, payload, out>>
work   == <<scan, oSum, hatoSum>>
client == <<dbout, result>>
vars   == <<given, query, work, answer, faulty, client>>

NoQuery  == -1
NoAnswer == [o |-> <<>>, hato |-> <<>>]

Plus(x, y) == (x + y) % Modulus
Point == (index[0] + index[1]) % Points
Alpha == Plus(payload[0], payload[1])

\* The table that makes f a sharing of the point function (PointSharing).
Complement(f) ==
  [j \in Domain |-> [b \in Bit |->
     ((IF j # Point THEN 0 ELSE IF b = 0 THEN 1 % Modulus ELSE Alpha) - f[j][b]) % Modulus]]

Init ==
  /\ db \in Databases
  /\ index \in [Party -> Domain]
  /\ payload \in [Party -> Group]
  /\ \E f \in Masks : out = [p \in Party |-> IF p = 0 THEN f ELSE Complement(f)]
  /\ query = NoQuery
  /\ scan = {}
  /\ oSum = [p \in Party |-> [k \in BlockNo |-> [n \in 0 .. 0 |-> 0]]]
  /\ hatoSum = [p \in Party |-> [k \in BlockNo |-> [n \in 0 .. 0 |-> 0]]]
  /\ answer = [p \in Party |-> NoAnswer]
  /\ faulty = {}
  /\ dbout = <<>>
  /\ result = "none"

\* Variant: only one share of the point is subtracted.
QueryOneShare ==
  /\ query = NoQuery
  /\ query' = (Ind - index[0]) % Points
  /\ UNCHANGED <<given, work, answer, faulty, client>>

\* c.cpp:41: the client's index minus both shares, in Bin bits.
Query ==
  /\ query = NoQuery
  /\ query' = (Ind - index[0] - index[1]) % Points
  /\ UNCHANGED <<given, work, answer, faulty, client>>

Read(p) ==
  /\ query # NoQuery
  /\ p \notin scan
  /\ scan' = scan \cup {p}
  /\ UNCHANGED <<given, query, oSum, hatoSum, answer, faulty, client>>

(***************************************************************************)
(* One turn of inner_prod's loop for block k, by the thread that owns the  *)
(* block: blocks are dealt out by schedule(static, 1), a thread takes its  *)
(* blocks in order.  Entry i of the share table goes with the database     *)
(* entry that the query rotates there.                                     *)
(***************************************************************************)
Done(p, k)  == Points \in DOMAIN oSum[p][k]
At(p, k)    == Cardinality(DOMAIN oSum[p][k]) - 1

\* Variant: the table is rotated the other way.
RotatedBack(i)  == (i - query) % Points

Rotated(i)  == (i + query) % Points

Added(sums, i, share, entry) ==
  [n \in 0 .. i + 1 |-> IF n = i + 1 THEN (sums[i] + share * entry) % Modulus ELSE sums[n]]

\* Variant: threads are counted from one.
OwnerFromOne(k) == (k % Threads) + 1

Owner(k) == k % Threads

Accumulate(p, th, k) ==
  LET i == At(p, k) IN
  /\ p \in scan
  /\ Owner(k) = th
  /\ ~Done(p, k)
  /\ \A m \in 0 .. k - 1 : Owner(m) = th => Done(p, m)
  /\ oSum' = [oSum EXCEPT ![p][k] = Added(@, i, out[p][i][0], db[k][Rotated(i)])]
  /\ hatoSum' = [hatoSum EXCEPT ![p][k] = Added(@, i, out[p][i][1], db[k][Rotated(i)])]
  /\ UNCHANGED <<given, query, scan, answer, faulty, client>>

\* Behind the barrier the server sends its o and then its hato.  The client
\* reads p0's answer before p1's.
Answers(p) ==
  /\ p \in scan
  /\ \A k \in BlockNo : Done(p, k)
  /\ answer[p] = NoAnswer
  /\ \A q \in Party : q < p => answer[q] # NoAnswer

O(p)    == [k \in BlockNo |-> oSum[p][k][Points]]
Hato(p) == [k \in BlockNo |-> hatoSum[p][k][Points]]

Answer(p) ==
  /\ Answers(p)
  /\ answer' = [answer EXCEPT ![p] = [o |-> O(p), hato |-> Hato(p)]]
  /\ UNCHANGED <<given, query, work, faulty, client>>

\* A server whose evaluation of o went wrong, in any of its blocks.
FaultyAnswer(p) ==
  /\ Answers(p)
  /\ \E o \in [BlockNo -> Group] :
       answer' = [answer EXCEPT ![p] = [o |-> o, hato |-> Hato(p)]]
  /\ faulty' = faulty \cup {p}
  /\ UNCHANGED <<given, query, work, client>>

\* Add up the shares and compare alpha * entry with the sum of the hatos.
Entry == [k \in BlockNo |-> Plus(answer[0].o[k], answer[1].o[k])]
MacHolds(k) ==
  (Alpha * Entry[k]) % Modulus = Plus(answer[0].hato[k], answer[1].hato[k])

\* Variant: the check of the last block replaces those before it.
ReconstructLastBlock ==
  /\ result = "none"
  /\ \A p \in Party : answer[p] # NoAnswer
  /\ dbout' = Entry
  /\ result' = IF MacHolds(Blocks - 1) THEN "correct" ELSE "incorrect"
  /\ UNCHANGED <<given, query, work, answer, faulty>>

Reconstruct ==
  /\ result = "none"
  /\ \A p \in Party : answer[p] # NoAnswer
  /\ dbout' = Entry
  /\ result' = IF \A k \in BlockNo : MacHolds(k) THEN "correct" ELSE "incorrect"
  /\ UNCHANGED <<given, query, work, answer, faulty>>

Worker(p, th) == \E k \in BlockNo : Accumulate(p, th, k)
Main(p)       == Read(p) \/ Answer(p) \/ FaultyAnswer(p)
Client        == Query \/ Reconstruct

Next == Client \/ \E p \in Party : Main(p) \/ \E th \in Thread : Worker(p, th)

Spec == Init /\ [][Next]_vars
Fairness ==
  /\ WF_vars(Client)
  /\ \A p \in Party : WF_vars(Main(p)) /\ \A th \in Thread : WF_vars(Worker(p, th))
FairSpec == Spec /\ Fairness
-----------------------------------------------------------------------------
(***************************************************************************)
(* Two servers that are at different entries of different blocks stay in   *)
(* step in the sense that counts: after the same number i of entries of a  *)
(* block their sums add up to zero as long as the secret point lies ahead, *)
(* and to the wanted entry (its product with alpha) from then on.          *)
(***************************************************************************)
PartialSums ==
  \A k \in BlockNo, i \in 0 .. Points :
    /\ i \in DOMAIN oSum[0][k] \cap DOMAIN oSum[1][k] =>
         Plus(oSum[0][k][i], oSum[1][k][i]) = IF Point < i THEN db[k][Ind] ELSE 0
    /\ i \in DOMAIN hatoSum[0][k] \cap DOMAIN hatoSum[1][k] =>
         Plus(hatoSum[0][k][i], hatoSum[1][k][i])
           = IF Point < i THEN (Alpha * db[k][Ind]) % Modulus ELSE 0

(***************************************************************************)
(* Private information retrieval works: with two honest servers the client *)
(* prints "Correct Output" and every block of the entry it asked for,      *)
(* whatever the dealer's point, also when the rotated index wraps around.  *)
(***************************************************************************)
HonestRetrieval ==
  (result # "none" /\ faulty = {}) =>
    /\ result = "correct"
    /\ dbout = [k \in BlockNo |-> db[k][Ind]]

(***************************************************************************)
(* What "Correct Output" says of the answers of servers that evaluated o   *)
(* wrongly: the error of every block is annihilated by alpha, so none if   *)
(* alpha is odd.                                                           *)
(***************************************************************************)
WrongOutputDetected ==
  result = "correct" =>
    \A k \in BlockNo : (Alpha * (dbout[k] - db[k][Ind])) % Modulus = 0

(***************************************************************************)
(* The client gets its result.                                             *)
(***************************************************************************)
Retrieved == <>(result # "none")
=============================================================================
