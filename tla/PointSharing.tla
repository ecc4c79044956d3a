---------------------------- MODULE PointSharing ----------------------------
(***************************************************************************)
(* What the offline phase promises, without trees, keys or threads: a      *)
(* point and a value are dealt, each of two parties publishes one table of *)
(* group elements, in any order, and the two tables sum to the point       *)
(* function: the value at the point, zero elsewhere.  A single table may   *)
(* be anything.                                                            *)
(***************************************************************************)
EXTENDS Integers

CONSTANTS
  Points,   \* the domain, 0..2^Bin - 1
  Order,    \* of the group
  NoTable   \* "nothing published"

VARIABLES
  point, value,   \* the point, and the value's two components
  table           \* table[p]: party p's table, or NoTable

vars == <<point, value, table>>

Component == {0, 1}
Value     == [Component -> 0 .. Order - 1]
Table     == [Points -> Value]

SumsToPoint(f, g) ==
  \A j \in Points, b \in Component :
    (f[j][b] + g[j][b]) % Order = IF j = point THEN value[b] ELSE 0

Init ==
  /\ point \in Points
  /\ value \in Value
  /\ table = [p \in {0, 1} |-> NoTable]

Publish(p) ==
  /\ table[p] = NoTable
  /\ table'[p] \in Table
  /\ table' = [table EXCEPT ![p] = table'[p]]
  /\ table[1 - p] # NoTable => SumsToPoint(table'[p], table[1 - p])
  /\ UNCHANGED <<point, value>>

Next == \E p \in {0, 1} : Publish(p)

Spec == Init /\ [][Next]_vars
=============================================================================
