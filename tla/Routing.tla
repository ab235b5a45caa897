------------------------------ MODULE Routing ------------------------------
(***************************************************************************)
(* What HashRing.Get may answer (internal/hashing/consistent.go), as the   *)
(* masters see it: the node whose next hash clockwise is nearest to the    *)
(* key, as long as the list that it searches is whole, and some node or    *)
(* none otherwise.  Cluster assumes this of the rings of its masters;      *)
(* ConsistentHash has it from the code of the ring (RouteSpec).            *)
(***************************************************************************)
EXTENDS Naturals

CONSTANTS
  Key,   \* what is looked up
  Node,  \* the possible nodes of the ring
  none   \* the answer of a ring without nodes; not a node

(* Mutant: the search looks for the hash itself, not for the next. *)
mutNearest(distance, N, k) ==
  LET there == {n \in N : distance[k][n] = 0}
  IN  IF there = {} THEN {none} ELSE there

Nearest(distance, N, k) ==
  {n \in N : \A o \in N : distance[k][n] <= distance[k][o]}

(* What the lookups in a ring of the nodes N may be, all keys at once. *)
Routes(distance, N, whole) ==
  {r \in [Key -> N \cup {none}] :
     whole /\ N # {} => \A k \in Key : r[k] \in Nearest(distance, N, k)}

=============================================================================
