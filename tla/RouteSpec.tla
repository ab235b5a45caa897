----------------------------- MODULE RouteSpec -----------------------------
(***************************************************************************)
(* A hash ring as a master uses it: nodes join and leave, and after each   *)
(* change every lookup has some answer of Routing.  A node that leaves may *)
(* spoil the list, for good unless the ring is rebuilt.  No node and no    *)
(* key ever gets other hashes.                                             *)
(***************************************************************************)
EXTENDS Routing

VARIABLES
  members,   \* the nodes of the ring
  distance,  \* distance[k][n]: clockwise from k to the next hash of n
  route,     \* what a lookup answers for each key
  whole      \* no leaving node has spoilt the list

routeVars == <<members, distance, route, whole>>

Init ==
  /\ members = {}
  /\ distance \in [Key -> [Node -> Nat]]
  /\ route = [k \in Key |-> none]
  /\ whole = TRUE

Join(n) ==
  /\ n \notin members
  /\ members' = members \cup {n}
  /\ whole' = whole

Leave(n) ==
  /\ n \in members
  /\ members' = members \ {n}
  /\ whole' \in {whole, FALSE}

Rebuild ==
  /\ members' = members
  /\ whole' = TRUE

Next ==
  /\ \/ \E n \in Node : Join(n) \/ Leave(n)
     \/ Rebuild
  /\ distance' = distance
  /\ route' \in Routes(distance', members', whole')

Spec == Init /\ [][Next]_routeVars

=============================================================================
