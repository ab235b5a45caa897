------------------------------ MODULE RingSpec ------------------------------
(***************************************************************************)
(* What consistent hashing promises: every key has one of the members as   *)
(* its owner while there are members, a joining member takes keys over but *)
(* no other key moves, and only the keys of a leaving member move.         *)
(***************************************************************************)
CONSTANTS
  Key,   \* what is looked up
  Node,  \* the possible members
  none   \* the owner of every key while there are no members; not a node

VARIABLES members, owner

ringVars == <<members, owner>>

Init ==
  /\ members = {}
  /\ owner = [k \in Key |-> none]

Owners == IF members = {} THEN {none} ELSE members

Join(n) ==
  /\ n \notin members
  /\ members' = members \cup {n}
  /\ owner' \in [Key -> Owners']
  /\ \A k \in Key : owner'[k] # owner[k] => owner'[k] = n

Leave(n) ==
  /\ n \in members
  /\ members' = members \ {n}
  /\ owner' \in [Key -> Owners']
  /\ \A k \in Key : owner'[k] # owner[k] => owner[k] = n

Next == \E n \in Node : Join(n) \/ Leave(n)

Spec == Init /\ [][Next]_ringVars

=============================================================================
