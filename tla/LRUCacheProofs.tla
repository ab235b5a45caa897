--------------------------- MODULE LRUCacheProofs ---------------------------
(***************************************************************************)
(* Proofs about LRUCache.  What a list operation does to a list in good    *)
(* order is a lemma of its own; the rest follows the actions.  No theorem  *)
(* bounds the number of keys, values, goroutines or nodes.                 *)
(***************************************************************************)
EXTENDS LRUCache, FiniteSetTheorems, TLAPS

LEMMA LinkType ==
  ASSUME NEW a \in 0 .. MaxNodes, NEW f \in [Node -> 0 .. a],
         NEW p \in 0 .. a, NEW q \in 0 .. a
  PROVE  /\ Link(f, p, q) \in [Node -> 0 .. a]
         /\ \A n \in Node : n > a => Link(f, p, q)[n] = f[n]
BY LRUAssumption DEF Link, Node, nil

LEMMA RemoveNodeType ==
  ASSUME NEW a \in 0 .. MaxNodes, NEW L, Linked(a, L), NEW n \in 1 .. a
  PROVE  Linked(a, removeNode(L, n))
<1> DEFINE p == L.prev[n]
           q == L.next[n]
<1>1. n \in Node /\ p \in 0 .. a /\ q \in 0 .. a
  BY LRUAssumption DEF Linked, Node
<1>2. /\ L.prev \in [Node -> 0 .. a]
      /\ L.next \in [Node -> 0 .. a]
      /\ L.head \in 0 .. a
      /\ L.tail \in 0 .. a
  BY DEF Linked
<1>3. /\ Link(L.prev, q, p) \in [Node -> 0 .. a]
      /\ Link(L.next, p, q) \in [Node -> 0 .. a]
      /\ \A m \in Node : m > a => Link(L.prev, q, p)[m] = L.prev[m]
      /\ \A m \in Node : m > a => Link(L.next, p, q)[m] = L.next[m]
  BY <1>1, <1>2, LinkType
<1> QED
  BY <1>1, <1>2, <1>3 DEF Linked, removeNode

LEMMA PushFrontType ==
  ASSUME NEW a \in 0 .. MaxNodes, NEW L, Linked(a, L), NEW n \in 1 .. a
  PROVE  Linked(a, pushFront(L, n))
<1> DEFINE f == [L.prev EXCEPT ![n] = nil]
           g == [L.next EXCEPT ![n] = L.head]
<1>1. n \in Node /\ n \in 0 .. a /\ L.head \in 0 .. a /\ L.tail \in 0 .. a
  BY LRUAssumption DEF Linked, Node
<1>2. /\ f \in [Node -> 0 .. a]
      /\ g \in [Node -> 0 .. a]
      /\ \A m \in Node : m > a => f[m] = nil /\ g[m] = nil
  BY <1>1 DEF Linked, nil
<1>3. /\ Link(f, L.head, n) \in [Node -> 0 .. a]
      /\ \A m \in Node : m > a => Link(f, L.head, n)[m] = f[m]
  <2> HIDE DEF f, g
  <2> QED
    BY <1>1, <1>2, LinkType
<1> QED
  BY <1>1, <1>2, <1>3 DEF Linked, pushFront

LEMMA MoveToFrontType ==
  ASSUME NEW a \in 0 .. MaxNodes, NEW L, Linked(a, L), NEW n \in 1 .. a
  PROVE  Linked(a, moveToFront(L, n))
BY RemoveNodeType, PushFrontType DEF moveToFront

LEMMA InsertNewType ==
  ASSUME NEW a \in 0 .. MaxNodes, a < MaxNodes, NEW L, Linked(a, L)
  PROVE  Linked(a + 1, insertNew(L, a + 1))
<1>1. a + 1 \in Node /\ 0 .. a \subseteq 0 .. (a + 1)
  BY LRUAssumption DEF Node
<1>2. /\ L.prev \in [Node -> 0 .. a + 1]
      /\ L.next \in [Node -> 0 .. a + 1]
      /\ L.head \in 0 .. a + 1
      /\ L.tail \in 0 .. a + 1
  BY <1>1 DEF Linked
<1>3. \A m \in Node : m > a + 1 => m > a /\ m # a + 1 /\ m # L.head
  BY LRUAssumption DEF Linked, Node
<1>4. CASE L.head = nil
  BY <1>1, <1>2, <1>3, <1>4 DEF Linked, insertNew, nil
<1>5. CASE L.head # nil
  <2>1. L.head \in Node
    BY <1>5, LRUAssumption DEF Linked, Node, nil
  <2> QED
    BY <1>1, <1>2, <1>3, <1>5, <2>1 DEF Linked, insertNew, nil
<1> QED
  BY <1>4, <1>5

LEMMA DropTailType ==
  ASSUME NEW a \in 0 .. MaxNodes, NEW L, Linked(a, L), L.tail # nil
  PROVE  Linked(a, dropTail(L))
<1>1. L.tail \in Node /\ L.prev[L.tail] \in 0 .. a /\ nil \in 0 .. a
  BY LRUAssumption DEF Linked, Node, nil
<1>2. /\ Link(L.next, L.prev[L.tail], nil) \in [Node -> 0 .. a]
      /\ \A m \in Node : m > a => Link(L.next, L.prev[L.tail], nil)[m] = L.next[m]
  BY <1>1, LinkType DEF Linked
<1> QED
  BY <1>1, <1>2 DEF Linked, dropTail

-----------------------------------------------------------------------------
(* N gives the keys of C different nodes. *)
Located(a, C, N) ==
  /\ C \subseteq Key
  /\ \A k \in C : N[k] \in 1 .. a
  /\ \A j, k \in C : N[j] = N[k] => j = k

LEMMA TotalOrderDropped ==
  ASSUME NEW C \in SUBSET Key, NEW ord \in [Key -> SUBSET Key], NEW k \in C,
         TotalOrder(C, ord)
  PROVE  TotalOrder(C \ {k}, Abstract!Dropped(ord, k))
BY DEF TotalOrder, Abstract!Dropped

LEMMA TotalOrderUsed ==
  ASSUME NEW C \in SUBSET Key, NEW ord \in [Key -> SUBSET Key], NEW k \in Key \ C,
         TotalOrder(C, ord)
  PROVE  TotalOrder(C \cup {k}, Abstract!Used(ord, k, C \cup {k}))
BY DEF TotalOrder, Abstract!Used

LEMMA RemoveNodeList ==
  ASSUME NEW a \in 0 .. MaxNodes, NEW C, NEW N, NEW M, NEW L, NEW k \in C,
         NEW ord \in [Key -> SUBSET Key],
         Located(a, C, N), Linked(a, L), ListOf(C, N, L, ord),
         \A j \in C \ {k} : M[j] = N[j]
  PROVE  ListOf(C \ {k}, M, removeNode(L, N[k]), Abstract!Dropped(ord, k))
<1> DEFINE n  == N[k]
           p  == L.prev[n]
           q  == L.next[n]
           D  == C \ {k}
           L2 == removeNode(L, n)
           o2 == Abstract!Dropped(ord, k)
<1>1. /\ C \subseteq Key /\ k \in Key
      /\ \A i \in C : N[i] \in Node /\ N[i] # nil
      /\ \A i, j \in C : N[i] = N[j] => i = j
  BY LRUAssumption DEF Located, Node, nil
<1>2. \A i \in C : o2[i] = IF i = k THEN {} ELSE ord[i] \ {k}
  BY <1>1 DEF Abstract!Dropped
<1>3. /\ L2.head = IF n = L.head THEN q ELSE L.head
      /\ L2.tail = IF n = L.tail THEN p ELSE L.tail
      /\ \A i \in C : L2.prev[N[i]] = IF N[i] = q THEN p ELSE L.prev[N[i]]
      /\ \A i \in C : L2.next[N[i]] = IF N[i] = p THEN q ELSE L.next[N[i]]
  BY <1>1 DEF removeNode, Link, Linked
<1>4. /\ \A i \in C : i \notin ord[i] /\ ord[i] \subseteq C
      /\ \A i, j \in C : i # j => (i \in ord[j] \/ j \in ord[i])
      /\ \A i, j \in C : i \in ord[j] => j \notin ord[i]
  BY DEF ListOf, TotalOrder
<1>5. \/ ord[k] = {} /\ L.tail = n /\ q = nil
      \/ \E o \in C : q = N[o] /\ L.prev[N[o]] = n /\ ord[k] = ord[o] \cup {o}
  BY DEF ListOf, NextToOlder
<1>6. \/ ord[k] = C \ {k} /\ L.head = n /\ p = nil
      \/ \E y \in C : p = N[y] /\ L.next[N[y]] = n /\ ord[y] = ord[k] \cup {k}
  BY DEF ListOf, PrevToYounger
<1>7. \A i \in C : \/ ord[i] = {} /\ L.tail = N[i] /\ L.next[N[i]] = nil
                  \/ \E j \in C : /\ L.next[N[i]] = N[j]
                                  /\ L.prev[N[j]] = N[i]
                                  /\ ord[i] = ord[j] \cup {j}
  BY DEF ListOf, NextToOlder
<1>8. \A i \in C : \/ ord[i] = C \ {i} /\ L.head = N[i] /\ L.prev[N[i]] = nil
                  \/ \E j \in C : /\ L.prev[N[i]] = N[j]
                                  /\ L.next[N[j]] = N[i]
                                  /\ ord[j] = ord[i] \cup {i}
  BY DEF ListOf, PrevToYounger
<1> HIDE DEF L2, o2, n, p, q
<1>9. NextToOlder(D, M, L2, o2)
  <2> SUFFICES ASSUME NEW i \in D
               PROVE  IF o2[i] = {}
                      THEN L2.tail = N[i] /\ L2.next[N[i]] = nil
                      ELSE \E j \in D : /\ L2.next[N[i]] = N[j]
                                        /\ L2.prev[N[j]] = N[i]
                                        /\ o2[i] = o2[j] \cup {j}
    BY DEF NextToOlder
  <2>1. CASE N[i] = p
    <3>1. ord[i] = ord[k] \cup {k} /\ L.next[N[i]] = n
      BY <1>1, <1>6, <2>1
    <3>2. o2[i] = ord[k]
      BY <1>2, <1>4, <3>1
    <3>3. CASE ord[k] = {} /\ L.tail = n /\ q = nil
      BY <1>3, <2>1, <3>2, <3>3
    <3>4. CASE \E o \in C : q = N[o] /\ L.prev[N[o]] = n /\ ord[k] = ord[o] \cup {o}
      <4>1. PICK o \in C : q = N[o] /\ L.prev[N[o]] = n /\ ord[k] = ord[o] \cup {o}
        BY <3>4
      <4>2. o \in D /\ o2[o] = ord[o]
        <5>1. o \in ord[k] /\ o # k /\ k \notin ord[o]
          BY <1>4, <4>1
        <5> QED
          BY <1>2, <5>1
      <4>3. L2.next[N[i]] = N[o] /\ L2.prev[N[o]] = N[i]
        BY <1>3, <2>1, <4>1
      <4> QED
        BY <3>2, <4>1, <4>2, <4>3
    <3> QED
      BY <1>5, <3>3, <3>4
  <2>2. CASE N[i] # p
    <3>1. L2.next[N[i]] = L.next[N[i]]
      BY <1>3, <2>2
    <3>2. CASE ord[i] = {} /\ L.tail = N[i] /\ L.next[N[i]] = nil
      <4>1. n # L.tail /\ o2[i] = {}
        BY <1>1, <1>2, <3>2 DEF n
      <4> QED
        BY <1>3, <3>1, <3>2, <4>1
    <3>3. CASE \E j \in C : /\ L.next[N[i]] = N[j]
                            /\ L.prev[N[j]] = N[i]
                            /\ ord[i] = ord[j] \cup {j}
      <4>1. PICK j \in C : /\ L.next[N[i]] = N[j]
                           /\ L.prev[N[j]] = N[i]
                           /\ ord[i] = ord[j] \cup {j}
        BY <3>3
      <4>2. j # k
        BY <2>2, <4>1 DEF n, p
      <4>3. N[j] # q
        BY <1>1, <1>5, <4>1 DEF n
      <4>4. L2.prev[N[j]] = N[i]
        BY <1>3, <4>1, <4>3
      <4>5. j \in D /\ o2[i] = o2[j] \cup {j}
        BY <1>2, <4>1, <4>2
      <4> QED
        BY <3>1, <4>1, <4>4, <4>5
    <3> QED
      BY <1>7, <3>2, <3>3
  <2> QED
    BY <2>1, <2>2
<1>10. PrevToYounger(D, M, L2, o2)
  <2> SUFFICES ASSUME NEW i \in D
               PROVE  IF o2[i] = D \ {i}
                      THEN L2.head = N[i] /\ L2.prev[N[i]] = nil
                      ELSE \E j \in D : /\ L2.prev[N[i]] = N[j]
                                        /\ L2.next[N[j]] = N[i]
                                        /\ o2[j] = o2[i] \cup {i}
    BY DEF PrevToYounger
  <2>1. CASE N[i] = q
    <3>1. ord[k] = ord[i] \cup {i} /\ L.prev[N[i]] = n
      BY <1>1, <1>5, <2>1
    <3>2. o2[i] = ord[i] /\ L2.prev[N[i]] = p
      <4>1. k \notin ord[i]
        BY <1>4, <3>1
      <4>2. o2[i] = ord[i]
        BY <1>2, <4>1
      <4>3. L2.prev[N[i]] = p
        BY <1>3, <2>1
      <4> QED
        BY <4>2, <4>3
    <3>3. CASE ord[k] = C \ {k} /\ L.head = n /\ p = nil
      <4>1. o2[i] = D \ {i}
        BY <1>4, <3>1, <3>2, <3>3
      <4> QED
        BY <1>3, <2>1, <3>2, <3>3, <4>1
    <3>4. CASE \E y \in C : p = N[y] /\ L.next[N[y]] = n /\ ord[y] = ord[k] \cup {k}
      <4>1. PICK y \in C : p = N[y] /\ L.next[N[y]] = n /\ ord[y] = ord[k] \cup {k}
        BY <3>4
      <4>2. y \in D /\ y # i /\ y \notin ord[i]
        BY <1>4, <3>1, <4>1
      <4>3. o2[y] = o2[i] \cup {i}
        <5>1. o2[y] = ord[y] \ {k} /\ k \notin ord[k]
          BY <1>2, <1>4, <4>2
        <5> QED
          BY <3>1, <3>2, <4>1, <5>1
      <4>4. L2.next[N[y]] = N[i]
        BY <1>3, <2>1, <4>1
      <4> QED
        BY <3>2, <4>1, <4>2, <4>3, <4>4
    <3> QED
      BY <1>6, <3>3, <3>4
  <2>2. CASE N[i] # q
    <3>1. L2.prev[N[i]] = L.prev[N[i]]
      BY <1>3, <2>2
    <3>2. CASE ord[i] = C \ {i} /\ L.head = N[i] /\ L.prev[N[i]] = nil
      <4>1. n # L.head /\ o2[i] = D \ {i}
        BY <1>1, <1>2, <3>2 DEF n
      <4> QED
        BY <1>3, <3>1, <3>2, <4>1
    <3>3. CASE \E j \in C : /\ L.prev[N[i]] = N[j]
                            /\ L.next[N[j]] = N[i]
                            /\ ord[j] = ord[i] \cup {i}
      <4>1. PICK j \in C : /\ L.prev[N[i]] = N[j]
                           /\ L.next[N[j]] = N[i]
                           /\ ord[j] = ord[i] \cup {i}
        BY <3>3
      <4>2. j # k
        BY <2>2, <4>1 DEF n, q
      <4>3. N[j] # p
        BY <1>1, <1>6, <4>1 DEF n
      <4>4. L2.next[N[j]] = N[i]
        BY <1>3, <4>1, <4>3
      <4>5. j \in D /\ o2[j] = o2[i] \cup {i}
        BY <1>2, <4>1, <4>2
      <4>6. j # i /\ j \notin ord[i]
        BY <1>4, <4>1
      <4>7. o2[i] # D \ {i}
        BY <1>2, <4>5, <4>6
      <4> QED
        BY <3>1, <4>1, <4>4, <4>5, <4>7
    <3> QED
      BY <1>8, <3>2, <3>3
  <2> QED
    BY <2>1, <2>2
<1>11. EndsCached(D, M, L2, o2)
  <2>1. CASE D = {}
    <3>1. C = {k} /\ ord[k] = {}
      BY <1>4, <2>1
    <3>2. q = nil /\ p = nil /\ L.head = n /\ L.tail = n
      BY <1>4, <1>5, <1>6, <3>1
    <3> QED
      BY <1>3, <2>1, <3>2 DEF EndsCached
  <2>2. CASE D # {}
    <3>1. PICK t \in C : L.tail = N[t] /\ ord[t] = {}
      BY DEF ListOf, EndsCached
    <3>2. PICK h \in C : L.head = N[h] /\ ord[h] = C \ {h}
      BY DEF ListOf, EndsCached
    <3>3. \E i \in D : L2.tail = N[i] /\ o2[i] = {}
      <4>1. CASE t = k
        <5>1. PICK y \in C : p = N[y] /\ ord[y] = ord[k] \cup {k}
          BY <1>6, <2>2, <3>1, <4>1
        <5>2. y \in D /\ o2[y] = {}
          BY <1>2, <1>4, <3>1, <4>1, <5>1
        <5> QED
          BY <1>3, <3>1, <4>1, <5>1, <5>2 DEF n
      <4>2. CASE t # k
        BY <1>1, <1>2, <1>3, <3>1, <4>2 DEF n
      <4> QED
        BY <4>1, <4>2
    <3>4. \E i \in D : L2.head = N[i] /\ o2[i] = D \ {i}
      <4>1. CASE h = k
        <5>1. PICK o \in C : q = N[o] /\ ord[k] = ord[o] \cup {o}
          BY <1>5, <2>2, <3>2, <4>1
        <5>2. o \in D /\ o2[o] = D \ {o}
          BY <1>2, <1>4, <3>2, <4>1, <5>1
        <5> QED
          BY <1>3, <3>2, <4>1, <5>1, <5>2 DEF n
      <4>2. CASE h # k
        <5>1. h \in D /\ o2[h] = D \ {h} /\ n # L.head
          BY <1>1, <1>2, <3>2, <4>2 DEF n
        <5> QED
          BY <1>3, <3>2, <5>1
      <4> QED
        BY <4>1, <4>2
    <3> QED
      BY <2>2, <3>3, <3>4 DEF EndsCached
  <2> QED
    BY <2>1, <2>2
<1>12. TotalOrder(D, o2)
  BY <1>1, TotalOrderDropped DEF ListOf, o2
<1> QED
  BY <1>9, <1>10, <1>11, <1>12 DEF ListOf, L2, o2, n

LEMMA PushFrontList ==
  ASSUME NEW a \in 0 .. MaxNodes, NEW C \in SUBSET Key, NEW N, NEW M, NEW L,
         NEW k \in Key \ C, NEW ord \in [Key -> SUBSET Key],
         Linked(a, L), ListOf(C, N, L, ord), Located(a, C \cup {k}, M),
         \A j \in C : M[j] = N[j]
  PROVE  ListOf(C \cup {k}, M, pushFront(L, M[k]), Abstract!Used(ord, k, C \cup {k}))
<1> DEFINE n  == M[k]
           D  == C \cup {k}
           L2 == pushFront(L, n)
           o2 == Abstract!Used(ord, k, D)
<1>1. /\ n \in Node /\ n # nil
      /\ \A i \in C : M[i] \in Node /\ M[i] # nil /\ M[i] # n
      /\ \A i, j \in C : M[i] = M[j] => i = j
  BY LRUAssumption DEF Located, Node, nil
<1>2. /\ o2[k] = C
      /\ \A i \in C : o2[i] = ord[i] /\ i \notin ord[i] /\ ord[i] \subseteq C
  <2>1. \A i \in C : i \notin ord[i] /\ ord[i] \subseteq C
    BY DEF ListOf, TotalOrder
  <2>2. o2[k] = C /\ \A i \in C : o2[i] = ord[i] \ {k}
    BY DEF Abstract!Used
  <2> HIDE DEF o2
  <2>3. ASSUME NEW i \in C PROVE o2[i] = ord[i]
    <3>1. k \notin ord[i]
      BY <2>1
    <3> QED
      BY <2>2, <3>1
  <2> QED
    BY <2>1, <2>2, <2>3
<1>3. /\ L2.head = n
      /\ L2.tail = IF L.tail = nil THEN n ELSE L.tail
      /\ L2.next[n] = L.head
      /\ L.head # n => L2.prev[n] = nil
      /\ \A i \in C : L2.prev[M[i]] = IF M[i] = L.head THEN n ELSE L.prev[M[i]]
      /\ \A i \in C : L2.next[M[i]] = L.next[M[i]]
  BY <1>1 DEF pushFront, Link, Linked, nil
<1>4. \A i \in C : \/ ord[i] = {} /\ L.tail = M[i] /\ L.next[M[i]] = nil
                  \/ \E j \in C : /\ L.next[M[i]] = M[j]
                                  /\ L.prev[M[j]] = M[i]
                                  /\ ord[i] = ord[j] \cup {j}
  BY DEF ListOf, NextToOlder
<1>5. \A i \in C : \/ ord[i] = C \ {i} /\ L.head = M[i] /\ L.prev[M[i]] = nil
                  \/ \E j \in C : /\ L.prev[M[i]] = M[j]
                                  /\ L.next[M[j]] = M[i]
                                  /\ ord[j] = ord[i] \cup {i}
  BY DEF ListOf, PrevToYounger
<1>6. TotalOrder(D, o2)
  BY TotalOrderUsed DEF ListOf
<1> HIDE DEF L2, o2, n
<1>7. CASE C = {}
  <2>1. L.head = nil /\ L.tail = nil
    BY <1>7 DEF ListOf, EndsCached
  <2>2. L2.head = n /\ L2.tail = n /\ L2.next[n] = nil /\ L2.prev[n] = nil
    BY <1>1, <1>3, <2>1
  <2>3. D = {k} /\ o2[k] = {}
    BY <1>2, <1>7
  <2>4. NextToOlder(D, M, L2, o2) /\ PrevToYounger(D, M, L2, o2)
    BY <2>2, <2>3 DEF NextToOlder, PrevToYounger, n
  <2>5. EndsCached(D, M, L2, o2)
    BY <2>2, <2>3 DEF EndsCached, n
  <2> QED
    BY <1>6, <2>4, <2>5 DEF ListOf, L2, o2, n
<1>8. CASE C # {}
  <2>1. PICK h \in C : L.head = M[h] /\ ord[h] = C \ {h}
    BY <1>8 DEF ListOf, EndsCached
  <2>2. PICK t \in C : L.tail = M[t] /\ ord[t] = {}
    BY <1>8 DEF ListOf, EndsCached
  <2>3. L.prev[M[h]] = nil
    <3>1. \A j \in C : h \in ord[j] => j \notin ord[h]
      BY DEF ListOf, TotalOrder
    <3> QED
      BY <1>2, <1>5, <2>1, <3>1
  <2>4. NextToOlder(D, M, L2, o2)
    <3> SUFFICES ASSUME NEW i \in D
                 PROVE  IF o2[i] = {}
                        THEN L2.tail = M[i] /\ L2.next[M[i]] = nil
                        ELSE \E j \in D : /\ L2.next[M[i]] = M[j]
                                          /\ L2.prev[M[j]] = M[i]
                                          /\ o2[i] = o2[j] \cup {j}
      BY DEF NextToOlder
    <3>1. CASE i = k
      <4>1. L2.next[M[k]] = M[h] /\ L2.prev[M[h]] = M[k]
        BY <1>3, <2>1 DEF n
      <4>2. o2[k] = o2[h] \cup {h}
        BY <1>2, <2>1
      <4> QED
        BY <2>1, <3>1, <4>1, <4>2
    <3>2. CASE i \in C
      <4>1. CASE ord[i] = {} /\ L.tail = M[i] /\ L.next[M[i]] = nil
        BY <1>1, <1>2, <1>3, <3>2, <4>1
      <4>2. CASE \E j \in C : /\ L.next[M[i]] = M[j]
                              /\ L.prev[M[j]] = M[i]
                              /\ ord[i] = ord[j] \cup {j}
        <5>1. PICK j \in C : /\ L.next[M[i]] = M[j]
                             /\ L.prev[M[j]] = M[i]
                             /\ ord[i] = ord[j] \cup {j}
          BY <4>2
        <5>2. L2.prev[M[j]] = M[i] /\ L2.next[M[i]] = M[j]
          BY <1>1, <1>3, <2>1, <2>3, <3>2, <5>1
        <5>3. o2[i] = o2[j] \cup {j}
          BY <1>2, <3>2, <5>1
        <5> QED
          BY <5>2, <5>3
      <4> QED
        BY <1>4, <3>2, <4>1, <4>2
    <3> QED
      BY <3>1, <3>2
  <2>5. PrevToYounger(D, M, L2, o2)
    <3> SUFFICES ASSUME NEW i \in D
                 PROVE  IF o2[i] = D \ {i}
                        THEN L2.head = M[i] /\ L2.prev[M[i]] = nil
                        ELSE \E j \in D : /\ L2.prev[M[i]] = M[j]
                                          /\ L2.next[M[j]] = M[i]
                                          /\ o2[j] = o2[i] \cup {i}
      BY DEF PrevToYounger
    <3>1. CASE i = k
      <4>1. L2.head = M[k] /\ L2.prev[M[k]] = nil
        BY <1>1, <1>3, <2>1 DEF n
      <4>2. o2[k] = D \ {k}
        BY <1>2
      <4> QED
        BY <3>1, <4>1, <4>2
    <3>2. CASE i \in C
      <4>1. o2[i] # D \ {i}
        BY <1>2, <3>2
      <4>2. CASE i = h
        <5>1. L2.prev[M[i]] = M[k] /\ L2.next[M[k]] = M[i]
          BY <1>3, <2>1, <4>2 DEF n
        <5>2. o2[k] = o2[i] \cup {i}
          BY <1>2, <2>1, <4>2
        <5> QED
          BY <4>1, <5>1, <5>2
      <4>3. CASE i # h
        <5>1. M[i] # L.head
          BY <1>1, <2>1, <3>2, <4>3
        <5>2. PICK j \in C : /\ L.prev[M[i]] = M[j]
                             /\ L.next[M[j]] = M[i]
                             /\ ord[j] = ord[i] \cup {i}
          BY <1>5, <3>2, <5>1
        <5>3. L2.prev[M[i]] = M[j] /\ L2.next[M[j]] = M[i]
          BY <1>3, <3>2, <5>1, <5>2
        <5>4. o2[j] = o2[i] \cup {i}
          BY <1>2, <3>2, <5>2
        <5> QED
          BY <4>1, <5>3, <5>4
      <4> QED
        BY <4>2, <4>3
    <3> QED
      BY <3>1, <3>2
  <2>6. EndsCached(D, M, L2, o2)
    <3>1. L2.tail = M[t] /\ o2[t] = {}
      BY <1>1, <1>2, <1>3, <2>2
    <3>2. L2.head = M[k] /\ o2[k] = D \ {k}
      BY <1>2, <1>3 DEF n
    <3> QED
      BY <3>1, <3>2 DEF EndsCached
  <2> QED
    BY <1>6, <2>4, <2>5, <2>6 DEF ListOf, L2, o2, n
<1> QED
  BY <1>7, <1>8

LEMMA MoveToFrontList ==
  ASSUME NEW a \in 0 .. MaxNodes, NEW C, NEW N, NEW L, NEW k \in C,
         NEW ord \in [Key -> SUBSET Key],
         Located(a, C, N), Linked(a, L), ListOf(C, N, L, ord)
  PROVE  ListOf(C, N, moveToFront(L, N[k]), Abstract!Used(ord, k, C))
<1>1. C \in SUBSET Key /\ k \in Key /\ N[k] \in 1 .. a
  BY DEF Located
<1>2. CASE N[k] = L.head
  <2>1. PICK h \in C : L.head = N[h] /\ ord[h] = C \ {h}
    BY DEF ListOf, EndsCached
  <2>2. h = k
    BY <1>2, <2>1 DEF Located
  <2>3. \A j \in Key : j # k => k \notin ord[j]
    BY <2>1, <2>2 DEF ListOf, TotalOrder
  <2>4. Abstract!Used(ord, k, C) = ord
    BY <2>1, <2>2, <2>3 DEF Abstract!Used
  <2> QED
    BY <1>2, <2>4 DEF moveToFront
<1>3. CASE N[k] # L.head
  <2> DEFINE D == C \ {k}
             o2 == Abstract!Dropped(ord, k)
             L2 == removeNode(L, N[k])
  <2>1. ListOf(D, N, L2, o2)
    BY RemoveNodeList
  <2>2. Linked(a, L2)
    BY <1>1, RemoveNodeType
  <2>3. o2 \in [Key -> SUBSET Key]
    BY DEF Abstract!Dropped
  <2>4. D \in SUBSET Key /\ k \in Key \ D /\ D \cup {k} = C
    BY <1>1
  <2>5. Abstract!Used(o2, k, C) = Abstract!Used(ord, k, C)
    BY DEF Abstract!Used, Abstract!Dropped
  <2>6. moveToFront(L, N[k]) = pushFront(L2, N[k])
    BY <1>3 DEF moveToFront
  <2> HIDE DEF D, o2, L2
  <2>7. ListOf(D \cup {k}, N, pushFront(L2, N[k]), Abstract!Used(o2, k, D \cup {k}))
    BY <2>1, <2>2, <2>3, <2>4, PushFrontList
  <2> QED
    BY <2>4, <2>5, <2>6, <2>7
<1> QED
  BY <1>2, <1>3

(* Put's own insertion does what moveToFront's does to a blank node. *)
LEMMA InsertNewIsPushFront ==
  ASSUME NEW a \in 0 .. MaxNodes, a < MaxNodes, NEW C, NEW N, NEW L,
         NEW ord, Located(a, C, N), Linked(a, L), ListOf(C, N, L, ord)
  PROVE  insertNew(L, a + 1) = pushFront(L, a + 1)
<1>1. a + 1 \in Node /\ L.prev[a + 1] = nil /\ L.next[a + 1] = nil
  BY LRUAssumption DEF Linked, Node
<1>2. L.prev \in [Node -> 0 .. a] /\ L.next \in [Node -> 0 .. a]
  BY DEF Linked
<1>3. /\ [L.prev EXCEPT ![a + 1] = nil] = L.prev
      /\ [L.next EXCEPT ![a + 1] = nil] = L.next
  BY <1>1, <1>2
<1>4. (L.head = nil) <=> (L.tail = nil)
  BY LRUAssumption DEF ListOf, EndsCached, Located, nil
<1> QED
  BY <1>3, <1>4 DEF insertNew, pushFront, Link

LEMMA DropTailIsRemoveNode ==
  ASSUME NEW a \in 0 .. MaxNodes, NEW C, NEW N, NEW L, NEW k \in C, L.tail = N[k],
         NEW ord, Located(a, C, N), Linked(a, L), ListOf(C, N, L, ord)
  PROVE  dropTail(L) = removeNode(L, N[k])
<1>1. PICK t \in C : L.tail = N[t] /\ ord[t] = {}
  BY DEF ListOf, EndsCached
<1>2. t = k
  BY <1>1 DEF Located
<1>3. L.next[N[k]] = nil
  BY <1>1, <1>2 DEF ListOf, NextToOlder
<1>4. (L.prev[N[k]] = nil) <=> (L.head = N[k])
  <2>1. CASE ord[k] = C \ {k}
    BY <2>1 DEF ListOf, PrevToYounger
  <2>2. CASE ord[k] # C \ {k}
    <3>1. PICK h \in C : L.head = N[h] /\ ord[h] = C \ {h}
      BY DEF ListOf, EndsCached
    <3>2. L.head # N[k]
      BY <2>2, <3>1 DEF Located
    <3>3. PICK j \in C : L.prev[N[k]] = N[j]
      BY <2>2 DEF ListOf, PrevToYounger
    <3> QED
      BY <3>2, <3>3, LRUAssumption DEF Located, nil
  <2> QED
    BY <2>1, <2>2
<1> QED
  BY <1>3, <1>4 DEF dropTail, removeNode, Link

-----------------------------------------------------------------------------
LEMMA TypeInit == Init => TypeOK
<1> SUFFICES ASSUME Init PROVE TypeOK
  OBVIOUS
<1> USE DEF Init
<1>1. 0 \in 0 .. MaxNodes /\ nil \in 0 .. 0
  BY LRUAssumption DEF nil
<1>2. Linked(0, list)
  BY <1>1 DEF Linked
<1>3. \A n \in 1 .. 0 : FALSE
  OBVIOUS
<1> QED
  BY <1>1, <1>2, <1>3 DEF TypeOK

LEMMA TypeStep == TypeOK /\ [Next]_vars => TypeOK'
<1> SUFFICES ASSUME TypeOK, [Next]_vars PROVE TypeOK'
  OBVIOUS
<1> USE DEF TypeOK
<1>1. /\ allocated \in 0 .. MaxNodes /\ MaxNodes \in Nat
      /\ 1 .. allocated \subseteq Node /\ nil \in 0 .. allocated
      /\ Absent \notin Key
  BY LRUAssumption DEF Node, nil
<1>2. contents \in [Key -> Value \cup {Absent}]
  BY <1>1 DEF contents, nil
<1>3. ASSUME NEW t \in Thread, Step(t), RecordSeen
      PROVE  TypeOK'
  <2>1. ASSUME allocated' \in 0 .. MaxNodes, allocated' >= allocated,
               cacheMap' \in [Key -> 0 .. allocated'],
               nodeValue' \in [Node -> Value \cup {Absent}],
               \A n \in 1 .. allocated' : nodeValue'[n] \in Value,
               getKey' \in [Thread -> Key \cup {Absent}],
               getNode' \in [Thread -> 0 .. allocated'],
               \A s \in Thread : (getKey'[s] = Absent) <=> (getNode'[s] = nil)
        PROVE  seen' \in [Thread -> SUBSET (Value \cup {Absent})]
    <3>1. contents' \in [Key -> Value \cup {Absent}]
      BY <2>1, <1>1 DEF contents, nil
    <3>2. \A s \in Thread : getNode'[s] # nil => getKey'[s] \in Key
      BY <2>1
    <3> QED
      BY <1>3, <3>1, <3>2 DEF RecordSeen
  <2>2. ASSUME NEW k \in Key, GetLookup(t, k) PROVE TypeOK'
    BY <1>1, <2>1, <2>2 DEF GetLookup
  <2>3. ASSUME NEW k \in Key, Remove(t, k) PROVE TypeOK'
    <3>1. cacheMap[k] \in 1 .. allocated
      BY <1>1, <2>3 DEF Remove, nil
    <3>2. Linked(allocated, list')
      BY <2>3, <3>1, RemoveNodeType DEF Remove
    <3>3. cacheMap' \in [Key -> 0 .. allocated]
      BY <1>1, <2>3 DEF Remove
    <3>4. older' \in [Key -> SUBSET Key]
      BY <2>3 DEF Remove, Abstract!Dropped
    <3> QED
      BY <1>1, <2>1, <2>3, <3>2, <3>3, <3>4 DEF Remove
  <2>4. ASSUME NEW k \in Key, NEW v \in Value, PutExisting(t, k, v) PROVE TypeOK'
    <3>1. cacheMap[k] \in 1 .. allocated
      BY <1>1, <2>4 DEF PutExisting, nil
    <3>2. Linked(allocated, list')
      BY <2>4, <3>1, MoveToFrontType DEF PutExisting
    <3>3. /\ nodeValue' \in [Node -> Value \cup {Absent}]
          /\ \A n \in 1 .. allocated : nodeValue'[n] \in Value
      BY <1>1, <2>4 DEF PutExisting
    <3>4. older' \in [Key -> SUBSET Key]
      BY <2>4 DEF PutExisting, Abstract!Used, Cached
    <3> QED
      BY <1>1, <2>1, <2>4, <3>2, <3>3, <3>4 DEF PutExisting
  <2>5. ASSUME NEW k \in Key, NEW v \in Value, PutNew(t, k, v) PROVE TypeOK'
    <3> DEFINE n == allocated + 1
               L == insertNew(list, n)
               K2 == [nodeKey EXCEPT ![n] = k]
               grown == [cacheMap EXCEPT ![k] = n]
               order == Abstract!Used(older, k, Cached)
    <3>1. allocated < MaxNodes /\ allocated' = n /\ n \in Node /\ n \in 0 .. MaxNodes
      BY <1>1, <2>5 DEF PutNew, newNode, Node
    <3>2. Linked(n, L)
      BY <3>1, InsertNewType
    <3>3. /\ nodeKey' = K2
          /\ K2 \in [Node -> Key \cup {Absent}]
          /\ \A m \in 1 .. n : K2[m] \in Key
      BY <1>1, <2>5, <3>1 DEF PutNew, newNode
    <3>4. /\ nodeValue' \in [Node -> Value \cup {Absent}]
          /\ \A m \in 1 .. n : nodeValue'[m] \in Value
      BY <1>1, <2>5, <3>1 DEF PutNew, newNode
    <3>5. grown \in [Key -> 0 .. n] /\ order \in [Key -> SUBSET Key]
      BY <1>1, <3>1 DEF Abstract!Used, Cached
    <3>6. \/ cacheMap' = grown /\ list' = L /\ older' = order
          \/ /\ L.tail # nil
             /\ cacheMap' = [grown EXCEPT ![K2[L.tail]] = nil]
             /\ list' = dropTail(L)
             /\ older' = Abstract!Dropped(order, K2[L.tail])
      BY <2>5 DEF PutNew, newNode
    <3> HIDE DEF L, K2, grown, order
    <3>7. /\ cacheMap' \in [Key -> 0 .. n]
          /\ Linked(n, list')
          /\ older' \in [Key -> SUBSET Key]
      BY <1>1, <3>1, <3>2, <3>5, <3>6, DropTailType DEF Abstract!Dropped, nil
    <3>8. getKey' = getKey /\ getNode' = getNode /\ staleMove' = staleMove
      BY <2>5 DEF PutNew
    <3> QED
      BY <1>1, <2>1, <3>1, <3>3, <3>4, <3>7, <3>8
  <2>6. CASE GetMove(t)
    <3>1. getNode[t] \in 1 .. allocated
      BY <1>1, <2>6 DEF GetMove, Idle, nil
    <3>2. Linked(allocated, list')
      BY <2>6, <3>1, MoveToFrontType DEF GetMove
    <3>3. older' \in [Key -> SUBSET Key] /\ staleMove' \in BOOLEAN
      BY <2>6 DEF GetMove, Abstract!Used, Cached
    <3> QED
      BY <1>1, <2>1, <2>6, <3>2, <3>3 DEF GetMove, GetReturns
  <2>7. CASE GetGone(t)
    BY <1>1, <2>1, <2>7 DEF GetGone, GetReturns
  <2>8. CASE Clear(t)
    BY <1>1, <2>1, <2>8 DEF Clear, Linked, Abstract!NoOrder
  <2> QED
    BY <1>3, <2>2, <2>3, <2>4, <2>5, <2>6, <2>7, <2>8 DEF Step
<1>4. CASE UNCHANGED vars
  BY <1>4 DEF vars
<1> QED
  BY <1>3, <1>4 DEF Next

(* Every pointer refers to a node that Put has allocated, and every field   *)
(* holds what its declaration says, whatever the goroutines interleave.     *)
THEOREM TypeCorrect == Spec => []TypeOK
BY TypeInit, TypeStep, PTL DEF Spec

-----------------------------------------------------------------------------
LEMMA OwnedInit == Init => NodesOwned /\ GetRegular
BY DEF Init, NodesOwned, GetRegular, Cached

LEMMA OwnedStep == TypeOK /\ TypeOK' /\ NodesOwned /\ [Next]_vars => NodesOwned'
<1> SUFFICES ASSUME TypeOK, TypeOK', NodesOwned, [Next]_vars PROVE NodesOwned'
  OBVIOUS
<1> USE DEF NodesOwned, Cached, nil
<1>1. /\ 1 .. allocated \subseteq Node
      /\ allocated + 1 \notin 1 .. allocated
      /\ Absent \notin Key
  BY LRUAssumption DEF TypeOK, Node
<1>2. ASSUME NEW t \in Thread, Step(t) PROVE NodesOwned'
  <2>1. ASSUME NEW k \in Key, GetLookup(t, k) PROVE NodesOwned'
    BY <2>1 DEF GetLookup, TypeOK
  <2>2. ASSUME NEW k \in Key, Remove(t, k) PROVE NodesOwned'
    BY <2>2 DEF Remove, TypeOK
  <2>3. ASSUME NEW k \in Key, NEW v \in Value, PutExisting(t, k, v) PROVE NodesOwned'
    BY <2>3 DEF PutExisting, TypeOK
  <2>4. ASSUME NEW k \in Key, NEW v \in Value, PutNew(t, k, v) PROVE NodesOwned'
    <3>1. allocated + 1 \in Node
      BY <2>4, LRUAssumption DEF PutNew, TypeOK, Node
    <3>2. /\ nodeKey' = [nodeKey EXCEPT ![allocated + 1] = k]
          /\ getKey' = getKey /\ getNode' = getNode
          /\ \A j \in Key : cacheMap'[j] \in {nil, IF j = k THEN allocated + 1 ELSE cacheMap[j]}
      BY <2>4 DEF PutNew, newNode, TypeOK
    <3>3. \A t2 \in Thread : getNode[t2] # allocated + 1
      BY <1>1 DEF TypeOK
    <3>4. \A j \in Key : cacheMap[j] # allocated + 1
      BY <1>1 DEF TypeOK
    <3>5. nodeKey'[allocated + 1] = k /\ \A n \in Node : n # allocated + 1 => nodeKey'[n] = nodeKey[n]
      BY <3>1, <3>2 DEF TypeOK
    <3>6. \A j \in Key : cacheMap[j] # nil => cacheMap[j] \in Node
      BY <1>1 DEF TypeOK
    <3>7. \A s \in Thread : getNode[s] # nil => getNode[s] \in Node
      BY <1>1 DEF TypeOK
    <3> QED
      BY <3>2, <3>3, <3>4, <3>5, <3>6, <3>7
  <2>5. CASE GetMove(t)
    BY <2>5 DEF GetMove, GetReturns, TypeOK
  <2>6. CASE GetGone(t)
    BY <2>6 DEF GetGone, GetReturns, TypeOK
  <2>7. CASE Clear(t)
    BY <2>7 DEF Clear, TypeOK
  <2> QED
    BY <1>2, <2>1, <2>2, <2>3, <2>4, <2>5, <2>6, <2>7 DEF Step
<1>3. CASE UNCHANGED vars
  BY <1>3 DEF vars
<1> QED
  BY <1>2, <1>3 DEF Next

LEMMA RegularStep ==
  TypeOK /\ TypeOK' /\ NodesOwned /\ GetRegular /\ [Next]_vars => GetRegular'
<1> SUFFICES ASSUME TypeOK, TypeOK', NodesOwned, GetRegular, [Next]_vars
             PROVE  GetRegular'
  OBVIOUS
<1> USE DEF GetRegular, nil
<1>1. ASSUME NEW t \in Thread, Step(t), RecordSeen PROVE GetRegular'
  <2> SUFFICES ASSUME NEW s \in Thread, getNode'[s] # nil
               PROVE  nodeValue'[getNode'[s]] \in seen'[s]
    OBVIOUS
  <2>1. seen'[s] = seen[s] \cup {contents'[getKey'[s]]}
    BY <1>1 DEF RecordSeen
  <2>2. getKey'[s] \in Key
    BY DEF TypeOK
  <2>3. contents'[getKey'[s]] =
          IF cacheMap'[getKey'[s]] = nil THEN Absent ELSE nodeValue'[cacheMap'[getKey'[s]]]
    BY <2>2 DEF contents
  <2>4. \/ getNode'[s] = cacheMap'[getKey'[s]]
        \/ getNode[s] # nil /\ nodeValue'[getNode'[s]] = nodeValue[getNode[s]]
    <3>1. ASSUME NEW k \in Key, GetLookup(t, k) PROVE <2>4!1 \/ <2>4!2
      BY <3>1 DEF GetLookup, TypeOK
    <3>2. ASSUME NEW k \in Key, Remove(t, k) PROVE <2>4!1 \/ <2>4!2
      BY <3>2 DEF Remove
    <3>3. ASSUME NEW k \in Key, NEW v \in Value, PutExisting(t, k, v)
          PROVE  <2>4!1 \/ <2>4!2
      <4>1. getNode' = getNode /\ getKey' = getKey /\ cacheMap' = cacheMap
        BY <3>3 DEF PutExisting
      <4>2. CASE getNode[s] = cacheMap[k]
        <5>1. getKey[s] = k
          BY <3>3, <4>1, <4>2 DEF NodesOwned, Cached, PutExisting
        <5> QED
          BY <4>1, <4>2, <5>1
      <4>3. CASE getNode[s] # cacheMap[k]
        BY <3>3, <4>1, <4>3 DEF PutExisting, TypeOK
      <4> QED
        BY <4>2, <4>3
    <3>4. ASSUME NEW k \in Key, NEW v \in Value, PutNew(t, k, v)
          PROVE  <2>4!1 \/ <2>4!2
      <4>1. getNode' = getNode /\ nodeValue' = [nodeValue EXCEPT ![allocated + 1] = v]
        BY <3>4 DEF PutNew, newNode
      <4>2. getNode[s] # allocated + 1 /\ getNode[s] # nil
        BY <4>1, LRUAssumption DEF TypeOK
      <4> QED
        BY <4>1, <4>2 DEF TypeOK
    <3>5. CASE GetMove(t)
      BY <3>5 DEF GetMove, GetReturns, TypeOK
    <3>6. CASE GetGone(t)
      BY <3>6 DEF GetGone, GetReturns, TypeOK
    <3>7. CASE Clear(t)
      BY <3>7 DEF Clear
    <3> QED
      BY <1>1, <3>1, <3>2, <3>3, <3>4, <3>5, <3>6, <3>7 DEF Step
  <2> QED
    BY <2>1, <2>3, <2>4
<1>2. CASE UNCHANGED vars
  BY <1>2 DEF vars
<1> QED
  BY <1>1, <1>2 DEF Next

(* However many goroutines use the cache, the value a Get is about to return *)
(* is one its key has had since the Get began: in particular never the value *)
(* of another key, nor one that was overwritten before the call.             *)
THEOREM GetIsRegular == Spec => []GetRegular
<1>1. Init => TypeOK /\ NodesOwned /\ GetRegular
  BY TypeInit, OwnedInit
<1>2. TypeOK /\ NodesOwned /\ GetRegular /\ [Next]_vars
        => TypeOK' /\ NodesOwned' /\ GetRegular'
  BY TypeStep, OwnedStep, RegularStep
<1> QED
  BY <1>1, <1>2, PTL DEF Spec

-----------------------------------------------------------------------------
LEMMA CachedLocated ==
  ASSUME TypeOK, NodesOwned
  PROVE  Located(allocated, Cached, cacheMap)
BY DEF TypeOK, NodesOwned, Located, Cached, nil

(***************************************************************************)
(* What Put does to a list in good order: it grows by the new key, and     *)
(* when that exceeds the capacity it loses the key nothing is older than.  *)
(***************************************************************************)
Grows(k, n, C, D) ==
  /\ ~ exceeds(C)
  /\ D = C
  /\ cacheMap' = [cacheMap EXCEPT ![k] = n]
  /\ older' = Abstract!Used(older, k, C)

GrowsAndEvicts(k, n, e, C, D) ==
  /\ exceeds(C)
  /\ D = C \ {e}
  /\ Abstract!Used(older, k, C)[e] = {}
  /\ cacheMap' = [cacheMap EXCEPT ![k] = n, ![e] = nil]
  /\ older' = Abstract!Dropped(Abstract!Used(older, k, C), e)

LEMMA PutNewList ==
  ASSUME TypeOK, NodesOwned, ListIntact, ~ staleMove,
         NEW t \in Thread, NEW k \in Key, NEW v \in Value, PutNew(t, k, v)
  PROVE  /\ ListOf(Cached', cacheMap', list', older')
         /\ \/ Grows(k, allocated + 1, Cached \cup {k}, Cached')
            \/ \E e \in Cached \cup {k} :
                  GrowsAndEvicts(k, allocated + 1, e, Cached \cup {k}, Cached')
<1> DEFINE n == allocated + 1
           C == Cached \cup {k}
           N == [cacheMap EXCEPT ![k] = n]
           K2 == [nodeKey EXCEPT ![n] = k]
           L == insertNew(list, n)
           order == Abstract!Used(older, k, C)
<1>1. /\ allocated \in 0 .. MaxNodes /\ allocated < MaxNodes
      /\ n \in 0 .. MaxNodes /\ n \in Node /\ MaxNodes \in Nat
  BY LRUAssumption DEF TypeOK, PutNew, Node
<1>2. Located(allocated, Cached, cacheMap) /\ Linked(allocated, list)
  BY CachedLocated DEF TypeOK
<1>3. ListOf(Cached, cacheMap, list, older) /\ older \in [Key -> SUBSET Key]
  BY DEF ListIntact, TypeOK
<1>4. k \notin Cached /\ Cached \in SUBSET Key /\ C \in SUBSET Key
  BY DEF PutNew, Cached
<1>5. /\ N[k] = n
      /\ \A j \in Cached : N[j] = cacheMap[j]
  BY <1>4 DEF TypeOK
<1>6. Located(n, C, N)
  BY <1>1, <1>2, <1>4, <1>5 DEF Located
<1>7. Linked(n, L)
  BY <1>1, <1>2, InsertNewType
<1>8. L = pushFront(list, n)
  BY <1>1, <1>2, <1>3, InsertNewIsPushFront
<1>9. Linked(n, list)
  <2>1. /\ 0 .. allocated \subseteq 0 .. n
        /\ \A m \in Node : m > n => m > allocated
    BY <1>1 DEF Node
  <2>2. /\ list.prev \in [Node -> 0 .. n] /\ list.next \in [Node -> 0 .. n]
        /\ list.head \in 0 .. n /\ list.tail \in 0 .. n
    BY <1>2, <2>1 DEF Linked
  <2> QED
    BY <1>2, <2>1, <2>2 DEF Linked
<1>10. ListOf(C, N, L, order)
  <2> HIDE DEF n, N
  <2>1. ListOf(Cached \cup {k}, N, pushFront(list, N[k]),
               Abstract!Used(older, k, Cached \cup {k}))
    BY <1>1, <1>3, <1>4, <1>5, <1>6, <1>9, PushFrontList
  <2> QED
    BY <1>5, <1>8, <2>1
<1>11. order \in [Key -> SUBSET Key] /\ order = Abstract!Used(older, k, Cached)
  BY <1>3, <1>4 DEF Abstract!Used
<1>12. PICK e \in C : L.tail = N[e] /\ order[e] = {}
  BY <1>10 DEF ListOf, EndsCached
<1>13. K2[N[e]] = e /\ N[e] # nil
  <2>1. CASE e = k
    BY <1>1, <1>5, <2>1 DEF TypeOK, nil
  <2>2. CASE e # k
    <3>1. e \in Cached /\ N[e] = cacheMap[e] /\ N[e] \in 1 .. allocated
      BY <1>2, <1>5, <2>2 DEF Located
    <3>2. N[e] \in Node /\ N[e] # n
      BY <1>1, <3>1 DEF Node
    <3> QED
      BY <3>1, <3>2 DEF TypeOK, NodesOwned, nil
  <2> QED
    BY <2>1, <2>2
<1>14. C = {j \in Key : N[j] # nil}
  BY <1>1, <1>4 DEF Cached, TypeOK, nil
<1>15. CASE exceeds(C)
  <2>1. /\ cacheMap' = [N EXCEPT ![K2[L.tail]] = nil]
        /\ list' = dropTail(L)
        /\ older' = Abstract!Dropped(Abstract!Used(older, k, Cached), K2[L.tail])
    BY <1>12, <1>13, <1>15 DEF PutNew, newNode
  <2> HIDE DEF n, K2, L, order, N
  <2>2. /\ cacheMap' = [N EXCEPT ![e] = nil]
        /\ list' = dropTail(L)
        /\ older' = Abstract!Dropped(order, e)
    BY <1>11, <1>12, <1>13, <2>1
  <2>3. DOMAIN N = Key /\ e \in Key
    BY <1>4 DEF N, TypeOK
  <2>4. Cached' = C \ {e} /\ \A j \in C \ {e} : cacheMap'[j] = N[j]
    BY <1>4, <1>14, <2>2, <2>3 DEF Cached, N
  <2>5. dropTail(L) = removeNode(L, N[e])
    BY <1>1, <1>6, <1>7, <1>10, <1>12, DropTailIsRemoveNode
  <2>6. ListOf(C \ {e}, cacheMap', removeNode(L, N[e]), Abstract!Dropped(order, e))
    BY <1>1, <1>6, <1>7, <1>10, <1>11, <2>4, RemoveNodeList
  <2>7. GrowsAndEvicts(k, n, e, C, Cached')
    BY <1>12, <1>15, <2>2, <2>4 DEF GrowsAndEvicts, N, order
  <2> QED
    BY <2>2, <2>4, <2>5, <2>6, <2>7 DEF n
<1>16. CASE ~ exceeds(C)
  <2>1. cacheMap' = N /\ list' = L /\ older' = order
    BY <1>11, <1>16 DEF PutNew, newNode
  <2>2. Cached' = C
    BY <1>14, <2>1 DEF Cached
  <2>3. Grows(k, n, C, Cached')
    BY <1>16, <2>1, <2>2 DEF Grows
  <2> HIDE DEF N, L, order
  <2> QED
    BY <1>10, <2>1, <2>2, <2>3
<1> QED
  BY <1>15, <1>16

-----------------------------------------------------------------------------
FiniteCache == IsFiniteSet(Cached)

LEMMA FiniteStep == TypeOK /\ FiniteCache /\ [Next]_vars => FiniteCache'
<1> SUFFICES ASSUME TypeOK, FiniteCache, [Next]_vars PROVE FiniteCache'
  OBVIOUS
<1>1. \A k : IsFiniteSet(Cached \cup {k})
  BY FS_AddElement DEF FiniteCache
<1>2. ASSUME NEW t \in Thread, Step(t)
      PROVE  \E k \in Key \cup {Absent} : Cached' \subseteq Cached \cup {k}
  <2> USE DEF Cached, nil, TypeOK
  <2>1. ASSUME NEW k \in Key, GetLookup(t, k) PROVE Cached' = Cached
    BY <2>1 DEF GetLookup
  <2>2. ASSUME NEW k \in Key, Remove(t, k) PROVE Cached' \subseteq Cached
    BY <2>2 DEF Remove
  <2>3. ASSUME NEW k \in Key, NEW v \in Value, PutExisting(t, k, v)
        PROVE  Cached' = Cached
    BY <2>3 DEF PutExisting
  <2>4. ASSUME NEW k \in Key, NEW v \in Value, PutNew(t, k, v)
        PROVE  Cached' \subseteq Cached \cup {k}
    <3>1. \A j \in Key : cacheMap'[j] # nil => j = k \/ cacheMap[j] # nil
      BY <2>4 DEF PutNew
    <3> QED
      BY <3>1
  <2>5. CASE GetMove(t) \/ GetGone(t)
    BY <2>5 DEF GetMove, GetGone
  <2>6. CASE Clear(t)
    BY <2>6 DEF Clear
  <2> QED
    BY <1>2, <2>1, <2>2, <2>3, <2>4, <2>5, <2>6 DEF Step
<1>3. CASE UNCHANGED vars
  BY <1>3 DEF vars, FiniteCache, Cached
<1> QED
  BY <1>1, <1>2, <1>3, FS_Subset DEF Next, FiniteCache

(***************************************************************************)
(* The inductive invariant behind the list and the capacity.  The size can *)
(* only be bounded together with the shape of the list: what makes room in *)
(* a full cache is that the tail's key is a cached one.                    *)
(***************************************************************************)
CacheInv ==
  TypeOK /\ NodesOwned /\ FiniteCache /\ ListIntact /\ SizeBounded

LEMMA CacheInvInit == Init => CacheInv
<1> SUFFICES ASSUME Init PROVE CacheInv
  OBVIOUS
<1>1. Cached = {} /\ \A k \in Key : older[k] = {}
  BY DEF Init, Cached
<1>2. ListIntact
  BY <1>1 DEF Init, ListIntact, ListOf, TotalOrder, NextToOlder, PrevToYounger, EndsCached
<1>3. FiniteCache /\ SizeBounded
  BY <1>1, FS_EmptySet, LRUAssumption DEF FiniteCache, SizeBounded
<1> QED
  BY <1>2, <1>3, TypeInit, OwnedInit DEF CacheInv

LEMMA ListSizeStep ==
  CacheInv /\ [Next]_vars => ListIntact' /\ SizeBounded'
<1> SUFFICES ASSUME CacheInv, [Next]_vars, ~ staleMove'
             PROVE  /\ ListOf(Cached', cacheMap', list', older')
                    /\ Cardinality(Cached') <= Capacity
  BY DEF ListIntact, SizeBounded
<1>1. ~ staleMove
  BY DEF Next, Step, GetLookup, GetMove, GetGone, PutExisting, PutNew, Remove, Clear, vars
<1>2. TypeOK /\ NodesOwned /\ ListIntact
  BY DEF CacheInv
<1>3. /\ allocated \in 0 .. MaxNodes /\ Linked(allocated, list)
      /\ older \in [Key -> SUBSET Key]
      /\ Located(allocated, Cached, cacheMap)
      /\ ListOf(Cached, cacheMap, list, older)
  BY <1>1, <1>2, CachedLocated DEF TypeOK, ListIntact
<1>4. /\ IsFiniteSet(Cached) /\ Cardinality(Cached) \in Nat
      /\ Cardinality(Cached) <= Capacity /\ Capacity \in Nat \ {0}
  BY <1>1, FS_CardinalityType, LRUAssumption DEF CacheInv, FiniteCache, SizeBounded
<1> DEFINE Good == /\ ListOf(Cached', cacheMap', list', older')
                   /\ Cardinality(Cached') <= Capacity
<1>5. ASSUME NEW t \in Thread, Step(t) PROVE Good
  <2>1. ASSUME NEW k \in Key, GetLookup(t, k) PROVE Good
    BY <1>3, <1>4, <2>1 DEF GetLookup, Cached
  <2>2. ASSUME NEW k \in Key, Remove(t, k) PROVE Good
    <3>1. k \in Cached /\ Cached' = Cached \ {k}
      BY <1>2, <2>2 DEF Remove, Cached, TypeOK
    <3>2. \A j \in Cached \ {k} : cacheMap'[j] = cacheMap[j]
      BY <1>2, <2>2 DEF Remove, Cached, TypeOK
    <3>3. ListOf(Cached \ {k}, cacheMap', removeNode(list, cacheMap[k]),
                 Abstract!Dropped(older, k))
      BY <1>3, <3>1, <3>2, RemoveNodeList
    <3>4. Cardinality(Cached \ {k}) <= Capacity
      <4>1. Cardinality(Cached \ {k}) = Cardinality(Cached) - 1
        BY <1>4, <3>1, FS_RemoveElement
      <4> QED
        BY <1>4, <4>1
    <3> QED
      BY <2>2, <3>1, <3>3, <3>4 DEF Remove
  <2>3. ASSUME NEW k \in Key, NEW v \in Value, PutExisting(t, k, v) PROVE Good
    <3>1. k \in Cached /\ Cached' = Cached /\ cacheMap' = cacheMap
      BY <2>3 DEF PutExisting, Cached
    <3>2. ListOf(Cached, cacheMap, moveToFront(list, cacheMap[k]),
                 Abstract!Used(older, k, Cached))
      BY <1>3, <3>1, MoveToFrontList
    <3> QED
      BY <1>4, <2>3, <3>1, <3>2 DEF PutExisting
  <2>4. ASSUME NEW k \in Key, NEW v \in Value, PutNew(t, k, v) PROVE Good
    <3> DEFINE C == Cached \cup {k}
    <3>1. IsFiniteSet(C) /\ Cardinality(C) \in Nat /\ Cardinality(C) <= Capacity + 1
      <4>1. /\ IsFiniteSet(C)
            /\ Cardinality(C) = IF k \in Cached THEN Cardinality(Cached)
                               ELSE Cardinality(Cached) + 1
        BY <1>4, FS_AddElement
      <4> QED
        BY <1>4, <4>1
    <3>2. /\ ListOf(Cached', cacheMap', list', older')
          /\ \/ Grows(k, allocated + 1, C, Cached')
             \/ \E e \in C : GrowsAndEvicts(k, allocated + 1, e, C, Cached')
      BY <1>1, <1>2, <2>4, PutNewList
    <3>3. ASSUME Grows(k, allocated + 1, C, Cached')
          PROVE  Cardinality(Cached') <= Capacity
      BY <1>4, <3>1, <3>3 DEF Grows, exceeds
    <3>4. ASSUME NEW e \in C, GrowsAndEvicts(k, allocated + 1, e, C, Cached')
          PROVE  Cardinality(Cached') <= Capacity
      <4>1. Cached' = C \ {e}
        BY <3>4 DEF GrowsAndEvicts
      <4>2. Cardinality(C \ {e}) = Cardinality(C) - 1
        BY <3>1, FS_RemoveElement
      <4> QED
        BY <1>4, <3>1, <4>1, <4>2
    <3> QED
      BY <3>2, <3>3, <3>4
  <2>5. ASSUME GetMove(t) PROVE Good
    <3> DEFINE k == getKey[t]
    <3>1. k \in Cached /\ getNode[t] = cacheMap[k]
      BY <1>2, <2>5 DEF GetMove, Idle, Cached, TypeOK
    <3>2. Cached' = Cached /\ cacheMap' = cacheMap
      BY <2>5 DEF GetMove, Cached
    <3>3. ListOf(Cached, cacheMap, moveToFront(list, cacheMap[k]),
                 Abstract!Used(older, k, Cached))
      BY <1>3, <3>1, MoveToFrontList
    <3> QED
      BY <1>4, <2>5, <3>1, <3>2, <3>3 DEF GetMove
  <2>6. CASE GetGone(t)
    BY <1>3, <1>4, <2>6 DEF GetGone, Cached
  <2>7. CASE Clear(t)
    <3>1. Cached' = {} /\ \A j \in Key : older'[j] = {}
      BY <2>7 DEF Clear, Cached, Abstract!NoOrder
    <3>2. list'.head = nil /\ list'.tail = nil
      BY <2>7 DEF Clear
    <3>3. ListOf({}, cacheMap', list', older')
      BY <3>1, <3>2 DEF ListOf, TotalOrder, NextToOlder, PrevToYounger, EndsCached
    <3> QED
      BY <1>4, <3>1, <3>3, FS_EmptySet
  <2> QED
    BY <1>5, <2>1, <2>2, <2>3, <2>4, <2>5, <2>6, <2>7 DEF Step
<1>6. CASE UNCHANGED vars
  BY <1>3, <1>4, <1>6 DEF vars, Cached
<1> QED
  BY <1>5, <1>6 DEF Next

LEMMA CacheInvStep == CacheInv /\ [Next]_vars => CacheInv'
BY TypeStep, OwnedStep, FiniteStep, ListSizeStep DEF CacheInv

LEMMA CacheInvariant == Spec => []CacheInv
BY CacheInvInit, CacheInvStep, PTL DEF Spec

(* Map and list never confuse keys: the node of a cached key and the node   *)
(* that a pending Get holds carry that key, however the calls interleave.   *)
THEOREM NodesStayOwned == Spec => []NodesOwned
<1>1. CacheInv => NodesOwned
  BY DEF CacheInv
<1> QED
  BY <1>1, CacheInvariant, PTL

(* Until some Get moves a node that has left the map, the linked list holds *)
(* exactly the cached keys, in the order of their last use.                 *)
THEOREM ListStaysIntact == Spec => []ListIntact
<1>1. CacheInv => ListIntact
  BY DEF CacheInv
<1> QED
  BY <1>1, CacheInvariant, PTL

(* Until some Get moves a node that has left the map, no interleaving of    *)
(* Puts with other calls leaves more keys in the cache than its capacity.   *)
THEOREM SizeStaysBounded == Spec => []SizeBounded
<1>1. CacheInv => SizeBounded
  BY DEF CacheInv
<1> QED
  BY <1>1, CacheInvariant, PTL

-----------------------------------------------------------------------------
LEMMA SameCardinality == \A S : Abstract!Cardinality(S) = Cardinality(S)
BY DEF Abstract!Cardinality, Cardinality

LEMMA StoredIsCached ==
  ASSUME TypeOK
  PROVE  Abstract!Stored = Cached
BY LRUAssumption DEF TypeOK, Abstract!Stored, Cached, contents, nil

LEMMA RefinementStep ==
  ASSUME CacheInv, TypeOK', NEW t \in Thread, Step(t), ~ staleMove'
  PROVE  [Abstract!Next]_<<contents, older>>
<1>1. ~ staleMove
  BY DEF Step, GetLookup, GetMove, GetGone, PutExisting, PutNew, Remove, Clear
<1>2. TypeOK /\ NodesOwned /\ ListIntact /\ SizeBounded /\ FiniteCache
  BY DEF CacheInv
<1>3. Abstract!Stored = Cached
  BY <1>2, StoredIsCached
<1>4. ASSUME NEW k \in Key, GetLookup(t, k) PROVE UNCHANGED <<contents, older>>
  BY <1>4 DEF GetLookup, contents
<1>5. ASSUME NEW k \in Key, Remove(t, k) PROVE Abstract!Remove(k)
  <2>1. contents' = [contents EXCEPT ![k] = Absent]
    BY <1>2, <1>5 DEF Remove, contents, TypeOK
  <2> QED
    BY <1>3, <1>5, <2>1 DEF Abstract!Remove, Remove, Cached
<1>6. ASSUME NEW k \in Key, NEW v \in Value, PutExisting(t, k, v) PROVE Abstract!Update(k, v)
  <2>1. k \in Cached
    BY <1>6 DEF PutExisting, Cached
  <2>2. cacheMap[k] \in Node /\ \A j \in Cached : j # k => cacheMap[j] # cacheMap[k]
    BY <1>2, <2>1, LRUAssumption DEF TypeOK, NodesOwned, Cached, Node, nil
  <2>3. contents' = [contents EXCEPT ![k] = v]
    <3>1. /\ cacheMap' = cacheMap
          /\ nodeValue'[cacheMap[k]] = v
          /\ \A m \in Node : m # cacheMap[k] => nodeValue'[m] = nodeValue[m]
      BY <1>2, <1>6, <2>2 DEF PutExisting, TypeOK
    <3>2. \A j \in Cached : cacheMap[j] \in Node
      BY <1>2, LRUAssumption DEF TypeOK, Cached, Node, nil
    <3>3. \A j \in Key : contents'[j] = IF j = k THEN v ELSE contents[j]
      BY <2>1, <2>2, <3>1, <3>2 DEF contents, Cached
    <3> QED
      BY <3>3 DEF contents
  <2> QED
    BY <1>3, <1>6, <2>1, <2>3 DEF Abstract!Update, PutExisting
<1>7. ASSUME NEW k \in Key, NEW v \in Value, PutNew(t, k, v)
      PROVE  Abstract!Insert(k, v) \/ Abstract!InsertEvict(k, v)
  <2> DEFINE n == allocated + 1
             C == Cached \cup {k}
  <2>1. /\ n \in Node /\ n # nil
        /\ \A j \in Key : cacheMap[j] # n
        /\ k \notin Cached /\ cacheMap[k] = nil
    BY <1>2, <1>7, LRUAssumption DEF PutNew, TypeOK, Node, nil, Cached
  <2>2. nodeValue' = [nodeValue EXCEPT ![n] = v]
    BY <1>7 DEF PutNew, newNode
  <2>3. /\ IsFiniteSet(Cached) /\ Cardinality(Cached) \in Nat
        /\ Cardinality(Cached) <= Capacity /\ Capacity \in Nat \ {0}
        /\ Cardinality(C) = Cardinality(Cached) + 1
    BY <1>1, <1>2, <2>1, FS_CardinalityType, FS_AddElement, LRUAssumption
       DEF FiniteCache, SizeBounded
  <2>4. Abstract!Used(older, k, C) = Abstract!Used(older, k, Cached)
    BY DEF Abstract!Used
  <2>5. /\ DOMAIN cacheMap = Key
        /\ \A m \in Node : m # n => nodeValue'[m] = nodeValue[m]
        /\ nodeValue'[n] = v
        /\ \A j \in Key : cacheMap[j] # nil => cacheMap[j] \in Node
    BY <1>2, <2>1, <2>2, LRUAssumption DEF TypeOK, Node, nil
  <2>6. CASE Grows(k, n, C, Cached')
    <3>1. contents' = [contents EXCEPT ![k] = v]
      <4>1. \A j \in Key : contents'[j] = IF j = k THEN v ELSE contents[j]
        BY <2>1, <2>5, <2>6 DEF Grows, contents
      <4> QED
        BY <4>1 DEF contents
    <3>2. older' = Abstract!Used(older, k, Cached) /\ Cardinality(Cached) < Capacity
      BY <2>3, <2>4, <2>6 DEF Grows, exceeds
    <3> QED
      BY <1>3, <2>1, <3>1, <3>2, SameCardinality DEF Abstract!Insert
  <2>7. ASSUME NEW e \in C, GrowsAndEvicts(k, n, e, C, Cached')
        PROVE  Abstract!InsertEvict(k, v)
    <3>1. Cardinality(Cached) = Capacity
      BY <2>3, <2>7 DEF GrowsAndEvicts, exceeds
    <3>2. Cached # {}
      BY <2>3, <3>1, FS_EmptySet
    <3>3. e # k /\ e \in Cached
      BY <2>1, <2>7, <3>2 DEF GrowsAndEvicts, Abstract!Used
    <3>4. k \notin older[e]
      BY <1>1, <1>2, <2>1, <3>3 DEF ListIntact, ListOf, TotalOrder
    <3>5. older[e] = {}
      BY <2>7, <3>3, <3>4 DEF GrowsAndEvicts, Abstract!Used, Cached
    <3>6. contents' = [contents EXCEPT ![k] = v, ![e] = Absent]
      <4>1. \A j \in Key : contents'[j] =
                IF j = e THEN Absent ELSE IF j = k THEN v ELSE contents[j]
        BY <2>1, <2>5, <2>7, <3>3 DEF GrowsAndEvicts, contents
      <4> QED
        BY <3>3, <4>1 DEF contents
    <3>7. older' = Abstract!Dropped(Abstract!Used(older, k, Cached), e)
      BY <2>4, <2>7 DEF GrowsAndEvicts
    <3> QED
      BY <1>3, <2>1, <3>1, <3>3, <3>5, <3>6, <3>7, SameCardinality
         DEF Abstract!InsertEvict
  <2> QED
    BY <1>1, <1>2, <1>7, <2>6, <2>7, PutNewList
<1>8. CASE GetMove(t)
  <2>1. getKey[t] \in Cached /\ getKey[t] \in Key
    BY <1>2, <1>8 DEF GetMove, Idle, TypeOK, Cached
  <2>2. contents' = contents
    BY <1>8 DEF GetMove, contents
  <2>3. Abstract!Get(getKey[t])
    BY <1>3, <1>8, <2>1, <2>2 DEF Abstract!Get, GetMove
  <2> QED
    BY <2>1, <2>3 DEF Abstract!Next
<1>9. CASE GetGone(t)
  BY <1>9 DEF GetGone, contents
<1>10. CASE Clear(t)
  <2>1. Abstract!Clear
    BY <1>10 DEF Clear, Abstract!Clear, contents
  <2> QED
    BY <2>1 DEF Abstract!Next
<1> QED
  BY <1>4, <1>5, <1>6, <1>7, <1>8, <1>9, <1>10 DEF Step, Abstract!Next

(* Until some Get moves a node that has left the map, the cache implements  *)
(* the atomic one of LRUSpec for any number of goroutines: every critical   *)
(* section is one of its operations, or shows nothing.                      *)
THEOREM ImplementsSpecWhileFresh == Spec => ImplementsWhileFresh
<1>1. CacheInv /\ CacheInv' /\ [Next]_vars
        => [~ staleMove' => [Abstract!Next]_<<contents, older>>]_vars
  <2> SUFFICES ASSUME CacheInv, CacheInv', Next, ~ staleMove'
               PROVE  [Abstract!Next]_<<contents, older>>
    OBVIOUS
  <2>1. TypeOK'
    BY DEF CacheInv
  <2> QED
    BY <2>1, RefinementStep DEF Next
<1>2. Init => Abstract!Init
  BY DEF Init, Abstract!Init, Abstract!NoOrder, contents, nil
<1> QED
  BY <1>1, <1>2, CacheInvariant, PTL DEF Spec, ImplementsWhileFresh

(* A cache of which no Get ever moves a node that has left the map is the   *)
(* atomic LRU cache.                                                        *)
THEOREM FreshIsSpec == Spec /\ []~ staleMove => Abstract!Spec
<1>1. /\ [~ staleMove' => [Abstract!Next]_<<contents, older>>]_vars
      /\ ~ staleMove'
      => [Abstract!Next]_<<contents, older>>
  BY DEF vars, contents
<1>2. Abstract!Spec <=> Abstract!Init /\ [][Abstract!Next]_<<contents, older>>
  BY DEF Abstract!Spec, Abstract!specVars
<1> QED
  BY <1>1, <1>2, ImplementsSpecWhileFresh, PTL DEF ImplementsWhileFresh

(* Between the halves of its Get, a goroutine that is alone finds the map   *)
(* as it was.                                                               *)
Alone == \A s, t \in Thread : s = t

AloneInv ==
  /\ TypeOK
  /\ ~ staleMove
  /\ \A t \in Thread : ~ Idle(t) => getNode[t] = cacheMap[getKey[t]]

LEMMA AloneStep == Alone /\ AloneInv /\ [Next]_vars => AloneInv'
<1> SUFFICES ASSUME Alone, AloneInv, [Next]_vars PROVE AloneInv'
  OBVIOUS
<1>1. TypeOK /\ TypeOK'
  BY TypeStep DEF AloneInv
<1>2. CASE UNCHANGED vars
  BY <1>1, <1>2 DEF AloneInv, vars, Idle
<1>3. ASSUME NEW t \in Thread, Step(t) PROVE AloneInv'
  <2>1. \A s \in Thread : s = t
    BY DEF Alone
  <2>2. ASSUME NEW k \in Key, GetLookup(t, k) PROVE AloneInv'
    BY <1>1, <2>1, <2>2 DEF AloneInv, GetLookup, Idle, TypeOK
  <2>3. CASE GetMove(t)
    BY <1>1, <2>1, <2>3 DEF AloneInv, GetMove, GetReturns, Idle, TypeOK
  <2>4. CASE GetGone(t)
    BY <1>1, <2>1, <2>4 DEF AloneInv, GetGone, GetReturns, Idle, TypeOK
  <2>5. ASSUME Idle(t), UNCHANGED <<getKey, getNode, staleMove>> PROVE AloneInv'
    BY <1>1, <2>1, <2>5 DEF AloneInv, Idle
  <2>6. ASSUME NEW k \in Key, Remove(t, k) PROVE AloneInv'
    BY <2>5, <2>6 DEF Remove
  <2>7. ASSUME NEW k \in Key, NEW v \in Value, PutExisting(t, k, v) \/ PutNew(t, k, v)
        PROVE  AloneInv'
    BY <2>5, <2>7 DEF PutExisting, PutNew
  <2>8. CASE Clear(t)
    BY <2>5, <2>8 DEF Clear
  <2> QED
    BY <1>3, <2>2, <2>3, <2>4, <2>6, <2>7, <2>8 DEF Step
<1> QED
  BY <1>2, <1>3 DEF Next

(* Used by one goroutine, the cache is the atomic LRU cache without any     *)
(* proviso: the same key is in the map, at the same node, when its Get      *)
(* comes back for it.                                                       *)
THEOREM AloneIsSpec == ASSUME Alone PROVE Spec => Abstract!Spec
<1>1. Init => AloneInv
  BY TypeInit DEF Init, AloneInv, Idle
<1>2. AloneInv /\ [Next]_vars => AloneInv'
  BY AloneStep
<1>3. AloneInv => ~ staleMove
  BY DEF AloneInv
<1> QED
  BY <1>1, <1>2, <1>3, FreshIsSpec, PTL DEF Spec

(* Used by one goroutine, the cache also keeps within its capacity, as the *)
(* comment of Put says it does (lru.go 62).                                *)
THEOREM CapacityHeldAlone == ASSUME Alone PROVE Spec => []CapacityHeld
<1>1. Init => AloneInv
  BY TypeInit DEF Init, AloneInv, Idle
<1>2. AloneInv /\ [Next]_vars => AloneInv'
  BY AloneStep
<1>3. AloneInv /\ SizeBounded => CapacityHeld
  BY DEF AloneInv, SizeBounded, CapacityHeld
<1> QED
  BY <1>1, <1>2, <1>3, SizeStaysBounded, PTL DEF Spec

-----------------------------------------------------------------------------
LEMMA SameCardinalityMap == \A S : Map!Cardinality(S) = Cardinality(S)
BY DEF Map!Cardinality, Cardinality

LEMMA PresentIsCached ==
  ASSUME TypeOK
  PROVE  Map!Present = Cached
BY LRUAssumption DEF TypeOK, Map!Present, Cached, contents, nil

LEMMA MapStep ==
  ASSUME TypeOK, TypeOK', NodesOwned, FiniteCache, NEW t \in Thread, Step(t)
  PROVE  [Map!Next]_<<contents, pendingGets>>
<1>1. ASSUME NEW k \in Key, Remove(t, k) PROVE Map!Remove(k)
  <2>1. contents' = [contents EXCEPT ![k] = Absent]
    BY <1>1 DEF Remove, contents, TypeOK
  <2> QED
    BY <2>1 DEF Map!Remove
<1>2. ASSUME NEW k \in Key, NEW v \in Value, PutExisting(t, k, v) PROVE Map!Put(k, v)
  <2>1. k \in Cached
    BY <1>2 DEF PutExisting, Cached
  <2>2. cacheMap[k] \in Node /\ \A j \in Cached : j # k => cacheMap[j] # cacheMap[k]
    BY <2>1, LRUAssumption DEF TypeOK, NodesOwned, Cached, Node, nil
  <2>3. /\ cacheMap' = cacheMap
        /\ nodeValue'[cacheMap[k]] = v
        /\ \A m \in Node : m # cacheMap[k] => nodeValue'[m] = nodeValue[m]
    BY <1>2, <2>2 DEF PutExisting, TypeOK
  <2>4. \A j \in Cached : cacheMap[j] \in Node
    BY LRUAssumption DEF TypeOK, Cached, Node, nil
  <2>5. \A j \in Key : contents'[j] = IF j = k THEN v ELSE contents[j]
    BY <2>1, <2>2, <2>3, <2>4 DEF contents, Cached
  <2> QED
    BY <2>5 DEF contents, Map!Put
<1>3. ASSUME NEW k \in Key, NEW v \in Value, PutNew(t, k, v)
      PROVE  Map!Put(k, v) \/ \E e \in Key : Map!PutInFull(k, v, e)
  <2> DEFINE n == allocated + 1
             grown == [cacheMap EXCEPT ![k] = n]
             L == insertNew(list, n)
             e == [nodeKey EXCEPT ![n] = k][L.tail]
             evicts == exceeds(Cached \cup {k}) /\ L.tail # nil
  <2>1. /\ n \in Node /\ n # nil
        /\ \A j \in Key : cacheMap[j] # n
        /\ k \notin Cached /\ cacheMap[k] = nil
    BY <1>3, LRUAssumption DEF PutNew, TypeOK, Node, nil, Cached
  <2>2. /\ DOMAIN cacheMap = Key
        /\ \A m \in Node : m # n => nodeValue'[m] = nodeValue[m]
        /\ nodeValue'[n] = v
        /\ \A j \in Key : cacheMap[j] # nil => cacheMap[j] \in Node
    BY <1>3, <2>1, LRUAssumption DEF PutNew, newNode, TypeOK, Node, nil
  <2>3. grown \in [Key -> 0 .. n] /\ \A j \in Key : grown[j] = IF j = k THEN n ELSE cacheMap[j]
    BY <2>1 DEF TypeOK
  <2>4. cacheMap' = IF evicts THEN [grown EXCEPT ![e] = nil] ELSE grown
    BY <1>3 DEF PutNew, newNode
  <2>5. CASE ~ evicts
    <3>1. \A j \in Key : contents'[j] = IF j = k THEN v ELSE contents[j]
      <4> HIDE DEF evicts, grown, n
      <4>1. \A j \in Key : cacheMap'[j] = IF j = k THEN n ELSE cacheMap[j]
        BY <2>3, <2>4, <2>5
      <4> QED
        BY <2>1, <2>2, <4>1 DEF contents
    <3> QED
      BY <3>1 DEF contents, Map!Put
  <2>6. CASE evicts
    <3>1. e \in Key
      <4>1. L.tail \in 1 .. n
        <5>1. L.tail = list.tail \/ L.tail = n
          BY DEF insertNew
        <5>2. list.tail \in 0 .. allocated /\ allocated \in Nat
          BY LRUAssumption DEF TypeOK, Linked
        <5> HIDE DEF L
        <5> QED
          BY <2>6, <5>1, <5>2, LRUAssumption DEF nil
      <4>2. \A m \in 1 .. n : [nodeKey EXCEPT ![n] = k][m] \in Key
        BY <2>1, LRUAssumption DEF TypeOK, Node
      <4> HIDE DEF L
      <4> QED
        BY <4>1, <4>2
    <3>2. \A j \in Key : contents'[j] =
            IF j = e THEN Absent ELSE IF j = k THEN v ELSE contents[j]
      <4> HIDE DEF evicts, grown, n, e
      <4>1. \A j \in Key : cacheMap'[j] =
              IF j = e THEN nil ELSE IF j = k THEN n ELSE cacheMap[j]
        BY <2>3, <2>4, <2>6, <3>1
      <4> QED
        BY <2>1, <2>2, <4>1 DEF contents
    <3>3. Cardinality(Cached) >= Capacity
      <4>1. /\ Cardinality(Cached) \in Nat
            /\ Cardinality(Cached \cup {k}) = Cardinality(Cached) + 1
        BY <2>1, FS_CardinalityType, FS_AddElement DEF FiniteCache
      <4> QED
        BY <2>6, <4>1, LRUAssumption DEF exceeds
    <3> HIDE DEF e
    <3>4. contents' = [contents EXCEPT ![k] = v, ![e] = Absent]
      BY <3>1, <3>2 DEF contents
    <3> QED
      BY <2>1, <3>1, <3>3, <3>4, PresentIsCached, SameCardinalityMap DEF Map!PutInFull
  <2> QED
    BY <2>5, <2>6
<1>4. ASSUME NEW k \in Key, GetLookup(t, k) PROVE Map!GetBegins(t)
  <2>1. UNCHANGED contents /\ Idle(t) /\ cacheMap[k] # nil
    BY <1>4 DEF GetLookup, contents
  <2>2. \A s \in Thread : getNode'[s] = IF s = t THEN cacheMap[k] ELSE getNode[s]
    BY <1>4 DEF GetLookup, TypeOK
  <2> QED
    BY <2>1, <2>2 DEF Map!GetBegins, pendingGets, Idle
<1>5. ASSUME GetMove(t) \/ GetGone(t) PROVE Map!GetEnds(t)
  <2>1. UNCHANGED contents /\ ~ Idle(t)
    BY <1>5 DEF GetMove, GetGone, contents
  <2>2. \A s \in Thread : getNode'[s] = IF s = t THEN nil ELSE getNode[s]
    BY <1>5 DEF GetMove, GetGone, GetReturns, TypeOK
  <2> QED
    BY <2>1, <2>2 DEF Map!GetEnds, pendingGets, Idle
<1>6. ASSUME Clear(t) PROVE Map!Clear
  BY <1>6 DEF Clear, Map!Clear, contents
<1>7. ASSUME UNCHANGED getNode PROVE UNCHANGED pendingGets
  BY <1>7 DEF pendingGets, Idle
<1>8. ASSUME NEW k \in Key, Remove(t, k) PROVE Map!Changes
  BY <1>1, <1>7, <1>8 DEF Remove, Map!Changes
<1>9. ASSUME NEW k \in Key, NEW v \in Value, PutExisting(t, k, v) \/ PutNew(t, k, v)
      PROVE  Map!Changes
  BY <1>2, <1>3, <1>7, <1>9 DEF PutExisting, PutNew, Map!Changes
<1>10. ASSUME Clear(t) PROVE Map!Changes
  BY <1>6, <1>7, <1>10 DEF Clear, Map!Changes
<1>11. Map!Changes \/ Map!GetBegins(t) \/ Map!GetEnds(t)
  BY <1>4, <1>5, <1>8, <1>9, <1>10 DEF Step
<1> QED
  BY <1>11 DEF Map!Next

(* However many goroutines use the cache and whatever their stale Gets have *)
(* made of the list, the cache is a map that changes only as they ask, but  *)
(* for one entry when a new one is put into a full map.                     *)
THEOREM CacheIsMap == Spec => ImplementsMap
<1>1. CacheInv /\ CacheInv' /\ [Next]_vars => [Map!Next]_<<contents, pendingGets>>
  <2>1. CASE UNCHANGED vars
    BY <2>1 DEF vars, contents, pendingGets, Idle
  <2>2. ASSUME CacheInv, CacheInv', Next PROVE [Map!Next]_<<contents, pendingGets>>
    BY <2>2, MapStep DEF CacheInv, Next
  <2> QED
    BY <2>1, <2>2
<1>2. Init => Map!Init
  BY DEF Init, Map!Init, contents, pendingGets, Idle
<1> QED
  BY <1>1, <1>2, CacheInvariant, PTL DEF Spec, ImplementsMap, Map!Spec, Map!mapVars

=============================================================================
