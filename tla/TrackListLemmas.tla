--------------------------- MODULE TrackListLemmas ---------------------------
(***************************************************************************)
(* Facts about the operators of TrackList: what each of them makes of the  *)
(* type and the count of a list, whatever the list's pointers are; where a *)
(* walk and a search along any list stop; and what each operation makes of *)
(* a list that is a chain.                                                 *)
(***************************************************************************)
EXTENDS TrackList, FiniteSetTheorems, TLAPS

(* The counter of l is the number of its nodes.                            *)
Counted(l) == l.cnt = Cardinality(l.used)

-----------------------------------------------------------------------------
(* Types.  Every operation takes a list to a list, whatever its pointers   *)
(* are, where its own condition holds.                                     *)

(* DHT_LIST_INIT makes a list.                                             *)
LEMMA EmptyListType == ASSUME NEW D PROVE EmptyList \in ListOf(D)
  BY DEF EmptyList, ListOf, Ref

(* npl_node_alloc keeps the type of a list.                                *)
LEMMA AllocType ==
  ASSUME NEW D, NEW l \in ListOf(D), NEW n \in Node, NEW d \in D
  PROVE  npl_node_alloc(l, n, d) \in ListOf(D)
  BY DEF npl_node_alloc, ListOf, Ref

(* free() of a node keeps the type of a list.                              *)
LEMMA FreeType ==
  ASSUME NEW D, NEW l \in ListOf(D), NEW n \in Node
  PROVE  FreeNode(l, n) \in ListOf(D)
  BY DEF FreeNode, ListOf, Ref

(* dht_list_add_node_tail keeps the type of a list.                        *)
LEMMA AddTailType ==
  ASSUME NEW D, NEW l \in ListOf(D), NEW n \in Node, CanAddTail(l)
  PROVE  dht_list_add_node_tail(l, n) \in ListOf(D)
<1>1. l.cnt + 1 \in Int /\ n \in Ref /\ Null \in Ref /\ l.head \in Ref
  BY DEF ListOf, Ref
<1>2. CASE l.head = Null
  BY <1>1, <1>2 DEF dht_list_add_node_tail, ListOf
<1>3. CASE l.head # Null
  <2> DEFINE next == [l.next EXCEPT ![l.tail] = n, ![n] = Null]
             prev == [l.prev EXCEPT ![n] = l.tail]
  <2>1. l.tail \in Node
    BY <1>3 DEF CanAddTail, ListOf
  <2>2. next \in [Node -> Ref] /\ prev \in [Node -> Ref]
    BY <1>1, <2>1 DEF ListOf, Ref
  <2>3. dht_list_add_node_tail(l, n) =
          [l EXCEPT !.next = next, !.prev = prev, !.head = l.head,
                    !.tail = n, !.cnt = l.cnt + 1]
    BY <1>3 DEF dht_list_add_node_tail, ListOf
  <2> HIDE DEF next, prev
  <2> QED
    BY <1>1, <2>2, <2>3 DEF ListOf
<1> QED
  BY <1>2, <1>3

(* dht_list_add_node_head keeps the type of a list.                        *)
LEMMA AddHeadType ==
  ASSUME NEW D, NEW l \in ListOf(D), NEW n \in Node
  PROVE  dht_list_add_node_head(l, n) \in ListOf(D)
<1>1. l.cnt + 1 \in Int /\ n \in Ref /\ Null \in Ref /\ l.tail \in Ref
  BY DEF ListOf, Ref
<1>2. CASE l.head = Null
  BY <1>1, <1>2 DEF dht_list_add_node_head, ListOf
<1>3. CASE l.head # Null
  <2> DEFINE next == [l.next EXCEPT ![n] = l.head]
             prev == [l.prev EXCEPT ![l.head] = n]
  <2>1. l.head \in Node
    BY <1>3 DEF ListOf, Ref
  <2>2. next \in [Node -> Ref] /\ prev \in [Node -> Ref]
    BY <1>1, <2>1 DEF ListOf, Ref
  <2>3. dht_list_add_node_head(l, n) =
          [l EXCEPT !.next = next, !.prev = prev, !.head = n,
                    !.tail = l.tail, !.cnt = l.cnt + 1]
    BY <1>3 DEF dht_list_add_node_head, ListOf
  <2> HIDE DEF next, prev
  <2> QED
    BY <1>1, <2>2, <2>3 DEF ListOf
<1> QED
  BY <1>2, <1>3

(* The pointers a removal may follow lead to nodes: it keeps the type, and *)
(* touches neither the counter nor the set of nodes.                       *)
LEMMA UnlinkType ==
  ASSUME NEW D, NEW l \in ListOf(D), NEW n \in Node, CanRemove(l, n)
  PROVE  /\ Unlink(l, n) \in ListOf(D)
         /\ Unlink(l, n).cnt = l.cnt
         /\ Unlink(l, n).used = l.used
<1>0. Null \in Ref /\ l.cnt \in Int
  BY DEF ListOf, Ref
<1>1. CASE IsSole(l, n)
  <2>1. Unlink(l, n) = [l EXCEPT !.head = Null, !.tail = Null, !.cnt = l.cnt]
    BY <1>1 DEF Unlink, __dht_list_remove, IsSole, IsTail, IsInterior, ListOf
  <2>2. Unlink(l, n).cnt = l.cnt /\ Unlink(l, n).used = l.used
    BY <2>1 DEF ListOf
  <2> QED
    BY <1>0, <2>1, <2>2 DEF ListOf
<1>2. CASE IsTail(l, n)
  <2> DEFINE next == [l.next EXCEPT ![l.prev[n]] = Null]
             prev == [l.prev EXCEPT ![n] = Null]
  <2>1. ~IsSole(l, n)
    BY <1>2 DEF IsSole, IsTail
  <2>2. l.prev[n] \in Node
    BY <1>2 DEF CanRemove, Followed, ListOf
  <2>3. next \in [Node -> Ref] /\ prev \in [Node -> Ref]
    BY <1>0, <2>2 DEF ListOf
  <2>4. Unlink(l, n) = [l EXCEPT !.next = next, !.prev = prev]
    BY <1>2, <2>1 DEF Unlink, __dht_list_remove, IsTail, IsInterior
  <2>5. Unlink(l, n).cnt = l.cnt /\ Unlink(l, n).used = l.used
    BY <2>4 DEF ListOf
  <2> HIDE DEF next, prev
  <2> QED
    BY <1>0, <2>3, <2>4, <2>5 DEF ListOf
<1>3. CASE IsInterior(l, n)
  <2> DEFINE prev == [l.prev EXCEPT ![l.next[n]] = l.prev[n]]
             next == [l.next EXCEPT ![l.prev[n]] = l.next[n]]
  <2>1. ~IsSole(l, n) /\ ~IsTail(l, n)
    BY <1>3 DEF IsSole, IsTail, IsInterior
  <2>2. l.prev[n] \in Node /\ l.next[n] \in Node
    BY <1>3, <2>1 DEF CanRemove, Followed, ListOf
  <2>3. next \in [Node -> Ref] /\ prev \in [Node -> Ref]
    BY <2>2 DEF ListOf, Ref
  <2>4. Unlink(l, n) = [l EXCEPT !.next = next, !.prev = prev]
    BY <1>3, <2>1 DEF Unlink, __dht_list_remove
  <2>5. Unlink(l, n).cnt = l.cnt /\ Unlink(l, n).used = l.used
    BY <2>4 DEF ListOf
  <2> HIDE DEF next, prev
  <2> QED
    BY <1>0, <2>3, <2>4, <2>5 DEF ListOf
<1>4. CASE ~IsSole(l, n) /\ ~IsTail(l, n) /\ ~IsInterior(l, n)
  BY <1>4 DEF Unlink, __dht_list_remove
<1> QED
  BY <1>1, <1>2, <1>3, <1>4

(* dht_list_remove_node keeps the type of a list.                          *)
LEMMA RemoveType ==
  ASSUME NEW D, NEW l \in ListOf(D), NEW n \in Node, CanRemove(l, n)
  PROVE  /\ dht_list_remove_node(l, n) \in ListOf(D)
         /\ dht_list_remove_node(l, n).cnt = l.cnt - 1
         /\ dht_list_remove_node(l, n).used = l.used
<1> DEFINE u == Unlink(l, n)
<1>1. u \in ListOf(D) /\ u.cnt = l.cnt /\ u.used = l.used
  BY UnlinkType
<1>2. dht_list_remove_node(l, n) = [u EXCEPT !.cnt = u.cnt - 1]
  BY DEF dht_list_remove_node
<1> HIDE DEF u
<1> QED
  BY <1>1, <1>2 DEF ListOf

(* malloc hands out a node that is not in use.                             *)
LEMMA AllocatableType ==
  ASSUME NEW l, NEW n \in Allocatable(l)
  PROVE  n \in Node /\ n \notin l.used
  BY DEF Allocatable

-----------------------------------------------------------------------------
(* Counts.                                                                 *)

(* A new list's counter is right.                                          *)
LEMMA EmptyListCounted == Counted(EmptyList)
  BY FS_EmptySet DEF Counted, EmptyList

(* Adding a new node, at either end, counts it.                            *)
LEMMA AddCounted ==
  ASSUME NEW D, NEW l \in ListOf(D), NEW n \in Node, NEW d \in D,
         n \notin l.used, Counted(l)
  PROVE  LET m == npl_node_alloc(l, n, d)
         IN  /\ CanAddTail(m) => Counted(dht_list_add_node_tail(m, n))
             /\ Counted(dht_list_add_node_head(m, n))
<1> DEFINE m == npl_node_alloc(l, n, d)
<1>1. m \in ListOf(D)
  BY AllocType
<1>2. m.cnt = l.cnt /\ m.used = l.used \cup {n}
  BY DEF npl_node_alloc, ListOf
<1>3. Cardinality(l.used \cup {n}) = l.cnt + 1
  <2>1. IsFiniteSet(l.used)
    BY NodeAssumption, FS_Subset DEF ListOf
  <2> QED
    BY <2>1, FS_AddElement DEF Counted
<1>4. /\ dht_list_add_node_tail(m, n).cnt = m.cnt + 1
      /\ dht_list_add_node_tail(m, n).used = m.used
  BY <1>1 DEF dht_list_add_node_tail, ListOf
<1>5. /\ dht_list_add_node_head(m, n).cnt = m.cnt + 1
      /\ dht_list_add_node_head(m, n).used = m.used
  BY <1>1 DEF dht_list_add_node_head, ListOf
<1> QED
  BY <1>2, <1>3, <1>4, <1>5 DEF Counted

(* Removing and freeing a node counts it, whatever its place: also where   *)
(* dht_list_remove_node does nothing to the pointers.                      *)
LEMMA RemoveCounted ==
  ASSUME NEW D, NEW l \in ListOf(D), NEW n \in Node, CanRemove(l, n),
         Counted(l)
  PROVE  Counted(FreeNode(dht_list_remove_node(l, n), n))
<1> DEFINE m == dht_list_remove_node(l, n)
<1>1. m \in ListOf(D) /\ m.cnt = l.cnt - 1 /\ m.used = l.used
  BY RemoveType
<1>2. n \in l.used
  BY DEF CanRemove
<1>3. IsFiniteSet(l.used)
  BY NodeAssumption, FS_Subset DEF ListOf
<1>4. Cardinality(l.used \ {n}) = Cardinality(l.used) - 1
  BY <1>2, <1>3, FS_RemoveElement
<1>5. FreeNode(m, n).cnt = m.cnt /\ FreeNode(m, n).used = m.used \ {n}
  BY <1>1 DEF FreeNode, ListOf
<1> QED
  BY <1>1, <1>4, <1>5 DEF Counted

-----------------------------------------------------------------------------
(* Walking.  What a recursive function holds is found by induction: for    *)
(* want of a smallest argument at which it would hold something else.      *)

(* Numbers of which there are any have a least.                            *)
LEMMA LeastNat ==
  ASSUME NEW T \in SUBSET Nat, T # {}
  PROVE  \E m \in T : \A k \in T : m <= k
<1> DEFINE R == OpToRel(<, Nat)
<1>1. IsWellFoundedOn(R, Nat)
  BY NatLessThanWellFounded, Zenon
<1>2. \A x, y \in Nat : x < y => <<x, y>> \in R
  BY DEF OpToRel
<1> HIDE DEF R
<1>3. PICK m \in T : \A k \in T : ~(<<k, m>> \in R)
  BY <1>1, WFMin
<1>4. \A k \in T : m <= k
  <2> SUFFICES ASSUME NEW k \in T PROVE ~(k < m)
    OBVIOUS
  <2> QED
    BY <1>2, <1>3
<1> QED
  BY <1>4

(* One step of a walk, and the first m steps of one.                       *)
StepFrom(l, n) == IF n \in l.used THEN l.next[n] ELSE n
Walked(l, w, m) ==
  w = [k \in 0 .. m |-> IF k = 0 THEN l.head ELSE StepFrom(l, w[k - 1])]

(* A list can be walked any number of steps.                               *)
LEMMA WalkedUpTo ==
  ASSUME NEW l, NEW N \in Nat
  PROVE  \E w : Walked(l, w, N)
<1> DEFINE T == {m \in 0 .. N : \A w : ~Walked(l, w, m)}
<1> SUFFICES ASSUME T # {} PROVE FALSE
  OBVIOUS
<1>1. PICK m \in T : \A k \in T : m <= k
  <2>1. T \in SUBSET Nat
    OBVIOUS
  <2> HIDE DEF T
  <2> QED
    BY <2>1, LeastNat
<1>2. CASE m = 0
  <2> DEFINE w == [k \in 0 .. 0 |-> l.head]
  <2>1. Walked(l, w, 0)
    BY DEF Walked
  <2> QED
    BY <1>1, <1>2, <2>1
<1>3. CASE m # 0
  <2>1. m - 1 \in 0 .. N /\ m - 1 \notin T
    BY <1>1, <1>3
  <2>2. PICK v : Walked(l, v, m - 1)
    BY <2>1
  <2> DEFINE w == [k \in 0 .. m |->
                     IF k = m THEN StepFrom(l, v[m - 1]) ELSE v[k]]
  <2>3. \A k \in 0 .. m - 1 :
          v[k] = IF k = 0 THEN l.head ELSE StepFrom(l, v[k - 1])
    BY <2>2 DEF Walked
  <2>4. \A k \in 0 .. m :
          w[k] = IF k = 0 THEN l.head ELSE StepFrom(l, w[k - 1])
    BY <1>3, <2>3
  <2>5. Walked(l, w, m)
    BY <2>4 DEF Walked
  <2> QED
    BY <1>1, <2>5
<1> QED
  BY <1>2, <1>3

(* A walk begins at the head and goes on by the next pointers.             *)
LEMMA WalkSteps ==
  ASSUME NEW l
  PROVE  /\ Cardinality(Node) \in Nat
         /\ DOMAIN Walk(l) = 0 .. Cardinality(Node)
         /\ Walk(l)[0] = l.head
         /\ \A k \in 1 .. Cardinality(Node) :
              Walk(l)[k] = StepFrom(l, Walk(l)[k - 1])
<1> DEFINE N == Cardinality(Node)
<1>1. N \in Nat
  BY NodeAssumption, FS_CardinalityType
<1>2. \E w : Walked(l, w, N)
  BY <1>1, WalkedUpTo
<1>3. Walked(l, Walk(l), N)
  BY <1>2 DEF Walked, StepFrom, Walk
<1> QED
  BY <1>1, <1>3 DEF Walked

(* Every position of a walk is a node or null.                             *)
LEMMA WalkType ==
  ASSUME NEW D, NEW l \in ListOf(D)
  PROVE  \A k \in 0 .. Cardinality(Node) : Walk(l)[k] \in Ref
<1> DEFINE N == Cardinality(Node)
           w == Walk(l)
           T == {k \in 0 .. N : w[k] \notin Ref}
<1>0. /\ N \in Nat /\ w[0] = l.head
      /\ \A k \in 1 .. N : w[k] = StepFrom(l, w[k - 1])
  BY WalkSteps
<1> HIDE DEF w, N
<1> SUFFICES ASSUME T # {} PROVE FALSE
  BY DEF w, N
<1>1. T \in SUBSET Nat
  BY <1>0
<1>2. PICK m \in T : \A k \in T : m <= k
  <2> HIDE DEF T
  <2> QED
    BY <1>1, LeastNat
<1>3. m # 0
  BY <1>0 DEF ListOf
<1>4. w[m - 1] \in Ref
  BY <1>0, <1>2, <1>3
<1>5. StepFrom(l, w[m - 1]) \in Ref
  BY <1>4 DEF StepFrom, ListOf
<1> QED
  BY <1>0, <1>2, <1>3, <1>5

(* A walk that comes to something that is no node in use stays there.      *)
LEMMA WalkStays ==
  ASSUME NEW l, NEW k \in 0 .. Cardinality(Node), Walk(l)[k] \notin l.used
  PROVE  \A j \in k .. Cardinality(Node) : Walk(l)[j] = Walk(l)[k]
<1> DEFINE N == Cardinality(Node)
           w == Walk(l)
           T == {j \in k .. N : w[j] # w[k]}
<1>0. N \in Nat /\ \A j \in 1 .. N : w[j] = StepFrom(l, w[j - 1])
  BY WalkSteps
<1> HIDE DEF w, N
<1> SUFFICES ASSUME T # {} PROVE FALSE
  BY DEF w, N
<1>01. k \in 0 .. N /\ w[k] \notin l.used
  BY DEF w, N
<1>1. T \in SUBSET Nat
  BY <1>0, <1>01
<1>2. PICK m \in T : \A j \in T : m <= j
  <2> HIDE DEF T
  <2> QED
    BY <1>1, LeastNat
<1>3. m # k /\ m - 1 \in k .. N /\ m - 1 \notin T /\ m \in 1 .. N
  BY <1>0, <1>01, <1>2
<1>4. w[m - 1] = w[k]
  BY <1>3
<1>5. w[m] = w[k]
  BY <1>0, <1>01, <1>3, <1>4 DEF StepFrom
<1> QED
  BY <1>2, <1>5

(* A search stops at the first position that holds d, if there is one.     *)
LEMMA FirstWithStops ==
  ASSUME NEW l, NEW d
  PROVE  \/ /\ \A k \in 0 .. Cardinality(Node) : ~Holds(l, Walk(l)[k], d)
            /\ FirstWith(l, d) = Walk(l)[Cardinality(Node)]
         \/ \E k \in 0 .. Cardinality(Node) :
              /\ FirstWith(l, d) = Walk(l)[k]
              /\ Holds(l, Walk(l)[k], d)
              /\ \A j \in 0 .. k - 1 : ~Holds(l, Walk(l)[j], d)
<1> DEFINE N == Cardinality(Node)
           hits == Hits(l, d)
<1>0. N \in Nat
  BY WalkSteps
<1>1. CASE hits = {}
  BY <1>1 DEF Hits, FirstWith
<1>2. CASE hits # {}
  <2> DEFINE m == CHOOSE k \in hits : \A j \in hits : k <= j
  <2>1. hits \in SUBSET Nat
    BY <1>0 DEF Hits
  <2>2. FirstWith(l, d) = Walk(l)[m]
    BY <1>2 DEF FirstWith
  <2> HIDE DEF hits
  <2>3. m \in hits /\ \A j \in hits : m <= j
    BY <1>2, <2>1, LeastNat
  <2> HIDE DEF m
  <2>4. m \in 0 .. N /\ Holds(l, Walk(l)[m], d)
    BY <2>3 DEF hits, Hits
  <2>5. ASSUME NEW j \in 0 .. m - 1 PROVE ~Holds(l, Walk(l)[j], d)
    <3>1. j \in 0 .. N /\ ~(m <= j)
      BY <1>0, <2>4
    <3> QED
      BY <2>3, <3>1 DEF hits, Hits
  <2> QED
    BY <2>2, <2>4, <2>5
<1> QED
  BY <1>1, <1>2

-----------------------------------------------------------------------------
(* Chains.  A list is a chain exactly if its nodes can be numbered, v, so  *)
(* that every pointer of the list says what v says.                        *)
Lined(l, v, k) ==
  /\ v \in [1 .. k -> Node]
  /\ l.used = {v[i] : i \in 1 .. k}
  /\ \A i, j \in 1 .. k : v[i] = v[j] => i = j
  /\ l.cnt = k
  /\ l.head = IF k = 0 THEN Null ELSE v[1]
  /\ l.tail = IF k = 0 THEN Null ELSE v[k]
  /\ \A i \in 1 .. k : /\ l.next[v[i]] = IF i = k THEN Null ELSE v[i + 1]
                       /\ l.prev[v[i]] = IF i = 1 THEN Null ELSE v[i - 1]

(* The nodes of a list in the order in which a walk comes to them.         *)
Order(l) == [i \in 1 .. Cardinality(l.used) |-> Walk(l)[i - 1]]

(* There are no more nodes in use than nodes.                              *)
LEMMA UsedBound ==
  ASSUME NEW D, NEW l \in ListOf(D)
  PROVE  /\ IsFiniteSet(l.used)
         /\ Cardinality(l.used) \in Nat
         /\ Cardinality(l.used) <= Cardinality(Node)
<1>1. l.used \subseteq Node
  BY DEF ListOf
<1> QED
  BY <1>1, NodeAssumption, FS_Subset, FS_CardinalityType

(* A chain's walk numbers its nodes: it comes to as many positions as      *)
(* there are nodes, and to every node, and so to none of them twice.       *)
LEMMA ChainLined ==
  ASSUME NEW D, NEW l \in ListOf(D), Chain(l)
  PROVE  Lined(l, Order(l), Cardinality(l.used))
<1> DEFINE k == Cardinality(l.used)
           w == Walk(l)
           v == Order(l)
<1>1. /\ k \in Nat /\ k <= Cardinality(Node) /\ Cardinality(Node) \in Nat
      /\ IsFiniteSet(l.used) /\ l.used \subseteq Node
  BY UsedBound, WalkSteps DEF ListOf
<1>2. /\ w[0] = l.head
      /\ \A i \in 1 .. Cardinality(Node) : w[i] = StepFrom(l, w[i - 1])
  BY WalkSteps
<1>3. /\ l.cnt = k
      /\ {w[i] : i \in 0 .. k - 1} = l.used
      /\ w[k] = Null
      /\ l.tail = IF k = 0 THEN Null ELSE w[k - 1]
      /\ \A i \in 0 .. k - 1 : l.prev[w[i]] = IF i = 0 THEN Null ELSE w[i - 1]
  BY DEF Chain
<1>4. v = [i \in 1 .. k |-> w[i - 1]]
  BY DEF Order
<1> HIDE DEF w, v, k
<1>5. \A i \in 1 .. k : v[i] = w[i - 1] /\ v[i] \in l.used
  <2> SUFFICES ASSUME NEW i \in 1 .. k
               PROVE  v[i] = w[i - 1] /\ v[i] \in l.used
    OBVIOUS
  <2>1. i - 1 \in 0 .. k - 1
    BY <1>1
  <2> QED
    BY <1>3, <1>4, <2>1
<1>6. v \in [1 .. k -> l.used]
  BY <1>4, <1>5
<1>7. \A n \in l.used : \E i \in 1 .. k : v[i] = n
  <2> SUFFICES ASSUME NEW n \in l.used PROVE \E i \in 1 .. k : v[i] = n
    OBVIOUS
  <2>1. PICK j \in 0 .. k - 1 : w[j] = n
    BY <1>3
  <2>2. j + 1 \in 1 .. k /\ (j + 1) - 1 = j
    BY <1>1
  <2>3. v[j + 1] = n
    BY <1>5, <2>1, <2>2
  <2> QED
    BY <2>2, <2>3
<1>8. \A i, j \in 1 .. k : v[i] = v[j] => i = j
  <2>1. v \in Surjection(1 .. k, l.used)
    BY <1>6, <1>7 DEF Surjection
  <2>2. IsFiniteSet(1 .. k) /\ Cardinality(1 .. k) = k
    BY <1>1, FS_Interval
  <2>3. v \in Injection(1 .. k, l.used)
    BY <1>1, <2>1, <2>2, FS_SurjSameCardinalityImpliesInj DEF k
  <2> QED
    BY <1>4, <2>3 DEF Injection, IsInjective
<1>9. l.used = {v[i] : i \in 1 .. k}
  BY <1>5, <1>7
<1>10. l.head = IF k = 0 THEN Null ELSE v[1]
  BY <1>1, <1>2, <1>3, <1>5
<1>11. l.tail = IF k = 0 THEN Null ELSE v[k]
  BY <1>1, <1>3, <1>5
<1>12. ASSUME NEW i \in 1 .. k
       PROVE  l.next[v[i]] = IF i = k THEN Null ELSE v[i + 1]
  <2>1. i \in 1 .. Cardinality(Node) /\ w[i] = StepFrom(l, w[i - 1])
    BY <1>1, <1>2
  <2>2. w[i] = l.next[v[i]]
    BY <1>5, <2>1 DEF StepFrom
  <2>3. i # k => i + 1 \in 1 .. k /\ (i + 1) - 1 = i
    BY <1>1
  <2> QED
    BY <1>3, <1>5, <2>2, <2>3
<1>13. ASSUME NEW i \in 1 .. k
       PROVE  l.prev[v[i]] = IF i = 1 THEN Null ELSE v[i - 1]
  <2>1. /\ i - 1 \in 0 .. k - 1
        /\ i - 1 = 0 <=> i = 1
        /\ i # 1 => i - 1 \in 1 .. k
    BY <1>1
  <2> QED
    BY <1>3, <1>5, <2>1
<1>14. v \in [1 .. k -> Node]
  BY <1>1, <1>6
<1> QED
  BY <1>3, <1>8, <1>9, <1>10, <1>11, <1>12, <1>13, <1>14 DEF Lined, k, v

(* A list whose nodes are numbered so is a chain in that order.            *)
LEMMA LinedChain ==
  ASSUME NEW D, NEW l \in ListOf(D), NEW k \in Nat, NEW v, Lined(l, v, k)
  PROVE  /\ Chain(l)
         /\ Cardinality(l.used) = k
         /\ Order(l) = v
<1> DEFINE w == Walk(l)
           T == {i \in 1 .. k : w[i - 1] # v[i]}
<1>1. Cardinality(l.used) = k
  <2>1. v \in [1 .. k -> l.used]
    BY DEF Lined
  <2>2. v \in Bijection(1 .. k, l.used)
    BY <2>1 DEF Lined, Bijection, Injection, Surjection, IsInjective
  <2> QED
    BY <2>2, FS_CountingElements DEF ExistsBijection
<1>2. k <= Cardinality(Node) /\ Cardinality(Node) \in Nat
  BY <1>1, UsedBound, WalkSteps
<1>3. /\ w[0] = l.head
      /\ \A i \in 1 .. Cardinality(Node) : w[i] = StepFrom(l, w[i - 1])
  BY WalkSteps
<1> HIDE DEF w
<1>4. \A i \in 1 .. k : v[i] \in l.used /\ v[i] \in Node
  BY DEF Lined
<1>5. \A i \in 1 .. k : w[i - 1] = v[i]
  <2> SUFFICES ASSUME T # {} PROVE FALSE
    OBVIOUS
  <2>1. T \in SUBSET Nat
    OBVIOUS
  <2>2. PICK m \in T : \A i \in T : m <= i
    <3> HIDE DEF T
    <3> QED
      BY <2>1, LeastNat
  <2>3. m # 1
    BY <1>3, <2>2 DEF Lined
  <2>4. /\ m - 1 \in 1 .. k /\ m - 1 \notin T /\ m - 1 # k
        /\ (m - 1) + 1 = m /\ m - 1 \in 1 .. Cardinality(Node)
    BY <1>2, <2>2, <2>3
  <2>5. w[(m - 1) - 1] = v[m - 1]
    BY <2>4
  <2>6. w[m - 1] = l.next[v[m - 1]]
    BY <1>3, <1>4, <2>4, <2>5 DEF StepFrom
  <2>7. l.next[v[m - 1]] = v[m]
    BY <2>4 DEF Lined
  <2> QED
    BY <2>2, <2>6, <2>7
<1>6. w[k] = Null
  <2>1. CASE k = 0
    BY <1>3, <2>1 DEF Lined
  <2>2. CASE k # 0
    <3>1. k \in 1 .. k /\ k \in 1 .. Cardinality(Node)
      BY <1>2, <2>2
    <3>2. w[k] = l.next[v[k]]
      BY <1>3, <1>4, <1>5, <3>1 DEF StepFrom
    <3> QED
      BY <3>1, <3>2 DEF Lined
  <2> QED
    BY <2>1, <2>2
<1>7. \A i \in 0 .. k - 1 : i + 1 \in 1 .. k /\ (i + 1) - 1 = i
  OBVIOUS
<1>8. {w[i] : i \in 0 .. k - 1} = l.used
  <2>1. \A i \in 0 .. k - 1 : w[i] \in l.used
    BY <1>4, <1>5, <1>7
  <2>2. \A n \in l.used : \E i \in 0 .. k - 1 : w[i] = n
    <3> SUFFICES ASSUME NEW n \in l.used PROVE \E i \in 0 .. k - 1 : w[i] = n
      OBVIOUS
    <3>1. PICK i \in 1 .. k : v[i] = n
      BY DEF Lined
    <3>2. i - 1 \in 0 .. k - 1 /\ w[i - 1] = n
      BY <1>5, <3>1
    <3> QED
      BY <3>2
  <2> QED
    BY <2>1, <2>2
<1>9. l.tail = IF k = 0 THEN Null ELSE w[k - 1]
  BY <1>5 DEF Lined
<1>10. ASSUME NEW i \in 0 .. k - 1
       PROVE  l.prev[w[i]] = IF i = 0 THEN Null ELSE w[i - 1]
  <2>1. /\ i + 1 \in 1 .. k /\ w[i] = v[i + 1]
        /\ i # 0 => i \in 1 .. k /\ w[i - 1] = v[i]
        /\ (i + 1 = 1 <=> i = 0) /\ (i + 1) - 1 = i
    BY <1>5, <1>7
  <2> QED
    BY <2>1 DEF Lined
<1>11. Chain(l)
  BY <1>1, <1>6, <1>8, <1>9, <1>10 DEF Chain, Lined, w
<1>12. Order(l) = v
  <2>1. Order(l) = [i \in 1 .. k |-> w[i - 1]]
    BY <1>1 DEF Order, w
  <2>2. v = [i \in 1 .. k |-> v[i]]
    BY DEF Lined
  <2> QED
    BY <1>5, <2>1, <2>2
<1> QED
  BY <1>1, <1>11, <1>12

(* A search in a chain finds the first node that holds d, or that there is *)
(* none.                                                                   *)
LEMMA ChainSearch ==
  ASSUME NEW D, NEW l \in ListOf(D), NEW d, Chain(l)
  PROVE  IF \E n \in l.used : l.data[n] = d
         THEN \E i \in 0 .. Cardinality(Node) :
                /\ Walk(l)[i] = FirstWith(l, d)
                /\ Holds(l, FirstWith(l, d), d)
                /\ \A j \in 0 .. i - 1 : l.data[Walk(l)[j]] # d
         ELSE FirstWith(l, d) = Null
<1> DEFINE w == Walk(l)
           N == Cardinality(Node)
           k == Cardinality(l.used)
           found == FirstWith(l, d)
<1>1. /\ k \in Nat /\ N \in Nat /\ k <= N
      /\ {w[i] : i \in 0 .. k - 1} = l.used
      /\ w[k] = Null
  BY UsedBound, WalkSteps DEF Chain
<1>2. Null \notin l.used
  BY NodeAssumption DEF ListOf
<1>3. \A j \in k .. N : w[j] = Null
  <2>1. k \in 0 .. N
    BY <1>1
  <2> QED
    BY <1>1, <1>2, <2>1, WalkStays
<1>4. \/ /\ \A i \in 0 .. N : ~Holds(l, w[i], d)
         /\ found = w[N]
      \/ \E i \in 0 .. N : /\ found = w[i]
                           /\ Holds(l, w[i], d)
                           /\ \A j \in 0 .. i - 1 : ~Holds(l, w[j], d)
  BY FirstWithStops
<1> HIDE DEF w, N, k, found
<1>5. CASE \E n \in l.used : l.data[n] = d
  <2>1. PICK n \in l.used : l.data[n] = d
    BY <1>5
  <2>2. PICK i \in 0 .. k - 1 : w[i] = n
    BY <1>1
  <2>3. i \in 0 .. N /\ Holds(l, w[i], d)
    BY <1>1, <2>1, <2>2 DEF Holds
  <2>4. PICK m \in 0 .. N : /\ found = w[m]
                            /\ Holds(l, w[m], d)
                            /\ \A j \in 0 .. m - 1 : ~Holds(l, w[j], d)
    BY <1>4, <2>3
  <2>5. ~(i \in 0 .. m - 1)
    BY <2>3, <2>4
  <2>6. m <= i
    BY <1>1, <2>3, <2>4, <2>5
  <2>7. ASSUME NEW j \in 0 .. m - 1 PROVE l.data[w[j]] # d
    <3>1. j \in 0 .. k - 1
      BY <1>1, <2>6
    <3>2. w[j] \in l.used
      BY <1>1, <3>1
    <3> QED
      BY <2>4, <3>2 DEF Holds
  <2>8. \E x \in 0 .. N : /\ w[x] = found
                          /\ Holds(l, found, d)
                          /\ \A j \in 0 .. x - 1 : l.data[w[j]] # d
    BY <2>4, <2>7
  <2> QED
    BY <1>5, <2>8 DEF w, N, found
<1>6. CASE ~\E n \in l.used : l.data[n] = d
  <2>1. found = w[N]
    BY <1>4, <1>6 DEF Holds
  <2>2. N \in k .. N
    BY <1>1
  <2>3. found = Null
    BY <1>3, <2>1, <2>2
  <2> QED
    BY <1>6, <2>3 DEF found
<1> QED
  BY <1>5, <1>6

(* In a chain the pointers that an addition or a removal follows lead to   *)
(* nodes in use.                                                           *)
LEMMA ChainFollows ==
  ASSUME NEW D, NEW l \in ListOf(D), Chain(l)
  PROVE  /\ CanAddTail(l)
         /\ CanAddHead(l)
         /\ \A n \in l.used : CanRemove(l, n)
<1> DEFINE k == Cardinality(l.used)
           v == Order(l)
<1>1. Lined(l, v, k) /\ k \in Nat
  BY ChainLined, UsedBound
<1> HIDE DEF v, k
<1>2. \A i \in 1 .. k : v[i] \in l.used
  BY <1>1 DEF Lined
<1>3. k # 0 => 1 \in 1 .. k /\ k \in 1 .. k
  BY <1>1
<1>4. CanAddTail(l) /\ CanAddHead(l)
  BY <1>1, <1>2, <1>3 DEF Lined, CanAddTail, CanAddHead
<1>5. ASSUME NEW n \in l.used PROVE CanRemove(l, n)
  <2>1. PICK i \in 1 .. k : v[i] = n
    BY <1>1 DEF Lined
  <2>2. /\ l.next[n] = IF i = k THEN Null ELSE v[i + 1]
        /\ l.prev[n] = IF i = 1 THEN Null ELSE v[i - 1]
        /\ l.head = v[1] /\ l.tail = v[k]
    BY <1>1, <2>1 DEF Lined
  <2>3. /\ i # 1 => i - 1 \in 1 .. k
        /\ i # k => i + 1 \in 1 .. k
    BY <1>1
  <2>4. l.head # n => l.prev[n] \in l.used
    BY <1>2, <2>1, <2>2, <2>3
  <2>5. l.tail # n => l.next[n] \in l.used
    BY <1>2, <2>1, <2>2, <2>3
  <2> QED
    BY <2>4, <2>5 DEF CanRemove, Followed, IsTail, IsInterior
<1> QED
  BY <1>4, <1>5

(* A node being allocated disturbs no addition.                            *)
LEMMA AllocFollows ==
  ASSUME NEW D, NEW l \in ListOf(D), NEW n \in Node, NEW d,
         CanAddTail(l), CanAddHead(l)
  PROVE  LET m == npl_node_alloc(l, n, d) IN CanAddTail(m) /\ CanAddHead(m)
  BY DEF npl_node_alloc, CanAddTail, CanAddHead, ListOf

(* A node added at the tail of a chain comes last.                         *)
LEMMA AddTailLined ==
  ASSUME NEW D, NEW l \in ListOf(D), NEW n \in Node, n \notin l.used,
         NEW d \in D, NEW k \in Nat, NEW v, Lined(l, v, k)
  PROVE  Lined(dht_list_add_node_tail(npl_node_alloc(l, n, d), n),
               [i \in 1 .. k + 1 |-> IF i = k + 1 THEN n ELSE v[i]], k + 1)
<1> DEFINE a == npl_node_alloc(l, n, d)
           m == dht_list_add_node_tail(a, n)
           u == [i \in 1 .. k + 1 |-> IF i = k + 1 THEN n ELSE v[i]]
<1>0. a \in ListOf(D)
  BY AllocType
<1>1. /\ a.used = l.used \cup {n}
      /\ a.cnt = l.cnt /\ a.head = l.head /\ a.tail = l.tail
      /\ a.next = [l.next EXCEPT ![n] = Null]
      /\ a.prev = [l.prev EXCEPT ![n] = Null]
  BY DEF npl_node_alloc, ListOf
<1>2. /\ \A x \in Node \ {n} : a.next[x] = l.next[x] /\ a.prev[x] = l.prev[x]
      /\ a.next[n] = Null /\ a.prev[n] = Null
  BY <1>1 DEF ListOf
<1>3. \A i \in 1 .. k : v[i] \in l.used /\ v[i] \in Node /\ v[i] # n
  BY DEF Lined
<1>13. /\ \A i, j \in 1 .. k : v[i] = v[j] => i = j
       /\ \A i \in 1 .. k :
            /\ l.next[v[i]] = IF i = k THEN Null ELSE v[i + 1]
            /\ l.prev[v[i]] = IF i = 1 THEN Null ELSE v[i - 1]
  BY DEF Lined
<1>4. m.used = a.used /\ m.cnt = a.cnt + 1
  BY <1>0 DEF dht_list_add_node_tail, ListOf
<1> HIDE DEF a
<1>5. \A i \in 1 .. k : u[i] = v[i] /\ i \in 1 .. k + 1
  OBVIOUS
<1>6. u[k + 1] = n /\ k + 1 \in 1 .. k + 1
      /\ \A i \in 1 .. k + 1 : i = k + 1 \/ i \in 1 .. k
  OBVIOUS
<1>7. u \in [1 .. k + 1 -> Node]
  BY <1>3
<1> HIDE DEF u
<1>8. m.used = {u[i] : i \in 1 .. k + 1}
  <2>1. \A i \in 1 .. k + 1 : u[i] \in m.used
    BY <1>1, <1>3, <1>4, <1>5, <1>6
  <2>2. \A x \in m.used : \E i \in 1 .. k + 1 : u[i] = x
    BY <1>1, <1>4, <1>5, <1>6 DEF Lined
  <2> QED
    BY <2>1, <2>2
<1>9. ASSUME NEW i \in 1 .. k + 1, NEW j \in 1 .. k + 1, u[i] = u[j]
      PROVE  i = j
  <2>1. CASE i \in 1 .. k /\ j \in 1 .. k
    BY <1>5, <1>9, <1>13, <2>1
  <2>2. CASE i = k + 1 \/ j = k + 1
    BY <1>3, <1>5, <1>6, <1>9, <2>2
  <2> QED
    BY <1>6, <2>1, <2>2
<1>10. m.cnt = k + 1
  BY <1>1, <1>4 DEF Lined
<1>11. ASSUME k = 0 PROVE Lined(m, u, k + 1)
  <2>1. m = [a EXCEPT !.head = n, !.tail = n, !.cnt = a.cnt + 1]
    BY <1>0, <1>1, <1>11 DEF dht_list_add_node_tail, Lined
  <2>2. m.head = n /\ m.tail = n /\ m.next = a.next /\ m.prev = a.prev
    BY <1>0, <2>1 DEF ListOf
  <2> HIDE DEF m
  <2>3. \A i \in 1 .. k + 1 : i = 1
    BY <1>11
  <2>4. u[1] = n
    BY <1>6, <1>11
  <2> QED
    <3>1. \A i \in 1 .. k + 1 : /\ i = 1 /\ i = k + 1
                                /\ m.next[u[i]] = Null /\ m.prev[u[i]] = Null
      BY <1>2, <1>11, <2>2, <2>3, <2>4
    <3>2. m.head = u[1] /\ m.tail = u[k + 1]
      BY <1>11, <2>2, <2>4
    <3> QED
      BY <1>7, <1>8, <1>9, <1>10, <3>1, <3>2 DEF Lined
<1>12. ASSUME k # 0 PROVE Lined(m, u, k + 1)
  <2>1. k \in 1 .. k /\ 1 \in 1 .. k
    BY <1>12
  <2>2. a.head = v[1] /\ a.tail = v[k] /\ a.head # Null
    BY <1>1, <1>3, <1>12, <2>1, NodeAssumption DEF Lined
  <2>3. /\ m.head = a.head /\ m.tail = n
        /\ m.next = [a.next EXCEPT ![v[k]] = n, ![n] = Null]
        /\ m.prev = [a.prev EXCEPT ![n] = v[k]]
    BY <1>0, <2>2 DEF dht_list_add_node_tail, ListOf
  <2> HIDE DEF m
  <2>4. /\ \A x \in Node \ {n, v[k]} : m.next[x] = l.next[x]
        /\ m.next[v[k]] = n /\ m.next[n] = Null
        /\ \A x \in Node \ {n} : m.prev[x] = l.prev[x]
        /\ m.prev[n] = v[k]
    BY <1>0, <1>2, <1>3, <2>1, <2>3 DEF ListOf
  <2>5. ASSUME NEW i \in 1 .. k + 1
        PROVE  /\ m.next[u[i]] = IF i = k + 1 THEN Null ELSE u[i + 1]
               /\ m.prev[u[i]] = IF i = 1 THEN Null ELSE u[i - 1]
    <3>1. CASE i = k + 1
      BY <1>5, <1>6, <2>1, <2>4, <3>1
    <3>2. CASE i = k
      <4>1. u[i] = v[k] /\ v[k] # n /\ i + 1 = k + 1 /\ i # k + 1
        BY <1>3, <1>5, <2>1, <3>2
      <4>2. m.prev[v[k]] = IF k = 1 THEN Null ELSE v[k - 1]
        BY <1>3, <1>13, <2>1, <2>4
      <4>3. k # 1 => u[k - 1] = v[k - 1]
        BY <1>5, <2>1
      <4> QED
        BY <1>6, <2>4, <3>2, <4>1, <4>2, <4>3
    <3>3. CASE i # k + 1 /\ i # k
      <4>1. /\ i \in 1 .. k /\ i + 1 \in 1 .. k
            /\ i # 1 => i - 1 \in 1 .. k
        BY <3>3
      <4>2. v[i] # v[k]
        BY <2>1, <3>3, <4>1 DEF Lined
      <4>3. m.next[v[i]] = v[i + 1]
        BY <1>3, <1>13, <2>4, <3>3, <4>1, <4>2
      <4>4. m.prev[v[i]] = IF i = 1 THEN Null ELSE v[i - 1]
        BY <1>3, <1>13, <2>4, <4>1
      <4> QED
        BY <1>5, <3>3, <4>1, <4>3, <4>4
    <3> QED
      BY <3>1, <3>2, <3>3
  <2>6. m.head = u[1] /\ m.tail = u[k + 1]
    BY <1>5, <1>6, <2>1, <2>2, <2>3
  <2> QED
    BY <1>7, <1>8, <1>9, <1>10, <2>5, <2>6 DEF Lined
<1>14. Lined(m, u, k + 1)
  BY <1>11, <1>12
<1> QED
  BY <1>14 DEF u, m, a

(* A node added at the head of a chain comes first.                        *)
LEMMA AddHeadLined ==
  ASSUME NEW D, NEW l \in ListOf(D), NEW n \in Node, n \notin l.used,
         NEW d \in D, NEW k \in Nat, NEW v, Lined(l, v, k)
  PROVE  Lined(dht_list_add_node_head(npl_node_alloc(l, n, d), n),
               [i \in 1 .. k + 1 |-> IF i = 1 THEN n ELSE v[i - 1]], k + 1)
<1> DEFINE a == npl_node_alloc(l, n, d)
           m == dht_list_add_node_head(a, n)
           u == [i \in 1 .. k + 1 |-> IF i = 1 THEN n ELSE v[i - 1]]
<1>0. a \in ListOf(D)
  BY AllocType
<1>1. /\ a.used = l.used \cup {n}
      /\ a.cnt = l.cnt /\ a.head = l.head /\ a.tail = l.tail
      /\ a.next = [l.next EXCEPT ![n] = Null]
      /\ a.prev = [l.prev EXCEPT ![n] = Null]
  BY DEF npl_node_alloc, ListOf
<1>2. /\ \A x \in Node \ {n} : a.next[x] = l.next[x] /\ a.prev[x] = l.prev[x]
      /\ a.next[n] = Null /\ a.prev[n] = Null
  BY <1>1 DEF ListOf
<1>3. \A i \in 1 .. k : v[i] \in l.used /\ v[i] \in Node /\ v[i] # n
  BY DEF Lined
<1>4. /\ \A i, j \in 1 .. k : v[i] = v[j] => i = j
      /\ \A i \in 1 .. k :
           /\ l.next[v[i]] = IF i = k THEN Null ELSE v[i + 1]
           /\ l.prev[v[i]] = IF i = 1 THEN Null ELSE v[i - 1]
  BY DEF Lined
<1>5. m.used = a.used /\ m.cnt = a.cnt + 1
  BY <1>0 DEF dht_list_add_node_head, ListOf
<1> HIDE DEF a
<1>6. /\ u[1] = n /\ 1 \in 1 .. k + 1
      /\ \A i \in 1 .. k : u[i + 1] = v[i] /\ i + 1 \in 1 .. k + 1
      /\ \A i \in 1 .. k + 1 : \/ i = 1
                               \/ i - 1 \in 1 .. k /\ u[i] = v[i - 1]
  OBVIOUS
<1>7. u \in [1 .. k + 1 -> Node]
  BY <1>3
<1> HIDE DEF u
<1>8. m.used = {u[i] : i \in 1 .. k + 1}
  <2>1. \A i \in 1 .. k + 1 : u[i] \in m.used
    BY <1>1, <1>3, <1>5, <1>6
  <2>2. \A x \in m.used : \E i \in 1 .. k + 1 : u[i] = x
    BY <1>1, <1>5, <1>6 DEF Lined
  <2> QED
    BY <2>1, <2>2
<1>9. ASSUME NEW i \in 1 .. k + 1, NEW j \in 1 .. k + 1, u[i] = u[j]
      PROVE  i = j
  <2>1. CASE i = 1 \/ j = 1
    BY <1>3, <1>6, <1>9, <2>1
  <2>2. CASE i # 1 /\ j # 1
    <3>1. v[i - 1] = v[j - 1] /\ i - 1 \in 1 .. k /\ j - 1 \in 1 .. k
      BY <1>6, <1>9, <2>2
    <3>2. i - 1 = j - 1
      BY <1>4, <3>1
    <3> QED
      BY <3>2
  <2> QED
    BY <2>1, <2>2
<1>10. m.cnt = k + 1
  BY <1>1, <1>5 DEF Lined
<1>11. ASSUME k = 0 PROVE Lined(m, u, k + 1)
  <2>1. m = [a EXCEPT !.head = n, !.tail = n, !.cnt = a.cnt + 1]
    BY <1>0, <1>1, <1>11 DEF dht_list_add_node_head, Lined
  <2>2. m.head = n /\ m.tail = n /\ m.next = a.next /\ m.prev = a.prev
    BY <1>0, <2>1 DEF ListOf
  <2> HIDE DEF m
  <2>3. \A i \in 1 .. k + 1 : /\ i = 1 /\ i = k + 1
                              /\ m.next[u[i]] = Null /\ m.prev[u[i]] = Null
    BY <1>2, <1>6, <1>11, <2>2
  <2>4. m.head = u[1] /\ m.tail = u[k + 1]
    BY <1>6, <1>11, <2>2
  <2> QED
    BY <1>7, <1>8, <1>9, <1>10, <2>3, <2>4 DEF Lined
<1>12. ASSUME k # 0 PROVE Lined(m, u, k + 1)
  <2>1. k \in 1 .. k /\ 1 \in 1 .. k
    BY <1>12
  <2>2. a.head = v[1] /\ a.tail = v[k] /\ a.head # Null
    BY <1>1, <1>3, <1>12, <2>1, NodeAssumption DEF Lined
  <2>3. /\ m.head = n /\ m.tail = a.tail
        /\ m.next = [a.next EXCEPT ![n] = v[1]]
        /\ m.prev = [a.prev EXCEPT ![v[1]] = n]
    BY <1>0, <2>2 DEF dht_list_add_node_head, ListOf
  <2> HIDE DEF m
  <2>4. /\ \A x \in Node \ {n} : m.next[x] = l.next[x]
        /\ m.next[n] = v[1]
        /\ \A x \in Node \ {n, v[1]} : m.prev[x] = l.prev[x]
        /\ m.prev[n] = Null /\ m.prev[v[1]] = n
    BY <1>0, <1>2, <1>3, <2>1, <2>3 DEF ListOf
  <2>5. ASSUME NEW i \in 1 .. k + 1
        PROVE  /\ m.next[u[i]] = IF i = k + 1 THEN Null ELSE u[i + 1]
               /\ m.prev[u[i]] = IF i = 1 THEN Null ELSE u[i - 1]
    <3>1. CASE i = 1
      BY <1>6, <1>12, <2>1, <2>4, <3>1
    <3>2. CASE i # 1
      <4> DEFINE j == i - 1
      <4>1. j \in 1 .. k /\ u[i] = v[j] /\ i = j + 1
        BY <1>6, <3>2
      <4> HIDE DEF j
      <4>2. m.next[v[j]] = IF j = k THEN Null ELSE v[j + 1]
        BY <1>3, <1>4, <2>4, <4>1
      <4>3. j # k => j + 1 \in 1 .. k /\ u[i + 1] = v[j + 1]
        BY <1>6, <4>1
      <4>4. m.prev[v[j]] = IF j = 1 THEN n ELSE v[j - 1]
        BY <1>3, <1>4, <2>1, <2>4, <4>1
      <4>5. j # 1 => j - 1 \in 1 .. k /\ u[j] = v[j - 1]
        BY <1>6, <4>1
      <4> QED
        BY <1>6, <3>2, <4>1, <4>2, <4>3, <4>4, <4>5
    <3> QED
      BY <3>1, <3>2
  <2>6. m.head = u[1] /\ m.tail = u[k + 1]
    BY <1>6, <2>1, <2>2, <2>3
  <2> QED
    BY <1>7, <1>8, <1>9, <1>10, <2>5, <2>6 DEF Lined
<1>13. Lined(m, u, k + 1)
  BY <1>11, <1>12
<1> QED
  BY <1>13 DEF u, m, a

(* A chain without its i-th node.                                          *)
Without(v, k, i) == [j \in 1 .. k - 1 |-> IF j < i THEN v[j] ELSE v[j + 1]]

(* A sole node, or one with neighbours on both sides, leaves a chain, and  *)
(* the others keep their order.                                            *)
LEMMA RemoveLined ==
  ASSUME NEW D, NEW l \in ListOf(D), NEW k \in Nat, NEW v, Lined(l, v, k),
         NEW i \in 1 .. k, k = 1 \/ (i # 1 /\ i # k)
  PROVE  Lined(FreeNode(dht_list_remove_node(l, v[i]), v[i]),
               Without(v, k, i), k - 1)
<1> DEFINE n == v[i]
           r == dht_list_remove_node(l, n)
           m == FreeNode(r, n)
           u == Without(v, k, i)
<1>1. \A j \in 1 .. k : v[j] \in l.used /\ v[j] \in Node
  BY DEF Lined
<1>2. /\ \A x, y \in 1 .. k : v[x] = v[y] => x = y
      /\ \A j \in 1 .. k :
           /\ l.next[v[j]] = IF j = k THEN Null ELSE v[j + 1]
           /\ l.prev[v[j]] = IF j = 1 THEN Null ELSE v[j - 1]
      /\ l.head = v[1] /\ l.tail = v[k] /\ l.cnt = k
      /\ l.used = {v[j] : j \in 1 .. k}
  BY DEF Lined
<1>3. Chain(l) /\ n \in l.used /\ n \in Node
  BY <1>1, LinedChain
<1>4. CanRemove(l, n)
  BY <1>3, ChainFollows
<1>5. r \in ListOf(D) /\ r.cnt = k - 1 /\ r.used = l.used
  BY <1>2, <1>3, <1>4, RemoveType
<1>6. /\ m.used = l.used \ {n} /\ m.cnt = k - 1
      /\ m.head = r.head /\ m.tail = r.tail
      /\ \A x \in Node \ {n} : m.next[x] = r.next[x] /\ m.prev[x] = r.prev[x]
  <2>1. /\ m.used = r.used \ {n} /\ m.cnt = r.cnt
        /\ m.head = r.head /\ m.tail = r.tail
        /\ m.next = [r.next EXCEPT ![n] = Null]
        /\ m.prev = [r.prev EXCEPT ![n] = Null]
    BY <1>5 DEF FreeNode, ListOf
  <2> HIDE DEF m, r
  <2> QED
    BY <1>3, <1>5, <2>1 DEF ListOf
<1>7. \A j \in 1 .. k - 1 :
        LET q == IF j < i THEN j ELSE j + 1
        IN  u[j] = v[q] /\ q \in 1 .. k /\ q # i
  BY DEF Without
<1>8. \A q \in 1 .. k : q # i =>
        LET j == IF q < i THEN q ELSE q - 1
        IN  u[j] = v[q] /\ j \in 1 .. k - 1
  BY DEF Without
<1>9. u \in [1 .. k - 1 -> Node]
  <2>1. \A j \in 1 .. k - 1 : u[j] \in Node
    BY <1>1, <1>7
  <2> QED
    BY <2>1 DEF Without
<1> HIDE DEF u
<1>10. m.used = {u[j] : j \in 1 .. k - 1}
  <2>1. \A j \in 1 .. k - 1 : u[j] \in m.used
    BY <1>1, <1>2, <1>6, <1>7
  <2>2. \A x \in m.used : \E j \in 1 .. k - 1 : u[j] = x
    <3> SUFFICES ASSUME NEW x \in m.used PROVE \E j \in 1 .. k - 1 : u[j] = x
      OBVIOUS
    <3>1. PICK q \in 1 .. k : v[q] = x
      BY <1>2, <1>6
    <3>2. q # i
      BY <1>6, <3>1
    <3> QED
      BY <1>8, <3>1, <3>2
  <2> QED
    BY <2>1, <2>2
<1>11. ASSUME NEW x \in 1 .. k - 1, NEW y \in 1 .. k - 1, u[x] = u[y]
       PROVE  x = y
  <2> DEFINE p == IF x < i THEN x ELSE x + 1
             q == IF y < i THEN y ELSE y + 1
  <2>1. p = q
    BY <1>2, <1>7, <1>11
  <2> QED
    BY <2>1
<1>12. ASSUME k = 1 PROVE Lined(m, u, k - 1)
  <2>1. IsSole(l, n) /\ k - 1 = 0
    BY <1>2, <1>12 DEF IsSole
  <2>2. r.head = Null /\ r.tail = Null
    BY <2>1 DEF dht_list_remove_node, Unlink, __dht_list_remove, IsSole, IsTail, IsInterior,
       ListOf
  <2> HIDE DEF m, r
  <2> QED
    BY <1>6, <1>9, <1>10, <1>11, <2>1, <2>2 DEF Lined
<1>13. ASSUME i # 1, i # k PROVE Lined(m, u, k - 1)
  <2>1. /\ i - 1 \in 1 .. k /\ i + 1 \in 1 .. k /\ 1 \in 1 .. k /\ k \in 1 .. k
        /\ (i - 1) + 1 = i /\ (i + 1) - 1 = i
    BY <1>13
  <2>2. l.next[n] = v[i + 1] /\ l.prev[n] = v[i - 1]
    BY <1>2, <1>13
  <2>3. IsInterior(l, n)
    BY <1>2, <1>13, <2>1 DEF IsInterior
  <2>4. /\ r.head = v[1] /\ r.tail = v[k]
        /\ r.prev = [l.prev EXCEPT ![v[i + 1]] = v[i - 1]]
        /\ r.next = [l.next EXCEPT ![v[i - 1]] = v[i + 1]]
    <3>1. Unlink(l, n) = [l EXCEPT !.prev[v[i + 1]] = v[i - 1],
                                   !.next[v[i - 1]] = v[i + 1]]
      BY <2>2, <2>3 DEF Unlink, __dht_list_remove, IsSole, IsTail, IsInterior
    <3> QED
      BY <1>2, <3>1 DEF dht_list_remove_node, ListOf
  <2> HIDE DEF m, r, n
  <2>5. /\ \A x \in Node : m.next[x] = IF x = v[i - 1] THEN v[i + 1]
                                       ELSE IF x = n THEN m.next[x]
                                       ELSE l.next[x]
        /\ \A x \in Node : m.prev[x] = IF x = v[i + 1] THEN v[i - 1]
                                       ELSE IF x = n THEN m.prev[x]
                                       ELSE l.prev[x]
    <3>1. v[i - 1] # n /\ v[i + 1] # n
      BY <1>2, <2>1 DEF n
    <3> QED
      BY <1>1, <1>6, <2>1, <2>4, <3>1 DEF ListOf
  <2>6. ASSUME NEW j \in 1 .. k - 1
        PROVE  /\ m.next[u[j]] = IF j = k - 1 THEN Null ELSE u[j + 1]
               /\ m.prev[u[j]] = IF j = 1 THEN Null ELSE u[j - 1]
    <3> DEFINE q == IF j < i THEN j ELSE j + 1
    <3>1. u[j] = v[q] /\ q \in 1 .. k /\ q # i
      BY <1>7
    <3>2. /\ v[q] \in Node /\ v[q] # n
          /\ v[q] = v[i - 1] <=> q = i - 1
          /\ v[q] = v[i + 1] <=> q = i + 1
      BY <1>1, <1>2, <2>1, <3>1 DEF n
    <3>3. /\ m.next[u[j]] = IF q = i - 1 THEN v[i + 1]
                            ELSE IF q = k THEN Null ELSE v[q + 1]
          /\ m.prev[u[j]] = IF q = i + 1 THEN v[i - 1]
                            ELSE IF q = 1 THEN Null ELSE v[q - 1]
      BY <1>2, <2>5, <3>1, <3>2
    <3>4. j # k - 1 => /\ j + 1 \in 1 .. k - 1
                       /\ u[j + 1] = v[IF j + 1 < i THEN j + 1 ELSE j + 2]
      BY <1>7
    <3>5. j # 1 => /\ j - 1 \in 1 .. k - 1
                   /\ u[j - 1] = v[IF j - 1 < i THEN j - 1 ELSE j]
      BY <1>7
    <3>6. m.next[u[j]] = IF j = k - 1 THEN Null ELSE u[j + 1]
      BY <1>13, <3>3, <3>4
    <3>7. m.prev[u[j]] = IF j = 1 THEN Null ELSE u[j - 1]
      BY <1>13, <3>3, <3>5
    <3> QED
      BY <3>6, <3>7
  <2>7. m.head = u[1] /\ m.tail = u[k - 1] /\ k - 1 # 0
    BY <1>6, <1>8, <1>13, <2>1, <2>4
  <2> QED
    BY <1>6, <1>9, <1>10, <1>11, <2>6, <2>7 DEF Lined
<1>14. Lined(m, u, k - 1)
  BY <1>12, <1>13
<1> QED
  BY <1>14 DEF u

(* An end of several nodes that leaves breaks the chain: the list goes on  *)
(* naming the node that was freed.                                         *)
LEMMA RemoveEndBreaks ==
  ASSUME NEW D, NEW l \in ListOf(D), NEW k \in Nat, NEW v, Lined(l, v, k),
         NEW i \in 1 .. k, k # 1, i = 1 \/ i = k
  PROVE  ~Chain(FreeNode(dht_list_remove_node(l, v[i]), v[i]))
<1> DEFINE n == v[i]
           r == dht_list_remove_node(l, n)
           m == FreeNode(r, n)
<1>1. /\ 1 \in 1 .. k /\ k \in 1 .. k /\ k # 1
      /\ l.head = v[1] /\ l.tail = v[k] /\ v[1] # v[k]
      /\ n \in l.used /\ n \in Node /\ l.cnt = k
  BY DEF Lined
<1>2. CanRemove(l, n)
  BY <1>1, LinedChain, ChainFollows
<1>3. r \in ListOf(D) /\ r.cnt = k - 1 /\ r.used = l.used
  BY <1>1, <1>2, RemoveType
<1>4. r.head = l.head /\ r.tail = l.tail
  <2>1. Unlink(l, n).head = l.head /\ Unlink(l, n).tail = l.tail
    BY <1>1 DEF Unlink, __dht_list_remove, IsSole, IsTail, IsInterior, ListOf
  <2>2. Unlink(l, n) \in ListOf(D)
    BY <1>1, <1>2, UnlinkType
  <2> QED
    BY <2>1, <2>2 DEF dht_list_remove_node, ListOf
<1>5. m \in ListOf(D)
  BY <1>1, <1>3, FreeType
<1>6. m.used = r.used \ {n} /\ m.cnt = r.cnt /\ m.head = r.head
      /\ m.tail = r.tail
  BY <1>3 DEF FreeNode, ListOf
<1> HIDE DEF m, r
<1>7. n = m.head \/ n = m.tail
  BY <1>1, <1>4, <1>6
<1>8. ASSUME Chain(m) PROVE FALSE
  <2> DEFINE K == Cardinality(m.used)
             x == Order(m)
  <2>1. Lined(m, x, K) /\ K \in Nat
    BY <1>5, <1>8, ChainLined, UsedBound
  <2> HIDE DEF K, x
  <2>2. K = k - 1 /\ K # 0
    BY <1>1, <1>3, <1>6, <2>1 DEF Lined
  <2>3. m.head = x[1] /\ m.tail = x[K] /\ 1 \in 1 .. K /\ K \in 1 .. K
    BY <2>1, <2>2 DEF Lined
  <2>4. m.head \in m.used /\ m.tail \in m.used
    BY <2>1, <2>3 DEF Lined
  <2> QED
    BY <1>6, <1>7, <2>4
<1> QED
  BY <1>8 DEF m, r

-----------------------------------------------------------------------------
(* Lost nodes.  A removal at an end of a list may cut the walk off from    *)
(* nodes that are still in use.  The nodes S are closed if neither the     *)
(* head nor a pointer of theirs leads to another node in use.              *)
Closed(l, S) ==
  /\ l.head \in l.used => l.head \in S
  /\ \A x \in S : l.next[x] \in l.used => l.next[x] \in S

(* No walk over l comes to all of its nodes.                               *)
Lost(l) == \E S \in SUBSET l.used : S # l.used /\ Closed(l, S)

(* A walk does not leave a closed set for another node in use.             *)
LEMMA ClosedWalk ==
  ASSUME NEW l, NEW S \in SUBSET l.used, Closed(l, S),
         NEW i \in 0 .. Cardinality(Node), Walk(l)[i] \in l.used
  PROVE  Walk(l)[i] \in S
<1> DEFINE N == Cardinality(Node)
           w == Walk(l)
           T == {k \in 0 .. N : w[k] \in l.used /\ w[k] \notin S}
<1>0. /\ N \in Nat /\ w[0] = l.head
      /\ \A k \in 1 .. N : w[k] = StepFrom(l, w[k - 1])
  BY WalkSteps
<1> HIDE DEF w, N
<1> SUFFICES ASSUME T # {} PROVE FALSE
  BY DEF w, N
<1>1. T \in SUBSET Nat
  BY <1>0
<1>2. PICK m \in T : \A k \in T : m <= k
  <2> HIDE DEF T
  <2> QED
    BY <1>1, LeastNat
<1>3. m # 0
  BY <1>0 DEF Closed
<1>4. /\ m - 1 \in 0 .. N /\ m - 1 \notin T
      /\ w[m] = StepFrom(l, w[m - 1])
  BY <1>0, <1>2, <1>3
<1>5. w[m - 1] \in S
  BY <1>2, <1>4 DEF StepFrom
<1> QED
  BY <1>2, <1>4, <1>5 DEF Closed, StepFrom

(* A list that has lost nodes is no chain.                                 *)
LEMMA LostBreaks ==
  ASSUME NEW D, NEW l \in ListOf(D), Lost(l)
  PROVE  ~Chain(l)
<1> SUFFICES ASSUME Chain(l) PROVE FALSE
  OBVIOUS
<1>1. PICK S \in SUBSET l.used : S # l.used /\ Closed(l, S)
  BY DEF Lost
<1>2. PICK n \in l.used : n \notin S
  BY <1>1
<1>3. /\ Cardinality(l.used) \in Nat /\ Cardinality(Node) \in Nat
      /\ Cardinality(l.used) <= Cardinality(Node)
      /\ {Walk(l)[i] : i \in 0 .. Cardinality(l.used) - 1} = l.used
  BY UsedBound, WalkSteps DEF Chain
<1>4. PICK i \in 0 .. Cardinality(l.used) - 1 : Walk(l)[i] = n
  BY <1>3
<1>5. i \in 0 .. Cardinality(Node)
  BY <1>3
<1> QED
  BY <1>1, <1>2, <1>4, <1>5, ClosedWalk

(* If a search ends without the node that holds d, though there is one,    *)
(* the list has lost it.                                                   *)
LEMMA MissLost ==
  ASSUME NEW D, NEW l \in ListOf(D), NEW d, NEW n \in l.used, l.data[n] = d,
         FirstWith(l, d) = Null
  PROVE  Lost(l)
<1> DEFINE N == Cardinality(Node)
           w == Walk(l)
           S == {x \in l.used : \E k \in 0 .. N : w[k] = x}
<1>0. /\ N \in Nat /\ w[0] = l.head
      /\ \A k \in 1 .. N : w[k] = StepFrom(l, w[k - 1])
  BY WalkSteps
<1>1. Null \notin l.used
  BY NodeAssumption DEF ListOf
<1>2. \/ /\ \A k \in 0 .. N : ~Holds(l, w[k], d)
         /\ FirstWith(l, d) = w[N]
      \/ \E k \in 0 .. N : FirstWith(l, d) = w[k] /\ Holds(l, w[k], d)
  BY FirstWithStops
<1>3. /\ \A k \in 0 .. N : ~Holds(l, w[k], d)
      /\ w[N] = Null
  BY <1>1, <1>2 DEF Holds
<1> HIDE DEF w, N
<1>4. n \notin S
  BY <1>3 DEF Holds
<1>5. l.head \in l.used => l.head \in S
  BY <1>0
<1>6. ASSUME NEW x \in S, l.next[x] \in l.used PROVE l.next[x] \in S
  <2>1. PICK k \in 0 .. N : w[k] = x
    OBVIOUS
  <2>2. k # N
    BY <1>1, <1>3, <2>1
  <2>3. k + 1 \in 1 .. N /\ k + 1 \in 0 .. N /\ (k + 1) - 1 = k
    BY <1>0, <2>2
  <2>4. w[k + 1] = l.next[x]
    BY <1>0, <2>1, <2>3 DEF StepFrom
  <2> QED
    BY <1>6, <2>3, <2>4
<1>7. S \in SUBSET l.used
  OBVIOUS
<1> HIDE DEF S
<1> QED
  BY <1>4, <1>5, <1>6, <1>7 DEF Lost, Closed

(* A node added at the head finds none of them again ...                   *)
LEMMA LostAdds ==
  ASSUME NEW D, NEW l \in ListOf(D), NEW n \in Node, n \notin l.used,
         NEW d \in D, Lost(l)
  PROVE  Lost(dht_list_add_node_head(npl_node_alloc(l, n, d), n))
<1> DEFINE a == npl_node_alloc(l, n, d)
           m == dht_list_add_node_head(a, n)
<1>1. PICK S \in SUBSET l.used : S # l.used /\ Closed(l, S)
  BY DEF Lost
<1>0. a \in ListOf(D)
  BY AllocType
<1>2. /\ a.used = l.used \cup {n} /\ a.head = l.head
      /\ a.next = [l.next EXCEPT ![n] = Null]
  BY DEF npl_node_alloc, ListOf
<1>3. \A x \in Node \ {n} : a.next[x] = l.next[x]
  BY <1>2 DEF ListOf
<1>4. a.next[n] = Null
  BY <1>2 DEF ListOf
<1> HIDE DEF a
<1>5. /\ m.used = a.used /\ m.head = n
      /\ m.next = a.next \/ m.next = [a.next EXCEPT ![n] = a.head]
  BY <1>0, <1>2 DEF dht_list_add_node_head, ListOf
<1> HIDE DEF m
<1>6. /\ m.next[n] \in {Null, l.head}
      /\ \A x \in Node \ {n} : m.next[x] = l.next[x]
  BY <1>2, <1>3, <1>4, <1>5 DEF ListOf
<1>7. Null \notin Node /\ l.used \subseteq Node
  BY NodeAssumption DEF ListOf
<1> DEFINE R == S \cup {n}
<1>8. R \in SUBSET m.used /\ R # m.used
  BY <1>1, <1>2, <1>5
<1>9. ASSUME NEW x \in R, m.next[x] \in m.used PROVE m.next[x] \in R
  <2>1. CASE x = n
    BY <1>1, <1>2, <1>5, <1>6, <1>7, <1>9, <2>1 DEF Closed
  <2>2. CASE x # n
    BY <1>1, <1>2, <1>5, <1>6, <1>7, <1>9, <2>2 DEF Closed
  <2> QED
    BY <2>1, <2>2
<1>10. m.head \in R
  BY <1>5
<1> HIDE DEF R
<1>11. Lost(m)
  BY <1>8, <1>9, <1>10 DEF Lost, Closed
<1> QED
  BY <1>11 DEF m, a

(* ... and the removal of a node that a walk comes to leaves them lost.    *)
LEMMA LostRemoves ==
  ASSUME NEW D, NEW l \in ListOf(D), NEW i \in 0 .. Cardinality(Node),
         NEW n \in Node, n = Walk(l)[i], CanRemove(l, n), Lost(l)
  PROVE  Lost(FreeNode(dht_list_remove_node(l, n), n))
<1> DEFINE u == Unlink(l, n)
           r == dht_list_remove_node(l, n)
           m == FreeNode(r, n)
<1>1. PICK S \in SUBSET l.used : S # l.used /\ Closed(l, S)
  BY DEF Lost
<1>2. n \in l.used
  BY DEF CanRemove
<1>3. n \in S
  BY <1>1, <1>2, ClosedWalk
<1>4. u \in ListOf(D)
  BY UnlinkType
<1>5. /\ u.head \in {l.head, Null}
      /\ \/ u.next = l.next
         \/ u.next = [l.next EXCEPT ![l.prev[n]] = Null]
         \/ u.next = [l.next EXCEPT ![l.prev[n]] = l.next[n]]
  BY DEF Unlink, __dht_list_remove, ListOf
<1>6. r \in ListOf(D) /\ r.used = l.used
  BY RemoveType
<1>7. r.head = u.head /\ r.next = u.next
  BY <1>4 DEF dht_list_remove_node, ListOf
<1> HIDE DEF u, r
<1>8. /\ m.used = l.used \ {n} /\ m.head = r.head
      /\ m.next = [r.next EXCEPT ![n] = Null]
  BY <1>6 DEF FreeNode, ListOf
<1> HIDE DEF m
<1>9. ASSUME NEW x \in Node \ {n}
      PROVE  m.next[x] \in {l.next[x], l.next[n], Null}
  <2>1. m.next[x] = r.next[x]
    BY <1>6, <1>8 DEF ListOf
  <2>2. r.next[x] \in {l.next[x], l.next[n], Null}
    BY <1>5, <1>7 DEF ListOf
  <2> QED
    BY <2>1, <2>2
<1>10. Null \notin Node /\ l.used \subseteq Node
  BY NodeAssumption DEF ListOf
<1> DEFINE R == S \ {n}
<1>11. R \in SUBSET m.used /\ R # m.used
  BY <1>1, <1>2, <1>3, <1>8
<1>12. m.head \in m.used => m.head \in R
  BY <1>1, <1>5, <1>7, <1>8, <1>10 DEF Closed
<1>13. ASSUME NEW x \in R, m.next[x] \in m.used PROVE m.next[x] \in R
  <2>1. m.next[x] \in l.used /\ m.next[x] # n /\ m.next[x] # Null
    BY <1>8, <1>10, <1>13
  <2>2. m.next[x] \in {l.next[x], l.next[n]}
    BY <1>9, <1>10, <2>1
  <2>3. m.next[x] \in S
    BY <1>1, <1>3, <2>1, <2>2 DEF Closed
  <2> QED
    BY <2>1, <2>3
<1> HIDE DEF R
<1>14. Lost(m)
  BY <1>11, <1>12, <1>13 DEF Lost, Closed
<1> QED
  BY <1>14 DEF m, r

=============================================================================
