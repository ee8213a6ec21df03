--------------------------- MODULE TrackListProofs ---------------------------
(***************************************************************************)
(* The properties of TrackListSpec proved for every set of nodes and every *)
(* behaviour: what holds also of lists whose pointers are damaged, what    *)
(* holds of chains, and that the list implements NodeSeq.                  *)
(***************************************************************************)
EXTENDS TrackListSpec, TrackListLemmas, Sequences

(* Both invariants together are inductive: the count needs the type, for   *)
(* the set of nodes in use to be finite.                                   *)
ListInv == TypeOK /\ CountExact

(* A list begins empty, and so typed and counted.                          *)
LEMMA ListInit == Init => ListInv
  BY EmptyListType, EmptyListCounted
  DEF Init, ListInv, TypeOK, CountExact, Counted

(* Every addition, removal and fault keeps both.                           *)
LEMMA ListNext == ListInv /\ [Next]_vars => ListInv'
<1> SUFFICES ASSUME ListInv, [Next]_vars PROVE ListInv'
  OBVIOUS
<1>0. list \in ListOf(Item) /\ fault \in BOOLEAN /\ Counted(list)
  BY DEF ListInv, TypeOK, CountExact, Counted
<1>1. ASSUME NEW n \in Node, NEW d \in Item, AddTail(n, d) PROVE ListInv'
  <2> DEFINE m == npl_node_alloc(list, n, d)
  <2>1. CASE CanAddTail(m) /\ list' = dht_list_add_node_tail(m, n)
               /\ UNCHANGED fault
    <3>1. n \notin list.used
      BY <1>1 DEF AddTail
    <3>2. dht_list_add_node_tail(m, n) \in ListOf(Item)
      BY <1>0, <2>1, AllocType, AddTailType
    <3>3. Counted(dht_list_add_node_tail(m, n))
      BY <1>0, <2>1, <3>1, AddCounted
    <3> QED
      BY <1>0, <2>1, <3>2, <3>3 DEF ListInv, TypeOK, CountExact, Counted
  <2>2. CASE fault' = TRUE /\ UNCHANGED list
    BY <1>0, <2>2 DEF ListInv, TypeOK, CountExact, Counted
  <2> QED
    BY <1>1, <2>1, <2>2 DEF AddTail, Step
<1>2. ASSUME NEW n \in Node, NEW d \in Item, AddHead(n, d) PROVE ListInv'
  <2> DEFINE m == npl_node_alloc(list, n, d)
  <2>1. CASE CanAddHead(m) /\ list' = dht_list_add_node_head(m, n)
               /\ UNCHANGED fault
    <3>1. n \notin list.used
      BY <1>2 DEF AddHead
    <3>2. dht_list_add_node_head(m, n) \in ListOf(Item)
      BY <1>0, <2>1, AllocType, AddHeadType
    <3>3. Counted(dht_list_add_node_head(m, n))
      BY <1>0, <2>1, <3>1, AddCounted
    <3> QED
      BY <1>0, <2>1, <3>2, <3>3 DEF ListInv, TypeOK, CountExact, Counted
  <2>2. CASE fault' = TRUE /\ UNCHANGED list
    BY <1>0, <2>2 DEF ListInv, TypeOK, CountExact, Counted
  <2> QED
    BY <1>2, <2>1, <2>2 DEF AddHead, Step
<1>3. ASSUME NEW n \in Node, Remove(n) PROVE ListInv'
  <2> DEFINE m == FreeNode(dht_list_remove_node(list, n), n)
  <2>1. CASE CanRemove(list, n) /\ list' = m /\ UNCHANGED fault
    <3>1. m \in ListOf(Item)
      BY <1>0, <2>1, RemoveType, FreeType
    <3>2. Counted(m)
      BY <1>0, <2>1, RemoveCounted
    <3> QED
      BY <1>0, <2>1, <3>1, <3>2 DEF ListInv, TypeOK, CountExact, Counted
  <2>2. CASE fault' = TRUE /\ UNCHANGED list
    BY <1>0, <2>2 DEF ListInv, TypeOK, CountExact, Counted
  <2> QED
    BY <1>3, <2>1, <2>2 DEF Remove, Step
<1>4. CASE UNCHANGED vars
  BY <1>0, <1>4 DEF ListInv, TypeOK, CountExact, Counted, vars
<1> QED
  BY <1>1, <1>2, <1>3, <1>4 DEF Next

(* Every field of a list keeps its type, in every behaviour.               *)
THEOREM ListTyped == Spec => []TypeOK
<1>1. ListInv => TypeOK
  BY DEF ListInv
<1> QED
  BY <1>1, ListInit, ListNext, PTL DEF Spec

(* The counter by which the library decides that a block is no longer used *)
(* is the number of nodes not yet freed: in every behaviour, for any set   *)
(* of nodes, and also after removals at the ends have damaged the chain.   *)
THEOREM CountAlwaysExact == Spec => []CountExact
<1>1. ListInv => CountExact
  BY DEF ListInv
<1> QED
  BY <1>1, ListInit, ListNext, PTL DEF Spec

-----------------------------------------------------------------------------
(* What holds while the list is a chain.                                   *)

(* The library's search of a chain (the loops of tfuncs.c) finds the first *)
(* node that holds a structure, or that there is none, for every number of *)
(* nodes.                                                                  *)
THEOREM SearchAlwaysFinds == Spec => []SearchFinds
<1>1. ListInv => SearchFinds
  <2> SUFFICES ASSUME ListInv, Chain(list), NEW d \in Item
               PROVE  LET w     == Walk(list)
                          found == FirstWith(list, d)
                      IN  IF \E n \in list.used : list.data[n] = d
                          THEN \E i \in DOMAIN w :
                                 /\ w[i] = found
                                 /\ Holds(list, found, d)
                                 /\ \A j \in 0 .. i - 1 : list.data[w[j]] # d
                          ELSE found = Null
    BY DEF SearchFinds
  <2>1. list \in ListOf(Item)
    BY DEF ListInv, TypeOK
  <2>2. DOMAIN Walk(list) = 0 .. Cardinality(Node)
    BY WalkSteps
  <2>3. IF \E n \in list.used : list.data[n] = d
        THEN \E i \in 0 .. Cardinality(Node) :
               /\ Walk(list)[i] = FirstWith(list, d)
               /\ Holds(list, FirstWith(list, d), d)
               /\ \A j \in 0 .. i - 1 : list.data[Walk(list)[j]] # d
        ELSE FirstWith(list, d) = Null
    BY ONLY <2>1, ChainSearch, Chain(list), NodeAssumption
  <2> QED
    BY <2>2, <2>3, Zenon
<1> QED
  BY <1>1, ListInit, ListNext, PTL DEF Spec

(* What a chain is asked to do, it does.                                   *)
LEMMA ChainSteps ==
  ASSUME ListInv, Chain(list), ~fault
  PROVE  /\ \A n \in Node, d \in Item :
              LET l == npl_node_alloc(list, n, d)
              IN  /\ AddTail(n, d) =>
                       list' = dht_list_add_node_tail(l, n) /\ ~fault'
                  /\ AddHead(n, d) =>
                       list' = dht_list_add_node_head(l, n) /\ ~fault'
         /\ \A n \in Node : Remove(n) =>
              list' = FreeNode(dht_list_remove_node(list, n), n) /\ ~fault'
<1>1. list \in ListOf(Item)
  BY DEF ListInv, TypeOK
<1>2. CanAddTail(list) /\ CanAddHead(list)
      /\ \A n \in list.used : CanRemove(list, n)
  BY <1>1, ChainFollows
<1>3. \A n \in Node, d \in Item :
        LET l == npl_node_alloc(list, n, d) IN CanAddTail(l) /\ CanAddHead(l)
  BY <1>1, <1>2, AllocFollows
<1>4. ASSUME NEW n \in Node, NEW d \in Item
      PROVE  LET l == npl_node_alloc(list, n, d)
             IN  /\ AddTail(n, d) =>
                      list' = dht_list_add_node_tail(l, n) /\ ~fault'
                 /\ AddHead(n, d) =>
                      list' = dht_list_add_node_head(l, n) /\ ~fault'
  BY <1>3 DEF AddTail, AddHead, Step
<1>5. ASSUME NEW n \in Node, Remove(n)
      PROVE  list' = FreeNode(dht_list_remove_node(list, n), n) /\ ~fault'
  BY <1>2, <1>5 DEF Remove, Step
<1> QED
  BY <1>4, <1>5

(* No operation on a chain follows a pointer to a node that was freed, or  *)
(* a null pointer, for every number of nodes: tracklist.h first goes wrong *)
(* only after it has broken a chain itself.                                *)
THEOREM ChainsNeverFault == Spec => ChainNeverFaults
<1>1. ListInv /\ [Next]_vars => [Chain(list) => ~fault']_vars
  <2> SUFFICES ASSUME ListInv, Next, Chain(list), vars' # vars
               PROVE  ~fault'
    BY DEF vars
  <2>1. ~fault
    BY DEF Next, AddTail, AddHead, Remove
  <2> QED
    BY <2>1, ChainSteps DEF Next
<1> QED
  BY <1>1, ListInit, ListNext, PTL DEF Spec, ChainNeverFaults

-----------------------------------------------------------------------------
(* The list implements NodeSeq.  The sequence is the order in which a walk *)
(* comes to the nodes of a chain.                                          *)

Nodes == IF Chain(list) THEN Order(list) ELSE <<>>

(* The nodes of a chain as a sequence: each occurs once.                   *)
LEMMA OrderSeq ==
  ASSUME ListInv, Chain(list)
  PROVE  /\ Lined(list, Nodes, Cardinality(list.used))
         /\ Cardinality(list.used) \in Nat
         /\ Nodes \in Seq(Node)
         /\ Len(Nodes) = Cardinality(list.used)
<1>1. list \in ListOf(Item)
  BY DEF ListInv, TypeOK
<1>2. Lined(list, Nodes, Cardinality(list.used))
      /\ Cardinality(list.used) \in Nat
  BY <1>1, ChainLined, UsedBound DEF Nodes
<1>3. Nodes \in Seq(Node) /\ Len(Nodes) = Cardinality(list.used)
      /\ DOMAIN Nodes = 1 .. Cardinality(list.used)
  BY <1>2 DEF Lined
<1> QED
  BY <1>2, <1>3

(* What an addition and a removal do to the set of nodes.                  *)
LEMMA UsedOf ==
  ASSUME list \in ListOf(Item), NEW n \in Node, NEW d
  PROVE  /\ dht_list_add_node_tail(npl_node_alloc(list, n, d), n).used
              = list.used \cup {n}
         /\ dht_list_add_node_head(npl_node_alloc(list, n, d), n).used
              = list.used \cup {n}
         /\ FreeNode(dht_list_remove_node(list, n), n).used = list.used \ {n}
  BY DEF ListOf, npl_node_alloc, dht_list_add_node_tail,
    dht_list_add_node_head, FreeNode, dht_list_remove_node, Unlink,
    __dht_list_remove

(* An addition at the tail of a chain is AddLast.                          *)
LEMMA TailImplements ==
  ASSUME ListInv, ListInv', Chain(list), NEW n \in Node, NEW d \in Item,
         n \notin list.used,
         list' = dht_list_add_node_tail(npl_node_alloc(list, n, d), n)
  PROVE  Promise!AddLast(n)
<1> DEFINE k == Cardinality(list.used)
           u == [i \in 1 .. k + 1 |-> IF i = k + 1 THEN n ELSE Nodes[i]]
<1>1. list \in ListOf(Item) /\ list' \in ListOf(Item)
  BY DEF ListInv, TypeOK
<1>2. /\ Lined(list, Nodes, k) /\ k \in Nat
      /\ Nodes \in Seq(Node) /\ Len(Nodes) = k
  BY OrderSeq
<1> HIDE DEF k
<1>3. Lined(list', u, k + 1)
  BY <1>1, <1>2, AddTailLined
<1>4. Chain(list') /\ Order(list') = u
  BY <1>1, <1>2, <1>3, LinedChain
<1>5. u = Nodes \o <<n>>
  BY <1>2
<1> HIDE DEF u
<1>6. Nodes' = Nodes \o <<n>> /\ Chain(list)'
  BY <1>4, <1>5 DEF Nodes
<1> QED
  BY <1>1, <1>6, UsedOf DEF Promise!AddLast, Promise!Enters, Nodes, Order

(* An addition at the head of a chain is AddFirst.                         *)
LEMMA HeadImplements ==
  ASSUME ListInv, ListInv', Chain(list), NEW n \in Node, NEW d \in Item,
         n \notin list.used,
         list' = dht_list_add_node_head(npl_node_alloc(list, n, d), n)
  PROVE  Promise!AddFirst(n)
<1> DEFINE k == Cardinality(list.used)
           u == [i \in 1 .. k + 1 |-> IF i = 1 THEN n ELSE Nodes[i - 1]]
<1>1. list \in ListOf(Item) /\ list' \in ListOf(Item)
  BY DEF ListInv, TypeOK
<1>2. /\ Lined(list, Nodes, k) /\ k \in Nat
      /\ Nodes \in Seq(Node) /\ Len(Nodes) = k
  BY OrderSeq
<1> HIDE DEF k
<1>3. Lined(list', u, k + 1)
  BY <1>1, <1>2, AddHeadLined
<1>4. Chain(list') /\ Order(list') = u
  BY <1>1, <1>2, <1>3, LinedChain
<1>5. u = <<n>> \o Nodes
  BY <1>2
<1> HIDE DEF u
<1>6. Nodes' = <<n>> \o Nodes /\ Chain(list)'
  BY <1>4, <1>5 DEF Nodes
<1> QED
  BY <1>1, <1>6, UsedOf DEF Promise!AddFirst, Promise!Enters, Nodes, Order

(* A removal from a chain is Leave, or LeaveEnd for one of several ends.   *)
LEMMA RemoveImplements ==
  ASSUME ListInv, ListInv', Chain(list), NEW n \in list.used,
         list' = FreeNode(dht_list_remove_node(list, n), n)
  PROVE  Promise!Leave(n) \/ Promise!LeaveEnd(n)
<1> DEFINE k == Cardinality(list.used)
<1>1. list \in ListOf(Item) /\ list' \in ListOf(Item)
  BY DEF ListInv, TypeOK
<1>2. /\ Lined(list, Nodes, k) /\ k \in Nat
      /\ Nodes \in Seq(Node) /\ Len(Nodes) = k
  BY OrderSeq
<1> HIDE DEF k
<1>3. PICK i \in 1 .. k : Nodes[i] = n
  BY <1>2 DEF Lined
<1>6. Promise!Leaves(n)
  BY <1>1, UsedOf DEF Promise!Leaves, ListOf
<1>4. CASE k = 1 \/ (i # 1 /\ i # k)
  <2> DEFINE u == Without(Nodes, k, i)
  <2>1. Lined(list', u, k - 1)
    BY <1>1, <1>2, <1>3, <1>4, RemoveLined
  <2>2. Chain(list') /\ Order(list') = u
    BY <1>1, <1>2, <2>1, LinedChain
  <2>3. u = SubSeq(Nodes, 1, i - 1) \o SubSeq(Nodes, i + 1, k)
    BY <1>2 DEF Without
  <2> HIDE DEF u
  <2>4. Chain(list)' /\ Nodes' = u
    BY <2>2 DEF Nodes
  <2>5. /\ Nodes' = SubSeq(Nodes, 1, i - 1) \o SubSeq(Nodes, i + 1, Len(Nodes))
        /\ i \in DOMAIN Nodes /\ Nodes[i] = n
        /\ Len(Nodes) = 1 \/ i \notin {1, Len(Nodes)}
    BY <1>2, <1>3, <1>4, <2>3, <2>4
  <2>6. Promise!Leave(n)
    BY <1>6, <2>4, <2>5 DEF Promise!Leave, Nodes, Order
  <2> QED
    BY <2>6
<1>5. CASE k # 1 /\ (i = 1 \/ i = k)
  <2>1. Chain(list)' = FALSE
    <3>1. ~Chain(list')
      BY <1>1, <1>2, <1>3, <1>5, RemoveEndBreaks
    <3> QED
      BY <3>1 DEF Chain
  <2>2. Len(Nodes) > 1 /\ n \in {Nodes[1], Nodes[Len(Nodes)]}
    BY <1>2, <1>3, <1>5
  <2>3. Nodes' = <<>>
    BY <2>1 DEF Nodes
  <2> QED
    BY <1>6, <2>1, <2>2, <2>3 DEF Promise!LeaveEnd, Nodes, Order
<1> QED
  BY <1>4, <1>5

(* A list that is no chain has a node more or a node less after a step.    *)
LEMMA LostImplements ==
  ASSUME ListInv, [Next]_vars, ~Chain(list), list' # list
  PROVE  \E n \in Node : Promise!Lost(n)
<1>1. list \in ListOf(Item)
  BY DEF ListInv, TypeOK
<1>2. ASSUME NEW n \in Node, NEW d \in Item, AddTail(n, d) \/ AddHead(n, d)
      PROVE  n \notin list.used /\ list'.used = list.used \cup {n}
  BY <1>1, <1>2, UsedOf DEF AddTail, AddHead, Step
<1>3. ASSUME NEW n \in Node, Remove(n)
      PROVE  n \in list.used /\ list'.used = list.used \ {n}
  BY <1>1, <1>3, UsedOf DEF Remove, Step
<1>4. \E n \in Node : \/ n \notin list.used /\ list'.used = list.used \cup {n}
                      \/ n \in list.used /\ list'.used = list.used \ {n}
  BY <1>2, <1>3 DEF Next, vars
<1> QED
  BY <1>4 DEF Promise!Lost, Promise!Enters, Promise!Leaves

(* The list of tracklist.h, used in any order, is a sequence of nodes to   *)
(* which nodes are added at either end, and from which one leaves while    *)
(* the others keep their order, until an end of several nodes leaves: for  *)
(* every number of nodes.                                                  *)
THEOREM ListImplementsNodeSeq == Spec => ImplementsNodeSeq
<1>1. Init => Promise!Init
  <2> SUFFICES ASSUME Init PROVE Promise!Init
    OBVIOUS
  <2>1. EmptyList \in ListOf(Item)
    BY EmptyListType
  <2> DEFINE v == [i \in 1 .. 0 |-> Null]
  <2>2. Lined(EmptyList, v, 0)
    BY DEF Lined, EmptyList
  <2>3. Chain(EmptyList) /\ Order(EmptyList) = v
    BY <2>1, <2>2, LinedChain
  <2>4. v = <<>>
    OBVIOUS
  <2>5. Chain(list) /\ Order(list) = <<>>
    BY <2>3, <2>4 DEF Init
  <2> QED
    BY <2>5 DEF Promise!Init, Init, EmptyList, Order
<1>2. ListInv /\ ListInv' /\ [Next]_vars => [Promise!Next]_(Promise!vars)
  <2> SUFFICES ASSUME ListInv, ListInv', [Next]_vars
               PROVE  Promise!Next \/ UNCHANGED Promise!vars
    OBVIOUS
  <2>1. CASE ~Chain(list) /\ list' # list
    BY <2>1, LostImplements DEF Promise!Next
  <2>2. CASE UNCHANGED list
    BY <2>2 DEF Promise!vars
  <2>3. CASE Chain(list) /\ list' # list
    <3>1. ~fault
      BY <2>3 DEF Next, vars, AddTail, AddHead, Remove
    <3>2. ASSUME NEW n \in Node, NEW d \in Item, AddTail(n, d)
          PROVE  Promise!Next
      <4>1. n \notin list.used
            /\ list' = dht_list_add_node_tail(npl_node_alloc(list, n, d), n)
        BY <2>3, <3>1, <3>2, ChainSteps DEF AddTail
      <4> QED
        BY <2>3, <4>1, TailImplements DEF Promise!Next
    <3>3. ASSUME NEW n \in Node, NEW d \in Item, AddHead(n, d)
          PROVE  Promise!Next
      <4>1. n \notin list.used
            /\ list' = dht_list_add_node_head(npl_node_alloc(list, n, d), n)
        BY <2>3, <3>1, <3>3, ChainSteps DEF AddHead
      <4> QED
        BY <2>3, <4>1, HeadImplements DEF Promise!Next
    <3>4. ASSUME NEW n \in Node, Remove(n)
          PROVE  Promise!Next
      <4>1. n \in list.used
            /\ list' = FreeNode(dht_list_remove_node(list, n), n)
        BY <2>3, <3>1, <3>4, ChainSteps DEF Remove
      <4> QED
        BY <2>3, <4>1, RemoveImplements DEF Promise!Next
    <3> QED
      BY <2>3, <3>2, <3>3, <3>4 DEF Next, vars
  <2> QED
    BY <2>1, <2>2, <2>3
<1> QED
  BY <1>1, <1>2, ListInit, ListNext, PTL
  DEF Spec, ImplementsNodeSeq, Promise!Spec

=============================================================================
