------------------------------ MODULE TrackList ------------------------------
(***************************************************************************)
(* The doubly linked list of tracklist.h: dht_list_t and its npl_node_t    *)
(* nodes, as operators on a list value.  The library keeps two kinds of    *)
(* such lists: one main list of all control structures, and one list of    *)
(* links per allocated block.                                              *)
(*                                                                         *)
(* A list value holds the three fields of dht_list_t and the heap of its   *)
(* nodes: "used" is the set of node addresses that malloc has handed out   *)
(* for this list and free has not taken back.  The fields of a node that   *)
(* is not in "used" mean nothing and are kept at Null.  malloc may hand    *)
(* out a node address again after it was freed, so a pointer left behind   *)
(* by a removal may later name a new node, as it may on a real heap.       *)
(***************************************************************************)
EXTENDS Integers, FiniteSets

CONSTANTS
  Node,     \* addresses malloc can return for a list node
  Null      \* the null pointer

ASSUME NodeAssumption == IsFiniteSet(Node) /\ Null \notin Node

Ref == Node \cup {Null}

(* The type of the lists whose nodes carry pointers to elements of D.      *)
ListOf(D) ==
  [cnt  : Int,
   head : Ref,
   tail : Ref,
   used : SUBSET Node,
   next : [Node -> Ref],
   prev : [Node -> Ref],
   data : [Node -> D \cup {Null}]]

(* DHT_LIST_INIT: what a successful initialisation leaves.                 *)
EmptyList ==
  [cnt  |-> 0,
   head |-> Null,
   tail |-> Null,
   used |-> {},
   next |-> [n \in Node |-> Null],
   prev |-> [n \in Node |-> Null],
   data |-> [n \in Node |-> Null]]

(* The addresses malloc may return for a new node of l: any that a stale    *)
(* pointer of l still names, and one of the others, which the program      *)
(* cannot tell apart.                                                      *)
Allocatable(l) ==
  LET free  == Node \ l.used
      stale == free \cap ({l.head, l.tail}
                            \cup {l.next[m] : m \in l.used}
                            \cup {l.prev[m] : m \in l.used})
  IN  stale \cup (IF free = stale THEN {}
                  ELSE {CHOOSE n \in free \ stale : TRUE})

(* npl_node_alloc: node n, not in use until now, comes to hold d.          *)
npl_node_alloc(l, n, d) ==
  [l EXCEPT !.used = @ \cup {n},
            !.next[n] = Null,
            !.prev[n] = Null,
            !.data[n] = d]

(* free() of node n.  The list's own pointers are left alone.              *)
FreeNode(l, n) ==
  [l EXCEPT !.used = @ \ {n},
            !.next[n] = Null,
            !.prev[n] = Null,
            !.data[n] = Null]

-----------------------------------------------------------------------------
(* Adding.  Each operation has a condition under which the pointers it     *)
(* follows lead to nodes in use; without it the program's behaviour is     *)
(* undefined.                                                              *)

CanAddTail(l) == l.head = Null \/ l.tail \in l.used

dht_list_add_node_tail(l, n) ==
  IF l.head = Null
  THEN [l EXCEPT !.head = n, !.tail = n, !.cnt = @ + 1]
  ELSE [l EXCEPT !.next[l.tail] = n,
                 !.next[n] = Null,
                 !.prev[n] = l.tail,
                 !.tail = n,
                 !.cnt = @ + 1]

CanAddHead(l) == l.head = Null \/ l.head \in l.used

dht_list_add_node_head(l, n) ==
  IF l.head = Null
  THEN [l EXCEPT !.head = n, !.tail = n, !.cnt = @ + 1]
  ELSE [l EXCEPT !.next[n] = l.head,
                 !.prev[l.head] = n,
                 !.head = n,
                 !.cnt = @ + 1]

-----------------------------------------------------------------------------
(* Removing.  The code tests the head first and, for a head that is not    *)
(* also the tail, changes nothing but the counter; for a tail it cuts the  *)
(* chain before it but leaves the tail pointer where it is.                *)

IsSole(l, n)     == l.head = n /\ l.tail = n
(* A mutant: the tail is tested before the head.                           *)
TailFirst(l, n) == l.tail = n

IsTail(l, n)     == l.head # n /\ l.tail = n
IsInterior(l, n) == l.head # n /\ l.tail # n

(* The nodes beside n that the removal writes to.                          *)
Followed(l, n) ==
  CASE IsTail(l, n)     -> {l.prev[n]}
    [] IsInterior(l, n) -> {l.next[n], l.prev[n]}
    [] OTHER            -> {}

CanRemove(l, n) == {n} \cup Followed(l, n) \subseteq l.used

(* A mutant: the node behind keeps its pointer to the removed one.         *)
RemoveOneWay(l, n) == [l EXCEPT !.next[l.prev[n]] = l.next[n]]

(* __dht_list_remove of the neighbours of n.                               *)
__dht_list_remove(l, n) ==
  [l EXCEPT !.prev[l.next[n]] = l.prev[n], !.next[l.prev[n]] = l.next[n]]

(* What the removal does to the pointers.                                  *)
Unlink(l, n) ==
  CASE IsSole(l, n)     -> [l EXCEPT !.head = Null, !.tail = Null]
    [] IsTail(l, n)     -> [l EXCEPT !.next[l.prev[n]] = Null,
                                     !.prev[n] = Null]
    [] IsInterior(l, n) -> __dht_list_remove(l, n)
    [] OTHER            -> l

(* A mutant: a head with others behind it is not counted.                  *)
RemoveUncounted(l, n) ==
  IF l.head = n /\ l.tail # n THEN l ELSE [Unlink(l, n) EXCEPT !.cnt = @ - 1]

dht_list_remove_node(l, n) == [Unlink(l, n) EXCEPT !.cnt = @ - 1]

-----------------------------------------------------------------------------
(* dht_list_while_each_start / _end: the positions a walk from the head    *)
(* comes to.  It stays where it is at Null, and at a node not in use,      *)
(* which it cannot read.                                                   *)
Walk(l) ==
  LET w[k \in 0 .. Cardinality(Node)] ==
        IF k = 0 THEN l.head
        ELSE LET n == w[k - 1] IN IF n \in l.used THEN l.next[n] ELSE n
  IN  w

Holds(l, n, d) == n \in l.used /\ l.data[n] = d

(* The positions at which a walk comes to d.                               *)
Hits(l, d) == {k \in 0 .. Cardinality(Node) : Holds(l, Walk(l)[k], d)}

(* A mutant: the loop goes on after a hit.                                 *)
LastWith(l, d) ==
  LET hits == Hits(l, d)
  IN  Walk(l)[IF hits = {} THEN Cardinality(Node)
              ELSE CHOOSE k \in hits : \A j \in hits : j <= k]

(* Where a walk that looks for the first node holding d stops: at that     *)
(* node, at Null when the chain ends without one, or (the result is then   *)
(* neither) at a freed node or never.                                      *)
FirstWith(l, d) ==
  LET hits == Hits(l, d)
  IN  Walk(l)[IF hits = {} THEN Cardinality(Node)
              ELSE CHOOSE k \in hits : \A j \in hits : k <= j]

-----------------------------------------------------------------------------
(* The shape a list should have, a chain: from head to tail through all    *)
(* nodes in use, forth and back.                                           *)
Chain(l) ==
  LET w == Walk(l)
      k == Cardinality(l.used)
  IN  /\ l.cnt = k
      /\ {w[i] : i \in 0 .. k - 1} = l.used
      /\ w[k] = Null
      /\ l.tail = IF k = 0 THEN Null ELSE w[k - 1]
      /\ \A i \in 0 .. k - 1 : l.prev[w[i]] = IF i = 0 THEN Null ELSE w[i - 1]

=============================================================================
