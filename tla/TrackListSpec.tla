---------------------------- MODULE TrackListSpec ----------------------------
(***************************************************************************)
(* One list of tracklist.h used the way the library uses its lists: nodes  *)
(* are allocated and added at either end, and a node of the list is        *)
(* removed and freed, in any order.                                        *)
(***************************************************************************)
EXTENDS TrackList

CONSTANT Item     \* what nodes hold

VARIABLES
  list,     \* the dht_list_t and its nodes
  fault     \* an operation followed a pointer to no node in use

vars == <<list, fault>>

Init == list = EmptyList /\ fault = FALSE

(* The operation has result l if ok, or else undefined behaviour.          *)
Step(ok, l) ==
  \/ ok /\ list' = l /\ UNCHANGED fault
  \/ ~ok /\ fault' = TRUE /\ UNCHANGED list

AddTail(n, d) ==
  LET l == npl_node_alloc(list, n, d)
  IN  /\ ~fault
      /\ n \notin list.used
      /\ Step(CanAddTail(l), dht_list_add_node_tail(l, n))

AddHead(n, d) ==
  LET l == npl_node_alloc(list, n, d)
  IN  /\ ~fault
      /\ n \notin list.used
      /\ Step(CanAddHead(l), dht_list_add_node_head(l, n))

Remove(n) ==
  /\ ~fault
  /\ n \in list.used
  /\ Step(CanRemove(list, n), FreeNode(dht_list_remove_node(list, n), n))

Next ==
  \/ \E n \in Node, d \in Item : AddTail(n, d)
  \/ \E n \in Node, d \in Item : AddHead(n, d)
  \/ \E n \in Node : Remove(n)
  \/ fault /\ UNCHANGED vars

Spec == Init /\ [][Next]_vars

-----------------------------------------------------------------------------
(* Every field has its type.                                               *)
TypeOK == list \in ListOf(Item) /\ fault \in BOOLEAN

(* The counter is the number of nodes not yet freed, also after the list's *)
(* pointers were damaged: what the library decides by it is right.         *)
CountExact == list.cnt = Cardinality(list.used)

(* The library's search for a structure among the links (the loops of      *)
(* tfuncs.c) finds the first node that holds it, or that there is none,    *)
(* for as long as the list is a chain.                                     *)
SearchFinds ==
  Chain(list) => \A d \in Item :
    LET w     == Walk(list)
        found == FirstWith(list, d)
    IN  IF \E n \in list.used : list.data[n] = d
        THEN \E i \in DOMAIN w : /\ w[i] = found
                                 /\ Holds(list, found, d)
                                 /\ \A j \in 0 .. i - 1 : list.data[w[j]] # d
        ELSE found = Null

(* A chain is never followed astray: the operation that faults found a     *)
(* list that was no chain any more.                                        *)
ChainNeverFaults == [][Chain(list) => ~fault']_vars

(* The list implements the sequence of NodeSeq: no addition and no removal *)
(* of a sole or an interior node breaks it, however long it is, and the    *)
(* step that breaks it takes out the first or the last of several nodes.   *)
Promise == INSTANCE NodeSeq WITH
  nodes <- IF Chain(list)
           THEN [i \in 1 .. Cardinality(list.used) |-> Walk(list)[i - 1]]
           ELSE <<>>,
  present <- list.used,
  kept <- Chain(list)

ImplementsNodeSeq == Promise!Spec

=============================================================================
