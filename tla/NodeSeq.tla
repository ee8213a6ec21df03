------------------------------- MODULE NodeSeq -------------------------------
(***************************************************************************)
(* What a doubly linked list promises: it is a sequence of nodes, a node   *)
(* is put at either end, and a node that leaves is gone while the others   *)
(* keep their order.                                                       *)
(*                                                                         *)
(* "kept" says whether the list still keeps this promise.  The removal of  *)
(* tracklist.h drops it when the first or the last of several nodes        *)
(* leaves, and nothing else does.  From then on no order is promised, only *)
(* that a step puts in one node or takes out one.                          *)
(***************************************************************************)
EXTENDS Sequences, Integers

CONSTANT Node

VARIABLES
  nodes,      \* the nodes of the list, first to last
  present,    \* the nodes put in and not taken out again
  kept        \* the list has kept its promise so far

vars == <<nodes, present, kept>>

Init == nodes = <<>> /\ present = {} /\ kept = TRUE

Enters(n) == n \notin present /\ present' = present \cup {n}

Leaves(n) == n \in present /\ present' = present \ {n}

AddFirst(n) ==
  kept /\ Enters(n) /\ nodes' = <<n>> \o nodes /\ UNCHANGED kept

AddLast(n) ==
  kept /\ Enters(n) /\ nodes' = nodes \o <<n>> /\ UNCHANGED kept

(* A sole node, or one with a neighbour on each side.                      *)
Leave(n) ==
  \E i \in DOMAIN nodes :
    /\ kept
    /\ Leaves(n)
    /\ nodes[i] = n
    /\ Len(nodes) = 1 \/ i \notin {1, Len(nodes)}
    /\ nodes' = SubSeq(nodes, 1, i - 1) \o SubSeq(nodes, i + 1, Len(nodes))
    /\ UNCHANGED kept

(* The first or the last of several.                                       *)
LeaveEnd(n) ==
  /\ kept
  /\ Leaves(n)
  /\ Len(nodes) > 1
  /\ n \in {nodes[1], nodes[Len(nodes)]}
  /\ nodes' = <<>>
  /\ kept' = FALSE

Lost(n) == ~kept /\ (Enters(n) \/ Leaves(n))

Next ==
  \E n \in Node :
    AddFirst(n) \/ AddLast(n) \/ Leave(n) \/ LeaveEnd(n) \/ Lost(n)

Spec == Init /\ [][Next]_vars

=============================================================================
