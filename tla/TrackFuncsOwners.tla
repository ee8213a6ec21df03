-------------------------- MODULE TrackFuncsOwners --------------------------
(***************************************************************************)
(* Who keeps a block allocated.  A block stays while its links list has a  *)
(* node.  A structure that names a block as its own is held by a node of   *)
(* that block; but the library also leaves nodes behind that no structure  *)
(* will remove: the structure was re-pointed without leaving, or the walk  *)
(* over a damaged list missed its node.  Such a node is spare, and a block *)
(* that has one is never freed again.                                      *)
(*                                                                         *)
(* So the memory that a structure tracks is safe if it lies in the block   *)
(* that the structure names, or in one that has a spare node.  This module *)
(* shows that each internal function of the library keeps the two kinds of *)
(* holding; it says nothing of the pointers of a list, which may be wrong. *)
(***************************************************************************)
EXTENDS TrackFuncsLemmas

(* The list l has a node for c.                                            *)
Names(l, c) == \E n \in l.used : l.data[n] = c

(* Every structure that names a block is named by that block's list.       *)
Owned(h) ==
  \A c \in Core :
    h.core[c].links \in Block => Names(h.block[h.core[c].links].links, c)

(* b's list has a node that no removal will ever need.                     *)
Spare(h, b) ==
  LET l == h.block[b].links
  IN  \E n \in l.used : \A c \in Core :
        l.data[n] = c /\ h.core[c].links = b =>
          \E m \in l.used \ {n} : l.data[m] = c

(* The range of p lies in b, up to b's last byte (a block of no bytes has  *)
(* none; p stands at its address).                                         *)
Within(h, p, b) ==
  LET r == h.core[p]
  IN  /\ h.block[b].live
      /\ b <= r.start
      /\ r.start <= r.cur
      /\ r.end = b + h.block[b].size - 1
      /\ r.cur <= r.end \/ (h.block[b].size = 0 /\ r.cur = b)

Kept(h, p, b) == h.core[p].links = b \/ Spare(h, b)

(* p is empty, or the memory it tracks is held.                            *)
Safe(h, p) ==
  "empty" \in h.core[p].flags \/ \E b \in Block : Within(h, p, b) /\ Kept(h, p, b)

-----------------------------------------------------------------------------
(* What a function may do to the rest of the heap.                         *)

(* Spare nodes stay spare, no block is allocated, and the blocks that stay *)
(* keep their sizes.                                                       *)
Steady(h, g) ==
  \A b \in Block :
    /\ Spare(h, b) => Spare(g, b)
    /\ g.block[b].live => /\ h.block[b].live
                          /\ g.block[b].size = h.block[b].size

(* p tracks and names what it did.                                         *)
Alike(r, q) ==
  <<r.start, r.cur, r.end, r.flags, r.links>>
    = <<q.start, q.cur, q.end, q.flags, q.links>>

(* Every structure is allocated, and finds its main list node, as before.  *)
SameIds(h, g) ==
  \A c \in Core : /\ g.core[c].live = h.core[c].live
                  /\ g.core[c].ptrid = h.core[c].ptrid

(* A block that is named, or has a spare node, is allocated.               *)
LEMMA KeptLive ==
  ASSUME NEW h \in Heap, Exact(h), Owned(h), NEW p \in Core, NEW b \in Block,
         Kept(h, p, b)
  PROVE  h.block[b].live
<1>1. h.block[b].links.used # {}
  BY DEF Kept, Owned, Names, Spare
<1> QED
  BY <1>1 DEF Exact, ExactBlock

(* What held memory needs to stay safe.                                    *)
LEMMA SafeKept ==
  ASSUME NEW h \in Heap, NEW g \in Heap, Exact(g), Owned(g), Steady(h, g),
         NEW p \in Core, Alike(h.core[p], g.core[p]), Safe(h, p)
  PROVE  Safe(g, p)
<1>1. CASE "empty" \in h.core[p].flags
  BY <1>1 DEF Safe, Alike
<1>2. CASE \E b \in Block : Within(h, p, b) /\ Kept(h, p, b)
  <2>1. PICK b \in Block : Within(h, p, b) /\ Kept(h, p, b)
    BY <1>2
  <2>2. Kept(g, p, b)
    BY <2>1 DEF Kept, Alike, Steady
  <2>3. g.block[b].live
    BY <2>2, KeptLive
  <2>4. g.block[b].size = h.block[b].size
    BY <2>1, <2>3 DEF Steady, Within
  <2>5. Within(g, p, b)
    BY <2>1, <2>3, <2>4 DEF Within, Alike
  <2> QED
    BY <2>2, <2>5 DEF Safe
<1> QED
  BY <1>1, <1>2 DEF Safe

(* A function that changes no block, and no structure's name of its block, *)
(* keeps every holding.                                                    *)
LEMMA SameLinks ==
  ASSUME NEW h \in Heap, NEW g \in Heap, g.block = h.block,
         \A c \in Core : g.core[c].links = h.core[c].links
  PROVE  /\ Owned(h) => Owned(g)
         /\ Steady(h, g)
<1>1. Owned(h) => Owned(g)
  BY DEF Owned
<1>2. Steady(h, g)
  BY DEF Steady, Spare
<1> QED
  BY <1>1, <1>2

-----------------------------------------------------------------------------
(* What the nodes of a list hold.                                          *)

(* Removing and freeing a node leaves the others what they hold.           *)
LEMMA RemoveData ==
  ASSUME NEW D, NEW l \in ListOf(D), NEW n \in Node, CanRemove(l, n)
  PROVE  LET m == FreeNode(dht_list_remove_node(l, n), n)
         IN  /\ m.used = l.used \ {n}
             /\ \A x \in Node \ {n} : m.data[x] = l.data[x]
<1> DEFINE u == Unlink(l, n)
           k == dht_list_remove_node(l, n)
<1>1. u.data = l.data
  BY DEF Unlink, __dht_list_remove, ListOf
<1>2. u \in ListOf(D)
  BY UnlinkType
<1>3. k.data = u.data
  BY <1>2 DEF dht_list_remove_node, ListOf
<1>4. k \in ListOf(D) /\ k.used = l.used
  BY RemoveType
<1> HIDE DEF k, u
<1>5. FreeNode(k, n).used = k.used \ {n}
      /\ FreeNode(k, n).data = [k.data EXCEPT ![n] = Null]
  BY <1>4 DEF FreeNode, ListOf
<1>6. \A x \in Node \ {n} : FreeNode(k, n).data[x] = k.data[x]
  BY <1>4, <1>5 DEF ListOf
<1> QED
  BY <1>1, <1>3, <1>4, <1>5, <1>6 DEF k

(* A new node holds what it was made for, and the others what they held.   *)
LEMMA AddData ==
  ASSUME NEW D, NEW l \in ListOf(D), NEW n \in Node, NEW d \in D
  PROVE  LET a == npl_node_alloc(l, n, d)
         IN  \A m \in {dht_list_add_node_head(a, n),
                       dht_list_add_node_tail(a, n)} :
               /\ m.used = l.used \cup {n}
               /\ m.data[n] = d
               /\ \A x \in Node \ {n} : m.data[x] = l.data[x]
<1> DEFINE a == npl_node_alloc(l, n, d)
<1>1. a \in ListOf(D)
  BY AllocType
<1>2. a.used = l.used \cup {n} /\ a.data = [l.data EXCEPT ![n] = d]
  BY DEF npl_node_alloc, ListOf
<1>3. a.data[n] = d /\ \A x \in Node \ {n} : a.data[x] = l.data[x]
  BY <1>2 DEF ListOf
<1> HIDE DEF a
<1>4. /\ dht_list_add_node_head(a, n).used = a.used
      /\ dht_list_add_node_head(a, n).data = a.data
  BY <1>1 DEF dht_list_add_node_head, ListOf
<1>5. /\ dht_list_add_node_tail(a, n).used = a.used
      /\ dht_list_add_node_tail(a, n).data = a.data
  BY <1>1 DEF dht_list_add_node_tail, ListOf
<1> QED
  BY <1>2, <1>3, <1>4, <1>5 DEF a

-----------------------------------------------------------------------------
(* Leaving a block.                                                        *)

(* __track_check_free_mem_block changes nothing (there is no block, or     *)
(* following a pointer is a fault, or the walk misses the node), or clears *)
(* the structure's name of its block and removes one node of that block    *)
(* that holds the structure; the block goes with its last node.            *)
Removed(h, g, c, b, n) ==
  LET l == h.block[b].links
      m == FreeNode(dht_list_remove_node(l, n), n)
  IN  /\ h.core[c].links = b
      /\ n = FirstWith(l, c)
      /\ Holds(l, n, c)
      /\ CanRemove(l, n)
      /\ g.core = [h.core EXCEPT ![c].links = Null]
      /\ \/ g.block = [h.block EXCEPT ![b].links = m]
         \/ m.used = {} /\ g.block = [h.block EXCEPT ![b] = FreedBlock]

(* If the structure names a block and there is no fault, the search for    *)
(* its node ends without one.                                              *)
Missed(h, g, c) ==
  g.fault = NoFault /\ h.core[c].links \in Block =>
    FirstWith(h.block[h.core[c].links].links, c) = Null

(* What __track_check_free_links_list does.                                *)
LEMMA LeaveLinks ==
  ASSUME NEW h \in Heap, Exact(h), h.fault = NoFault, NEW c \in Core,
         h.core[c].links \in Block, h.block[h.core[c].links].live
  PROVE  LET g == __track_check_free_links_list(h, c)
         IN  \/ g.core = h.core /\ g.block = h.block /\ Missed(h, g, c)
             \/ \E b \in Block, n \in Node : Removed(h, g, c, b, n)
<1> DEFINE b    == h.core[c].links
           l    == h.block[b].links
           pos  == FirstWith(l, c)
           m    == FreeNode(dht_list_remove_node(l, pos), pos)
           left == __track_links_list_full_free(h, c)
           g    == __track_check_free_links_list(h, c)
<1> SUFFICES \/ g.core = h.core /\ g.block = h.block /\ Missed(h, g, c)
             \/ \E bb \in Block, n \in Node : Removed(h, g, c, bb, n)
  OBVIOUS
<1>1. h.block[b] \in BlockRec /\ l \in ListOf(Core) /\ ExactBlock(h.block[b])
  BY DEF Heap, BlockRec, Exact
<1>2. left \in Heap
  BY FullFreeType
<1>3. g = IF left.fault = NoFault /\ left.block[b].links.cnt = 0
          THEN [left EXCEPT !.block[b] = FreedBlock] ELSE left
  BY DEF __track_check_free_links_list
<1>4. CASE Holds(l, pos, c) /\ CanRemove(l, pos)
  <2>1. pos \in Node
    BY <1>1, <1>4 DEF Holds, ListOf
  <2>2. m \in ListOf(Core) /\ Counted(m)
    BY <1>1, <1>4, <2>1, RemoveType, FreeType, RemoveCounted DEF ExactBlock
  <2> DEFINE k == __track_links_list_node_data_remove(h, c)
  <2>3. /\ k \in Heap /\ k.block = h.block
        /\ k.core = [h.core EXCEPT ![c].links = Null]
    BY PutCoreLinks DEF __track_links_list_node_data_remove, Heap
  <2>4. left = [k EXCEPT !.block[b].links = m]
    BY <1>4 DEF __track_links_list_full_free
  <2> HIDE DEF k, m, left, g
  <2>5. /\ left.core = k.core
        /\ left.block = [k.block EXCEPT ![b].links = m]
        /\ left.block[b].links = m
    BY <1>1, <2>3, <2>4 DEF Heap, BlockRec
  <2>6. CASE g = left
    <3>1. /\ g.core = [h.core EXCEPT ![c].links = Null]
          /\ g.block = [h.block EXCEPT ![b].links = m]
      BY <2>3, <2>5, <2>6
    <3>2. Removed(h, g, c, b, pos)
      BY <1>4, <3>1 DEF Removed, m
    <3> QED
      BY <2>1, <3>2
  <2>7. CASE m.cnt = 0 /\ g = [left EXCEPT !.block[b] = FreedBlock]
    <3>1. m.used = {}
      BY <2>2, <2>7, CountedEmpty
    <3>2. g.core = left.core
          /\ g.block = [left.block EXCEPT ![b] = FreedBlock]
      BY <1>2, <2>7 DEF Heap
    <3>3. g.block = [h.block EXCEPT ![b] = FreedBlock]
      BY <2>3, <2>5, <3>2 DEF Heap
    <3>4. g.core = [h.core EXCEPT ![c].links = Null]
      BY <2>3, <2>5, <3>2
    <3>5. Removed(h, g, c, b, pos)
      BY <1>4, <3>1, <3>3, <3>4 DEF Removed, m
    <3> QED
      BY <2>1, <3>5
  <2> QED
    BY <1>3, <2>5, <2>6, <2>7
<1>5. CASE ~(Holds(l, pos, c) /\ CanRemove(l, pos))
  <2>1. \/ left = h /\ pos = Null
        \/ pos # Null /\ left = Broken(h, WalkFault(l, pos))
        \/ left = Broken(h, RemoveFault(l, pos))
    BY <1>5 DEF __track_links_list_full_free
  <2>6. /\ pos # Null => WalkFault(l, pos) # NoFault
        /\ RemoveFault(l, pos) # NoFault
    BY DEF WalkFault, RemoveFault, NoFault
  <2>2. /\ left.core = h.core /\ left.block = h.block
        /\ left.fault = NoFault => pos = Null
    BY <2>1, <2>6 DEF Broken, Heap
  <2>3. l.used # {}
    BY <1>1 DEF ExactBlock
  <2>4. l.cnt # 0
    BY <1>1, <2>3, CountedEmpty DEF ExactBlock
  <2> HIDE DEF left, g
  <2>5. g = left
    BY <1>3, <2>2, <2>4
  <2> QED
    BY <2>2, <2>5 DEF Missed
<1> QED
  BY <1>4, <1>5

(* Removing c's node, and its name of the block, takes no node that        *)
(* another structure or a spare holding needs.                             *)
LEMMA RemovedKeeps ==
  ASSUME NEW h \in Heap, Owned(h), NEW g \in Heap, NEW c \in Core,
         NEW b \in Block, NEW n \in Node, Removed(h, g, c, b, n)
  PROVE  Owned(g) /\ Steady(h, g)
<1> DEFINE l == h.block[b].links
           m == FreeNode(dht_list_remove_node(l, n), n)
<1>1. l \in ListOf(Core) /\ l.used \subseteq Node
  BY DEF Heap, BlockRec, ListOf
<1>2. m.used = l.used \ {n} /\ \A x \in Node \ {n} : m.data[x] = l.data[x]
  BY <1>1, RemoveData DEF Removed
<1> HIDE DEF m
<1>3. /\ h.core[c].links = b /\ n \in l.used /\ l.data[n] = c
      /\ \A x \in Core \ {c} : g.core[x].links = h.core[x].links
      /\ g.core[c].links = Null /\ Null \notin Block
      /\ \A a \in Block \ {b} : g.block[a] = h.block[a]
      /\ m.used # {} => g.block[b].links = m
      /\ g.block[b].live => /\ h.block[b].live
                            /\ g.block[b].size = h.block[b].size
  <2>1. h.core \in [Core -> CoreRec] /\ h.block \in [Block -> BlockRec]
    BY DEF Heap
  <2>2. /\ \A x \in Core \ {c} : g.core[x].links = h.core[x].links
        /\ g.core[c].links = Null
    BY <2>1 DEF Removed, CoreRec
  <2>3. CASE g.block = [h.block EXCEPT ![b].links = m]
    BY <2>1, <2>2, <2>3, ValueAssumption DEF Removed, Holds, BlockRec
  <2>4. CASE m.used = {} /\ g.block = [h.block EXCEPT ![b] = FreedBlock]
    BY <2>1, <2>2, <2>4, ValueAssumption DEF Removed, Holds, FreedBlock
  <2> QED
    BY <2>3, <2>4 DEF Removed, m
<1>4. Owned(g)
  <2> SUFFICES ASSUME NEW x \in Core, g.core[x].links \in Block
               PROVE  Names(g.block[g.core[x].links].links, x)
    BY DEF Owned
  <2>1. x # c /\ g.core[x].links = h.core[x].links
    BY <1>3
  <2>2. PICK k \in h.block[h.core[x].links].links.used :
          h.block[h.core[x].links].links.data[k] = x
    BY <2>1 DEF Owned, Names
  <2>3. CASE h.core[x].links = b
    <3>1. k \in l.used /\ l.data[k] = x /\ k # n
      BY <1>3, <2>1, <2>2, <2>3
    <3>2. k \in m.used /\ m.data[k] = x
      BY <1>1, <1>2, <3>1
    <3> QED
      BY <1>3, <2>1, <2>3, <3>2 DEF Names
  <2>4. CASE h.core[x].links # b
    BY <1>3, <2>1, <2>2, <2>4 DEF Names
  <2> QED
    BY <2>3, <2>4
<1>5. ASSUME NEW a \in Block, Spare(h, a)
      PROVE  Spare(g, a)
  <2>1. PICK k \in h.block[a].links.used : \A x \in Core :
          h.block[a].links.data[k] = x /\ h.core[x].links = a =>
            \E j \in h.block[a].links.used \ {k} :
              h.block[a].links.data[j] = x
    BY <1>5 DEF Spare
  <2>2. CASE a # b
    <3>1. g.block[a] = h.block[a]
      BY <1>3, <2>2
    <3>2. \A x \in Core : g.core[x].links = a => h.core[x].links = a
      BY <1>3
    <3> QED
      BY <2>1, <3>1, <3>2 DEF Spare
  <2>3. CASE a = b /\ k # n
    <3>1. k \in m.used /\ m.data[k] = l.data[k] /\ g.block[b].links = m
      BY <1>1, <1>2, <1>3, <2>1, <2>3
    <3>2. ASSUME NEW x \in Core, m.data[k] = x, g.core[x].links = b
          PROVE  \E j \in m.used \ {k} : m.data[j] = x
      <4>1. x # c /\ h.core[x].links = b
        BY <1>3, <3>2
      <4>2. PICK j \in l.used \ {k} : l.data[j] = x
        BY <2>1, <2>3, <3>1, <3>2, <4>1
      <4>3. j # n /\ j \in Node
        BY <1>1, <1>3, <4>1, <4>2
      <4> QED
        BY <1>2, <4>2, <4>3
    <3> QED
      BY <2>3, <3>1, <3>2 DEF Spare
  <2>4. CASE a = b /\ k = n
    <3>1. PICK j \in l.used \ {n} : l.data[j] = c
      BY <1>3, <2>1, <2>4
    <3>2. j \in m.used /\ m.data[j] = c /\ g.block[b].links = m
      BY <1>1, <1>2, <1>3, <3>1
    <3>3. \A x \in Core : m.data[j] = x => g.core[x].links # b
      BY <1>3, <3>2
    <3> QED
      BY <2>4, <3>2, <3>3 DEF Spare
  <2> QED
    BY <2>2, <2>3, <2>4
<1>6. ASSUME NEW a \in Block, g.block[a].live
      PROVE  h.block[a].live /\ g.block[a].size = h.block[a].size
  BY <1>3, <1>6
<1> QED
  BY <1>4, <1>5, <1>6 DEF Steady

(* What __track_check_free_mem_block does to the structures and blocks.    *)
LEMMA LeaveParts ==
  ASSUME NEW h \in Heap, Exact(h), NEW c \in Core
  PROVE  LET g == __track_check_free_mem_block(h, c)
         IN  \/ g.core = h.core /\ g.block = h.block /\ Missed(h, g, c)
             \/ \E b \in Block, n \in Node : Removed(h, g, c, b, n)
<1> DEFINE g == __track_check_free_mem_block(h, c)
<1>1. CASE h.fault # NoFault \/ h.core[c].links = Null
  BY <1>1, ValueAssumption DEF __track_check_free_mem_block, Missed
<1>2. CASE /\ ~(h.fault # NoFault \/ h.core[c].links = Null)
           /\ LinksFault(h, c) # NoFault
  <2>1. g = Broken(h, LinksFault(h, c))
    BY <1>2 DEF __track_check_free_mem_block
  <2> QED
    BY <1>2, <2>1 DEF Broken, Heap, Missed
<1>3. CASE /\ ~(h.fault # NoFault \/ h.core[c].links = Null)
           /\ LinksFault(h, c) = NoFault
  <2>1. h.core[c].links \in Block
    BY <1>3, LinksFaultType
  <2>2. h.block[h.core[c].links].live
    BY <1>3, <2>1, ValueAssumption DEF LinksFault, NoFault
  <2>3. g = __track_check_free_links_list(h, c)
    BY <1>3 DEF __track_check_free_mem_block
  <2> QED
    BY <1>3, <2>1, <2>2, <2>3, LeaveLinks
<1> QED
  BY <1>1, <1>2, <1>3

(* Leaving a block takes no holding from others.                           *)
LEMMA LeaveKeeps ==
  ASSUME NEW h \in Heap, Exact(h), Owned(h), NEW c \in Core
  PROVE  LET g == __track_check_free_mem_block(h, c)
         IN  /\ Owned(g)
             /\ Steady(h, g)
             /\ g.core \in {h.core, [h.core EXCEPT ![c].links = Null]}
<1> DEFINE g == __track_check_free_mem_block(h, c)
<1> SUFFICES /\ Owned(g)
             /\ Steady(h, g)
             /\ g.core \in {h.core, [h.core EXCEPT ![c].links = Null]}
  OBVIOUS
<1>1. g \in Heap
  BY CheckFreeBlockType
<1>2. \/ g.core = h.core /\ g.block = h.block
      \/ \E b \in Block, n \in Node : Removed(h, g, c, b, n)
  BY LeaveParts
<1> HIDE DEF g
<1>3. CASE g.core = h.core /\ g.block = h.block
  BY <1>1, <1>3, SameLinks
<1>4. CASE \E b \in Block, n \in Node : Removed(h, g, c, b, n)
  <2>1. PICK b \in Block, n \in Node : Removed(h, g, c, b, n)
    BY <1>4
  <2>2. g.core = [h.core EXCEPT ![c].links = Null]
    BY <2>1 DEF Removed
  <2> QED
    BY <1>1, <2>1, <2>2, RemovedKeeps
<1> QED
  BY <1>2, <1>3, <1>4

(* A structure that names no block any more needs no node.                 *)
LEMMA ForgetKeeps ==
  ASSUME NEW h \in Heap, Owned(h), NEW g \in Heap, NEW c \in Core, NEW r,
         r.links \notin Block,
         g.core = [h.core EXCEPT ![c] = r], g.block = h.block
  PROVE  Owned(g) /\ Steady(h, g)
<1>1. /\ \A x \in Core \ {c} : g.core[x] = h.core[x]
      /\ g.core[c].links \notin Block
  BY DEF Heap
<1>2. Owned(g)
  BY <1>1 DEF Owned
<1>3. Steady(h, g)
  BY <1>1 DEF Steady, Spare
<1> QED
  BY <1>2, <1>3

-----------------------------------------------------------------------------
(* Joining a block.                                                        *)

(* A new node for c, and c's name of its block, take nothing from others.  *)
LEMMA AddLinkKeeps ==
  ASSUME NEW h \in Heap, Owned(h), NEW b \in Block, NEW c \in Core,
         NEW n \in Allocatable(h.block[b].links)
  PROVE  LET g == AddLink(h, b, c, n)
         IN  /\ Owned(g)
             /\ Steady(h, g)
             /\ g.core = [h.core EXCEPT ![c].links = b]
<1> DEFINE l == h.block[b].links
           m == dht_list_add_node_head(npl_node_alloc(l, n, c), n)
           g == AddLink(h, b, c, n)
<1>1. l \in ListOf(Core) /\ l.used \subseteq Node
  BY DEF Heap, BlockRec, ListOf
<1>2. n \in Node /\ n \notin l.used
  BY AllocatableType
<1>3. /\ m.used = l.used \cup {n} /\ m.data[n] = c
      /\ \A x \in Node \ {n} : m.data[x] = l.data[x]
  BY <1>1, <1>2, AddData
<1>4. /\ g.core = [h.core EXCEPT ![c].links = b]
      /\ g.block = [h.block EXCEPT ![b].links = m]
  BY DEF AddLink, Heap
<1> HIDE DEF m, g
<1>5. /\ g.core[c].links = b
      /\ \A x \in Core \ {c} : g.core[x].links = h.core[x].links
      /\ g.block[b].links = m
      /\ \A a \in Block \ {b} : g.block[a] = h.block[a]
      /\ \A a \in Block : /\ g.block[a].live = h.block[a].live
                          /\ g.block[a].size = h.block[a].size
  <2>1. h.core \in [Core -> CoreRec] /\ h.block \in [Block -> BlockRec]
    BY DEF Heap
  <2> QED
    BY <1>4, <2>1 DEF CoreRec, BlockRec
<1>6. Owned(g)
  <2> SUFFICES ASSUME NEW x \in Core, g.core[x].links \in Block
               PROVE  Names(g.block[g.core[x].links].links, x)
    BY DEF Owned
  <2>1. CASE x = c
    BY <1>3, <1>5, <2>1 DEF Names
  <2>2. CASE x # c
    <3>1. PICK k \in h.block[h.core[x].links].links.used :
            h.block[h.core[x].links].links.data[k] = x
      BY <1>5, <2>2 DEF Owned, Names
    <3>2. CASE h.core[x].links = b
      <4>1. k \in m.used /\ m.data[k] = x
        BY <1>1, <1>2, <1>3, <3>1, <3>2
      <4> QED
        BY <1>5, <2>2, <3>2, <4>1 DEF Names
    <3>3. CASE h.core[x].links # b
      <4>1. /\ g.core[x].links = h.core[x].links
            /\ g.block[g.core[x].links] = h.block[h.core[x].links]
        BY <1>5, <2>2, <3>3
      <4> QED
        BY <3>1, <4>1 DEF Names
    <3> QED
      BY <3>2, <3>3
  <2> QED
    BY <2>1, <2>2
<1>7. ASSUME NEW a \in Block, Spare(h, a)
      PROVE  Spare(g, a)
  <2>1. PICK k \in h.block[a].links.used : \A x \in Core :
          h.block[a].links.data[k] = x /\ h.core[x].links = a =>
            \E j \in h.block[a].links.used \ {k} :
              h.block[a].links.data[j] = x
    BY <1>7 DEF Spare
  <2>2. CASE a # b
    <3>1. g.block[a] = h.block[a]
      BY <1>5, <2>2
    <3>2. \A x \in Core : g.core[x].links = a => h.core[x].links = a
      BY <1>5, <2>2
    <3> QED
      BY <2>1, <3>1, <3>2 DEF Spare
  <2>3. CASE a = b
    <3>1. k \in m.used /\ k # n /\ m.data[k] = l.data[k]
      BY <1>1, <1>2, <1>3, <2>1, <2>3
    <3>2. ASSUME NEW x \in Core, m.data[k] = x, g.core[x].links = b
          PROVE  \E j \in m.used \ {k} : m.data[j] = x
      <4>1. CASE x = c
        BY <1>3, <3>1, <4>1
      <4>2. CASE x # c
        <5>1. PICK j \in l.used \ {k} : l.data[j] = x
          BY <1>5, <2>1, <2>3, <3>1, <3>2, <4>2
        <5> QED
          BY <1>1, <1>2, <1>3, <5>1
      <4> QED
        BY <4>1, <4>2
    <3> QED
      BY <1>5, <2>3, <3>1, <3>2 DEF Spare
  <2> QED
    BY <2>2, <2>3
<1>8. Steady(h, g)
  BY <1>5, <1>7 DEF Steady
<1> QED
  BY <1>4, <1>6, <1>8 DEF g

(* __track_review_mem_links_list.  If it returns, and link nodes can be    *)
(* allocated, what lies in the block that s names is held for c: by c's    *)
(* own node, or by the node for c that was there already and that c, which *)
(* goes on naming another block, will never remove.                        *)
LEMMA JoinKeeps ==
  ASSUME NEW h \in Heap, Owned(h), NEW s \in Core, NEW c \in Core,
         NEW g \in __track_review_mem_links_list(h, s, c)
  PROVE  /\ Owned(g)
         /\ Steady(h, g)
         /\ g.core \in {h.core,
                        [h.core EXCEPT ![c].links = h.core[s].links]}
         /\ "link" \notin MayFail /\ g.fault = NoFault =>
              /\ h.core[s].links \in Block
              /\ Kept(g, c, h.core[s].links)
<1> DEFINE b   == h.core[s].links
           l   == h.block[b].links
           pos == FirstWith(l, c)
<1>0. g \in Heap
  BY ReviewType
<1>1. CASE h.fault # NoFault
  <2>1. g = h
    BY <1>1 DEF __track_review_mem_links_list
  <2> QED
    BY <1>1, <2>1, SameLinks
<1>2. CASE \E why : why # NoFault /\ g = Broken(h, why)
  <2>1. g.core = h.core /\ g.block = h.block /\ g.fault # NoFault
    BY <1>2 DEF Broken, Heap
  <2> QED
    BY <1>0, <2>1, SameLinks
<1>3. CASE b \in Block /\ Holds(l, pos, c) /\ g = h
  <2>1. pos \in l.used /\ l.data[pos] = c
    BY <1>3 DEF Holds
  <2>2. ASSUME h.core[c].links # b
        PROVE  Spare(h, b)
    <3>1. \A x \in Core : ~(l.data[pos] = x /\ h.core[x].links = b)
      BY <2>1, <2>2
    <3> QED
      BY <2>1, <3>1 DEF Spare
  <2>3. Kept(g, c, b)
    BY <1>3, <2>2 DEF Kept
  <2> QED
    BY <1>3, <2>3, SameLinks
<1>4. CASE b \in Block /\ \E n \in Allocatable(l) : g = AddLink(h, b, c, n)
  <2>1. PICK n \in Allocatable(l) : g = AddLink(h, b, c, n)
    BY <1>4
  <2>2. Owned(g) /\ Steady(h, g) /\ g.core = [h.core EXCEPT ![c].links = b]
    BY <1>4, <2>1, AddLinkKeeps
  <2>3. g.core[c].links = b
    BY <2>2 DEF Heap, CoreRec
  <2> QED
    BY <1>4, <2>2, <2>3 DEF Kept
<1>5. CASE g = h /\ "link" \in MayFail
  BY <1>5, SameLinks
<1>6. CASE /\ h.fault = NoFault /\ LinksFault(h, s) = NoFault
           /\ ~Holds(l, pos, c) /\ pos # Null
  <2>1. WalkFault(l, pos) # NoFault
    BY <1>6 DEF WalkFault, NoFault
  <2>2. g = Broken(h, WalkFault(l, pos))
    BY <1>6 DEF __track_review_mem_links_list
  <2> QED
    BY <1>2, <2>1, <2>2
<1>7. LinksFault(h, s) = NoFault => b \in Block
  BY LinksFaultType
<1> QED
  BY <1>1, <1>2, <1>3, <1>4, <1>5, <1>6, <1>7
  DEF __track_review_mem_links_list

-----------------------------------------------------------------------------
(* Whose nodes stay.  A structure loses a node only by leaving the block   *)
(* that it names; a node left behind in another block stays for good.      *)

(* No block loses its last node for a structure ...                        *)
MoreNames(h, g) ==
  \A b \in Block, p \in Core :
    Names(h.block[b].links, p) => Names(g.block[b].links, p)

(* ... but for a structure that named the block.                           *)
NamesKept(h, g) ==
  \A b \in Block, p \in Core :
    Names(h.block[b].links, p) /\ h.core[p].links # b =>
      Names(g.block[b].links, p)

(* Leaving a block takes a node only from the one who leaves, and only in  *)
(* the block it names.                                                     *)
LEMMA LeaveNames ==
  ASSUME NEW h \in Heap, Exact(h), NEW c \in Core
  PROVE  NamesKept(h, __track_check_free_mem_block(h, c))
<1> DEFINE g == __track_check_free_mem_block(h, c)
<1>1. CASE g.block = h.block
  BY <1>1 DEF NamesKept
<1>2. ASSUME NEW a \in Block, NEW n \in Node, Removed(h, g, c, a, n)
      PROVE  NamesKept(h, g)
  <2> DEFINE l == h.block[a].links
             m == FreeNode(dht_list_remove_node(l, n), n)
  <2>1. l \in ListOf(Core) /\ l.used \subseteq Node
    BY DEF Heap, BlockRec, ListOf
  <2>2. m.used = l.used \ {n} /\ \A x \in Node \ {n} : m.data[x] = l.data[x]
    BY <1>2, <2>1, RemoveData DEF Removed
  <2>3. /\ h.core[c].links = a /\ l.data[n] = c
        /\ \/ g.block = [h.block EXCEPT ![a].links = m]
           \/ m.used = {} /\ g.block = [h.block EXCEPT ![a] = FreedBlock]
    BY <1>2 DEF Removed, Holds
  <2> HIDE DEF m, g
  <2>4. /\ \A b \in Block \ {a} : g.block[b] = h.block[b]
        /\ m.used # {} => g.block[a].links = m
    BY <2>3 DEF Heap, BlockRec
  <2> SUFFICES ASSUME NEW b \in Block, NEW p \in Core,
                      Names(h.block[b].links, p), h.core[p].links # b
               PROVE  Names(g.block[b].links, p)
    BY DEF NamesKept
  <2>5. CASE b # a
    BY <2>4, <2>5
  <2>6. CASE b = a
    <3>1. PICK x \in l.used : l.data[x] = p
      BY <2>6 DEF Names
    <3>2. p # c
      BY <2>3, <2>6
    <3>3. x # n /\ x \in m.used /\ m.data[x] = p
      BY <2>1, <2>2, <2>3, <3>1, <3>2
    <3> QED
      BY <2>4, <2>6, <3>3 DEF Names
  <2> QED
    BY <2>5, <2>6
<1> QED
  BY <1>1, <1>2, LeaveParts

(* A new node takes none from anyone.                                      *)
LEMMA AddLinkNames ==
  ASSUME NEW h \in Heap, NEW b \in Block, NEW c \in Core,
         NEW n \in Allocatable(h.block[b].links)
  PROVE  MoreNames(h, AddLink(h, b, c, n))
<1> DEFINE l == h.block[b].links
           m == dht_list_add_node_head(npl_node_alloc(l, n, c), n)
           g == AddLink(h, b, c, n)
<1>1. l \in ListOf(Core) /\ l.used \subseteq Node
  BY DEF Heap, BlockRec, ListOf
<1>2. n \in Node /\ n \notin l.used
  BY AllocatableType
<1>3. /\ m.used = l.used \cup {n} /\ m.data[n] = c
      /\ \A x \in Node \ {n} : m.data[x] = l.data[x]
  BY <1>1, <1>2, AddData
<1>4. g.block = [h.block EXCEPT ![b].links = m]
  BY DEF AddLink, Heap
<1> HIDE DEF m, g
<1>5. g.block[b].links = m /\ \A a \in Block \ {b} : g.block[a] = h.block[a]
  BY <1>4 DEF Heap, BlockRec
<1>6. ASSUME NEW p \in Core, Names(l, p) PROVE Names(m, p)
  <2>1. PICK x \in l.used : l.data[x] = p
    BY <1>6 DEF Names
  <2>2. x \in m.used /\ m.data[x] = p
    BY <1>1, <1>2, <1>3, <2>1
  <2> QED
    BY <2>2 DEF Names
<1>7. MoreNames(h, g)
  BY <1>5, <1>6 DEF MoreNames
<1> QED
  BY <1>7 DEF g

(* Joining a block takes no node from anyone.                              *)
LEMMA JoinNames ==
  ASSUME NEW h \in Heap, NEW s \in Core, NEW c \in Core,
         NEW g \in __track_review_mem_links_list(h, s, c)
  PROVE  MoreNames(h, g)
<1> DEFINE b == h.core[s].links
           l == h.block[b].links
<1>1. CASE g.block = h.block
  BY <1>1 DEF MoreNames
<1>2. ASSUME b \in Block, NEW n \in Allocatable(l), g = AddLink(h, b, c, n)
      PROVE  MoreNames(h, g)
  BY <1>2, AddLinkNames
<1>3. ASSUME NEW why, g = Broken(h, why) PROVE g.block = h.block
  BY <1>3 DEF Broken, Heap
<1>4. LinksFault(h, s) = NoFault => b \in Block
  BY LinksFaultType
<1> QED
  BY <1>1, <1>2, <1>3, <1>4 DEF __track_review_mem_links_list

-----------------------------------------------------------------------------
(* Lost nodes and chains.  A structure without memory of its own may name  *)
(* a block only because the walk that should have taken it out missed its  *)
(* node: the list has lost nodes, and is no chain.                         *)

(* c names no block, or one whose list has lost nodes.                     *)
Loose(h, c) ==
  h.core[c].links \in Block => Lost(h.block[h.core[c].links].links)
StrayLost(h) == \A c \in Core : "empty" \in h.core[c].flags => Loose(h, c)

(* Lists that had lost nodes have.                                         *)
LostStays(h, g) ==
  \A b \in Block : Lost(h.block[b].links) => Lost(g.block[b].links)

(* A structure keeps being loose as long as it names the same block.       *)
LEMMA LooseKept ==
  ASSUME NEW h, NEW g, LostStays(h, g), NEW c,
         g.core[c].links \in Block => g.core[c].links = h.core[c].links,
         Loose(h, c)
  PROVE  Loose(g, c)
  BY DEF Loose, LostStays

(* Leaving a block.                                                        *)
LEMMA LeaveLost ==
  ASSUME NEW h \in Heap, Exact(h), Owned(h), NEW c \in Core
  PROVE  LET g == __track_check_free_mem_block(h, c)
         IN  /\ LostStays(h, g)
             /\ g.fault = NoFault => Loose(g, c)
<1> DEFINE g == __track_check_free_mem_block(h, c)
<1>1. ASSUME g.core = h.core, g.block = h.block, Missed(h, g, c)
      PROVE  LostStays(h, g) /\ (g.fault = NoFault => Loose(g, c))
  <2> HIDE DEF g
  <2>1. LostStays(h, g)
    BY <1>1 DEF LostStays
  <2>2. ASSUME g.fault = NoFault, h.core[c].links \in Block
        PROVE  Lost(h.block[h.core[c].links].links)
    <3> DEFINE l == h.block[h.core[c].links].links
    <3>1. l \in ListOf(Core)
      BY <2>2 DEF Heap, BlockRec
    <3>2. FirstWith(l, c) = Null
      BY <1>1, <2>2 DEF Missed
    <3>3. \E n \in l.used : l.data[n] = c
      BY <2>2 DEF Owned, Names
    <3> HIDE DEF l
    <3>4. Lost(l)
      BY <3>1, <3>2, <3>3, MissLost
    <3> QED
      BY <3>4 DEF l
  <2> QED
    BY <1>1, <2>1, <2>2 DEF Loose
<1>2. ASSUME NEW b \in Block, NEW n \in Node, Removed(h, g, c, b, n)
      PROVE  LostStays(h, g) /\ Loose(g, c)
  <2> DEFINE l == h.block[b].links
             m == FreeNode(dht_list_remove_node(l, n), n)
  <2>1. l \in ListOf(Core)
    BY DEF Heap, BlockRec
  <2>2. CanRemove(l, n) /\ Holds(l, n, c) /\ n = FirstWith(l, c)
    BY <1>2 DEF Removed
  <2>3. \E i \in 0 .. Cardinality(Node) : n = Walk(l)[i]
    <3>1. Cardinality(Node) \in Nat
      BY WalkSteps
    <3> QED
      BY <2>2, <3>1, FirstWithStops
  <2>4. Lost(l) => Lost(m)
    BY <2>1, <2>2, <2>3, LostRemoves
  <2>5. Lost(m) => m.used # {}
    BY DEF Lost
  <2>6. \/ g.block = [h.block EXCEPT ![b].links = m]
        \/ m.used = {} /\ g.block = [h.block EXCEPT ![b] = FreedBlock]
    BY <1>2 DEF Removed
  <2>7. g.core[c].links = Null
    <3>1. g.core = [h.core EXCEPT ![c].links = Null]
      BY <1>2 DEF Removed
    <3> HIDE DEF g
    <3> QED
      BY <3>1 DEF Heap, CoreRec
  <2> HIDE DEF g, m
  <2>8. /\ \A a \in Block \ {b} : g.block[a] = h.block[a]
        /\ m.used # {} => g.block[b].links = m
    BY <2>6 DEF Heap, BlockRec
  <2>9. LostStays(h, g)
    BY <2>4, <2>5, <2>8 DEF LostStays
  <2> QED
    BY <2>7, <2>9, ValueAssumption DEF Loose
<1> QED
  BY <1>1, <1>2, LeaveParts

(* A structure leaves a block whose list is a chain, and no other block is *)
(* changed.                                                                *)
LEMMA LeaveChains ==
  ASSUME NEW h \in Heap, Exact(h), Owned(h), h.fault = NoFault,
         NEW c \in Core, h.core[c].links # Wild,
         h.core[c].links \in Block => Chain(h.block[h.core[c].links].links)
  PROVE  LET g == __track_check_free_mem_block(h, c)
         IN  /\ g.fault = NoFault
             /\ g.core[c].links = Null
             /\ \A a \in Block : a # h.core[c].links =>
                  g.block[a] = h.block[a]
<1> DEFINE b == h.core[c].links
           l == h.block[b].links
           n == FirstWith(l, c)
           g == __track_check_free_mem_block(h, c)
<1>1. b \in Block \cup {Null}
  BY DEF Heap, CoreRec
<1>2. CASE b = Null
  BY <1>2 DEF __track_check_free_mem_block
<1>3. CASE b \in Block
  <2>1. /\ l \in ListOf(Core) /\ Chain(l)
        /\ \E x \in l.used : l.data[x] = c
    BY <1>3 DEF Heap, BlockRec, Owned, Names
  <2>2. Holds(l, n, c)
    BY <2>1, ChainSearch
  <2>3. CanRemove(l, n)
    BY <2>1, <2>2, ChainFollows DEF Holds
  <2>4. h.block[b].live
    BY <1>3, <2>1 DEF Exact, ExactBlock
  <2>5. b # Null /\ LinksFault(h, c) = NoFault
    BY <1>3, <2>4, ValueAssumption DEF LinksFault
  <2>6. g = __track_check_free_links_list(h, c)
    BY <2>5 DEF __track_check_free_mem_block
  <2> DEFINE left == __track_links_list_full_free(h, c)
  <2>7. left = [__track_links_list_node_data_remove(h, c) EXCEPT
                  !.block[b].links = FreeNode(dht_list_remove_node(l, n), n)]
    BY <2>2, <2>3 DEF __track_links_list_full_free
  <2>8. left.fault = NoFault
    BY <2>7 DEF __track_links_list_node_data_remove, Heap
  <2>9. left \in Heap
    BY <1>3, <2>4, FullFreeType
  <2> HIDE DEF left
  <2>10. g.fault = NoFault
    BY <2>6, <2>8, <2>9 DEF __track_check_free_links_list, left, Heap
  <2>11. n # Null
    BY <2>1, <2>2, NodeAssumption DEF Holds, ListOf
  <2> HIDE DEF g, n
  <2>12. \E a \in Block, x \in Node : Removed(h, g, c, a, x)
    BY <1>3, <2>10, <2>11, LeaveParts DEF Missed, g, n
  <2>13. PICK a \in Block, x \in Node : Removed(h, g, c, a, x)
    BY <2>12
  <2>14. /\ a = b
         /\ g.core = [h.core EXCEPT ![c].links = Null]
         /\ \E y : g.block = [h.block EXCEPT ![a] = y]
    BY <2>13 DEF Removed
  <2>15. g.core[c].links = Null
    BY <2>14 DEF Heap, CoreRec
  <2>16. \A y \in Block : y # b => g.block[y] = h.block[y]
    BY <2>14 DEF Heap
  <2> QED
    BY <2>10, <2>15, <2>16 DEF g
<1> QED
  BY <1>1, <1>2, <1>3

(* Joining a block.                                                        *)
LEMMA JoinLost ==
  ASSUME NEW h \in Heap, NEW s \in Core, NEW c \in Core,
         NEW g \in __track_review_mem_links_list(h, s, c)
  PROVE  LostStays(h, g)
<1> DEFINE b == h.core[s].links
           l == h.block[b].links
<1>1. CASE g.block = h.block
  BY <1>1 DEF LostStays
<1>2. ASSUME b \in Block, NEW n \in Allocatable(l), g = AddLink(h, b, c, n)
      PROVE  LostStays(h, g)
  <2> DEFINE m == dht_list_add_node_head(npl_node_alloc(l, n, c), n)
  <2>1. l \in ListOf(Core)
    BY <1>2 DEF Heap, BlockRec
  <2>2. n \in Node /\ n \notin l.used
    BY AllocatableType
  <2>3. Lost(l) => Lost(m)
    BY <2>1, <2>2, LostAdds
  <2>4. g.block = [h.block EXCEPT ![b].links = m]
    BY <1>2 DEF AddLink, Heap
  <2> HIDE DEF m
  <2>5. /\ g.block[b].links = m
        /\ \A a \in Block \ {b} : g.block[a] = h.block[a]
    BY <1>2, <2>4 DEF Heap, BlockRec
  <2> QED
    BY <2>3, <2>5 DEF LostStays
<1>3. ASSUME NEW why, g = Broken(h, why) PROVE g.block = h.block
  BY <1>3 DEF Broken, Heap
<1>4. LinksFault(h, s) = NoFault => b \in Block
  BY LinksFaultType
<1> QED
  BY <1>1, <1>2, <1>3, <1>4 DEF __track_review_mem_links_list

(* If c is empty only where s is, no stray comes of it.                    *)
LEMMA JoinStray ==
  ASSUME NEW h \in Heap, Owned(h), StrayLost(h),
         NEW s \in Core, NEW c \in Core,
         "empty" \in h.core[c].flags => "empty" \in h.core[s].flags,
         NEW g \in __track_review_mem_links_list(h, s, c)
  PROVE  StrayLost(g)
<1>1. /\ LostStays(h, g)
      /\ g.core \in {h.core, [h.core EXCEPT ![c].links = h.core[s].links]}
  BY JoinLost, JoinKeeps
<1>2. /\ \A x \in Core : g.core[x].flags = h.core[x].flags
      /\ \A x \in Core \ {c} : g.core[x].links = h.core[x].links
      /\ g.core[c].links \in {h.core[c].links, h.core[s].links}
  BY <1>1 DEF Heap, CoreRec
<1> SUFFICES ASSUME NEW x \in Core, "empty" \in g.core[x].flags
             PROVE  Loose(g, x)
  BY DEF StrayLost
<1>3. CASE g.core[x].links = h.core[x].links
  BY <1>1, <1>2, <1>3, LooseKept DEF StrayLost
<1>4. CASE x = c /\ g.core[c].links = h.core[s].links
  BY <1>1, <1>2, <1>4 DEF StrayLost, Loose, LostStays
<1> QED
  BY <1>2, <1>3, <1>4

(* A structure joins a block whose list is a chain, and chains stay        *)
(* chains.                                                                 *)
LEMMA JoinChains ==
  ASSUME NEW h \in Heap, Exact(h), Owned(h), h.fault = NoFault,
         NEW s \in Core, NEW c \in Core, h.core[s].links \in Block,
         Chain(h.block[h.core[s].links].links),
         NEW g \in __track_review_mem_links_list(h, s, c)
  PROVE  /\ g.fault = NoFault
         /\ \A a \in Block : Chain(h.block[a].links) => Chain(g.block[a].links)
<1> DEFINE b   == h.core[s].links
           l   == h.block[b].links
           pos == FirstWith(l, c)
<1>1. l \in ListOf(Core)
  BY DEF Heap, BlockRec
<1>2. LinksFault(h, s) = NoFault
  <2>1. l.used # {}
    BY DEF Owned, Names
  <2>2. h.block[b].live
    BY <2>1 DEF Exact, ExactBlock
  <2> QED
    BY <2>2, ValueAssumption DEF LinksFault
<1>3. Holds(l, pos, c) \/ pos = Null
  BY <1>1, ChainSearch
<1>4. \/ g = h
      \/ \E n \in Allocatable(l) : g = AddLink(h, b, c, n)
  BY <1>2, <1>3 DEF __track_review_mem_links_list
<1>5. ASSUME NEW n \in Allocatable(l), g = AddLink(h, b, c, n)
      PROVE  /\ g.fault = NoFault
             /\ \A a \in Block :
                  Chain(h.block[a].links) => Chain(g.block[a].links)
  <2> DEFINE m == dht_list_add_node_head(npl_node_alloc(l, n, c), n)
  <2>1. n \in Node /\ n \notin l.used
    BY AllocatableType
  <2>2. m \in ListOf(Core)
    <3>1. npl_node_alloc(l, n, c) \in ListOf(Core)
      BY <1>1, <2>1, AllocType
    <3> QED
      BY <2>1, <3>1, AddHeadType
  <2>3. Chain(m)
    <3> DEFINE k == Cardinality(l.used)
               v == Order(l)
               u == [i \in 1 .. k + 1 |-> IF i = 1 THEN n ELSE v[i - 1]]
    <3>1. k \in Nat /\ Lined(l, v, k)
      BY <1>1, UsedBound, ChainLined
    <3> HIDE DEF k, v
    <3>2. Lined(m, u, k + 1) /\ k + 1 \in Nat
      BY <1>1, <2>1, <3>1, AddHeadLined
    <3> HIDE DEF m, u
    <3> QED
      BY <2>2, <3>2, LinedChain
  <2>4. /\ g.fault = NoFault
        /\ g.block = [h.block EXCEPT ![b].links = m]
    BY <1>5 DEF AddLink, Heap
  <2> HIDE DEF m
  <2>5. /\ g.block[b].links = m
        /\ \A a \in Block \ {b} : g.block[a] = h.block[a]
    BY <2>4 DEF Heap, BlockRec
  <2> QED
    BY <2>3, <2>4, <2>5
<1> QED
  BY <1>4, <1>5

=============================================================================
