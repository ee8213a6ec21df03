-------------------------- MODULE TrackFuncsLemmas --------------------------
(***************************************************************************)
(* Facts about the operators of TrackFuncs: each internal function of the  *)
(* library takes a heap to a heap, or records a fault.                     *)
(***************************************************************************)
EXTENDS TrackFuncs, TrackListLemmas, SequenceTheorems

(* Address arithmetic stays in the address space.                          *)
LEMMA WrapType == ASSUME NEW x \in Int PROVE Wrap(x) \in Addr
  BY LayoutAssumption DEF Wrap, Addr

(* An address is a natural number.                                         *)
LEMMA AddrNat == Addr \subseteq Nat
  BY LayoutAssumption DEF Addr

(* A block and every byte in it are addresses.                             *)
LEMMA BlockAddr ==
  ASSUME NEW b \in Block
  PROVE  /\ b \in Nat \ {0}
         /\ b \in Addr
         /\ b + MaxSize \in Addr
  BY LayoutAssumption DEF Addr

-----------------------------------------------------------------------------
(* Parts of a heap replaced by others of their type.                       *)

(* An unused structure has the type of structures.                         *)
LEMMA FreedCoreType == FreedCore \in CoreRec
  BY LayoutAssumption DEF FreedCore, CoreRec, Addr, Ref

(* An unused block has the type of blocks.                                 *)
LEMMA FreedBlockType == FreedBlock \in BlockRec
  BY LayoutAssumption, EmptyListType DEF FreedBlock, BlockRec

(* The types of the fields of a heap.                                      *)
LEMMA HeapFields ==
  ASSUME NEW h \in Heap
  PROVE  /\ h.core \in [Core -> CoreRec]
         /\ h.block \in [Block -> BlockRec]
         /\ h.mem \in [Addr -> Byte]
         /\ h.fault \in {NoFault} \cup Fault
  BY DEF Heap

(* A structure may be replaced by any structure.                           *)
LEMMA PutCore ==
  ASSUME NEW h \in Heap, NEW c \in Core, NEW r \in CoreRec
  PROVE  [h EXCEPT !.core[c] = r] \in Heap
  BY DEF Heap

(* A block may be replaced by any block.                                   *)
LEMMA PutBlock ==
  ASSUME NEW h \in Heap, NEW b \in Block, NEW r \in BlockRec
  PROVE  [h EXCEPT !.block[b] = r] \in Heap
  BY DEF Heap

(* A block's links list may be replaced by any list of structures.         *)
LEMMA PutLinks ==
  ASSUME NEW h \in Heap, NEW b \in Block, NEW l \in ListOf(Core)
  PROVE  [h EXCEPT !.block[b].links = l] \in Heap
<1>1. [h.block[b] EXCEPT !.links = l] \in BlockRec
  BY DEF Heap, BlockRec
<1> QED
  BY <1>1 DEF Heap

(* A structure's block pointer may be set to a block or cleared.           *)
LEMMA PutCoreLinks ==
  ASSUME NEW h \in Heap, NEW c \in Core, NEW b \in Block \cup {Null}
  PROVE  [h EXCEPT !.core[c].links = b] \in Heap
<1>1. [h.core[c] EXCEPT !.links = b] \in CoreRec
  BY DEF Heap, CoreRec
<1> QED
  BY <1>1 DEF Heap

(* A structure's checksum may be set to any byte string.                   *)
LEMMA PutSum ==
  ASSUME NEW h \in Heap, NEW c \in Core, NEW s \in {NoSum} \cup Seq(Byte)
  PROVE  [h EXCEPT !.core[c].sum = s] \in Heap
<1>1. [h.core[c] EXCEPT !.sum = s] \in CoreRec
  BY DEF Heap, CoreRec
<1> QED
  BY <1>1 DEF Heap

(* The fault of a read outside every block is a fault.                     *)
LEMMA OutOfBoundsFault == "out_of_bounds" \in Fault
  BY DEF Fault

(* Recording a fault keeps the type of the heap.                           *)
LEMMA BrokenType ==
  ASSUME NEW h \in Heap, NEW why \in {NoFault} \cup Fault
  PROVE  Broken(h, why) \in Heap
  BY DEF Broken, Heap

-----------------------------------------------------------------------------
(* Faults have names of faults.                                            *)

(* Following a structure's block pointer gives a fault, or a block.        *)
LEMMA LinksFaultType ==
  ASSUME NEW h \in Heap, NEW c \in Core
  PROVE  /\ LinksFault(h, c) \in {NoFault} \cup Fault
         /\ LinksFault(h, c) = NoFault => h.core[c].links \in Block
<1> DEFINE b == h.core[c].links
<1>1. b \in Block \cup {Null, Wild}
  BY DEF Heap, CoreRec
<1>2. CASE b = Null
  BY <1>2, ValueAssumption DEF LinksFault, Fault, NoFault
<1>3. CASE b = Wild
  BY <1>3, ValueAssumption DEF LinksFault, Fault, NoFault
<1>4. CASE b \in Block
  BY <1>4, ValueAssumption DEF LinksFault, Fault, NoFault
<1> QED
  BY <1>1, <1>2, <1>3, <1>4

(* What is wrong with a walk, if anything, is a fault.                     *)
LEMMA WalkFaultType ==
  ASSUME NEW l, NEW pos
  PROVE  WalkFault(l, pos) \in {NoFault} \cup Fault
  BY DEF WalkFault, Fault

(* What is wrong with a removal is a fault.                                *)
LEMMA RemoveFaultType ==
  ASSUME NEW l, NEW n
  PROVE  RemoveFault(l, n) \in Fault
  BY DEF RemoveFault, Fault

-----------------------------------------------------------------------------
(* The functions.                                                          *)

(* Bytes that can be read are at addresses.                                *)
LEMMA ReadableAddr ==
  ASSUME NEW h \in Heap, NEW a \in Nat, NEW len \in Nat, Readable(h, a, len),
         NEW i \in 0 .. len - 1
  PROVE  a + i \in Addr
<1>1. PICK b \in Block : b <= a /\ a + len <= b + h.block[b].size
  BY DEF Readable
<1>2. h.block[b].size \in 0 .. MaxSize
  BY DEF Heap, BlockRec
<1>3. b \in Nat /\ b + MaxSize \in Addr /\ MaxSize \in Nat
  BY BlockAddr, LayoutAssumption
<1> QED
  BY <1>1, <1>2, <1>3, LayoutAssumption DEF Addr

(* A checksum is a string of bytes.                                        *)
LEMMA ChecksumType ==
  ASSUME NEW h \in Heap, NEW c \in Core, CanChecksum(h, c)
  PROVE  __track_calc_memory_checksum(h, c) \in Seq(Byte)
<1> DEFINE r == h.core[c]
<1>1. r.start \in Nat /\ r.msize \in Nat
  BY AddrNat DEF Heap, CoreRec
<1>2. \A i \in 1 .. r.msize : r.start + i - 1 \in Addr
  <2> TAKE i \in 1 .. r.msize
  <2>1. i - 1 \in 0 .. r.msize - 1
    BY <1>1
  <2>2. r.start + (i - 1) \in Addr
    BY <1>1, <2>1, ReadableAddr DEF CanChecksum
  <2> QED
    BY <1>1, <2>2
<1>3. __track_calc_memory_checksum(h, c) \in [1 .. r.msize -> Byte]
  BY <1>2 DEF Heap, __track_calc_memory_checksum
<1> QED
  BY <1>1, <1>3, SeqDef

(* track_overwrite_checksum.                                               *)
LEMMA OverwriteChecksumType ==
  ASSUME NEW h \in Heap, NEW c \in Core
  PROVE  OverwriteChecksum(h, c) \in Heap
<1>1. CASE h.fault # NoFault
  BY <1>1 DEF OverwriteChecksum
<1>2. CASE h.fault = NoFault /\ ~CanChecksum(h, c)
  BY <1>2, BrokenType, OutOfBoundsFault DEF OverwriteChecksum
<1>3. CASE h.fault = NoFault /\ CanChecksum(h, c)
  BY <1>3, ChecksumType, PutSum DEF OverwriteChecksum
<1> QED
  BY <1>1, <1>2, <1>3

(* __track_links_list_full_free of a structure that names a block.         *)
LEMMA FullFreeType ==
  ASSUME NEW h \in Heap, NEW c \in Core, h.core[c].links \in Block
  PROVE  __track_links_list_full_free(h, c) \in Heap
<1> DEFINE b   == h.core[c].links
           l   == h.block[b].links
           pos == FirstWith(l, c)
<1>0. l \in ListOf(Core)
  BY DEF Heap, BlockRec
<1>1. CASE ~Holds(l, pos, c)
  <2>1. Broken(h, WalkFault(l, pos)) \in Heap
    BY WalkFaultType, BrokenType
  <2> QED
    BY <1>1, <2>1 DEF __track_links_list_full_free
<1>2. CASE Holds(l, pos, c) /\ ~CanRemove(l, pos)
  <2>1. Broken(h, RemoveFault(l, pos)) \in Heap
    BY RemoveFaultType, BrokenType
  <2> QED
    BY <1>2, <2>1 DEF __track_links_list_full_free
<1>3. CASE Holds(l, pos, c) /\ CanRemove(l, pos)
  <2> DEFINE g == __track_links_list_node_data_remove(h, c)
             m == FreeNode(dht_list_remove_node(l, pos), pos)
  <2>1. pos \in Node
    BY <1>0, <1>3 DEF Holds, ListOf
  <2>2. m \in ListOf(Core)
    BY <1>0, <1>3, <2>1, RemoveType, FreeType
  <2>3. g \in Heap
    BY PutCoreLinks DEF __track_links_list_node_data_remove
  <2>4. [g EXCEPT !.block[b].links = m] \in Heap
    BY <2>2, <2>3, PutLinks
  <2>5. __track_links_list_full_free(h, c) = [g EXCEPT !.block[b].links = m]
    BY <1>3 DEF __track_links_list_full_free
  <2> QED
    BY <2>4, <2>5
<1> QED
  BY <1>1, <1>2, <1>3

(* __track_check_free_links_list of a structure that names a block.        *)
LEMMA CheckFreeLinksType ==
  ASSUME NEW h \in Heap, NEW c \in Core, h.core[c].links \in Block
  PROVE  __track_check_free_links_list(h, c) \in Heap
<1> DEFINE left == __track_links_list_full_free(h, c)
           b    == h.core[c].links
<1>1. left \in Heap
  BY FullFreeType
<1>2. [left EXCEPT !.block[b] = FreedBlock] \in Heap
  BY <1>1, PutBlock, FreedBlockType
<1>3. \/ __track_check_free_links_list(h, c) = left
      \/ __track_check_free_links_list(h, c) =
           [left EXCEPT !.block[b] = FreedBlock]
  BY DEF __track_check_free_links_list
<1> HIDE DEF left
<1> QED
  BY <1>1, <1>2, <1>3

(* __track_check_free_mem_block.                                           *)
LEMMA CheckFreeBlockType ==
  ASSUME NEW h \in Heap, NEW c \in Core
  PROVE  __track_check_free_mem_block(h, c) \in Heap
<1>1. CASE h.fault # NoFault \/ h.core[c].links = Null
  BY <1>1 DEF __track_check_free_mem_block
<1>2. CASE /\ ~(h.fault # NoFault \/ h.core[c].links = Null)
           /\ LinksFault(h, c) # NoFault
  <2>1. Broken(h, LinksFault(h, c)) \in Heap
    BY LinksFaultType, BrokenType
  <2> QED
    BY <1>2, <2>1 DEF __track_check_free_mem_block
<1>3. CASE /\ ~(h.fault # NoFault \/ h.core[c].links = Null)
           /\ LinksFault(h, c) = NoFault
  <2>1. h.core[c].links \in Block
    BY <1>3, LinksFaultType
  <2>2. __track_check_free_links_list(h, c) \in Heap
    BY <2>1, CheckFreeLinksType
  <2> QED
    BY <1>3, <2>2 DEF __track_check_free_mem_block
<1> QED
  BY <1>1, <1>2, <1>3

(* __track_main_list_node_data_free of whatever a main list node holds.    *)
LEMMA MainNodeFreeType ==
  ASSUME NEW h \in Heap, NEW c \in Core \cup {Null}
  PROVE  __track_main_list_node_data_free(h, c) \in Heap
<1>1. CASE c = Null \/ ~h.core[c].live
  BY <1>1, BrokenType DEF __track_main_list_node_data_free, Fault
<1>2. CASE ~(c = Null \/ ~h.core[c].live)
  <2> DEFINE left == __track_check_free_mem_block(h, c)
  <2>1. c \in Core
    BY <1>2
  <2>2. left \in Heap
    BY <2>1, CheckFreeBlockType
  <2>3. [left EXCEPT !.core[c] = FreedCore] \in Heap
    BY <2>1, <2>2, PutCore, FreedCoreType
  <2> QED
    BY <1>2, <2>3 DEF __track_main_list_node_data_free
<1> QED
  BY <1>1, <1>2

(* A structure joins a block.                                              *)
LEMMA AddLinkType ==
  ASSUME NEW h \in Heap, NEW b \in Block, NEW c \in Core, NEW n \in Node
  PROVE  AddLink(h, b, c, n) \in Heap
<1> DEFINE l == h.block[b].links
           a == npl_node_alloc(l, n, c)
           m == dht_list_add_node_head(a, n)
           g == [h EXCEPT !.block[b].links = m]
<1>1. l \in ListOf(Core)
  BY DEF Heap, BlockRec
<1>2. a \in ListOf(Core)
  BY <1>1, AllocType
<1>3. m \in ListOf(Core)
  BY <1>2, AddHeadType
<1>4. g \in Heap
  BY <1>3, PutLinks
<1>5. AddLink(h, b, c, n) = [g EXCEPT !.core[c].links = b]
  BY DEF AddLink
<1> HIDE DEF g
<1> QED
  BY <1>4, <1>5, PutCoreLinks

(* __track_review_mem_links_list.                                          *)
LEMMA ReviewType ==
  ASSUME NEW h \in Heap, NEW s \in Core, NEW c \in Core
  PROVE  __track_review_mem_links_list(h, s, c) \subseteq Heap
<1> DEFINE b   == h.core[s].links
           l   == h.block[b].links
           pos == FirstWith(l, c)
<1>1. CASE h.fault # NoFault
  BY <1>1 DEF __track_review_mem_links_list
<1>2. CASE h.fault = NoFault /\ LinksFault(h, s) # NoFault
  <2>1. Broken(h, LinksFault(h, s)) \in Heap
    BY LinksFaultType, BrokenType
  <2> QED
    BY <1>2, <2>1 DEF __track_review_mem_links_list
<1>3. CASE h.fault = NoFault /\ LinksFault(h, s) = NoFault
  <2>1. b \in Block
    BY <1>3, LinksFaultType
  <2>2. Broken(h, WalkFault(l, pos)) \in Heap
    BY WalkFaultType, BrokenType
  <2>3. \A n \in Allocatable(l) : AddLink(h, b, c, n) \in Heap
    BY <2>1, AllocatableType, AddLinkType
  <2> QED
    BY <1>3, <2>2, <2>3 DEF __track_review_mem_links_list
<1> QED
  BY <1>1, <1>2, <1>3

(* __track_migrate_cur_ptr.                                                *)
LEMMA MigrateType ==
  ASSUME NEW h \in Heap, NEW s \in Core, NEW n \in Core
  PROVE  __track_migrate_cur_ptr(h, s, n) \in Heap
<1> DEFINE from == h.core[n]
           m    == Wrap(from.end - from.cur)
<1>1. h.core[s] \in CoreRec /\ from \in CoreRec
  BY DEF Heap
<1>2. from.end \in Addr /\ from.cur \in Addr /\ from.flags \in SUBSET Flag
  BY <1>1 DEF CoreRec
<1>3. m \in Addr
  <2>1. from.end - from.cur \in Int
    BY <1>2, LayoutAssumption DEF Addr
  <2> QED
    BY <2>1, WrapType
<1> HIDE DEF m, from
<1> DEFINE r == [h.core[s] EXCEPT !.start = from.cur, !.cur = from.cur,
                                  !.end = from.end, !.msize = m,
                                  !.flags = from.flags]
<1>4. r \in CoreRec
  BY <1>1, <1>2, <1>3 DEF CoreRec
<1>5. __track_migrate_cur_ptr(h, s, n) = [h EXCEPT !.core[s] = r]
  BY DEF __track_migrate_cur_ptr, m, from
<1> HIDE DEF r
<1> QED
  BY <1>4, <1>5, PutCore

(* __track_struct_core_first_init, for a block or no memory, whatever      *)
(* malloc left in the fields it does not write.                            *)
LEMMA NewCoreType ==
  ASSUME NEW a \in Addr, NEW msize \in 0 .. MaxSize, NEW flags \in SUBSET Flag,
         NEW g, g.msize \in Addr, g.links \in {Null, Wild},
         g.sum \in {NoSum} \cup Seq(Byte)
  PROVE  NewCore(a, msize, flags, g) \in CoreRec
<1>1. Wrap(a + msize - 1) \in Addr
  BY AddrNat, WrapType, LayoutAssumption
<1> QED
  BY <1>1 DEF NewCore, CoreAt, CoreRec, Ref

(* The lmblock_t before its list has a node.                               *)
LEMMA UnlinkedBlockType ==
  ASSUME NEW msize \in 0 .. MaxSize
  PROVE  UnlinkedBlock(msize) \in BlockRec
  BY EmptyListType DEF UnlinkedBlock, BlockRec

(* The lmblock_t of a new block, with the structure in its list.           *)
LEMMA NewBlockType ==
  ASSUME NEW msize \in 0 .. MaxSize, NEW c \in Core, NEW n \in Node
  PROVE  NewBlock(msize, c, n) \in BlockRec
<1> DEFINE l == dht_list_add_node_head(npl_node_alloc(EmptyList, n, c), n)
<1>1. npl_node_alloc(EmptyList, n, c) \in ListOf(Core)
  BY EmptyListType, AllocType
<1>2. l \in ListOf(Core)
  BY <1>1, AddHeadType
<1>3. UnlinkedBlock(msize) \in BlockRec
  BY UnlinkedBlockType
<1> HIDE DEF l
<1>4. [UnlinkedBlock(msize) EXCEPT !.links = l] \in BlockRec
  BY <1>2, <1>3 DEF BlockRec
<1> QED
  BY <1>4 DEF NewBlock, l

-----------------------------------------------------------------------------
(* Counts.  Between calls a block is allocated exactly while its links     *)
(* list has nodes, and the list's counter is their number.                 *)

ExactBlock(r) == Counted(r.links) /\ (r.live <=> r.links.used # {})
Exact(h) == \A b \in Block : ExactBlock(h.block[b])

(* A list whose counter is right is empty when the counter is zero.        *)
LEMMA CountedEmpty ==
  ASSUME NEW D, NEW l \in ListOf(D), Counted(l)
  PROVE  l.cnt = 0 <=> l.used = {}
<1>1. IsFiniteSet(l.used)
  BY NodeAssumption, FS_Subset DEF ListOf
<1> QED
  BY <1>1, FS_EmptySet DEF Counted

(* A block that was freed, and one that was just made, are exact.          *)
LEMMA FreedBlockExact == ExactBlock(FreedBlock)
  BY EmptyListCounted DEF FreedBlock, EmptyList, ExactBlock

(* A new block's list counts the one structure in it.                      *)
LEMMA NewBlockExact ==
  ASSUME NEW msize \in 0 .. MaxSize, NEW c \in Core, NEW n \in Node
  PROVE  ExactBlock(NewBlock(msize, c, n))
<1> DEFINE m == npl_node_alloc(EmptyList, n, c)
           l == dht_list_add_node_head(m, n)
           b == NewBlock(msize, c, n)
<1>1. EmptyList \in ListOf(Core) /\ n \notin EmptyList.used
  BY EmptyListType DEF EmptyList
<1>2. Counted(l)
  BY <1>1, EmptyListCounted, AddCounted
<1>3. n \in l.used
  BY DEF dht_list_add_node_head, npl_node_alloc, EmptyList
<1>4. b = [UnlinkedBlock(msize) EXCEPT !.links = l]
  BY DEF NewBlock
<1>5. UnlinkedBlock(msize) \in BlockRec /\ UnlinkedBlock(msize).live = TRUE
  BY UnlinkedBlockType DEF UnlinkedBlock
<1> HIDE DEF b, l
<1>6. b.live = TRUE /\ b.links = l
  BY <1>4, <1>5 DEF BlockRec
<1>7. ExactBlock(b)
  BY <1>2, <1>3, <1>6 DEF ExactBlock
<1> QED
  BY <1>7 DEF b

(* One block replaced by an exact one.                                     *)
LEMMA PutBlockExact ==
  ASSUME NEW h \in Heap, Exact(h), NEW b \in Block, NEW g,
         NEW r, ExactBlock(r), g.block = [h.block EXCEPT ![b] = r]
  PROVE  Exact(g)
  BY DEF Exact, Heap

(* Leaving a block: between the removal of the node and the test of the    *)
(* counter the block may be allocated with no node left; after the test it *)
(* is not.                                                                 *)
LEMMA CheckFreeLinksExact ==
  ASSUME NEW h \in Heap, Exact(h), h.fault = NoFault, NEW c \in Core,
         h.core[c].links \in Block
  PROVE  Exact(__track_check_free_links_list(h, c))
<1> DEFINE b    == h.core[c].links
           l    == h.block[b].links
           pos  == FirstWith(l, c)
           m    == FreeNode(dht_list_remove_node(l, pos), pos)
           left == __track_links_list_full_free(h, c)
           done == __track_check_free_links_list(h, c)
<1> SUFFICES Exact(done)
  OBVIOUS
<1>1. h.block[b] \in BlockRec /\ l \in ListOf(Core) /\ ExactBlock(h.block[b])
  BY DEF Heap, BlockRec, Exact
<1>2. left \in Heap
  BY FullFreeType
<1>3. done = IF left.fault = NoFault /\ left.block[b].links.cnt = 0
             THEN [left EXCEPT !.block[b] = FreedBlock] ELSE left
  BY DEF __track_check_free_links_list
<1>4. CASE left.block = h.block
  <2> HIDE DEF left, done
  <2>1. Exact(left)
    BY <1>4 DEF Exact
  <2>2. CASE done = left
    BY <2>1, <2>2
  <2>3. CASE done = [left EXCEPT !.block[b] = FreedBlock]
    <3>1. done.block = [left.block EXCEPT ![b] = FreedBlock]
      BY <1>2, <2>3 DEF Heap
    <3> QED
      BY <1>2, <2>1, <3>1, FreedBlockExact, PutBlockExact
  <2> QED
    BY <1>3, <2>2, <2>3
<1>5. CASE /\ Holds(l, pos, c) /\ CanRemove(l, pos)
           /\ left.fault = h.fault
           /\ left.block = [h.block EXCEPT ![b].links = m]
  <2>1. pos \in Node
    BY <1>1, <1>5 DEF Holds, ListOf
  <2>2. m \in ListOf(Core) /\ Counted(m)
    BY <1>1, <1>5, <2>1, RemoveType, FreeType, RemoveCounted DEF ExactBlock
  <2>3. h.block[b].live = TRUE
    BY <1>1, <1>5 DEF Holds, BlockRec, ExactBlock
  <2> DEFINE r == [h.block[b] EXCEPT !.links = m]
  <2>4. r.links = m /\ r.live = TRUE
    BY <1>1, <2>3 DEF BlockRec
  <2> HIDE DEF m, pos, left, done
  <2>5. left.block = [h.block EXCEPT ![b] = r] /\ left.block[b].links = m
    <3>1. h.block \in [Block -> BlockRec] /\ b \in Block
      BY DEF Heap
    <3>2. left.block = [h.block EXCEPT ![b] = r]
      BY <1>5, <3>1
    <3> QED
      BY <2>4, <3>1, <3>2
  <2> HIDE DEF r
  <2>6. CASE done = [left EXCEPT !.block[b] = FreedBlock]
    <3>1. done.block = [h.block EXCEPT ![b] = FreedBlock]
      BY <1>2, <2>5, <2>6 DEF Heap
    <3> QED
      BY <3>1, FreedBlockExact, PutBlockExact
  <2>7. CASE done = left /\ m.cnt # 0
    <3>1. m.used # {}
      BY <2>2, <2>7, CountedEmpty
    <3>2. ExactBlock(r)
      BY <2>2, <2>4, <3>1 DEF ExactBlock
    <3> QED
      BY <2>5, <2>7, <3>2, PutBlockExact
  <2> QED
    BY <1>3, <1>5, <2>5, <2>6, <2>7
<1>6. left.block = h.block
        \/ /\ Holds(l, pos, c) /\ CanRemove(l, pos)
           /\ left.fault = h.fault
           /\ left.block = [h.block EXCEPT ![b].links = m]
  <2>1. CASE Holds(l, pos, c) /\ CanRemove(l, pos)
    <3> DEFINE g == __track_links_list_node_data_remove(h, c)
    <3>1. g.block = h.block /\ g.fault = h.fault /\ g \in Heap
      BY PutCoreLinks DEF __track_links_list_node_data_remove, Heap
    <3>2. left = [g EXCEPT !.block[b].links = m]
      BY <2>1 DEF __track_links_list_full_free
    <3> HIDE DEF g, m, left
    <3>3. left.block = [g.block EXCEPT ![b].links = m] /\ left.fault = g.fault
      BY <3>1, <3>2 DEF Heap
    <3> QED
      BY <2>1, <3>1, <3>3
  <2>2. CASE ~(Holds(l, pos, c) /\ CanRemove(l, pos))
    <3>1. left = h \/ \E why \in {WalkFault(l, pos), RemoveFault(l, pos)} :
                        left = Broken(h, why)
      BY <2>2 DEF __track_links_list_full_free
    <3> HIDE DEF left
    <3> QED
      BY <3>1 DEF Broken, Heap
  <2> QED
    BY <2>1, <2>2
<1> QED
  BY <1>4, <1>5, <1>6

(* __track_check_free_mem_block keeps every block exact.                   *)
LEMMA CheckFreeBlockExact ==
  ASSUME NEW h \in Heap, Exact(h), NEW c \in Core
  PROVE  Exact(__track_check_free_mem_block(h, c))
<1>1. CASE h.fault # NoFault \/ h.core[c].links = Null
  BY <1>1 DEF __track_check_free_mem_block
<1>2. CASE /\ ~(h.fault # NoFault \/ h.core[c].links = Null)
           /\ LinksFault(h, c) # NoFault
  <2>1. Broken(h, LinksFault(h, c)).block = h.block
    BY DEF Broken, Heap
  <2> QED
    BY <1>2, <2>1 DEF __track_check_free_mem_block, Exact
<1>3. CASE /\ ~(h.fault # NoFault \/ h.core[c].links = Null)
           /\ LinksFault(h, c) = NoFault
  <2>1. h.core[c].links \in Block
    BY <1>3, LinksFaultType
  <2> QED
    BY <1>3, <2>1, CheckFreeLinksExact DEF __track_check_free_mem_block
<1> QED
  BY <1>1, <1>2, <1>3

(* __track_main_list_node_data_free keeps every block exact.               *)
LEMMA MainNodeFreeExact ==
  ASSUME NEW h \in Heap, Exact(h), NEW c \in Core \cup {Null}
  PROVE  Exact(__track_main_list_node_data_free(h, c))
<1> DEFINE left == __track_check_free_mem_block(h, c)
           done == __track_main_list_node_data_free(h, c)
<1> SUFFICES Exact(done)
  OBVIOUS
<1>1. CASE c = Null \/ ~h.core[c].live
  <2>1. done = Broken(h, "use_after_free")
    BY <1>1 DEF __track_main_list_node_data_free
  <2>2. done.block = h.block
    BY <2>1 DEF Broken, Heap
  <2> QED
    BY <2>2 DEF Exact
<1>2. CASE ~(c = Null \/ ~h.core[c].live)
  <2>1. left \in Heap /\ Exact(left)
    BY <1>2, CheckFreeBlockType, CheckFreeBlockExact
  <2>2. done = [left EXCEPT !.core[c] = FreedCore]
    BY <1>2 DEF __track_main_list_node_data_free
  <2> HIDE DEF left, done
  <2>3. done.block = left.block
    BY <2>1, <2>2 DEF Heap
  <2> QED
    BY <2>1, <2>3 DEF Exact
<1> QED
  BY <1>1, <1>2

(* Joining a block that has nodes keeps it exact.                          *)
LEMMA AddLinkExact ==
  ASSUME NEW h \in Heap, Exact(h), NEW b \in Block, h.block[b].live,
         NEW c \in Core, NEW n \in Allocatable(h.block[b].links)
  PROVE  Exact(AddLink(h, b, c, n))
<1> DEFINE l == h.block[b].links
           m == dht_list_add_node_head(npl_node_alloc(l, n, c), n)
           r == [h.block[b] EXCEPT !.links = m]
<1>1. h.block[b] \in BlockRec /\ l \in ListOf(Core) /\ ExactBlock(h.block[b])
  BY DEF Heap, BlockRec, Exact
<1>2. n \in Node /\ n \notin l.used
  BY AllocatableType
<1>3. Counted(m)
  BY <1>1, <1>2, AddCounted DEF ExactBlock
<1>4. n \in m.used
  <2>1. npl_node_alloc(l, n, c) \in ListOf(Core)
    BY <1>1, <1>2, AllocType
  <2>2. n \in npl_node_alloc(l, n, c).used
    BY <1>1 DEF npl_node_alloc, ListOf
  <2> QED
    BY <2>1, <2>2 DEF dht_list_add_node_head, ListOf
<1> HIDE DEF m
<1>5. ExactBlock(r)
  BY <1>1, <1>3, <1>4 DEF ExactBlock, BlockRec
<1>6. AddLink(h, b, c, n).block = [h.block EXCEPT ![b] = r]
  BY DEF AddLink, m, Heap
<1> QED
  BY <1>5, <1>6, PutBlockExact

(* __track_review_mem_links_list keeps every block exact.                  *)
LEMMA ReviewExact ==
  ASSUME NEW h \in Heap, Exact(h), NEW s \in Core, NEW c \in Core,
         NEW g \in __track_review_mem_links_list(h, s, c)
  PROVE  Exact(g)
<1> DEFINE b == h.core[s].links
           l == h.block[b].links
<1>1. CASE g = h
  BY <1>1
<1>2. CASE \E why \in {LinksFault(h, s), WalkFault(l, FirstWith(l, c))} :
             g = Broken(h, why)
  <2>1. g.block = h.block
    BY <1>2 DEF Broken, Heap
  <2> QED
    BY <2>1 DEF Exact
<1>3. CASE /\ LinksFault(h, s) = NoFault
           /\ \E n \in Allocatable(l) : g = AddLink(h, b, c, n)
  <2>1. b \in Block
    BY <1>3, LinksFaultType
  <2>2. h.block[b].live
    BY <1>3, <2>1, ValueAssumption DEF LinksFault, NoFault
  <2> QED
    BY <1>3, <2>1, <2>2, AddLinkExact
<1> QED
  BY <1>1, <1>2, <1>3 DEF __track_review_mem_links_list

(* Checksums and ranges have nothing to do with the blocks' lists.         *)
LEMMA OverwriteExact ==
  ASSUME NEW h \in Heap, Exact(h), NEW c \in Core
  PROVE  Exact(OverwriteChecksum(h, c))
<1>1. OverwriteChecksum(h, c).block = h.block
  BY DEF OverwriteChecksum, Broken, Heap
<1> QED
  BY <1>1 DEF Exact

(* __track_migrate_cur_ptr does not touch the blocks' lists.               *)
LEMMA MigrateExact ==
  ASSUME NEW h \in Heap, Exact(h), NEW s \in Core, NEW n \in Core
  PROVE  Exact(__track_migrate_cur_ptr(h, s, n))
<1>1. __track_migrate_cur_ptr(h, s, n).block = h.block
  BY DEF __track_migrate_cur_ptr, Heap
<1> QED
  BY <1>1 DEF Exact

=============================================================================
