----------------------------- MODULE TrackFuncs -----------------------------
(***************************************************************************)
(* The internal functions of tfuncs.c and tfuncs.h, as operators on a      *)
(* heap: the control structures (struct_core_track_ptr_t, one for each     *)
(* track_ptr_t the user holds), the memory blocks with their lmblock_t and *)
(* links list, and the bytes of memory.                                    *)
(*                                                                         *)
(* A function that follows a pointer it must not follow (null, never       *)
(* written, or to freed memory), or reads outside an allocated block, has  *)
(* undefined behaviour.  Its result is then the heap with "fault" set to   *)
(* what went wrong first; the rest of such a heap means nothing, and       *)
(* every later function leaves it alone.  A value malloc left in a field   *)
(* that the code reads before writing it is chosen freely (Garbage).       *)
(***************************************************************************)
EXTENDS TrackList, Sequences

CONSTANTS
  Core,       \* addresses malloc can return for a struct_core_track_ptr_t
  Block,      \* addresses malloc can return for the memory the user asks for
  MaxSize,    \* the largest size the user asks for
  AddrSpace,  \* the number of addresses: 2^64 in the code
  Byte,       \* values of a byte of memory
  Wild,       \* a pointer field holding leftover bytes, not null
  NoSum,      \* a checksum field holding leftover bytes
  MayFail     \* the allocations that may fail, named by what they are for

Site == {"memory", "core", "block", "list", "link", "handle", "node"}

(* Blocks lie apart from each other and from both ends of the address      *)
(* space, with at least one byte between them.                             *)
ASSUME LayoutAssumption ==
  /\ MaxSize \in Nat
  /\ AddrSpace \in Nat \ {0}
  /\ Block \subseteq 1 .. (AddrSpace - MaxSize - 1)
  /\ \A a, b \in Block : a < b => a + MaxSize < b

ASSUME ValueAssumption ==
  /\ MayFail \subseteq Site
  /\ Null \notin Core \cup Block
  /\ Wild \notin Core \cup Block \cup {Null}
  /\ NoSum \notin Seq(Byte)
  /\ Byte # {}

Addr == 0 .. AddrSpace - 1
Wrap(x) == x % AddrSpace        \* addr_t and size_t arithmetic

Flag == {"protect", "checksum", "empty"}

CoreRec ==
  [live   : BOOLEAN,
   flags  : SUBSET Flag,
   start  : Addr,
   end    : Addr,
   cur    : Addr,
   msize  : Addr,
   links  : Block \cup {Null, Wild},
   sum    : {NoSum} \cup Seq(Byte),
   ptrid  : Ref]

BlockRec == [live : BOOLEAN, size : 0 .. MaxSize, links : ListOf(Core)]

NoFault == "none"
Fault == {"null_deref", "wild_pointer", "use_after_free", "out_of_bounds",
          "endless_loop"}

Heap ==
  [core  : [Core -> CoreRec],
   block : [Block -> BlockRec],
   mem   : [Addr -> Byte],
   fault : {NoFault} \cup Fault]

FreedCore ==
  [live |-> FALSE, flags |-> {}, start |-> 0, end |-> 0, cur |-> 0,
   msize |-> 0, links |-> Null, sum |-> NoSum, ptrid |-> Null]

FreedBlock == [live |-> FALSE, size |-> 0, links |-> EmptyList]

Broken(h, why) == [h EXCEPT !.fault = why]

-----------------------------------------------------------------------------
(* What is wrong, if anything, with following c's links_shared_mem_block.  *)
LinksFault(h, c) ==
  LET b == h.core[c].links
  IN  CASE b = Null          -> "null_deref"
        [] b = Wild          -> "wild_pointer"
        [] b \in Block       -> IF h.block[b].live THEN NoFault
                                                   ELSE "use_after_free"

(* What is wrong with a walk over l that stopped at pos without a hit.     *)
WalkFault(l, pos) ==
  CASE pos = Null     -> NoFault
    [] pos \in l.used -> "endless_loop"
    [] OTHER          -> "use_after_free"

(* What is wrong with a removal that CanRemove forbids.                    *)
RemoveFault(l, n) ==
  IF Null \in Followed(l, n) THEN "null_deref" ELSE "use_after_free"

(* The len bytes from a on all lie in one allocated block.                 *)
Readable(h, a, len) ==
  \/ len = 0
  \/ \E b \in Block : /\ h.block[b].live
                      /\ b <= a
                      /\ a + len <= b + h.block[b].size

-----------------------------------------------------------------------------
(* Checksums.  Crc32 is taken to tell any two byte strings apart: the      *)
(* checksum of a range is the sequence of its bytes.                       *)
__track_calc_memory_checksum(h, c) ==
  LET r == h.core[c]
  IN  [i \in 1 .. r.msize |-> h.mem[r.start + i - 1]]

CanChecksum(h, c) == Readable(h, h.core[c].start, h.core[c].msize)

__track_memory_changed(h, c) ==
  h.core[c].sum # __track_calc_memory_checksum(h, c)

(* track_overwrite_checksum, as the other functions call it.               *)
OverwriteChecksum(h, c) ==
  IF h.fault # NoFault THEN h
  ELSE IF ~CanChecksum(h, c) THEN Broken(h, "out_of_bounds")
  ELSE [h EXCEPT !.core[c].sum = __track_calc_memory_checksum(h, c)]

-----------------------------------------------------------------------------
(* A mutant: the structure's pointer to the block stays.                   *)
KeepsBlock(h, c) == h

__track_links_list_node_data_remove(h, c) ==
  [h EXCEPT !.core[c].links = Null]

(* Leaving a block.  c's node is looked for in the links list of the       *)
(* block c names; if it is there c's pointer to the block is cleared, and  *)
(* the node is removed and freed.                                          *)
__track_links_list_full_free(h, c) ==
  LET b   == h.core[c].links
      l   == h.block[b].links
      pos == FirstWith(l, c)
  IN  CASE ~Holds(l, pos, c) ->
             IF pos = Null THEN h ELSE Broken(h, WalkFault(l, pos))
        [] Holds(l, pos, c) /\ ~CanRemove(l, pos) ->
             Broken(h, RemoveFault(l, pos))
        [] OTHER ->
             [__track_links_list_node_data_remove(h, c) EXCEPT
                !.block[b].links = FreeNode(dht_list_remove_node(l, pos), pos)]

(* A mutant: the block goes with one link left.                            *)
FreesEarly(h, c) ==
  LET b    == h.core[c].links
      left == __track_links_list_full_free(h, c)
  IN  IF left.fault = NoFault /\ left.block[b].links.cnt <= 1
      THEN [left EXCEPT !.block[b] = FreedBlock]
      ELSE left

(* The memory goes, and with it the list and the lmblock_t, when the count *)
(* of links reaches zero.                                                  *)
__track_check_free_links_list(h, c) ==
  LET b    == h.core[c].links
      left == __track_links_list_full_free(h, c)
  IN  IF left.fault = NoFault /\ left.block[b].links.cnt = 0
      THEN [left EXCEPT !.block[b] = FreedBlock]
      ELSE left

(* A mutant: the null test is missing.                                     *)
FreesUntested(h, c) ==
  IF h.fault # NoFault THEN h
  ELSE IF LinksFault(h, c) # NoFault THEN Broken(h, LinksFault(h, c))
  ELSE __track_check_free_links_list(h, c)

__track_check_free_mem_block(h, c) ==
  IF h.fault # NoFault \/ h.core[c].links = Null THEN h
  ELSE IF LinksFault(h, c) # NoFault THEN Broken(h, LinksFault(h, c))
  ELSE __track_check_free_links_list(h, c)

(* Called for the data of a main list node: c itself goes too.             *)
__track_main_list_node_data_free(h, c) ==
  IF c = Null \/ ~h.core[c].live
  THEN Broken(h, "use_after_free")
  ELSE LET left == __track_check_free_mem_block(h, c)
       IN  [left EXCEPT !.core[c] = FreedCore]

-----------------------------------------------------------------------------
(* Joining a block.                                                        *)

(* c is added at the head of b's links, in node n, and then names b.       *)
AddLink(h, b, c, n) ==
  [h EXCEPT
     !.block[b].links =
        dht_list_add_node_head(npl_node_alloc(h.block[b].links, n, c), n),
     !.core[c].links = b]

(* The possible results of __track_review_mem_links_list: c joins the      *)
(* block that s names, unless a node of that block's list holds c already  *)
(* (then c's own pointer to a block is left as it is) or there is no       *)
(* memory for the node (the caller is told, and track_set_ptr ignores it). *)
__track_review_mem_links_list(h, s, c) ==
  LET b   == h.core[s].links
      l   == h.block[b].links
      pos == FirstWith(l, c)
  IN  IF h.fault # NoFault THEN {h}
      ELSE IF LinksFault(h, s) # NoFault THEN {Broken(h, LinksFault(h, s))}
      ELSE IF Holds(l, pos, c) THEN {h}
      ELSE IF pos # Null THEN {Broken(h, WalkFault(l, pos))}
      ELSE {AddLink(h, b, c, n) : n \in Allocatable(l)}
             \cup (IF "link" \in MayFail THEN {h} ELSE {})

(* s comes to control what n controls, from n's current address on.        *)
__track_migrate_cur_ptr(h, s, n) ==
  LET from == h.core[n]
  IN  [h EXCEPT !.core[s] =
         [@ EXCEPT !.start = from.cur,
                   !.cur   = from.cur,
                   !.end   = from.end,
                   !.msize = Wrap(from.end - from.cur),
                   !.flags = from.flags]]

-----------------------------------------------------------------------------
(* __track_struct_core_first_init: a new control structure for msize bytes *)
(* at address a, in memory whose old content is g.                         *)
CoreAt(a, end, flags, g) ==
  [live |-> TRUE, flags |-> flags, start |-> a, end |-> end, cur |-> a,
   msize |-> g.msize, links |-> g.links, sum |-> g.sum, ptrid |-> Null]

(* A mutant: the end of no memory is computed as a signed number.          *)
SignedEnd(a, msize, flags, g) == CoreAt(a, a + msize - 1, flags, g)

NewCore(a, msize, flags, g) == CoreAt(a, Wrap(a + msize - 1), flags, g)

(* __track_links_mem_block_first_init.                                     *)
UnlinkedBlock(msize) == [live |-> TRUE, size |-> msize, links |-> EmptyList]

(* The review that follows it adds the structure itself: the list of a new *)
(* block holds one node.                                                   *)
NewBlock(msize, c, n) ==
  [UnlinkedBlock(msize) EXCEPT
     !.links = dht_list_add_node_head(npl_node_alloc(EmptyList, n, c), n)]

(* A mutant: only dest inside src's range counts.                          *)
OverlayOneSided(h, d, s, n) ==
  LET a == h.core[d].cur
      b == h.core[s].cur
  IN  b <= a /\ a <= Wrap(b + n)

(* __track_check_overlay_cur_addr.                                         *)
__track_check_overlay_cur_addr(h, d, s, n) ==
  LET a == h.core[d].cur
      b == h.core[s].cur
  IN  \/ b <= a /\ a <= Wrap(b + n)
      \/ b <= Wrap(a + n) /\ Wrap(a + n) <= Wrap(b + n)

=============================================================================
