---------------------------- MODULE TrackPtrProps ----------------------------
(***************************************************************************)
(* What the library of TrackPtr promises its program, and what holds of    *)
(* its lists whatever the program calls.  A behaviour ends at its first    *)
(* undefined operation, so a state with a fault recorded is the state the  *)
(* faulty call found.                                                      *)
(***************************************************************************)
EXTENDS TrackPtr

Empty(p) == "empty" \in core[p].flags

(* Every variable has its type; the error codes are those of errdefs.h     *)
(* that trackptr.c can set, and -2 is what track_move_ptr answers when a   *)
(* limit would be crossed.                                                 *)
TypeOK ==
  /\ core     \in [Core -> CoreRec]
  /\ block    \in [Block -> BlockRec]
  /\ mem      \in [Addr -> Byte]
  /\ fault    \in {NoFault} \cup Fault
  /\ inited   \in BOOLEAN
  /\ main     \in ListOf(Core)
  /\ handle   \in SUBSET Core
  /\ leaked   \in BOOLEAN
  /\ pc       \in {"idle", "destroy"}
  /\ pos      \in Ref
  /\ errtrack \in Error
  /\ ret      \in {-2, -1, 0, 1}

-----------------------------------------------------------------------------
(* Memory and its owners *)

(* p's range lies in block b, up to b's last byte.                         *)
RangeIn(p, b) ==
  LET r == core[p]
  IN  /\ block[b].live
      /\ b <= r.start
      /\ r.start <= r.cur
      /\ r.end = b + block[b].size - 1
      /\ r.cur <= r.end \/ block[b].size = 0

(* Memory somebody still tracks is never freed: the range of a tracker     *)
(* that is not empty lies in an allocated block, whatever sequence of      *)
(* track_set_ptr and track_free brought it there and whoever else left     *)
(* that block (tfuncs.c, __track_check_free_links_list).                   *)
TrackersBacked ==
  pc = "idle" => \A p \in handle : Empty(p) \/ \E b \in Block : RangeIn(p, b)

(* The count that decides when a block is freed is the number of nodes in  *)
(* its links list, and so for the main list: no removal is counted twice   *)
(* or missed, even once the list's pointers are damaged.                   *)
CountsExact ==
  /\ inited => main.cnt = Cardinality(main.used) \/ pc = "destroy"
  /\ \A b \in Block : block[b].links.cnt = Cardinality(block[b].links.used)
  /\ \A b \in Block : block[b].live <=> block[b].links.used # {}

(* A structure's links_shared_mem_block is null, or a block that is still  *)
(* allocated and has a node for the structure: following the field never   *)
(* reaches a freed lmblock_t.  (Leftover bytes in the field of an empty    *)
(* tracker are a fault of their own.)                                      *)
LinksAgree ==
  \A c \in Core : LET b == core[c].links IN
    core[c].live /\ b \in Block =>
      /\ block[b].live
      /\ \E n \in block[b].links.used : block[b].links.data[n] = c

(* p's range lies in b, and b's list has a node for p.                     *)
LinkedIn(p, b) ==
  /\ ~Empty(p)
  /\ RangeIn(p, b)
  /\ \E n \in block[b].links.used : block[b].links.data[n] = p

(* Without memory for a link node track_set_ptr leaves a tracker in a      *)
(* block that does not count it, and that block may be freed under it.     *)
(* This harms no other tracker: one that its block counts stays counted,   *)
(* and the block allocated, until the tracker itself leaves.               *)
CountedKeepsBlock ==
  [][\A p \in handle \cap handle', b \in Block :
       /\ LinkedIn(p, b)
       /\ core'[p].links = core[p].links
       /\ pc' = "idle"
       => LET l == block'[b].links IN
            block'[b].live /\ \E n \in l.used : l.data[n] = p]_vars

(* Every tracker the program holds can find itself: its __ptrid is a node  *)
(* of the main list that holds its structure, and the main list holds      *)
(* nothing else.                                                           *)
HandlesListed ==
  pc = "idle" =>
    /\ \A p \in handle : /\ core[p].live
                         /\ core[p].ptrid \in main.used
                         /\ main.data[core[p].ptrid] = p
    /\ Cardinality(handle) = Cardinality(main.used)

-----------------------------------------------------------------------------
(* The shape of the lists *)

Chains == Chain(main) /\ \A b \in Block : Chain(block[b].links)

(* The calls of track_set_ptr that may go wrong even then: one joins the   *)
(* block that the first of them to leave a block has just left, or tnew    *)
(* has no block.                                                           *)
Entangled(s, n, o) ==
  LET left == core[IF o = Null THEN s ELSE o].links
  IN  \/ core[n].links = Null
      \/ left # Null /\ left = core[n].links
      \/ left # Null /\ o \notin {Null, s} /\ left = core[s].links

(* A block of no bytes ends one byte before it starts: the size that is    *)
(* taken over from a tracker of one wraps around, and the checksum of so   *)
(* many bytes is read from outside the block.                              *)
NoBytes(p) == ~Empty(p) /\ core[p].end < core[p].cur

(* track_make_empty leaves in p's pointer to a block what malloc left      *)
(* there: following it is a fault of its own, whatever the lists are.      *)
Leftover(p) == core[p].links = Wild

(* While every list is a chain, no removal follows a pointer it must not   *)
(* follow: every node can leave the main list and any tracker without      *)
(* leftovers can be freed, as track_free and track_destroy do, even one    *)
(* that no block counts because there was no memory for its link.          *)
RemovalsReturn ==
  Chains /\ fault = NoFault =>
    \A p \in handle :
      /\ CanRemove(main, core[p].ptrid)
      /\ ~Leftover(p) =>
           __track_main_list_node_data_free(heap, p).fault = NoFault

(* Nor does re-pointing with other arguments: track_set_ptr of trackers    *)
(* that have bytes returns, whoever shares whose block.                    *)
RepointingReturns ==
  Chains /\ fault = NoFault =>
    \A s, n \in handle, o \in handle \cup {Null} :
      /\ \A p \in {s, n, o} \ {Null} : ~Leftover(p)
      /\ ~Empty(n) /\ ~NoBytes(n)
      /\ o # Null => ~NoBytes(s)
      /\ ~Entangled(s, n, o)
      =>
        \A h \in SetPtrResults(s, n, o) : h.fault = NoFault

(* Chains keep the library safe.                                           *)
ChainsKeepSafe == RemovalsReturn /\ RepointingReturns

-----------------------------------------------------------------------------
(* What the calls promise *)

(* What track_move_ptr is called with, by the program and by the macros.   *)
Distance == Moves \cup Steps \cup {(-i) % UIntSpace : i \in Steps}

(* What code e says of the call that left it: which call it was, and that  *)
(* what the text of e complains of was so.                                 *)
Blames(e) ==
  \/ e = ETRACK_INIT_REQUIRED /\ ~inited
  \/ e = ETRACK_INIT_TWICE /\ inited /\ track_init
  \/ e = ETRACK_NULL_PTR_PASSED /\ inited /\ Null \in NullArg
  \/ /\ e = ETRACK_ALLOC
     /\ MayFail # {}
     /\ \/ track_make_empty
        \/ \E msize \in Sizes, flags \in FlagSets : track_malloc(msize, flags)
  \/ /\ e = ETRACK_IS_EMPTY
     /\ \E s, n \in handle, o \in handle \cup {Null} :
          Empty(n) /\ track_set_ptr(s, n, o)
  \/ \E p \in handle, k \in Distance :
       /\ \/ /\ e \in {ETRACK_WENT_LOWER_LIMIT, ETRACK_WENT_UPPER_LIMIT}
             /\ ret' = -2
             /\ core[p].cur + k \notin core[p].start .. core[p].end
          \/ /\ e = ETRACK_MEM_WAS_CHANGED
             /\ ret' = -1
             /\ __track_memory_changed(heap, p)
       /\ track_move_ptr(p, k)
  \/ \E d, s \in handle, n \in Lens :
       /\ \/ e = ERTACK_MEMCPY_DEST_UP_LIM /\ core[d].cur + n > core[d].end
          \/ e = ERTACK_MEMCPY_SRC_UP_LIM /\ core[s].cur + n > core[s].end
          \/ e = ETRACK_MEMCPY_MEM_OVERLAP
          \/ e = ETRACK_MEMCPY /\ n = 0
       /\ track_memcpy(d, s, n)

(* A call that fails leaves a code that blames this call for something     *)
(* that was so, never one that an earlier call left; the code has a text   *)
(* (but for ETRACK_IS_EMPTY, which track_str_error does not know); and it  *)
(* stays until another call leaves one or track_last_error takes it away.  *)
FailuresExplained ==
  [][/\ ret' < 0 /\ ~(UNCHANGED <<ret, errtrack>>) =>
          /\ Blames(errtrack')
          /\ \/ errtrack' = ETRACK_IS_EMPTY
             \/ track_str_error(errtrack') \notin {ETRACK_NO_ERROR, UnknownMsg}
     /\ errtrack' # errtrack =>
          \/ ret' # 0
          \/ errtrack' = ETRACK_NO_ERROR /\ track_last_error]_vars

(* Only a call that succeeds, track_destroy while it runs and the program  *)
(* itself change structures, blocks, lists, handles or bytes: a call that  *)
(* fails at one of its tests has changed nothing yet, and one that runs    *)
(* out of memory half-way has freed each structure and block it had made.  *)
(* (A links list it had made belongs to no block any more and stays        *)
(* allocated: "leaked".)                                                   *)
FailuresLeaveNoTrace ==
  [][\/ UNCHANGED <<heapVars, main, handle>>
     \/ pc = "destroy"
     \/ ret' = 0 /\ errtrack' = errtrack
     \/ \E p \in handle, v \in Byte : UserWrite(p, v)]_vars

(* track_destroy gives back every structure and every block: outside a     *)
(* session nothing is allocated.                                           *)
DestroyReleasesAll ==
  ~inited => /\ \A c \in Core : ~core[c].live
             /\ \A b \in Block : ~block[b].live

(* Once begun, track_destroy comes to its end or faults; it does not go    *)
(* round in a list.                                                        *)
DestroyEnds == pc = "destroy" ~> pc = "idle" \/ fault # NoFault

Done == ret' = 0 /\ fault' = NoFault

(* The pointer of a tracker that is not empty moves exactly when the       *)
(* distance, taken as a whole number, leaves it in its range and the       *)
(* checksum, where the tracker asks for one, agrees: arithmetic that wraps *)
(* lets no pointer escape.                                                 *)
MoveStaysInRange ==
  [][\A p \in handle, k \in Distance :
       ~Empty(p) /\ fault' = NoFault /\ track_move_ptr(p, k) =>
         LET r     == core[p]
             a     == r.cur + k
             stale == "checksum" \in r.flags /\ __track_memory_changed(heap, p)
         IN  \/ /\ ret' = 0 /\ ~stale /\ a \in r.start .. r.end
                /\ core'[p].cur = a
             \/ ret' = -2 /\ ~stale /\ a \notin r.start .. r.end
             \/ ret' = -1 /\ stale]_vars

(* track_memcpy copies what it was asked to, inside both ranges, and       *)
(* leaves the source, which lies apart, and every other byte alone; for    *)
(* lengths that do not wrap around the address space.                      *)
MemcpyExact ==
  [][\A d, s \in handle, n \in Lens \ {0} :
       /\ ret' = 0 /\ UNCHANGED <<main, handle, pc>>
       /\ ~Empty(d) /\ ~Empty(s)
       /\ core[d].cur + n < AddrSpace /\ core[s].cur + n < AddrSpace
       /\ track_memcpy(d, s, n)
       => LET to   == core[d].cur
             from == core[s].cur
         IN  /\ fault' = NoFault
             /\ to + n - 1 <= core[d].end
             /\ from + n - 1 <= core[s].end
             /\ to + n <= from \/ from + n <= to
             /\ \A i \in 0 .. n - 1 : mem'[to + i] = mem[from + i]
             /\ \A a \in Addr \ (to .. to + n - 1) : mem'[a] = mem[a]]_vars

(* track_set_ptr of three different trackers, wherever it would not fault: *)
(* tset comes to track what tnew tracks, from tnew's current address, with *)
(* the checksum of what is there; told comes to track what tset tracked,   *)
(* from tset's current address; the other trackers are left alone.         *)
SameRange(r, q) == <<r.start, r.cur, r.end, r.flags>>
                   = <<q.cur, q.cur, q.end, q.flags>>
SetPtrHandsOver ==
  pc = "idle" => \A s, n \in handle, o \in handle \cup {Null} :
    s # n /\ o \notin {s, n} /\ ~Empty(n) =>
      \A h \in SetPtrResults(s, n, o) : h.fault = NoFault =>
        /\ SameRange(h.core[s], core[n])
        /\ o # Null => SameRange(h.core[o], core[s])
        /\ \A p \in handle \ {s, o} : h.core[p] = core[p]
        /\ ~__track_memory_changed(h, s)

-----------------------------------------------------------------------------
(* The library implements Trackers.  What a tracker views is read off the  *)
(* addresses of its structure; while track_destroy runs nothing is held.   *)

Held == IF pc = "idle" THEN handle ELSE {}

ViewOf(p) ==
  LET r == core[p]
      b == CHOOSE b \in Block : b <= r.start /\ r.start <= b + MaxSize
  IN  IF p \notin Held \/ Empty(p) THEN Null
      ELSE [block |-> b, from |-> r.start - b, cur |-> r.cur - b,
            to |-> r.end - b]

Promise ==
  INSTANCE Trackers WITH
    Tracker <- Core, Void <- Null,
    held <- Held,
    view <- [p \in Core |-> ViewOf(p)],
    allocated <- {b \in Block : block[b].live}

(* Whatever the lists and counters do, each call that returns has changed  *)
(* what trackers view as it promises, of no other tracker, and has freed   *)
(* no memory in view; this for as long as there is memory for link nodes.  *)
ImplementsTrackers == Promise!Spec

-----------------------------------------------------------------------------
(* Checksums *)

Matches(h, p) == CanChecksum(h, p) /\ ~__track_memory_changed(h, p)

(* A checksum that was right goes wrong only because a byte it covers was  *)
(* written: no call moves a tracker to other bytes and leaves the old      *)
(* checksum behind.  (The exception is told when tset has no block: the    *)
(* code computes no checksum then.)                                        *)
StaleOnlyByWrite ==
  [][Chains =>
       \A p \in handle \cap handle' :
         /\ Matches(heap, p)
         /\ core'[p].links # Null
         /\ ~Matches(heap', p)
         => \E a \in core[p].start .. core[p].start + core[p].msize - 1 :
               mem'[a] # mem[a]]_vars

-----------------------------------------------------------------------------
(* What the comments of the code say and the code does not do              *)

(* trackptr.h says that track_free and track_destroy return 0 or -1: no    *)
(* call of the program has undefined behaviour.                            *)
CallsReturn == fault = NoFault

(* tlmblock.h and tcore.h call the links list of a block the list of the   *)
(* structures that refer to memory of that block: every node in it is of   *)
(* a structure whose links_shared_mem_block is that block.                 *)
LinksRefer ==
  \A b \in Block : \A n \in block[b].links.used :
    LET c == block[b].links.data[n] IN core[c].live /\ core[c].links = b

(* trackptr.h calls iter_step the number of bytes by which the macros move *)
(* a pointer forward and back: where the byte that far back belongs to the *)
(* tracker, TRACK_DEC moves to it (no checksum being in the way).          *)
DecMovesBack ==
  [][\A p \in handle, step \in Steps :
       /\ ~Empty(p) /\ "checksum" \notin core[p].flags
       /\ core[p].start <= core[p].cur - step
       /\ TRACK_DEC(p, step)
       => core'[p].cur = core[p].cur - step]_vars

(* trackptr.h says that track_overwrite_checksum computes the checksum of  *)
(* the memory a tracker has: afterwards it covers the whole range.         *)
ChecksumCoversMemory ==
  [][\A p \in handle :
       /\ ~Empty(p) /\ Done /\ pc = "idle"
       /\ track_overwrite_checksum(p)
       => Len(core'[p].sum) = core[p].end - core[p].start + 1]_vars

=============================================================================
