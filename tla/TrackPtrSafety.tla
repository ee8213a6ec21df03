--------------------------- MODULE TrackPtrSafety ---------------------------
(***************************************************************************)
(* Memory that the program tracks is never freed, for every number of      *)
(* control structures, blocks and nodes, every address space and every     *)
(* program, and although the library may damage its lists: by then the     *)
(* damaged list has a spare node (TrackFuncsOwners).                       *)
(***************************************************************************)
EXTENDS TrackPtrProofs, TrackFuncsOwners

(* c comes to track what n tracked, from n's current address on, and what  *)
(* n named holds for c: then c is safe if n was.                           *)
LEMMA AdoptSafe ==
  ASSUME NEW h \in Heap, NEW g \in Heap, Exact(g), Owned(g), Steady(h, g),
         NEW n \in Core, NEW c \in Core, Safe(h, n),
         g.core[c].start = h.core[n].cur, g.core[c].cur = h.core[n].cur,
         g.core[c].end = h.core[n].end, g.core[c].flags = h.core[n].flags,
         h.core[n].links \in Block => Kept(g, c, h.core[n].links)
  PROVE  Safe(g, c)
<1>1. CASE "empty" \in h.core[n].flags
  BY <1>1 DEF Safe
<1>2. CASE \E b \in Block : Within(h, n, b) /\ Kept(h, n, b)
  <2>1. PICK b \in Block : Within(h, n, b) /\ Kept(h, n, b)
    BY <1>2
  <2>2. Kept(g, c, b)
    BY <2>1 DEF Kept, Steady
  <2>3. g.block[b].live
    BY <2>2, KeptLive
  <2>4. g.block[b].size = h.block[b].size
    BY <2>1, <2>3 DEF Steady, Within
  <2>5. /\ b \in Nat /\ h.core[n].start \in Nat /\ h.core[n].cur \in Nat
        /\ h.core[n].end \in Nat
    BY AddrNat, BlockAddr DEF Heap, CoreRec
  <2>6. Within(g, c, b)
    BY <2>1, <2>3, <2>4, <2>5 DEF Within
  <2> QED
    BY <2>2, <2>6 DEF Safe
<1> QED
  BY <1>1, <1>2 DEF Safe

(* The parts of __track_migrate_cur_ptr's result.                          *)
LEMMA MigrateParts ==
  ASSUME NEW h \in Heap, NEW s \in Core, NEW n \in Core
  PROVE  LET g == __track_migrate_cur_ptr(h, s, n)
         IN  /\ g.block = h.block /\ g.fault = h.fault
             /\ g.core[s].start = h.core[n].cur
             /\ g.core[s].cur = h.core[n].cur
             /\ g.core[s].end = h.core[n].end
             /\ g.core[s].flags = h.core[n].flags
             /\ g.core[s].links = h.core[s].links
             /\ g.core[s].live = h.core[s].live
             /\ g.core[s].ptrid = h.core[s].ptrid
             /\ \A x \in Core \ {s} : g.core[x] = h.core[x]
<1>1. h.core \in [Core -> CoreRec] /\ h.core[s] \in CoreRec
  BY DEF Heap
<1> QED
  BY <1>1 DEF __track_migrate_cur_ptr, Heap, CoreRec

(* The parts of OverwriteChecksum's result.                                *)
LEMMA OverwriteParts ==
  ASSUME NEW h \in Heap, NEW c \in Core
  PROVE  LET g == OverwriteChecksum(h, c)
         IN  /\ g.block = h.block
             /\ h.fault # NoFault => g.fault # NoFault
             /\ SameIds(h, g)
             /\ \A x \in Core : Alike(h.core[x], g.core[x])
<1> DEFINE g == OverwriteChecksum(h, c)
<1>1. CASE g.core = h.core
  BY <1>1 DEF OverwriteChecksum, Broken, Heap, SameIds, Alike
<1>2. CASE h.fault = NoFault /\ CanChecksum(h, c)
  <2> DEFINE t == __track_calc_memory_checksum(h, c)
  <2>1. g = [h EXCEPT !.core[c].sum = t]
    BY <1>2 DEF OverwriteChecksum
  <2> HIDE DEF t, g
  <2>2. g.core = [h.core EXCEPT ![c].sum = t] /\ g.block = h.block
    BY <2>1 DEF Heap
  <2>3. h.core \in [Core -> CoreRec]
    BY DEF Heap
  <2>4. \A x \in Core : /\ g.core[x].live = h.core[x].live
                        /\ g.core[x].ptrid = h.core[x].ptrid
                        /\ Alike(h.core[x], g.core[x])
    BY <2>2, <2>3 DEF CoreRec, Alike
  <2> QED
    BY <1>2, <2>2, <2>4 DEF SameIds, g
<1>3. h.fault # NoFault \/ ~CanChecksum(h, c) => g.core = h.core
  BY DEF OverwriteChecksum, Broken, Heap
<1> QED
  BY <1>1, <1>2, <1>3

-----------------------------------------------------------------------------
(* The two halves of track_set_ptr.                                        *)

(* The second half returns only if tnew names a block; then tset is safe   *)
(* if tnew was, and so is every other structure that was.                  *)
LEMMA TakeOverSafe ==
  ASSUME NEW h \in Heap, Exact(h), Owned(h), NEW s \in Core, NEW n \in Core,
         NEW g \in TakeOver(h, s, n)
  PROVE  /\ Owned(g) /\ Steady(h, g)
         /\ SameIds(h, g)
         /\ g.fault = NoFault => h.fault = NoFault
         /\ "link" \notin MayFail /\ g.fault = NoFault =>
              /\ h.core[n].links \in Block
              /\ Safe(h, n) => Safe(g, s)
              /\ \A p \in Core \ {s} : Safe(h, p) => Safe(g, p)
<1> DEFINE moved == __track_migrate_cur_ptr(h, s, n)
           k == OverwriteChecksum(moved, s)
<1>0. moved \in Heap /\ k \in Heap /\ g \in Heap
  BY MigrateType, OverwriteChecksumType, TakeOverType
<1>1. /\ moved.block = h.block /\ moved.fault = h.fault
      /\ moved.core[s].start = h.core[n].cur
      /\ moved.core[s].cur = h.core[n].cur
      /\ moved.core[s].end = h.core[n].end
      /\ moved.core[s].flags = h.core[n].flags
      /\ moved.core[s].links = h.core[s].links
      /\ moved.core[s].live = h.core[s].live
      /\ moved.core[s].ptrid = h.core[s].ptrid
      /\ \A x \in Core \ {s} : moved.core[x] = h.core[x]
  BY MigrateParts
<1>2. g \in __track_review_mem_links_list(k, n, s)
  BY DEF TakeOver
<1> HIDE DEF moved
<1>3. /\ k.block = moved.block
      /\ moved.fault # NoFault => k.fault # NoFault
      /\ SameIds(moved, k)
      /\ \A x \in Core : Alike(moved.core[x], k.core[x])
  BY <1>0, OverwriteParts
<1> HIDE DEF k
<1>4. /\ \A x \in Core : k.core[x].links = h.core[x].links
      /\ \A x \in Core \ {s} : Alike(h.core[x], k.core[x])
      /\ k.core[s].start = h.core[n].cur /\ k.core[s].cur = h.core[n].cur
      /\ k.core[s].end = h.core[n].end /\ k.core[s].flags = h.core[n].flags
  BY <1>1, <1>3 DEF Alike
<1>5. Owned(k) /\ Steady(h, k) /\ Exact(k)
  BY <1>0, <1>1, <1>3, <1>4, SameLinks DEF Exact
<1>6. /\ Owned(g) /\ Steady(k, g)
      /\ g.core \in {k.core, [k.core EXCEPT ![s].links = k.core[n].links]}
      /\ "link" \notin MayFail /\ g.fault = NoFault =>
           k.core[n].links \in Block /\ Kept(g, s, k.core[n].links)
  BY <1>0, <1>2, <1>5, JoinKeeps
<1>7. Exact(g)
  BY TakeOverExact
<1>8. /\ \A x \in Core \ {s} : g.core[x] = k.core[x]
      /\ g.core[s].start = k.core[s].start /\ g.core[s].cur = k.core[s].cur
      /\ g.core[s].end = k.core[s].end /\ g.core[s].flags = k.core[s].flags
      /\ g.core[s].live = k.core[s].live /\ g.core[s].ptrid = k.core[s].ptrid
  BY <1>0, <1>6 DEF Heap, CoreRec
<1>9. SameIds(h, g)
  BY <1>1, <1>3, <1>8 DEF SameIds
<1>10. ASSUME g.fault = NoFault PROVE h.fault = NoFault
  <2>1. k.fault # NoFault => g = k
    BY <1>2 DEF __track_review_mem_links_list
  <2> QED
    BY <1>1, <1>3, <1>10, <2>1
<1>11. Steady(h, g)
  BY <1>1, <1>3, <1>5, <1>6 DEF Steady
<1>12. ASSUME "link" \notin MayFail, g.fault = NoFault, Safe(h, n)
       PROVE  Safe(g, s)
  BY <1>0, <1>4, <1>6, <1>7, <1>8, <1>11, <1>12, AdoptSafe
<1>13. ASSUME NEW p \in Core \ {s}, Safe(h, p)
       PROVE  Safe(g, p)
  <2>1. Alike(h.core[p], g.core[p])
    BY <1>4, <1>8
  <2> QED
    BY <1>0, <1>6, <1>7, <1>11, <1>13, <2>1, SafeKept
<1> QED
  BY <1>4, <1>6, <1>9, <1>10, <1>11, <1>12, <1>13

(* p is safe, or it has just left its block.                               *)
SafeOrGone(h, p, c) == Safe(h, p) \/ (p = c /\ h.core[c].links = Null)

(* Leaving a block harms nobody else.                                      *)
LEMMA LeaveSafe ==
  ASSUME NEW h \in Heap, Exact(h), Owned(h), NEW c \in Core
  PROVE  LET g == __track_check_free_mem_block(h, c)
         IN  /\ Owned(g)
             /\ Steady(h, g)
             /\ SameIds(h, g)
             /\ \A p \in Core \ {c} : g.core[p] = h.core[p]
             /\ g.core[c] = h.core[c] \/ g.core[c].links = Null
             /\ \A p \in Core : Safe(h, p) => SafeOrGone(g, p, c)
<1> DEFINE g == __track_check_free_mem_block(h, c)
<1>1. g \in Heap /\ Exact(g)
  BY CheckFreeBlockType, CheckFreeBlockExact
<1>2. /\ Owned(g) /\ Steady(h, g)
      /\ g.core \in {h.core, [h.core EXCEPT ![c].links = Null]}
  BY LeaveKeeps
<1> HIDE DEF g
<1>3. /\ \A p \in Core \ {c} : g.core[p] = h.core[p]
      /\ g.core[c] = h.core[c] \/ g.core[c].links = Null
      /\ g.core[c].live = h.core[c].live /\ g.core[c].ptrid = h.core[c].ptrid
  BY <1>2 DEF Heap, CoreRec
<1>4. SameIds(h, g)
  BY <1>3 DEF SameIds
<1>5. ASSUME NEW p \in Core, Safe(h, p) PROVE SafeOrGone(g, p, c)
  <2>1. CASE g.core[p] = h.core[p]
    <3>1. Alike(h.core[p], g.core[p])
      BY <2>1 DEF Alike
    <3> QED
      BY <1>1, <1>2, <1>5, <3>1, SafeKept DEF SafeOrGone
  <2>2. CASE p = c /\ g.core[c].links = Null
    BY <2>2 DEF SafeOrGone
  <2> QED
    BY <1>3, <2>1, <2>2
<1> QED
  BY <1>2, <1>3, <1>4, <1>5 DEF g

(* The first half, with told: told is safe afterwards if tset was; tset    *)
(* itself may have left its block, if it is told.                          *)
LEMMA HandOverSafe ==
  ASSUME NEW h \in Heap, Exact(h), Owned(h), NEW s \in Core, NEW o \in Core,
         NEW g \in HandOver(h, s, o)
  PROVE  /\ Owned(g) /\ Steady(h, g)
         /\ SameIds(h, g)
         /\ "link" \notin MayFail /\ g.fault = NoFault /\ Safe(h, s) =>
              \A p \in Core : Safe(h, p) => SafeOrGone(g, p, s)
<1> DEFINE left  == __track_check_free_mem_block(h, o)
           reset == [left EXCEPT !.core[o].cur = h.core[o].start]
           moved == __track_migrate_cur_ptr(reset, o, s)
<1>1. left \in Heap /\ Exact(left)
  BY CheckFreeBlockType, CheckFreeBlockExact
<1>2. /\ Owned(left) /\ Steady(h, left) /\ SameIds(h, left)
      /\ \A p \in Core \ {o} : left.core[p] = h.core[p]
      /\ left.core[o] = h.core[o] \/ left.core[o].links = Null
      /\ \A p \in Core : Safe(h, p) => SafeOrGone(left, p, o)
  BY LeaveSafe
<1> HIDE DEF left
<1>3. reset \in Heap
  <2>1. left.core[o] \in CoreRec /\ h.core[o] \in CoreRec
    BY <1>1 DEF Heap
  <2>2. [left.core[o] EXCEPT !.cur = h.core[o].start] \in CoreRec
    BY <2>1 DEF CoreRec
  <2> QED
    BY <1>1, <2>2, PutCore
<1>4. /\ reset.block = left.block
      /\ reset.core = [left.core EXCEPT ![o].cur = h.core[o].start]
  BY <1>1 DEF Heap
<1>5. /\ \A p \in Core \ {o} : reset.core[p] = left.core[p]
      /\ reset.core[o].cur = h.core[o].start
      /\ reset.core[o].start = left.core[o].start
      /\ reset.core[o].end = left.core[o].end
      /\ reset.core[o].flags = left.core[o].flags
      /\ reset.core[o].links = left.core[o].links
      /\ reset.core[o].live = left.core[o].live
      /\ reset.core[o].ptrid = left.core[o].ptrid
  BY <1>1, <1>4 DEF Heap, CoreRec
<1>6. Exact(reset) /\ Owned(reset) /\ Steady(left, reset)
  BY <1>1, <1>2, <1>3, <1>4, <1>5, SameLinks DEF Exact
<1> HIDE DEF reset
<1>7. SameIds(h, reset) /\ Steady(h, reset)
  BY <1>2, <1>5, <1>6 DEF SameIds, Steady
<1>8. ASSUME NEW p \in Core, Safe(h, p)
      PROVE  SafeOrGone(reset, p, o)
  <2>1. CASE p # o
    <3>1. Safe(left, p) /\ Alike(left.core[p], reset.core[p])
      BY <1>2, <1>5, <1>8, <2>1 DEF SafeOrGone, Alike
    <3> QED
      BY <1>1, <1>3, <1>6, <3>1, SafeKept DEF SafeOrGone
  <2>2. CASE p = o /\ left.core[o].links = Null
    BY <1>5, <2>2 DEF SafeOrGone
  <2>3. CASE p = o /\ left.core[o] = h.core[o]
    <3>1. CASE "empty" \in h.core[o].flags
      BY <1>5, <2>3, <3>1 DEF SafeOrGone, Safe
    <3>2. CASE \E b \in Block : Within(h, o, b) /\ Kept(h, o, b)
      <4>1. PICK b \in Block : Within(h, o, b) /\ Kept(h, o, b)
        BY <3>2
      <4>2. Kept(reset, o, b)
        BY <1>2, <1>5, <1>6, <2>3, <4>1 DEF Kept, Steady
      <4>3. reset.block[b].live
        BY <1>3, <1>6, <4>2, KeptLive
      <4>4. reset.block[b].size = h.block[b].size
        BY <1>2, <1>4, <4>1, <4>3 DEF Steady, Within
      <4>5. /\ b \in Nat /\ h.core[o].start \in Nat /\ h.core[o].cur \in Nat
            /\ h.core[o].end \in Nat
        BY AddrNat, BlockAddr DEF Heap, CoreRec
      <4>6. Within(reset, o, b)
        BY <1>5, <2>3, <4>1, <4>3, <4>4, <4>5 DEF Within
      <4> QED
        BY <2>3, <4>2, <4>6 DEF SafeOrGone, Safe
    <3> QED
      BY <1>8, <2>3, <3>1, <3>2 DEF Safe
  <2> QED
    BY <1>2, <2>1, <2>2, <2>3
<1>9. /\ moved.block = reset.block
      /\ moved.core[o].start = reset.core[s].cur
      /\ moved.core[o].cur = reset.core[s].cur
      /\ moved.core[o].end = reset.core[s].end
      /\ moved.core[o].flags = reset.core[s].flags
      /\ moved.core[o].links = reset.core[o].links
      /\ moved.core[o].live = reset.core[o].live
      /\ moved.core[o].ptrid = reset.core[o].ptrid
      /\ \A x \in Core \ {o} : moved.core[x] = reset.core[x]
  BY <1>3, MigrateParts
<1>10. moved \in Heap
  BY <1>3, MigrateType
<1>11. \/ moved.core[s].links = Null /\ g = moved
       \/ g \in TakeOver(reset, o, s)
  BY DEF HandOver, TakeOver, left, reset
<1> HIDE DEF moved
<1>12. CASE moved.core[s].links = Null /\ g = moved
  <2>1. Owned(g) /\ Steady(reset, g) /\ Exact(g) /\ SameIds(h, g)
    <3>1. \A c \in Core : g.core[c].links = reset.core[c].links
      BY <1>9, <1>12
    <3>2. SameIds(h, g)
      BY <1>7, <1>9, <1>12 DEF SameIds
    <3> QED
      BY <1>3, <1>6, <1>9, <1>10, <1>12, <3>1, <3>2, SameLinks DEF Exact
  <2>2. ASSUME Safe(h, s), NEW p \in Core, Safe(h, p)
        PROVE  SafeOrGone(g, p, s)
    <3>1. CASE p # o
      <4>1. Safe(reset, p) /\ Alike(reset.core[p], g.core[p])
        BY <1>8, <1>9, <1>12, <2>2, <3>1 DEF SafeOrGone, Alike
      <4> QED
        BY <1>3, <1>10, <1>12, <2>1, <4>1, SafeKept DEF SafeOrGone
    <3>2. CASE p = o /\ o = s
      BY <1>12, <3>2 DEF SafeOrGone
    <3>3. CASE p = o /\ o # s
      <4>1. Safe(reset, s) /\ reset.core[s].links = Null
        BY <1>8, <1>9, <1>12, <2>2, <3>3 DEF SafeOrGone
      <4>2. Safe(g, o)
        BY <1>3, <1>9, <1>10, <1>12, <2>1, <4>1, ValueAssumption, AdoptSafe
      <4> QED
        BY <3>3, <4>2 DEF SafeOrGone
    <3> QED
      BY <3>1, <3>2, <3>3
  <2>3. Steady(h, g)
    BY <1>7, <2>1 DEF Steady
  <2> QED
    BY <2>1, <2>2, <2>3
<1>13. CASE g \in TakeOver(reset, o, s)
  <2>1. /\ Owned(g) /\ Steady(reset, g) /\ SameIds(reset, g)
        /\ "link" \notin MayFail /\ g.fault = NoFault =>
             /\ reset.core[s].links \in Block
             /\ Safe(reset, s) => Safe(g, o)
             /\ \A p \in Core \ {o} : Safe(reset, p) => Safe(g, p)
    BY <1>3, <1>6, <1>13, TakeOverSafe
  <2>2. SameIds(h, g) /\ Steady(h, g)
    BY <1>7, <2>1 DEF SameIds, Steady
  <2>3. ASSUME "link" \notin MayFail, g.fault = NoFault, Safe(h, s),
               NEW p \in Core, Safe(h, p)
        PROVE  Safe(g, p)
    <3>1. Safe(reset, s)
      BY <1>8, <2>1, <2>3, ValueAssumption DEF SafeOrGone
    <3>2. p = o \/ Safe(reset, p)
      BY <1>8, <2>3 DEF SafeOrGone
    <3> QED
      BY <2>1, <2>3, <3>1, <3>2
  <2> QED
    BY <2>1, <2>2, <2>3 DEF SafeOrGone
<1> QED
  BY <1>11, <1>12, <1>13

(* track_set_ptr, whichever of its arguments are the same and whoever      *)
(* shares whose block: what was safe before it is safe after it.           *)
LEMMA SetPtrSafe ==
  ASSUME heap \in Heap, Exact(heap), Owned(heap),
         NEW P \in SUBSET Core, NEW s \in P, NEW n \in P,
         NEW o \in P \cup {Null}, NEW g \in SetPtrResults(s, n, o)
  PROVE  /\ g \in Heap /\ Owned(g) /\ Steady(heap, g) /\ SameIds(heap, g)
         /\ /\ "link" \notin MayFail /\ g.fault = NoFault
            /\ \A p \in P : Safe(heap, p)
            => \A p \in P : Safe(g, p)
<1>0. s \in Core /\ n \in Core /\ (o # Null => o \in Core)
  OBVIOUS
<1>1. PICK k : g \in TakeOver(k, s, n)
                 /\ IF o = Null
                    THEN k = __track_check_free_mem_block(heap, s)
                    ELSE k \in HandOver(heap, s, o)
  BY DEF SetPtrResults
<1>2. /\ k \in Heap /\ Exact(k) /\ Owned(k) /\ Steady(heap, k)
      /\ SameIds(heap, k)
      /\ "link" \notin MayFail /\ k.fault = NoFault /\ Safe(heap, s) =>
           \A p \in Core : Safe(heap, p) => SafeOrGone(k, p, s)
  <2>1. CASE o = Null
    BY <1>0, <1>1, <2>1, CheckFreeBlockType, CheckFreeBlockExact, LeaveSafe
  <2>2. CASE o # Null
    BY <1>0, <1>1, <2>2, HandOverType, HandOverExact, HandOverSafe
  <2> QED
    BY <2>1, <2>2
<1>3. /\ Owned(g) /\ Steady(k, g) /\ SameIds(k, g)
      /\ g.fault = NoFault => k.fault = NoFault
      /\ "link" \notin MayFail /\ g.fault = NoFault =>
           /\ k.core[n].links \in Block
           /\ Safe(k, n) => Safe(g, s)
           /\ \A p \in Core \ {s} : Safe(k, p) => Safe(g, p)
  BY <1>0, <1>1, <1>2, TakeOverSafe
<1>4. g \in Heap
  BY <1>0, <1>1, <1>2, TakeOverType
<1>5. SameIds(heap, g) /\ Steady(heap, g)
  BY <1>2, <1>3 DEF SameIds, Steady
<1>6. ASSUME "link" \notin MayFail, g.fault = NoFault,
             \A p \in P : Safe(heap, p), NEW p \in P
      PROVE  Safe(g, p)
  <2>1. Safe(k, n)
    BY <1>0, <1>2, <1>3, <1>6, ValueAssumption DEF SafeOrGone
  <2>2. p = s \/ Safe(k, p)
    BY <1>2, <1>3, <1>6 DEF SafeOrGone
  <2> QED
    BY <1>0, <1>3, <1>6, <2>1, <2>2
<1> QED
  BY <1>3, <1>4, <1>5, <1>6

-----------------------------------------------------------------------------
(* Releasing a structure with its main list node.                          *)

(* Every other structure that was safe stays safe.                         *)
LEMMA NodeFreeSafe ==
  ASSUME NEW h \in Heap, Exact(h), Owned(h), NEW c \in Core \cup {Null}
  PROVE  LET g == __track_main_list_node_data_free(h, c)
         IN  /\ Owned(g) /\ Steady(h, g)
             /\ g.fault = NoFault =>
                  /\ \A p \in Core \ {c} : g.core[p] = h.core[p]
                  /\ \A p \in Core \ {c} : Safe(h, p) => Safe(g, p)
<1> DEFINE g    == __track_main_list_node_data_free(h, c)
           left == __track_check_free_mem_block(h, c)
<1>1. CASE c = Null \/ ~h.core[c].live
  <2>1. g = Broken(h, "use_after_free")
    BY <1>1 DEF __track_main_list_node_data_free
  <2>2. /\ g.core = h.core /\ g.block = h.block
        /\ g.fault # NoFault
    BY <2>1 DEF Broken, Heap, NoFault
  <2>3. g \in Heap
    BY MainNodeFreeType
  <2> QED
    BY <2>2, <2>3, SameLinks
<1>2. CASE ~(c = Null \/ ~h.core[c].live)
  <2>1. c \in Core
    BY <1>2
  <2>2. left \in Heap /\ Exact(left) /\ g \in Heap /\ Exact(g)
    BY <2>1, CheckFreeBlockType, CheckFreeBlockExact, MainNodeFreeType,
       MainNodeFreeExact
  <2>3. /\ Owned(left) /\ Steady(h, left)
        /\ \A p \in Core \ {c} : left.core[p] = h.core[p]
        /\ \A p \in Core : Safe(h, p) => SafeOrGone(left, p, c)
    BY <2>1, LeaveSafe
  <2>4. g = [left EXCEPT !.core[c] = FreedCore]
    BY <1>2 DEF __track_main_list_node_data_free
  <2> HIDE DEF g, left
  <2>5. g.core = [left.core EXCEPT ![c] = FreedCore] /\ g.block = left.block
    BY <2>2, <2>4 DEF Heap
  <2>6. Owned(g) /\ Steady(left, g)
    <3>1. FreedCore.links \notin Block
      BY ValueAssumption DEF FreedCore
    <3> QED
      BY <2>1, <2>2, <2>3, <2>5, <3>1, ForgetKeeps
  <2>7. \A p \in Core \ {c} : g.core[p] = left.core[p]
    BY <2>2, <2>5 DEF Heap
  <2>8. ASSUME NEW p \in Core \ {c}, Safe(h, p) PROVE Safe(g, p)
    <3>1. Safe(left, p) /\ Alike(left.core[p], g.core[p])
      BY <2>3, <2>7, <2>8 DEF SafeOrGone, Alike
    <3> QED
      BY <2>2, <2>6, <3>1, SafeKept
  <2>9. Steady(h, g)
    BY <2>3, <2>6 DEF Steady
  <2> QED
    BY <2>3, <2>6, <2>7, <2>8, <2>9 DEF g
<1> QED
  BY <1>1, <1>2

-----------------------------------------------------------------------------
(* The invariant.  What the program holds is allocated and can find its    *)
(* main list node; block pointers are answered by nodes; and, where link   *)
(* nodes can be had, what the program holds is safe.                       *)

Listed ==
  pc = "idle" => \A p \in handle : /\ core[p].live
                                   /\ core[p].ptrid \in main.used
                                   /\ main.data[core[p].ptrid] = p
SameNumber == pc = "idle" => Cardinality(handle) = Cardinality(main.used)
AllSafe ==
  "link" \notin MayFail /\ pc = "idle" => \A p \in handle : Safe(heap, p)

SafeInv ==
  /\ CountInv
  /\ Owned(heap)
  /\ Listed
  /\ SameNumber
  /\ IsFiniteSet(handle)
  /\ ~inited => handle = {}
  /\ AllSafe

(* It says what LinksAgree, HandlesListed and TrackersBacked say.          *)
LEMMA SafeInvLinks == SafeInv => LinksAgree
<1> SUFFICES ASSUME SafeInv, NEW c \in Core, core[c].links \in Block
             PROVE  /\ block[core[c].links].live
                    /\ Names(block[core[c].links].links, c)
  BY DEF LinksAgree, Names
<1>1. Names(block[core[c].links].links, c)
  BY DEF SafeInv, Owned, heap
<1>2. ExactBlock(block[core[c].links])
  BY DEF SafeInv, CountInv, Exact, heap
<1>3. block[core[c].links].links.used # {}
  BY <1>1 DEF Names
<1> QED
  BY <1>1, <1>2, <1>3 DEF ExactBlock

(* The handles are those of the main list.                                 *)
LEMMA SafeInvHandles == SafeInv => HandlesListed
  BY DEF SafeInv, Listed, SameNumber, HandlesListed

(* A safe tracker's range lies in an allocated block.                      *)
LEMMA SafeInvBacked ==
  ASSUME "link" \notin MayFail, SafeInv
  PROVE  TrackersBacked
  BY DEF SafeInv, AllSafe, TrackersBacked, Safe, Within, Empty, RangeIn, heap

(* It holds before the first call.                                         *)
LEMMA SafeInit == Init => SafeInv
<1> SUFFICES ASSUME Init PROVE SafeInv
  OBVIOUS
<1>1. Owned(heap)
  <2>1. \A c \in Core : heap.core[c].links = Null
    BY DEF Init, heap, FreedCore
  <2> QED
    BY <2>1, ValueAssumption DEF Owned
<1>2. Cardinality(handle) = Cardinality(main.used)
  BY DEF Init, EmptyList
<1> QED
  BY <1>1, <1>2, CountInit, FS_EmptySet
  DEF SafeInv, Listed, SameNumber, AllSafe, Init

(* A call that leaves the structures, blocks and lists alone.              *)
LEMMA SameSafe ==
  ASSUME SafeInv, CountInv', UNCHANGED <<core, block, main, inited, handle, pc>>
  PROVE  SafeInv'
<1>1. Owned(heap)' /\ \A p \in Core : Safe(heap, p) => Safe(heap, p)'
  BY DEF SafeInv, Owned, Safe, Within, Kept, Spare, heap
<1>2. handle \subseteq Core
  BY DEF SafeInv, CountInv, TypeOK
<1> QED
  BY <1>1, <1>2 DEF SafeInv, Listed, SameNumber, AllSafe

(* A call that answers, or whose behaviour is undefined.                   *)
LEMMA AnswerSafe ==
  ASSUME SafeInv, CountInv',
         \/ \E e, r : Answer(e, r)
         \/ \E why : Crash(why)
         \/ \E args : Rejects(args)
  PROVE  SafeInv'
  BY SameSafe DEF Answer, Crash, Rejects, heapVars, clientVars

(* What a new state needs of the heap h that a call returns.               *)
LEMMA ReturnSafe ==
  ASSUME SafeInv, CountInv', inited, NEW h \in Heap, Owned(h),
         NEW l, NEW hs \in SUBSET Core, IsFiniteSet(hs), Return(h, l, hs),
         h.fault = NoFault =>
           /\ \A p \in hs : /\ h.core[p].live
                            /\ h.core[p].ptrid \in l.used
                            /\ l.data[h.core[p].ptrid] = p
           /\ Cardinality(hs) = Cardinality(l.used)
           /\ "link" \notin MayFail => \A p \in hs : Safe(h, p)
  PROVE  SafeInv'
<1>1. CASE Crash(h.fault)
  BY <1>1, AnswerSafe
<1>2. CASE /\ h.fault = NoFault
           /\ core' = h.core /\ block' = h.block /\ main' = l /\ handle' = hs
           /\ UNCHANGED <<inited, pc>>
  <2>1. heap'.core = h.core /\ heap'.block = h.block
    BY <1>2 DEF heap
  <2>2. Owned(heap)'
    BY <2>1 DEF Owned
  <2>3. \A p \in hs : Safe(h, p) => Safe(heap, p)'
    BY <2>1 DEF Safe, Within, Kept, Spare
  <2> QED
    BY <1>2, <2>2, <2>3 DEF SafeInv, Listed, SameNumber, AllSafe
<1> QED
  BY <1>1, <1>2 DEF Return

(* A call that returns with the same structures, handles and main list.    *)
LEMMA ReturnSameSafe ==
  ASSUME SafeInv, CountInv', inited, pc = "idle", NEW h \in Heap, Owned(h),
         SameIds(heap, h), Return(h, main, handle),
         "link" \notin MayFail /\ h.fault = NoFault =>
           \A p \in handle : Safe(h, p)
  PROVE  SafeInv'
<1>1. handle \in SUBSET Core
  BY DEF SafeInv, CountInv, TypeOK
<1>2. \A p \in handle : /\ h.core[p].live
                        /\ h.core[p].ptrid \in main.used
                        /\ main.data[h.core[p].ptrid] = p
  BY <1>1 DEF SafeInv, Listed, SameIds, heap
<1>3. Cardinality(handle) = Cardinality(main.used) /\ IsFiniteSet(handle)
  BY DEF SafeInv, SameNumber
<1> QED
  BY <1>1, <1>2, <1>3, ReturnSafe

-----------------------------------------------------------------------------
(* One lemma for each call.                                                *)

(* What SafeInv says of the heap between calls.                            *)
LEMMA SafeInvHeap ==
  ASSUME SafeInv
  PROVE  /\ TypeOK /\ heap \in Heap /\ Exact(heap) /\ Owned(heap)
         /\ handle \subseteq Core
         /\ main \in ListOf(Core)
         /\ heap.core = core /\ heap.block = block
  BY HeapTyped DEF SafeInv, CountInv, TypeOK, heap

(* track_init meets no tracker.                                            *)
LEMMA InitCallSafe == SafeInv /\ CountInv' /\ track_init => SafeInv'
<1> SUFFICES ASSUME SafeInv, CountInv', track_init PROVE SafeInv'
  OBVIOUS
<1>1. CASE Answer(ETRACK_INIT_TWICE, -1) \/ Crash("null_deref")
  BY <1>1, AnswerSafe
<1>2. CASE /\ ~inited /\ inited' = TRUE /\ main' = EmptyList
           /\ UNCHANGED <<heapVars, handle, pc>>
  <2>1. handle = {} /\ handle' = {}
    BY <1>2 DEF SafeInv
  <2>2. Owned(heap)'
    BY <1>2 DEF SafeInv, Owned, heap, heapVars
  <2> QED
    BY <1>2, <2>1, <2>2, FS_EmptySet
    DEF SafeInv, Listed, SameNumber, AllSafe, EmptyList
<1> QED
  BY <1>1, <1>2 DEF track_init

(* Calls that touch no structure and no list.                              *)
LEMMA PlainSafe ==
  ASSUME SafeInv, CountInv',
         \/ track_last_error \/ Stopped \/ UNCHANGED vars
         \/ \E p \in Arg : track_check_mem(p)
         \/ \E d, s \in Arg, n \in Lens : track_memcpy(d, s, n)
         \/ \E p \in handle, v \in Byte : UserWrite(p, v)
  PROVE  SafeInv'
<1>1. CASE track_last_error \/ Stopped \/ UNCHANGED vars
  BY <1>1, SameSafe
  DEF track_last_error, Stopped, vars, heapVars, clientVars
<1>2. CASE \E p \in Arg : track_check_mem(p)
  <2>1. \/ \E e, r : Answer(e, r)
        \/ \E why : Crash(why)
        \/ \E args : Rejects(args)
    BY <1>2 DEF track_check_mem
  <2> QED
    BY <2>1, AnswerSafe
<1>3. CASE \E d, s \in Arg, n \in Lens : track_memcpy(d, s, n)
  <2>1. PICK d \in Arg, s \in Arg, n \in Lens : track_memcpy(d, s, n)
    BY <1>3
  <2>2. CASE Copy(d, s, n)
    <3> DEFINE h == Copied(core[d].cur, core[s].cur, n)
    <3>1. /\ h.core = core /\ h.block = block
          /\ heap.core = core /\ heap.block = block
      BY DEF heap, Copied
    <3> HIDE DEF h
    <3>2. UNCHANGED <<core, block, main, inited, handle, pc>>
      BY <2>2, <3>1 DEF Copy, Return, Answer, Crash, heapVars, clientVars, h
    <3> QED
      BY <3>2, SameSafe
  <2>3. CASE \/ \E e, r : Answer(e, r)
             \/ \E args : Rejects(args)
    BY <2>3, AnswerSafe
  <2> QED
    BY <2>1, <2>2, <2>3 DEF track_memcpy
<1>4. CASE \E p \in handle, v \in Byte : UserWrite(p, v)
  <2>1. UNCHANGED <<core, block, main, inited, handle, pc>>
    BY <1>4 DEF UserWrite, Crash, heapVars, clientVars
  <2> QED
    BY <2>1, SameSafe
<1> QED
  BY <1>1, <1>2, <1>3, <1>4

(* A pointer that moves stays in its range, and so in its block.           *)
LEMMA MoveSafe ==
  ASSUME SafeInv, CountInv', NEW p \in Arg, NEW k \in Int,
         track_move_ptr(p, k)
  PROVE  SafeInv'
<1> DEFINE a == Wrap(core[p].cur + k)
           h == [heap EXCEPT !.core[p].cur = a]
<1>1. CASE \/ \E e, r : Answer(e, r)
           \/ \E why : Crash(why)
           \/ \E args : Rejects(args)
  BY <1>1, AnswerSafe
<1>2. CASE /\ Accepts({p}) /\ pc = "idle"
           /\ a \in core[p].start .. core[p].end
           /\ Return(h, main, handle)
  <2>0. /\ TypeOK /\ heap \in Heap /\ Exact(heap) /\ Owned(heap)
        /\ handle \subseteq Core
        /\ heap.core = core /\ heap.block = block
    BY SafeInvHeap
  <2>1. p \in Core /\ inited
    BY <1>2, <2>0, ArgType DEF Accepts
  <2>2. core[p] \in CoreRec
    BY <2>1, <2>0 DEF Heap
  <2>3. core[p].cur \in Nat /\ k \in Int
    BY <2>2, AddrNat DEF CoreRec
  <2>4. a \in Addr
    BY <2>3, WrapType
  <2> HIDE DEF a
  <2>5. [core[p] EXCEPT !.cur = a] \in CoreRec
    BY <2>2, <2>4 DEF CoreRec
  <2>6. /\ h.core = [core EXCEPT ![p].cur = a] /\ h.block = block
        /\ h.fault = heap.fault
    BY DEF heap
  <2>7. h \in Heap
    BY <2>0, <2>1, <2>5, <2>6 DEF Heap
  <2> HIDE DEF h
  <2>8. /\ \A q \in Core \ {p} : h.core[q] = core[q]
        /\ h.core[p].cur = a
        /\ h.core[p].start = core[p].start /\ h.core[p].end = core[p].end
        /\ h.core[p].flags = core[p].flags /\ h.core[p].links = core[p].links
        /\ h.core[p].live = core[p].live /\ h.core[p].ptrid = core[p].ptrid
    BY <2>0, <2>1, <2>2, <2>6 DEF Heap, CoreRec
  <2>9. Owned(h) /\ Steady(heap, h) /\ Exact(h) /\ SameIds(heap, h)
    BY <2>0, <2>6, <2>7, <2>8, SameLinks DEF Exact, SameIds
  <2>10. ASSUME NEW q \in Core, Safe(heap, q) PROVE Safe(h, q)
    <3>1. CASE q # p
      <4>1. Alike(heap.core[q], h.core[q])
        BY <2>0, <2>8, <3>1 DEF Alike
      <4> QED
        BY <2>0, <2>7, <2>9, <2>10, <4>1, SafeKept
    <3>2. CASE q = p /\ "empty" \in core[p].flags
      BY <2>8, <3>2 DEF Safe
    <3>3. CASE q = p /\ \E b \in Block : Within(heap, p, b) /\ Kept(heap, p, b)
      <4>1. PICK b \in Block : Within(heap, p, b) /\ Kept(heap, p, b)
        BY <3>3
      <4>2. Kept(h, p, b)
        BY <2>0, <2>8, <2>9, <4>1 DEF Kept, Steady
      <4>3. core[p].start \in Nat /\ core[p].end \in Nat
        BY <2>2, AddrNat DEF CoreRec
      <4>4. Within(h, p, b)
        BY <1>2, <2>0, <2>6, <2>8, <4>1, <4>3 DEF Within
      <4> QED
        BY <3>3, <4>2, <4>4 DEF Safe
    <3> QED
      BY <2>0, <2>10, <3>1, <3>2, <3>3 DEF Safe
  <2>11. "link" \notin MayFail => \A q \in handle : Safe(heap, q)
    BY <1>2 DEF SafeInv, AllSafe
  <2> QED
    BY <1>2, <2>0, <2>1, <2>7, <2>9, <2>10, <2>11, ReturnSameSafe
<1> QED
  BY <1>1, <1>2 DEF track_move_ptr, __track_ptr_move, MoveTo, Enters

(* track_overwrite_checksum changes no more than a checksum.               *)
LEMMA OverwriteCallSafe ==
  ASSUME SafeInv, CountInv', NEW p \in Arg, track_overwrite_checksum(p)
  PROVE  SafeInv'
<1>1. CASE Rejects({p})
  BY <1>1, AnswerSafe
<1>2. CASE /\ Accepts({p}) /\ pc = "idle"
           /\ Return(OverwriteChecksum(heap, p), main, handle)
  <2> DEFINE h == OverwriteChecksum(heap, p)
  <2>0. /\ TypeOK /\ heap \in Heap /\ Exact(heap) /\ Owned(heap)
        /\ handle \subseteq Core
    BY SafeInvHeap
  <2>1. p \in Core /\ inited
    BY <1>2, <2>0, ArgType DEF Accepts
  <2>2. h \in Heap
    BY <2>0, <2>1, OverwriteChecksumType
  <2>3. /\ h.block = heap.block /\ SameIds(heap, h)
        /\ \A x \in Core : Alike(heap.core[x], h.core[x])
    BY <2>0, <2>1, OverwriteParts
  <2> HIDE DEF h
  <2>4. Owned(h) /\ Steady(heap, h) /\ Exact(h)
    BY <2>0, <2>2, <2>3, SameLinks DEF Alike, Exact
  <2>5. ASSUME NEW q \in Core, Safe(heap, q) PROVE Safe(h, q)
    BY <2>0, <2>2, <2>3, <2>4, <2>5, SafeKept
  <2>6. "link" \notin MayFail => \A q \in handle : Safe(heap, q)
    BY <1>2 DEF SafeInv, AllSafe
  <2> QED
    BY <1>2, <2>0, <2>1, <2>2, <2>3, <2>4, <2>5, <2>6, ReturnSameSafe DEF h
<1> QED
  BY <1>1, <1>2 DEF track_overwrite_checksum, Enters

(* track_set_ptr, with any of the program's trackers.                      *)
LEMMA SetPtrCallSafe ==
  ASSUME SafeInv, CountInv', NEW s \in Arg, NEW n \in Arg,
         NEW o \in handle \cup {Null}, track_set_ptr(s, n, o)
  PROVE  SafeInv'
<1>1. CASE Rejects({s, n}) \/ Answer(ETRACK_IS_EMPTY, -1)
  BY <1>1, AnswerSafe
<1>2. CASE /\ Accepts({s, n}) /\ pc = "idle"
           /\ \E h \in SetPtrResults(s, n, o) : Return(h, main, handle)
  <2>1. PICK h \in SetPtrResults(s, n, o) : Return(h, main, handle)
    BY <1>2
  <2>2. /\ heap \in Heap /\ Exact(heap) /\ Owned(heap)
        /\ handle \in SUBSET Core
    BY SafeInvHeap
  <2>3. s \in handle /\ n \in handle /\ inited
    BY <1>2, ClientAssumption DEF Accepts, Arg
  <2>4. /\ h \in Heap /\ Owned(h) /\ SameIds(heap, h)
        /\ /\ "link" \notin MayFail /\ h.fault = NoFault
           /\ \A p \in handle : Safe(heap, p)
           => \A p \in handle : Safe(h, p)
    BY <2>2, <2>3, SetPtrSafe
  <2>5. "link" \notin MayFail => \A p \in handle : Safe(heap, p)
    BY <1>2 DEF SafeInv, AllSafe
  <2> QED
    BY <1>2, <2>1, <2>3, <2>4, <2>5, ReturnSameSafe
<1> QED
  BY <1>1, <1>2 DEF track_set_ptr, Enters

(* track_free removes the node that holds the tracker's own structure.     *)
LEMMA FreeCallSafe ==
  ASSUME SafeInv, CountInv', NEW p \in Arg, track_free(p)
  PROVE  SafeInv'
<1> DEFINE n == core[p].ptrid
           h == __track_main_list_node_data_free(heap, main.data[n])
           l == FreeNode(dht_list_remove_node(main, n), n)
<1>1. CASE Rejects({p}) \/ Crash(RemoveFault(main, n))
  BY <1>1, AnswerSafe
<1>2. CASE /\ Accepts({p}) /\ pc = "idle" /\ CanRemove(main, n)
           /\ Return(h, l, handle \ {p})
  <2>1. /\ heap \in Heap /\ Exact(heap) /\ Owned(heap)
        /\ handle \subseteq Core /\ main \in ListOf(Core)
        /\ heap.core = core
    BY SafeInvHeap
  <2>2. p \in handle /\ inited
    BY <1>2, ClientAssumption DEF Accepts, Arg
  <2>3. \A q \in handle : /\ core[q].live
                         /\ core[q].ptrid \in main.used
                         /\ main.data[core[q].ptrid] = q
    BY <1>2 DEF SafeInv, Listed
  <2>4. n \in main.used /\ n \in Node /\ main.data[n] = p
    BY <2>1, <2>2, <2>3 DEF ListOf
  <2>5. l.used = main.used \ {n}
        /\ \A x \in Node \ {n} : l.data[x] = main.data[x]
    BY <1>2, <2>1, <2>4, RemoveData
  <2>6. /\ Owned(h)
        /\ h.fault = NoFault =>
             /\ \A q \in Core \ {p} : h.core[q] = core[q]
             /\ \A q \in Core \ {p} : Safe(heap, q) => Safe(h, q)
    BY <2>1, <2>2, <2>4, NodeFreeSafe
  <2>7. h \in Heap
    BY <2>1, <2>2, <2>4, MainNodeFreeType
  <2> HIDE DEF h, l
  <2>8. ASSUME h.fault = NoFault, NEW q \in handle \ {p}
        PROVE  /\ h.core[q].live
               /\ h.core[q].ptrid \in l.used
               /\ l.data[h.core[q].ptrid] = q
    <3>1. h.core[q] = core[q]
      BY <2>1, <2>6, <2>8
    <3>2. core[q].ptrid # n /\ core[q].ptrid \in Node
      BY <2>1, <2>3, <2>4 DEF ListOf
    <3> QED
      BY <2>3, <2>5, <3>1, <3>2
  <2>9. /\ IsFiniteSet(handle \ {p})
        /\ Cardinality(handle \ {p}) = Cardinality(l.used)
    <3>1. IsFiniteSet(handle) /\ Cardinality(handle) = Cardinality(main.used)
      BY <1>2 DEF SafeInv, SameNumber
    <3>2. IsFiniteSet(main.used)
      BY <2>1, NodeAssumption, FS_Subset DEF ListOf
    <3>3. /\ IsFiniteSet(handle \ {p})
          /\ Cardinality(handle \ {p}) = Cardinality(handle) - 1
      BY <2>2, <3>1, FS_RemoveElement
    <3>4. Cardinality(main.used \ {n}) = Cardinality(main.used) - 1
      BY <2>4, <3>2, FS_RemoveElement
    <3> QED
      BY <2>5, <3>1, <3>3, <3>4
  <2>10. "link" \notin MayFail => \A q \in handle : Safe(heap, q)
    BY <1>2 DEF SafeInv, AllSafe
  <2>11. handle \ {p} \in SUBSET Core
    BY <2>1
  <2>12. "link" \notin MayFail /\ h.fault = NoFault =>
           \A q \in handle \ {p} : Safe(h, q)
    BY <2>1, <2>6, <2>10
  <2> QED
    BY <1>2, <2>2, <2>6, <2>7, <2>8, <2>9, <2>11, <2>12, ReturnSafe
<1> QED
  BY <1>1, <1>2 DEF track_free, Enters

(* track_destroy frees all structures; what the program held is void.      *)
LEMMA DestroySafe ==
  ASSUME SafeInv, CountInv', track_destroy \/ DestroyNode \/ DestroyEnd
  PROVE  SafeInv'
<1>1. CASE track_destroy
  <2>1. CASE Rejects({})
    BY <2>1, AnswerSafe
  <2>2. CASE pc' = "destroy" /\ UNCHANGED <<heapVars, inited, handle>>
    <3>1. Owned(heap)'
      BY <2>2 DEF SafeInv, Owned, heap, heapVars
    <3> QED
      BY <2>2, <3>1 DEF SafeInv, Listed, SameNumber, AllSafe
  <2> QED
    BY <1>1, <2>1, <2>2 DEF track_destroy
<1>2. CASE DestroyNode
  <2> DEFINE h == __track_main_list_node_data_free(heap, main.data[pos])
  <2>1. /\ heap \in Heap /\ Exact(heap) /\ Owned(heap)
        /\ main \in ListOf(Core) /\ pos \in Node /\ pc = "destroy"
    BY <1>2, SafeInvHeap DEF DestroyNode, TypeOK, Ref
  <2>2. main.data[pos] \in Core \cup {Null}
    BY <2>1 DEF ListOf
  <2>3. Owned(h)
    BY <2>1, <2>2, NodeFreeSafe
  <2> HIDE DEF h
  <2>4. CASE Crash("use_after_free") \/ Crash(h.fault)
    BY <2>4, AnswerSafe
  <2>5. CASE /\ core' = h.core /\ block' = h.block
             /\ UNCHANGED <<inited, handle, pc>>
    <3>1. Owned(heap)'
      BY <2>3, <2>5 DEF Owned, heap
    <3> QED
      BY <2>1, <2>5, <3>1 DEF SafeInv, Listed, SameNumber, AllSafe
  <2> QED
    BY <1>2, <2>4, <2>5 DEF DestroyNode, h
<1>3. CASE DestroyEnd
  <2>1. Owned(heap)'
    BY <1>3 DEF DestroyEnd, DestroyReturn, SafeInv, Owned, heap, heapVars
  <2>2. handle' = {} /\ main'.used = {}
    BY <1>3 DEF DestroyEnd, DestroyReturn, EmptyList
  <2> QED
    BY <2>1, <2>2, FS_EmptySet DEF SafeInv, Listed, SameNumber, AllSafe
<1> QED
  BY <1>1, <1>2, <1>3

-----------------------------------------------------------------------------
(* A new tracker.                                                          *)

(* In w the structure c is in use and safe, and the others are as before.  *)
HasNew(w, c) ==
  /\ Owned(w)
  /\ w.core[c].live
  /\ Safe(w, c)
  /\ \A x \in Core \ {c} : w.core[x] = core[x]
  /\ \A x \in Core \ {c} : Safe(heap, x) => Safe(w, x)

(* In w the structure c spans the new block a and no other structure has   *)
(* changed.                                                                *)
Spans(w, a, msize, flags, c, n) ==
  /\ w.core[c].live /\ w.core[c].flags = flags
  /\ w.core[c].start = a /\ w.core[c].cur = a /\ w.core[c].links = a
  /\ w.core[c].end = a + msize - 1
  /\ \A x \in Core \ {c} : w.core[x] = core[x]
  /\ w.block = [block EXCEPT ![a] = NewBlock(msize, c, n)]

(* The new structure of a new block, and the blocks with the new one.      *)
LEMMA NewCoreParts ==
  ASSUME TypeOK, NEW a \in Block, ~block[a].live,
         NEW msize \in 0 .. MaxSize, NEW flags, NEW fill,
         NEW c \in Core, NEW n \in Node, NEW g \in Garbage
  PROVE  Spans(WithNewCore(a, msize, flags, fill, c, n, g),
               a, msize, flags, c, n)
<1> DEFINE r == [NewCore(a, msize, flags, g) EXCEPT !.links = a]
           put == [core EXCEPT ![c] = r]
           w == WithNewCore(a, msize, flags, fill, c, n, g)
<1>0. heap \in Heap /\ heap.core = core /\ heap.block = block
  BY HeapTyped DEF heap
<1>1. a # Null
  BY ValueAssumption
<1>2. /\ w.block = [block EXCEPT ![a] = NewBlock(msize, c, n)]
      /\ w.core = put \/ \E t : w.core = [put EXCEPT ![c].sum = t]
  <2>1. w = CoreAdded(a, msize, flags, fill, c, n, g)
    BY ONLY TypeOK, NewCoreIs
  <2> HIDE DEF w
  <2> QED
    BY <1>1, <2>1 DEF CoreAdded, OverwriteChecksum, Broken, heap
<1>3. /\ r.live /\ r.start = a /\ r.cur = a /\ r.links = a
      /\ r.end = Wrap(a + msize - 1) /\ r.flags = flags
  BY DEF NewCore, CoreAt
<1>4. Wrap(a + msize - 1) = a + msize - 1
  <2>1. /\ a \in Nat \ {0} /\ msize \in Nat /\ MaxSize \in Nat
        /\ msize <= MaxSize /\ a + MaxSize \in Addr
    BY BlockAddr, LayoutAssumption
  <2> QED
    BY <2>1, LayoutAssumption DEF Wrap, Addr
<1> HIDE DEF r, w
<1>5. put[c] = r /\ \A x \in Core \ {c} : put[x] = core[x]
  BY <1>0 DEF Heap
<1>6. put \in [Core -> {r} \cup CoreRec]
  BY <1>0 DEF Heap
<1> HIDE DEF put
<1>7. ASSUME w.core = put PROVE Spans(w, a, msize, flags, c, n)
  BY <1>2, <1>3, <1>4, <1>5, <1>7 DEF Spans
<1>8. ASSUME \E t : w.core = [put EXCEPT ![c].sum = t]
      PROVE  Spans(w, a, msize, flags, c, n)
  <2>1. PICK t : w.core = [put EXCEPT ![c].sum = t]
    BY <1>8
  <2>2. /\ w.core[c] = [put[c] EXCEPT !.sum = t]
        /\ \A x \in Core \ {c} : w.core[x] = put[x]
    BY <1>6, <2>1
  <2>3. /\ w.core[c].live = r.live /\ w.core[c].start = r.start
        /\ w.core[c].cur = r.cur /\ w.core[c].links = r.links
        /\ w.core[c].end = r.end /\ w.core[c].flags = r.flags
    BY <1>5, <2>2 DEF r, NewCore, CoreAt
  <2> QED
    BY <1>2, <1>3, <1>4, <1>5, <2>2, <2>3 DEF Spans
<1> QED
  BY <1>2, <1>7, <1>8 DEF w

(* The new structure is safe in its own new block; nobody else had held    *)
(* anything in that block, which was free.                                 *)
LEMMA WithNewCoreSafe ==
  ASSUME CountInv, Owned(heap), NEW a \in Block \cup {Null},
         a # Null => ~block[a].live,
         NEW msize \in 0 .. MaxSize, NEW flags, NEW fill,
         NEW c \in Core, NEW n \in Node, NEW g \in Garbage,
         NEW w \in Heap, Exact(w),
         w = WithNewCore(a, msize, flags, fill, c, n, g)
  PROVE  HasNew(w, c)
<1>0. TypeOK /\ heap \in Heap /\ Exact(heap)
      /\ heap.core = core /\ heap.block = block
  BY HeapTyped DEF CountInv, heap
<1>1. w \in Heap /\ Exact(w)
  OBVIOUS
<1>2. CASE a = Null
  <2> DEFINE r == NewCore(0, 0, {"empty"}, g)
  <2>1. w.core = [heap.core EXCEPT ![c] = r] /\ w.block = heap.block
    <3>1. w = CoreAdded(a, msize, flags, fill, c, n, g)
      BY ONLY <1>0, w = WithNewCore(a, msize, flags, fill, c, n, g), NewCoreIs
    <3> QED
      BY <1>0, <1>2, <3>1 DEF CoreAdded, heap
  <2>2. r.links \notin Block /\ r.live /\ "empty" \in r.flags
    BY ClientAssumption, ValueAssumption DEF NewCore, CoreAt
  <2> HIDE DEF r
  <2>3. /\ w.core[c] = r
        /\ \A x \in Core \ {c} : w.core[x] = core[x]
    BY <1>0, <2>1 DEF Heap
  <2>4. Owned(w) /\ Steady(heap, w)
    BY <1>0, <1>1, <2>1, <2>2, ForgetKeeps
  <2>5. ASSUME NEW x \in Core \ {c}, Safe(heap, x) PROVE Safe(w, x)
    <3>1. Alike(heap.core[x], w.core[x])
      BY <1>0, <2>3 DEF Alike
    <3> QED
      BY <1>0, <1>1, <2>4, <2>5, <3>1, SafeKept
  <2> QED
    BY <2>2, <2>3, <2>4, <2>5 DEF HasNew, Safe
<1>3. CASE a # Null
  <2> DEFINE l == dht_list_add_node_head(npl_node_alloc(EmptyList, n, c), n)
  <2>0. a \in Block /\ ~heap.block[a].live
    BY <1>0, <1>3
  <2>4. l.used = {n} /\ l.data[n] = c
    <3>1. EmptyList \in ListOf(Core)
      BY EmptyListType
    <3>2. l.used = EmptyList.used \cup {n} /\ l.data[n] = c
      BY <3>1, AddData
    <3> QED
      BY <3>2 DEF EmptyList
  <2> HIDE DEF l
  <2>5. /\ w.core[c].live
        /\ w.core[c].start = a /\ w.core[c].cur = a /\ w.core[c].links = a
        /\ w.core[c].end = a + msize - 1
        /\ \A x \in Core \ {c} : w.core[x] = core[x]
        /\ w.block = [block EXCEPT ![a] = NewBlock(msize, c, n)]
    <3>1. Spans(w, a, msize, flags, c, n)
      BY <1>0, <2>0, NewCoreParts
    <3> QED
      BY <3>1 DEF Spans
  <2>6. /\ w.block[a].live /\ w.block[a].size = msize /\ w.block[a].links = l
        /\ \A b \in Block \ {a} : w.block[b] = heap.block[b]
    BY <1>0, <2>0, <2>5 DEF NewBlock, UnlinkedBlock, Heap, l
  <2>7. heap.block[a].links.used = {}
    BY <1>0, <2>0 DEF Exact, ExactBlock
  <2>8. Owned(w)
    <3> SUFFICES ASSUME NEW x \in Core, w.core[x].links \in Block
                 PROVE  Names(w.block[w.core[x].links].links, x)
      BY DEF Owned
    <3>1. CASE x = c
      BY <2>4, <2>5, <2>6, <3>1 DEF Names
    <3>2. CASE x # c
      <4>1. /\ w.core[x].links = heap.core[x].links
            /\ Names(heap.block[heap.core[x].links].links, x)
        BY <1>0, <2>5, <3>2 DEF Owned
      <4>2. w.core[x].links # a
        BY <2>7, <4>1 DEF Names
      <4> QED
        BY <2>6, <4>1, <4>2
    <3> QED
      BY <3>1, <3>2
  <2>9. ASSUME NEW b \in Block, Spare(heap, b) PROVE Spare(w, b)
    <3>1. b # a
      BY <2>7, <2>9 DEF Spare
    <3>2. w.block[b] = heap.block[b]
      BY <2>6, <3>1
    <3>3. \A x \in Core : w.core[x].links = b => heap.core[x].links = b
      BY <1>0, <2>5, <3>1
    <3> QED
      BY <2>9, <3>2, <3>3 DEF Spare
  <2>10. Safe(w, c)
    <3>1. a \in Nat /\ msize \in Nat
      BY <2>0, BlockAddr, LayoutAssumption
    <3>2. Within(w, c, a)
      BY <2>5, <2>6, <3>1 DEF Within
    <3> QED
      BY <2>0, <2>5, <3>2 DEF Safe, Kept
  <2>11. ASSUME NEW x \in Core \ {c}, Safe(heap, x) PROVE Safe(w, x)
    <3>1. w.core[x] = heap.core[x]
      BY <1>0, <2>5
    <3>2. CASE "empty" \in heap.core[x].flags
      BY <3>1, <3>2 DEF Safe
    <3>3. ASSUME NEW b \in Block, Within(heap, x, b), Kept(heap, x, b)
          PROVE  Safe(w, x)
      <4>1. b # a
        BY <2>0, <3>3 DEF Within
      <4>2. w.block[b] = heap.block[b]
        BY <2>6, <4>1
      <4>3. Within(w, x, b) /\ Kept(w, x, b)
        BY <2>9, <3>1, <3>3, <4>2 DEF Within, Kept
      <4> QED
        BY <4>3 DEF Safe
    <3> QED
      BY <2>11, <3>2, <3>3 DEF Safe
  <2> QED
    BY <2>5, <2>8, <2>10, <2>11 DEF HasNew
<1> QED
  BY <1>2, <1>3

(* The new structure is listed with the others.                            *)
LEMMA PushCoreSafe ==
  ASSUME SafeInv, CountInv', inited, pc = "idle",
         NEW h \in Heap, Exact(h), NEW c \in Core \ handle, HasNew(h, c),
         NEW m \in Allocatable(main), PushCore(h, c, m)
  PROVE  SafeInv'
<1> DEFINE k == [h EXCEPT !.core[c].ptrid = m]
           l == npl_node_alloc(main, m, c)
           t == dht_list_add_node_tail(l, m)
<1>0. /\ Owned(h) /\ h.core[c].live /\ Safe(h, c)
      /\ \A x \in Core \ {c} : h.core[x] = core[x]
      /\ \A x \in Core \ {c} : Safe(heap, x) => Safe(h, x)
  BY DEF HasNew
<1>1. m \in Node /\ m \notin main.used
  BY AllocatableType
<1>2. main \in ListOf(Core) /\ handle \subseteq Core
  BY SafeInvHeap
<1>3. k \in Heap
  <2>1. h.core[c] \in CoreRec /\ m \in Ref
    BY <1>1 DEF Heap, Ref
  <2>2. [h.core[c] EXCEPT !.ptrid = m] \in CoreRec
    BY <2>1 DEF CoreRec
  <2> QED
    BY <2>2, PutCore
<1>4. /\ k.block = h.block
      /\ \A x \in Core \ {c} : k.core[x] = h.core[x]
      /\ k.core[c].ptrid = m /\ k.core[c].live = h.core[c].live
      /\ Alike(h.core[c], k.core[c])
  BY DEF Heap, CoreRec, Alike
<1>5. /\ t.used = main.used \cup {m} /\ t.data[m] = c
      /\ \A x \in Node \ {m} : t.data[x] = main.data[x]
  BY <1>1, <1>2, AddData
<1>6. PushCore(h, c, m) => \/ Return(k, t, handle \cup {c})
                           \/ Crash("use_after_free")
  BY DEF PushCore, Push
<1> HIDE DEF k, t
<1>7. Owned(k) /\ Steady(h, k) /\ Exact(k)
  BY <1>0, <1>3, <1>4, SameLinks DEF Exact, Alike
<1>8. \A x \in Core : Alike(h.core[x], k.core[x])
  BY <1>4 DEF Alike
<1>9. \A x \in Core : Safe(h, x) => Safe(k, x)
  BY <1>3, <1>7, <1>8, SafeKept
<1>10. ASSUME NEW p \in handle \cup {c}
       PROVE  /\ k.core[p].live
              /\ k.core[p].ptrid \in t.used
              /\ t.data[k.core[p].ptrid] = p
  <2>1. CASE p = c
    BY <1>0, <1>4, <1>5, <2>1
  <2>2. CASE p # c
    <3>1. k.core[p] = core[p]
      BY <1>0, <1>2, <1>4, <2>2
    <3>2. /\ core[p].live /\ core[p].ptrid \in main.used
          /\ main.data[core[p].ptrid] = p
      BY <2>2 DEF SafeInv, Listed
    <3>3. core[p].ptrid \in Node \ {m}
      BY <1>1, <1>2, <3>2 DEF ListOf
    <3> QED
      BY <1>5, <3>1, <3>2, <3>3
  <2> QED
    BY <2>1, <2>2
<1>11. /\ IsFiniteSet(handle \cup {c})
       /\ Cardinality(handle \cup {c}) = Cardinality(t.used)
  <2>1. IsFiniteSet(handle) /\ Cardinality(handle) = Cardinality(main.used)
    BY DEF SafeInv, SameNumber
  <2>2. IsFiniteSet(main.used)
    BY <1>2, NodeAssumption, FS_Subset DEF ListOf
  <2>3. /\ IsFiniteSet(handle \cup {c})
        /\ Cardinality(handle \cup {c}) = Cardinality(handle) + 1
    BY <2>1, FS_AddElement
  <2>4. Cardinality(main.used \cup {m}) = Cardinality(main.used) + 1
    BY <1>1, <2>2, FS_AddElement
  <2> QED
    BY <1>5, <2>1, <2>3, <2>4
<1>12. "link" \notin MayFail => \A p \in handle \cup {c} : Safe(k, p)
  <2>1. "link" \notin MayFail => \A p \in handle : Safe(heap, p)
    BY DEF SafeInv, AllSafe
  <2> QED
    BY <1>0, <1>2, <1>9, <2>1
<1>13. CASE Crash("use_after_free")
  BY <1>13, AnswerSafe
<1>14. CASE Return(k, t, handle \cup {c})
  <2>1. handle \cup {c} \in SUBSET Core
    BY <1>2
  <2> QED
    BY <1>3, <1>7, <1>10, <1>11, <1>12, <1>14, <2>1, ReturnSafe
<1> QED
  BY <1>6, <1>13, <1>14

(* __track_create_memory_control.                                          *)
LEMMA CreateSafe ==
  ASSUME SafeInv, CountInv', inited, pc = "idle",
         NEW a \in Block \cup {Null}, NEW msize \in 0 .. MaxSize,
         NEW flags \in SUBSET Flag, NEW fill,
         a # Null => /\ block[a] = FreedBlock
                     /\ fill \in [a .. a + msize - 1 -> Byte],
         __track_create_memory_control(a, msize, flags, fill)
  PROVE  SafeInv'
<1>0. CountInv /\ TypeOK /\ Owned(heap)
  BY SafeInvHeap DEF SafeInv
<1>1. CASE Answer(ETRACK_ALLOC, -1) \/ Crash("null_deref")
  BY <1>1, AnswerSafe
<1>2. CASE GivenUp
  <2>1. UNCHANGED <<core, block, main, inited, handle, pc>>
    BY <1>2 DEF GivenUp, Crash, heapVars, clientVars
  <2> QED
    BY <2>1, SameSafe
<1>3. ASSUME NEW c \in Core, NEW g \in Garbage, ~core[c].live,
             NEW n \in Allocatable(EmptyList), NEW m \in Allocatable(main),
             LET h == WithNewCore(a, msize, flags, fill, c, n, g)
             IN  Crash(h.fault) \/ PushCore(h, c, m)
      PROVE  SafeInv'
  <2>1. PICK h : h = WithNewCore(a, msize, flags, fill, c, n, g)
    OBVIOUS
  <2>2. n \in Node
    BY AllocatableType
  <2>3. h \in Heap /\ Exact(h)
    BY <1>0, <2>1, <2>2, WithNewCoreType, WithNewCoreExact
  <2>4. HasNew(h, c)
    <3>1. /\ a \in Block \cup {Null} /\ (a # Null => ~block[a].live)
          /\ msize \in 0 .. MaxSize /\ c \in Core /\ g \in Garbage
      BY DEF FreedBlock
    <3> QED
      BY ONLY <1>0, <2>1, <2>2, <2>3, <3>1, WithNewCoreSafe
  <2>5. c \in Core \ handle
    BY <1>3 DEF SafeInv, Listed
  <2>6. Crash(h.fault) \/ PushCore(h, c, m)
    BY <1>3, <2>1
  <2>7. CASE Crash(h.fault)
    BY <2>7, AnswerSafe
  <2>8. CASE PushCore(h, c, m)
    BY <2>3, <2>4, <2>5, <2>8, PushCoreSafe
  <2> QED
    BY <2>6, <2>7, <2>8
<1> QED
  BY <1>0, <1>1, <1>2, <1>3, CreateSteps

(* track_malloc takes memory that is free.                                 *)
LEMMA MallocSafe ==
  ASSUME SafeInv, CountInv', NEW msize \in Sizes, NEW flags \in FlagSets,
         track_malloc(msize, flags)
  PROVE  SafeInv'
<1>1. msize \in 0 .. MaxSize /\ flags \in SUBSET Flag
  BY ClientAssumption DEF Flag
<1>2. CASE Rejects({}) \/ Answer(ETRACK_ALLOC, -1)
  BY <1>2, AnswerSafe
<1>3. CASE inited /\ pc = "idle"
             /\ \E a \in Block :
                  /\ block[a] = FreedBlock
                  /\ \E fill \in [a .. a + msize - 1 -> Byte] :
                       __track_create_memory_control(a, msize, flags, fill)
  BY <1>1, <1>3, CreateSafe
<1> QED
  BY <1>2, <1>3 DEF track_malloc, Enters

(* track_make_empty takes none.                                            *)
LEMMA MakeEmptySafe ==
  ASSUME SafeInv, CountInv', track_make_empty
  PROVE  SafeInv'
<1>1. CASE Rejects({})
  BY <1>1, AnswerSafe
<1>2. CASE inited /\ pc = "idle"
             /\ __track_create_memory_control(Null, 0, {"empty"}, <<>>)
  <2>1. 0 \in 0 .. MaxSize /\ {"empty"} \in SUBSET Flag
    BY LayoutAssumption DEF Flag
  <2> QED
    BY <1>2, <2>1, CreateSafe
<1> QED
  BY <1>1, <1>2 DEF track_make_empty, Enters

-----------------------------------------------------------------------------
(* Every step keeps the invariant.                                         *)
LEMMA SafeNext == SafeInv /\ [Next]_vars => SafeInv'
<1> SUFFICES ASSUME SafeInv, [Next]_vars PROVE SafeInv'
  OBVIOUS
<1>0. CountInv'
  BY CountNext DEF SafeInv
<1>1. CASE track_init \/ track_make_empty
  BY <1>0, <1>1, InitCallSafe, MakeEmptySafe
<1>2. CASE \/ track_last_error \/ Stopped \/ UNCHANGED vars
           \/ \E p \in Arg : track_check_mem(p)
           \/ \E d, s \in Arg, n \in Lens : track_memcpy(d, s, n)
           \/ \E p \in handle, v \in Byte : UserWrite(p, v)
  BY <1>0, <1>2, PlainSafe
<1>3. ASSUME NEW msize \in Sizes, NEW flags \in FlagSets,
             track_malloc(msize, flags)
      PROVE  SafeInv'
  BY <1>0, <1>3, MallocSafe
<1>4. ASSUME NEW p \in Arg, track_free(p) \/ track_overwrite_checksum(p)
      PROVE  SafeInv'
  BY <1>0, <1>4, FreeCallSafe, OverwriteCallSafe
<1>5. CASE track_destroy \/ DestroyNode \/ DestroyEnd
  BY <1>0, <1>5, DestroySafe
<1>6. ASSUME NEW p \in Arg, NEW k \in Int, track_move_ptr(p, k)
      PROVE  SafeInv'
  BY <1>0, <1>6, MoveSafe
<1>7. ASSUME NEW p \in Arg, NEW k \in Moves, track_move_ptr(p, k)
      PROVE  SafeInv'
  BY <1>6, <1>7, ClientAssumption
<1>8. ASSUME NEW p \in Arg, NEW step \in Steps,
             TRACK_INC(p, step) \/ TRACK_DEC(p, step)
      PROVE  SafeInv'
  BY <1>0, <1>6, <1>8, StepIsMove, AnswerSafe
<1>9. ASSUME NEW s \in Arg, NEW n \in Arg, NEW o \in handle \cup {Null},
             track_set_ptr(s, n, o)
      PROVE  SafeInv'
  BY <1>0, <1>9, SetPtrCallSafe
<1> QED
  BY <1>1, <1>2, <1>3, <1>4, <1>5, <1>7, <1>8, <1>9 DEF Next

(* Following a structure's pointer to its block never reaches a freed      *)
(* lmblock_t, and the walk that leaves the block has a node to find, in    *)
(* every behaviour: also after a failed allocation, and when the pointers  *)
(* of the list are damaged.                                                *)
THEOREM LinksAlwaysAgree == Spec => []LinksAgree
  BY SafeInit, SafeNext, SafeInvLinks, PTL DEF Spec

(* Every tracker the program holds is allocated and finds itself in the    *)
(* main list through __ptrid, and the main list holds nothing else, in     *)
(* every behaviour: track_free never frees another tracker's structure.    *)
THEOREM HandlesAlwaysListed == Spec => []HandlesListed
  BY SafeInit, SafeNext, SafeInvHandles, PTL DEF Spec

(* Memory that a tracker has is never freed under it, by any sequence of   *)
(* calls with any arguments, and although removals at the ends of a list   *)
(* damage it; provided that there is memory for link nodes, for            *)
(* track_set_ptr ignores the failure to allocate one.                      *)
THEOREM TrackedMemoryStays ==
  ASSUME "link" \notin MayFail
  PROVE  Spec => []TrackersBacked
<1>1. SafeInv => TrackersBacked
  BY SafeInvBacked
<1> QED
  BY <1>1, SafeInit, SafeNext, PTL DEF Spec

-----------------------------------------------------------------------------
(* Counted trackers.                                                       *)

(* The second half of track_set_ptr takes no node from anyone.             *)
LEMMA TakeOverNames ==
  ASSUME NEW h \in Heap, NEW s \in Core, NEW n \in Core,
         NEW g \in TakeOver(h, s, n)
  PROVE  MoreNames(h, g)
<1> DEFINE moved == __track_migrate_cur_ptr(h, s, n)
           k == OverwriteChecksum(moved, s)
<1>1. moved \in Heap /\ k \in Heap
  BY MigrateType, OverwriteChecksumType
<1>2. moved.block = h.block
  BY MigrateParts
<1>3. g \in __track_review_mem_links_list(k, n, s)
  BY DEF TakeOver
<1> HIDE DEF moved
<1>4. k.block = moved.block
  BY <1>1, OverwriteParts
<1> HIDE DEF k
<1> QED
  BY <1>1, <1>2, <1>3, <1>4, JoinNames DEF MoreNames

(* The first half takes a node only from told, in the block told leaves.   *)
LEMMA HandOverNames ==
  ASSUME NEW h \in Heap, Exact(h), NEW s \in Core, NEW o \in Core,
         NEW g \in HandOver(h, s, o)
  PROVE  NamesKept(h, g)
<1> DEFINE left  == __track_check_free_mem_block(h, o)
           reset == [left EXCEPT !.core[o].cur = h.core[o].start]
           moved == __track_migrate_cur_ptr(reset, o, s)
<1>1. left \in Heap /\ NamesKept(h, left)
  BY CheckFreeBlockType, LeaveNames
<1> HIDE DEF left
<1>2. reset \in Heap /\ reset.block = left.block
  <2>1. left.core[o] \in CoreRec /\ h.core[o] \in CoreRec
    BY <1>1 DEF Heap
  <2>2. [left.core[o] EXCEPT !.cur = h.core[o].start] \in CoreRec
    BY <2>1 DEF CoreRec
  <2> QED
    BY <1>1, <2>2, PutCore DEF Heap
<1> HIDE DEF reset
<1>3. moved.block = reset.block
  BY <1>2, MigrateParts
<1>4. g = moved \/ g \in TakeOver(reset, o, s)
  BY DEF HandOver, TakeOver, left, reset
<1> HIDE DEF moved
<1>5. MoreNames(reset, g)
  BY <1>2, <1>3, <1>4, TakeOverNames DEF MoreNames
<1> QED
  BY <1>1, <1>2, <1>5 DEF MoreNames, NamesKept

(* So does track_set_ptr as a whole: what is left is left at its start.    *)
LEMMA SetPtrNames ==
  ASSUME heap \in Heap, Exact(heap), NEW s \in Core, NEW n \in Core,
         NEW o \in Core \cup {Null}, NEW g \in SetPtrResults(s, n, o)
  PROVE  NamesKept(heap, g)
<1>1. PICK k : g \in TakeOver(k, s, n)
                 /\ IF o = Null
                    THEN k = __track_check_free_mem_block(heap, s)
                    ELSE k \in HandOver(heap, s, o)
  BY DEF SetPtrResults
<1>2. k \in Heap /\ NamesKept(heap, k)
  <2>1. CASE o = Null
    BY <1>1, <2>1, CheckFreeBlockType, LeaveNames
  <2>2. CASE o # Null
    BY <1>1, <2>2, HandOverType, HandOverNames
  <2> QED
    BY <2>1, <2>2
<1>3. MoreNames(k, g)
  BY <1>1, <1>2, TakeOverNames
<1> QED
  BY <1>2, <1>3 DEF MoreNames, NamesKept

(* Releasing a structure takes a node only from it.                        *)
LEMMA NodeFreeNames ==
  ASSUME NEW h \in Heap, Exact(h), NEW c \in Core \cup {Null}
  PROVE  NamesKept(h, __track_main_list_node_data_free(h, c))
<1> DEFINE g    == __track_main_list_node_data_free(h, c)
           left == __track_check_free_mem_block(h, c)
<1>1. CASE g = Broken(h, "use_after_free")
  BY <1>1 DEF Broken, Heap, NamesKept
<1>2. CASE c \in Core /\ g = [left EXCEPT !.core[c] = FreedCore]
  <2>1. left \in Heap /\ NamesKept(h, left)
    BY <1>2, CheckFreeBlockType, LeaveNames
  <2> HIDE DEF left
  <2>2. g.block = left.block
    BY <1>2, <2>1 DEF Heap
  <2> QED
    BY <2>1, <2>2 DEF NamesKept
<1> QED
  BY <1>1, <1>2 DEF __track_main_list_node_data_free

(* No step takes the last node for a structure from a block that the       *)
(* structure does not name.                                                *)
NamesStay ==
  \A b \in Block, p \in Core :
    Names(block[b].links, p) /\ core[p].links # b => Names(block'[b].links, p)

(* A step that leaves the blocks alone takes none.                         *)
LEMMA SameNames == block' = block => NamesStay
  BY DEF NamesStay

(* A call that answers, or whose behaviour is undefined.                   *)
LEMMA AnswerNames ==
  ASSUME \/ \E e, r : Answer(e, r)
         \/ \E why : Crash(why)
         \/ \E args : Rejects(args)
  PROVE  NamesStay
  BY SameNames DEF Answer, Crash, Rejects, heapVars

(* A call that returns takes what its functions took.                      *)
LEMMA ReturnNames ==
  ASSUME NEW h, NEW l, NEW hs, Return(h, l, hs), NamesKept(heap, h)
  PROVE  NamesStay
<1>1. CASE Crash(h.fault)
  BY <1>1, AnswerNames
<1>2. CASE block' = h.block
  BY <1>2 DEF NamesStay, NamesKept, heap
<1> QED
  BY <1>1, <1>2 DEF Return

(* A new structure takes none: the block it is made for was free.          *)
LEMMA CreateNames ==
  ASSUME SafeInv, NEW a \in Block \cup {Null}, NEW msize \in 0 .. MaxSize,
         NEW flags \in SUBSET Flag, NEW fill,
         a # Null => /\ block[a] = FreedBlock
                     /\ fill \in [a .. a + msize - 1 -> Byte],
         __track_create_memory_control(a, msize, flags, fill)
  PROVE  NamesStay
<1>0. /\ TypeOK /\ heap.core = core /\ heap.block = block
      /\ block \in [Block -> BlockRec] /\ Exact(heap)
  BY SafeInvHeap DEF TypeOK
<1>1. CASE GivenUp \/ (\E e, r : Answer(e, r)) \/ (\E why : Crash(why))
  BY <1>1, SameNames DEF GivenUp, Answer, Crash, heapVars
<1>2. ASSUME NEW c \in Core, NEW g \in Garbage, NEW n, NEW m,
             PushCore(WithNewCore(a, msize, flags, fill, c, n, g), c, m)
      PROVE  NamesStay
  <2> DEFINE h == WithNewCore(a, msize, flags, fill, c, n, g)
  <2>0. h = CoreAdded(a, msize, flags, fill, c, n, g)
    BY ONLY <1>0, NewCoreIs
  <2>1. PushCore(h, c, m)
    BY <1>2
  <2> HIDE DEF h
  <2>2. \/ h.block = block
        \/ a # Null /\ h.block = [block EXCEPT ![a] = NewBlock(msize, c, n)]
    BY <2>0 DEF CoreAdded, OverwriteChecksum, Broken, heap
  <2>3. \A b \in Block \ {a} : h.block[b] = block[b]
    BY <1>0, <2>2
  <2>4. a \in Block => block[a].links.used = {}
    BY ValueAssumption DEF FreedBlock, EmptyList
  <2>5. block' = h.block \/ block' = block
    BY <2>1 DEF PushCore, Push, Return, Crash, heapVars
  <2> QED
    BY <2>3, <2>4, <2>5 DEF NamesStay, Names
<1> QED
  BY <1>0, <1>1, <1>2, CreateSteps

(* Every step.                                                             *)
LEMMA StepNames == SafeInv /\ [Next]_vars => NamesStay
<1> SUFFICES ASSUME SafeInv, [Next]_vars PROVE NamesStay
  OBVIOUS
<1>0. /\ TypeOK /\ heap \in Heap /\ Exact(heap)
      /\ handle \subseteq Core /\ main \in ListOf(Core)
      /\ heap.core = core /\ heap.block = block
  BY SafeInvHeap
<1>1. CASE \/ track_init \/ track_last_error \/ track_destroy
           \/ DestroyEnd \/ Stopped \/ UNCHANGED vars
           \/ \E p \in handle, v \in Byte : UserWrite(p, v)
  <2>1. block' = block
    BY <1>1
    DEF track_init, track_last_error, track_destroy, DestroyEnd,
        DestroyReturn, Stopped, UserWrite, Rejects, Answer, Crash, vars,
        heapVars
  <2> QED
    BY <2>1, SameNames
<1>2. ASSUME NEW p \in Arg, track_check_mem(p) \/ track_overwrite_checksum(p)
      PROVE  NamesStay
  <2>1. CASE track_check_mem(p)
    BY <2>1, AnswerNames DEF track_check_mem
  <2>2. CASE Rejects({p})
    BY <2>2, AnswerNames
  <2>3. CASE /\ Accepts({p})
             /\ Return(OverwriteChecksum(heap, p), main, handle)
    <3>1. p \in Core
      BY <1>0, <2>3, ArgType DEF Accepts
    <3>2. OverwriteChecksum(heap, p).block = heap.block
      BY <1>0, <3>1, OverwriteParts
    <3>3. NamesKept(heap, OverwriteChecksum(heap, p))
      BY <3>2 DEF NamesKept
    <3> QED
      BY <2>3, <3>3, ReturnNames
  <2> QED
    BY <1>2, <2>1, <2>2, <2>3 DEF track_overwrite_checksum
<1>3. ASSUME NEW p, NEW k, track_move_ptr(p, k) PROVE NamesStay
  <2>1. CASE \/ \E e, r : Answer(e, r)
             \/ \E why : Crash(why)
             \/ \E args : Rejects(args)
    BY <2>1, AnswerNames
  <2>2. ASSUME NEW a, Return([heap EXCEPT !.core[p].cur = a], main, handle)
        PROVE  NamesStay
    <3>1. NamesKept(heap, [heap EXCEPT !.core[p].cur = a])
      BY DEF NamesKept, heap
    <3> QED
      BY <2>2, <3>1, ReturnNames
  <2> QED
    BY <1>3, <2>1, <2>2 DEF track_move_ptr, __track_ptr_move, MoveTo
<1>4. ASSUME NEW p \in Arg, NEW step,
             TRACK_INC(p, step) \/ TRACK_DEC(p, step)
      PROVE  NamesStay
  BY <1>3, <1>4, AnswerNames DEF TRACK_INC, TRACK_DEC
<1>5. ASSUME NEW d, NEW s, NEW n, track_memcpy(d, s, n) PROVE NamesStay
  <2>1. block' = block
    BY <1>5
    DEF track_memcpy, Copy, Copied, Return, Rejects, Answer, Crash, heap,
        heapVars
  <2> QED
    BY <2>1, SameNames
<1>6. ASSUME NEW p \in Arg, track_free(p) PROVE NamesStay
  <2> DEFINE c == main.data[core[p].ptrid]
             h == __track_main_list_node_data_free(heap, c)
  <2>1. CASE \/ \E why : Crash(why)
             \/ \E args : Rejects(args)
    BY <2>1, AnswerNames
  <2>2. CASE /\ Accepts({p}) /\ pc = "idle"
             /\ \E l, hs : Return(h, l, hs)
    <3>1. p \in handle
      BY <2>2, ClientAssumption DEF Accepts, Arg
    <3>2. c = p
      BY <2>2, <3>1 DEF SafeInv, Listed
    <3>3. NamesKept(heap, h)
      BY <1>0, <3>1, <3>2, NodeFreeNames
    <3> QED
      BY <2>2, <3>3, ReturnNames
  <2> QED
    BY <1>6, <2>1, <2>2 DEF track_free, Enters
<1>7. CASE DestroyNode
  <2> DEFINE h == __track_main_list_node_data_free(heap, main.data[pos])
  <2>1. pos \in Node
    BY <1>0, <1>7 DEF DestroyNode, TypeOK, Ref
  <2>2. main.data[pos] \in Core \cup {Null}
    BY <1>0, <2>1 DEF ListOf
  <2>3. NamesKept(heap, h)
    BY <1>0, <2>2, NodeFreeNames
  <2> HIDE DEF h
  <2>4. block' = h.block \/ block' = block
    BY <1>7 DEF DestroyNode, Crash, heapVars, h
  <2>5. block' = h.block => NamesStay
    BY <1>0, <2>3 DEF NamesStay, NamesKept
  <2> QED
    BY <2>4, <2>5, SameNames
<1>8. ASSUME NEW s \in Arg, NEW n \in Arg, NEW o \in handle \cup {Null},
             track_set_ptr(s, n, o)
      PROVE  NamesStay
  <2>1. CASE \/ \E e, r : Answer(e, r)
             \/ \E args : Rejects(args)
    BY <2>1, AnswerNames
  <2>2. CASE /\ Accepts({s, n})
             /\ \E h \in SetPtrResults(s, n, o) : Return(h, main, handle)
    <3>1. s \in Core /\ n \in Core /\ o \in Core \cup {Null}
      BY <1>0, <2>2, ClientAssumption DEF Accepts, Arg
    <3>2. PICK h \in SetPtrResults(s, n, o) : Return(h, main, handle)
      BY <2>2
    <3>3. NamesKept(heap, h)
      BY <1>0, <3>1, SetPtrNames
    <3> QED
      BY <3>2, <3>3, ReturnNames
  <2> QED
    BY <1>8, <2>1, <2>2 DEF track_set_ptr
<1>9. ASSUME NEW msize \in Sizes, NEW flags \in FlagSets,
             track_malloc(msize, flags)
      PROVE  NamesStay
  <2>1. CASE \/ \E e, r : Answer(e, r)
             \/ \E args : Rejects(args)
    BY <2>1, AnswerNames
  <2>0. msize \in 0 .. MaxSize /\ flags \in SUBSET Flag
    BY ClientAssumption DEF Flag
  <2>2. ASSUME NEW a \in Block, block[a] = FreedBlock,
               NEW fill \in [a .. a + msize - 1 -> Byte],
               __track_create_memory_control(a, msize, flags, fill)
        PROVE  NamesStay
    BY <2>0, <2>2, CreateNames
  <2> QED
    BY <1>9, <2>1, <2>2 DEF track_malloc
<1>10. CASE track_make_empty
  <2>1. CASE \E args : Rejects(args)
    BY <2>1, AnswerNames
  <2>2. CASE __track_create_memory_control(Null, 0, {"empty"}, <<>>)
    <3>1. 0 \in 0 .. MaxSize /\ {"empty"} \in SUBSET Flag
      BY LayoutAssumption DEF Flag
    <3> QED
      BY <2>2, <3>1, CreateNames
  <2> QED
    BY <1>10, <2>1, <2>2 DEF track_make_empty
<1> QED
  BY <1>1, <1>2, <1>3, <1>4, <1>5, <1>6, <1>7, <1>8, <1>9, <1>10 DEF Next

(* A tracker that its block counts stays counted, and its block allocated, *)
(* until track_set_ptr or track_free takes the tracker itself away: also   *)
(* for a tracker that names another block, and after any failed            *)
(* allocation.                                                             *)
THEOREM CountedAlwaysKeeps == Spec => CountedKeepsBlock
<1>1. SafeInv /\ SafeInv' /\ [Next]_vars =>
        [\A p \in handle \cap handle', b \in Block :
           /\ LinkedIn(p, b)
           /\ core'[p].links = core[p].links
           /\ pc' = "idle"
           => LET l == block'[b].links IN
                block'[b].live /\ \E n \in l.used : l.data[n] = p]_vars
  <2> SUFFICES ASSUME SafeInv, SafeInv', [Next]_vars,
                      NEW p \in handle \cap handle', NEW b \in Block,
                      LinkedIn(p, b), core'[p].links = core[p].links
               PROVE  /\ block'[b].live
                      /\ Names(block'[b].links, p)
    BY DEF Names
  <2>1. p \in Core /\ Names(block[b].links, p)
    BY SafeInvHeap DEF LinkedIn, Names
  <2>2. Names(block'[b].links, p)
    <3>1. CASE core[p].links # b
      BY <2>1, <3>1, StepNames DEF NamesStay
    <3>2. CASE core'[p].links = b
      BY <2>1, <3>2 DEF SafeInv, Owned, heap
    <3> QED
      BY <3>1, <3>2
  <2>3. ExactBlock(block'[b])
    BY DEF SafeInv, CountInv, Exact, heap
  <2> QED
    BY <2>2, <2>3 DEF Names, ExactBlock
<1> QED
  BY <1>1, SafeInit, SafeNext, PTL DEF Spec, CountedKeepsBlock

=============================================================================
