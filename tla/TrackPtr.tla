------------------------------ MODULE TrackPtr ------------------------------
(***************************************************************************)
(* The library of trackptr.c as a state machine: one action for each call  *)
(* a program can make, in any order, with any handles it holds.  The       *)
(* program is one thread.  A call is one step, but for track_destroy,      *)
(* which frees the structures of the main list one step at a time.         *)
(*                                                                         *)
(* A call whose behaviour is undefined puts what went wrong into "fault"   *)
(* and ends the behaviour: nothing is claimed of the program after that.   *)
(***************************************************************************)
EXTENDS TrackFuncs

CONSTANTS
  Calls,      \* the calls the program makes
  NullArg,    \* {Null} if the program may pass a null pointer, else {}
  Sizes,      \* sizes it asks track_malloc for
  FlagSets,   \* flags it asks for, as subsets of Flag
  Moves,      \* distances it moves pointers by
  Steps,      \* values it gives iter_step, the step of TRACK_INC, TRACK_DEC
  UIntSpace,  \* the number of values of an unsigned int: 2^32 in the code
  Lens,       \* lengths it copies
  Garbage     \* what malloc may leave in the fields of a control structure

ASSUME ClientAssumption ==
  /\ NullArg \subseteq {Null}
  /\ Sizes \subseteq 0 .. MaxSize
  /\ FlagSets \subseteq SUBSET {"protect", "checksum"}
  /\ Moves \subseteq Int
  /\ UIntSpace \in Nat \ {0}
  /\ Steps \subseteq 0 .. UIntSpace - 1
  /\ Lens \subseteq Addr
  /\ \A g \in Garbage : /\ g.msize \in Addr
                        /\ g.links \in {Null, Wild}
                        /\ g.sum \in {NoSum} \cup Seq(Byte)

VARIABLES
  core,       \* the control structures
  block,      \* the memory blocks
  mem,        \* the bytes of memory
  fault,      \* the first undefined operation, if there was one
  inited,     \* main_track_list is not null
  main,       \* the main list
  handle,     \* the track_ptr_t the program holds
  leaked,     \* an allocation of a failed call was dropped without free
  pc,         \* "idle", or "destroy" inside track_destroy
  pos,        \* dht_list_func_full_free's position in the main list
  errtrack,   \* the last error code
  ret         \* what the last call returned: 0 for a pointer, -1 for NULL

heapVars   == <<core, block, mem>>
clientVars == <<inited, main, handle, leaked, pc, pos>>
vars       == <<heapVars, fault, clientVars, errtrack, ret>>

ETRACK_NO_ERROR            == 0
ETRACK_MEM_WAS_CHANGED     == 13
ETRACK_WENT_LOWER_LIMIT    == 14
ETRACK_WENT_UPPER_LIMIT    == 15
ETRACK_MEM_NOT_FOUND       == 16
ETRACK_NULL_PTR_PASSED     == 17
ETRACK_INIT_REQUIRED       == 18
ETRACK_ALLOC               == 19
ETRACK_INIT_TWICE          == 20
ETRACK_MEMCPY              == 21
ETRACK_MEMCPY_MEM_OVERLAP  == 22
ERTACK_MEMCPY_DEST_UP_LIM  == 23
ERTACK_MEMCPY_SRC_UP_LIM   == 24
ETRACK_IS_EMPTY            == 31

Error == {0} \cup 13 .. 15 \cup 17 .. 24 \cup {31}

(* track_str_error: a text of its own for each case of its switch, named   *)
(* here by the code, and one text for everything else.                     *)
Worded ==
  {ETRACK_NO_ERROR, ETRACK_MEM_WAS_CHANGED, ETRACK_WENT_LOWER_LIMIT,
   ETRACK_WENT_UPPER_LIMIT, ETRACK_MEM_NOT_FOUND, ETRACK_NULL_PTR_PASSED,
   ETRACK_INIT_REQUIRED, ETRACK_ALLOC, ETRACK_INIT_TWICE,
   ETRACK_MEMCPY_MEM_OVERLAP, ERTACK_MEMCPY_DEST_UP_LIM,
   ERTACK_MEMCPY_SRC_UP_LIM, ETRACK_MEMCPY}
UnknownMsg == -1

track_str_error(errnum) == IF errnum \in Worded THEN errnum ELSE UnknownMsg

ZeroByte == CHOOSE v \in Byte : TRUE

Init ==
  /\ core     = [c \in Core |-> FreedCore]
  /\ block    = [b \in Block |-> FreedBlock]
  /\ mem      = [a \in Addr |-> ZeroByte]
  /\ fault    = NoFault
  /\ inited   = FALSE
  /\ main     = EmptyList
  /\ handle   = {}
  /\ leaked   = FALSE
  /\ pc       = "idle"
  /\ pos      = Null
  /\ errtrack = ETRACK_NO_ERROR
  /\ ret      = 0

-----------------------------------------------------------------------------
heap == [core |-> core, block |-> block, mem |-> mem, fault |-> fault]

Arg == handle \cup NullArg

(* The program is in none of its calls and makes call f next.              *)
Enters(f) ==
  /\ fault = NoFault
  /\ pc = "idle"
  /\ f \in Calls

(* The call returns r, with e the last error, and changes nothing else.    *)
Answer(e, r) ==
  /\ errtrack' = e
  /\ ret' = r
  /\ UNCHANGED <<heapVars, fault, clientVars>>

Crash(why) ==
  /\ fault' = why
  /\ UNCHANGED <<heapVars, clientVars, errtrack, ret>>

(* The call returns 0 with heap h, main list l and held handles hs, unless *)
(* h records a fault.                                                      *)
Return(h, l, hs) ==
  \/ /\ h.fault = NoFault
     /\ core' = h.core /\ block' = h.block /\ mem' = h.mem
     /\ main' = l
     /\ handle' = hs
     /\ ret' = 0
     /\ UNCHANGED <<fault, inited, leaked, pc, pos, errtrack>>
  \/ /\ h.fault # NoFault
     /\ Crash(h.fault)

(* __TRACK_CHECK_RET_INIT_REQ and __TRACK_CHECK_RET_NULL_PTR, which every  *)
(* call but track_init begins with.                                        *)
Rejects(args) ==
  \/ ~inited /\ Answer(ETRACK_INIT_REQUIRED, -1)
  \/ inited /\ Null \in args /\ Answer(ETRACK_NULL_PTR_PASSED, -1)

Accepts(args) == inited /\ Null \notin args

-----------------------------------------------------------------------------
track_init ==
  /\ Enters("init")
  /\ \/ inited /\ Answer(ETRACK_INIT_TWICE, -1)
     \/ /\ ~inited
        /\ "list" \in MayFail
        /\ Crash("null_deref")
     \/ /\ ~inited
        /\ inited' = TRUE
        /\ main' = EmptyList
        /\ ret' = 0
        /\ UNCHANGED <<heapVars, fault, handle, leaked, pc, pos, errtrack>>

track_last_error ==
  /\ Enters("last_error")
  /\ ret' = 0
  /\ errtrack' = ETRACK_NO_ERROR
  /\ UNCHANGED <<heapVars, fault, clientVars>>

-----------------------------------------------------------------------------
(* A new tracker so far: the structure c, with g left in the fields that   *)
(* nothing has written, and once its lmblock_t is made the block at a      *)
(* (Null: there is none) as the record b.                                  *)
MadeCore(a, msize, flags, c, g) ==
  [heap EXCEPT !.core[c] = NewCore(a, msize, flags, g)]

Made(a, msize, flags, c, g, b) ==
  IF a = Null
  THEN MadeCore(0, 0, {"empty"}, c, g)
  ELSE [MadeCore(a, msize, flags, c, g) EXCEPT !.core[c].links = a,
                                               !.block[a] = b]

(* The tracker complete; n is the address of its node in the links list.   *)
WithNewCore(a, msize, flags, fill, c, n, g) ==
  LET made   == Made(a, msize, flags, c, g, NewBlock(msize, c, n))
      filled == [made EXCEPT !.mem = [x \in Addr |-> IF x \in DOMAIN fill
                                                     THEN fill[x] ELSE @[x]]]
  IN  IF a = Null THEN made
      ELSE IF "checksum" \in flags THEN OverwriteChecksum(filled, c)
      ELSE filled

(* Mutants: the failure gives no error code; the block stays allocated.    *)
AbandonSilently(h, a, c) ==
  ret' = -1 /\ UNCHANGED <<heapVars, fault, clientVars, errtrack>>
AbandonKeepsMemory(h, a, c) ==
  /\ core' = [h.core EXCEPT ![c] = FreedCore]
  /\ block' = h.block
  /\ ret' = -1
  /\ errtrack' = ETRACK_ALLOC
  /\ UNCHANGED <<mem, fault, clientVars>>

(* An allocation has failed when the heap was h.  Structure, lmblock_t and *)
(* memory are freed; a links list that was made, and the node in it, are   *)
(* not.  For an empty tracker the field passed to free was never written.  *)
(* The bytes of the memory were nobody's, and nothing has written them.    *)
Abandon(h, a, c) ==
  \/ a = Null /\ h.core[c].links # Null /\ Crash("wild_pointer")
  \/ /\ a # Null \/ h.core[c].links = Null
     /\ core' = [h.core EXCEPT ![c] = FreedCore]
     /\ block' = [b \in Block |-> IF b = a THEN FreedBlock ELSE h.block[b]]
     /\ leaked' = (leaked \/ \E b \in Block : b = a /\ h.block[b].live)
     /\ ret' = -1
     /\ errtrack' = ETRACK_ALLOC
     /\ UNCHANGED <<mem, fault, inited, main, handle, pc, pos>>

(* __track_push_core_to_main_list, and the return to the program.          *)
Push(h, c, m) ==
  LET l == npl_node_alloc(main, m, c)
  IN  IF CanAddTail(l)
      THEN Return(h, dht_list_add_node_tail(l, m), handle \cup {c})
      ELSE Crash("use_after_free")

PushCore(h, c, m) == Push([h EXCEPT !.core[c].ptrid = m], c, m)

(* Its callers have the memory, at a, or want none (a = Null).  malloc     *)
(* puts a structure where there is none, and a block likewise.             *)
__track_create_memory_control(a, msize, flags, fill) ==
  \/ "core" \in MayFail /\ Answer(ETRACK_ALLOC, -1)
  \/ a # Null /\ "list" \in MayFail /\ Crash("null_deref")
  \/ \E c \in Core, g \in Garbage :
       /\ core[c] = FreedCore
       /\ \/ /\ a # Null
             /\ "block" \in MayFail
             /\ Abandon(MadeCore(a, msize, flags, c, g), a, c)
          \/ /\ a # Null
             /\ "link" \in MayFail
             /\ Abandon(Made(a, msize, flags, c, g, UnlinkedBlock(msize)), a, c)
          \/ \E n \in Allocatable(EmptyList), m \in Allocatable(main) :
               LET b == NewBlock(msize, c, n)
                   h == WithNewCore(a, msize, flags, fill, c, n, g)
               IN  \/ /\ "handle" \in MayFail
                      /\ Abandon(Made(a, msize, flags, c, g, b), a, c)
                   \/ /\ "node" \in MayFail
                      /\ h.fault = NoFault
                      /\ Abandon(h, a, c)
                   \/ h.fault # NoFault /\ Crash(h.fault)
                   \/ h.fault = NoFault /\ PushCore(h, c, m)

(* A new block's bytes are whatever was there before: any bytes.           *)
track_malloc(msize, flags) ==
  /\ Enters("malloc")
  /\ \/ Rejects({})
     \/ inited /\ "memory" \in MayFail /\ Answer(ETRACK_ALLOC, -1)
     \/ /\ inited
        /\ \E a \in Block :
             /\ block[a] = FreedBlock
             /\ \E fill \in [a .. a + msize - 1 -> Byte] :
                  __track_create_memory_control(a, msize, flags, fill)

track_make_empty ==
  /\ Enters("make_empty")
  /\ \/ Rejects({})
     \/ inited /\ __track_create_memory_control(Null, 0, {"empty"}, <<>>)

-----------------------------------------------------------------------------
(* The node to remove is found through ptrid, and dht_list_remove_node     *)
(* returns the node it is given: the MEM_NOT_FOUND branch is never taken.  *)
track_free(p) ==
  LET n == core[p].ptrid
  IN  /\ Enters("free")
      /\ \/ Rejects({p})
         \/ Accepts({p}) /\ ~CanRemove(main, n) /\ Crash(RemoveFault(main, n))
         \/ /\ Accepts({p})
            /\ CanRemove(main, n)
            /\ Return(__track_main_list_node_data_free(heap, main.data[n]),
                      FreeNode(dht_list_remove_node(main, n), n),
                      handle \ {p})

(* track_destroy begins at the head of the main list ...                   *)
track_destroy ==
  /\ Enters("destroy")
  /\ \/ Rejects({})
     \/ /\ inited
        /\ pc' = "destroy"
        /\ pos' = main.head
        /\ UNCHANGED <<heapVars, fault, inited, main, handle, leaked,
                       errtrack, ret>>

(* ... frees the structure and the node at its position and moves on ...   *)
DestroyNode ==
  /\ fault = NoFault
  /\ pc = "destroy"
  /\ pos # Null
  /\ \/ pos \notin main.used /\ Crash("use_after_free")
     \/ /\ pos \in main.used
        /\ \E h \in {__track_main_list_node_data_free(heap, main.data[pos])} :
             \/ h.fault # NoFault /\ Crash(h.fault)
             \/ /\ h.fault = NoFault
                /\ core' = h.core /\ block' = h.block /\ mem' = h.mem
                /\ pos' = main.next[pos]
                /\ main' = FreeNode(main, pos)
                /\ UNCHANGED <<fault, inited, handle, leaked, pc, errtrack,
                               ret>>

(* ... and frees the list itself.  The program's handles are void.         *)
AtEnd == fault = NoFault /\ pc = "destroy" /\ pos = Null

DestroyReturn ==
  /\ pc' = "idle"
  /\ inited' = FALSE
  /\ main' = EmptyList
  /\ handle' = {}
  /\ ret' = 0
  /\ UNCHANGED <<heapVars, fault, leaked, pos, errtrack>>

(* A mutant: the list is freed only once its counter is zero.              *)
DestroyCounted == AtEnd /\ main.cnt = 0 /\ DestroyReturn

DestroyEnd == AtEnd /\ DestroyReturn

-----------------------------------------------------------------------------
track_overwrite_checksum(p) ==
  /\ Enters("overwrite_checksum")
  /\ \/ Rejects({p})
     \/ Accepts({p}) /\ Return(OverwriteChecksum(heap, p), main, handle)

track_check_mem(p) ==
  LET r   == core[p]
      bad == \/ __track_memory_changed(heap, p)
             \/ r.cur < r.start
             \/ r.cur > r.end
  IN  /\ Enters("check_mem")
      /\ \/ Rejects({p})
         \/ Accepts({p}) /\ ~CanChecksum(heap, p) /\ Crash("out_of_bounds")
         \/ /\ Accepts({p}) /\ CanChecksum(heap, p) /\ bad
            /\ Answer(ETRACK_MEM_WAS_CHANGED, 1)
         \/ /\ Accepts({p}) /\ CanChecksum(heap, p) /\ ~bad
            /\ Answer(errtrack, 0)

MoveTo(p, a, last) ==
  \/ a > last /\ Answer(ETRACK_WENT_UPPER_LIMIT, -2)
  \/ a <= last /\ a < core[p].start /\ Answer(ETRACK_WENT_LOWER_LIMIT, -2)
  \/ /\ a \in core[p].start .. last
     /\ Return([heap EXCEPT !.core[p].cur = a], main, handle)

(* Mutants: one byte too far; the pointer moves whatever the checks say; a *)
(* limit is noticed and no error code set.                                 *)
MovePastEnd(p, k) == MoveTo(p, Wrap(core[p].cur + k), core[p].end + 1)
MoveThenCheck(p, k) ==
  LET a == Wrap(core[p].cur + k)
  IN  /\ core' = [core EXCEPT ![p].cur = a]
      /\ ret' = IF a \in core[p].start .. core[p].end THEN 0 ELSE -2
      /\ errtrack' = ETRACK_WENT_UPPER_LIMIT
      /\ UNCHANGED <<block, mem, fault, clientVars>>


__track_ptr_move(p, k) == MoveTo(p, Wrap(core[p].cur + k), core[p].end)

track_move_ptr(p, k) ==
  LET checked == "checksum" \in core[p].flags
  IN  /\ Enters("move_ptr")
      /\ \/ Rejects({p})
         \/ /\ Accepts({p}) /\ checked /\ ~CanChecksum(heap, p)
            /\ Crash("out_of_bounds")
         \/ /\ Accepts({p}) /\ checked /\ CanChecksum(heap, p)
            /\ __track_memory_changed(heap, p)
            /\ Answer(ETRACK_MEM_WAS_CHANGED, -1)
         \/ /\ Accepts({p})
            /\ checked => /\ CanChecksum(heap, p)
                          /\ ~__track_memory_changed(heap, p)
            /\ __track_ptr_move(p, k)

(* The macros read iter_step from the program's own structure.  It is an   *)
(* unsigned int, and so is its negation, before it becomes a long.         *)
TRACK_INC(p, step) ==
  \/ Enters("move_ptr") /\ p = Null /\ Crash("null_deref")
  \/ p # Null /\ track_move_ptr(p, step)

TRACK_DEC(p, step) ==
  \/ Enters("move_ptr") /\ p = Null /\ Crash("null_deref")
  \/ p # Null /\ track_move_ptr(p, (-step) % UIntSpace)

-----------------------------------------------------------------------------
(* memcpy itself.  It returns its destination, so a null destination (an   *)
(* empty tracker's) and no bytes to copy make the call fail.               *)
Copied(to, from, n) ==
  [heap EXCEPT !.mem = [a \in Addr |-> IF a \in to .. to + n - 1
                                       THEN @[from + (a - to)] ELSE @[a]]]

(* A mutant: one byte too many is copied.                                  *)
CopyOneMore(d, s, n) ==
  Return(Copied(core[d].cur, core[s].cur, n + 1), main, handle)

Copy(d, s, n) ==
  LET to   == core[d].cur
      from == core[s].cur
  IN  \/ n = 0 /\ to = 0 /\ Answer(ETRACK_MEMCPY, -1)
      \/ n = 0 /\ to # 0 /\ Return(heap, main, handle)
      \/ /\ n # 0 /\ Readable(heap, to, n) /\ Readable(heap, from, n)
         /\ Return(Copied(to, from, n), main, handle)
      \/ /\ n # 0 /\ ~(Readable(heap, to, n) /\ Readable(heap, from, n))
         /\ Crash("out_of_bounds")

track_memcpy(d, s, n) ==
  LET over(p) == Wrap(core[p].cur + n) > core[p].end
      overlap == __track_check_overlay_cur_addr(heap, d, s, n)
  IN  /\ Enters("memcpy")
      /\ \/ Rejects({d, s})
         \/ /\ Accepts({d, s}) /\ over(d)
            /\ Answer(ERTACK_MEMCPY_DEST_UP_LIM, -1)
         \/ /\ Accepts({d, s}) /\ ~over(d) /\ over(s)
            /\ Answer(ERTACK_MEMCPY_SRC_UP_LIM, -1)
         \/ /\ Accepts({d, s}) /\ ~over(d) /\ ~over(s) /\ overlap
            /\ Answer(ETRACK_MEMCPY_MEM_OVERLAP, -1)
         \/ /\ Accepts({d, s}) /\ ~over(d) /\ ~over(s) /\ ~overlap
            /\ Copy(d, s, n)

-----------------------------------------------------------------------------
(* The first half of track_set_ptr with told = o: o leaves its block and   *)
(* takes what s controls, from s's current address on; if s names a block, *)
(* o's checksum is computed and o joins that block.  s stays in the list.  *)
HandOver(h, s, o) ==
  LET left  == __track_check_free_mem_block(h, o)
      reset == [left EXCEPT !.core[o].cur = h.core[o].start]
      moved == __track_migrate_cur_ptr(reset, o, s)
  IN  IF moved.core[s].links = Null
      THEN {moved}
      ELSE __track_review_mem_links_list(OverwriteChecksum(moved, o), s, o)

(* A mutant: the old checksum stays.                                       *)
TakeOverNoSum(h, s, n) ==
  __track_review_mem_links_list(__track_migrate_cur_ptr(h, s, n), n, s)

(* The second half: s takes what n controls.                               *)
TakeOver(h, s, n) ==
  __track_review_mem_links_list(
    OverwriteChecksum(__track_migrate_cur_ptr(h, s, n), s), n, s)

(* A mutant: s is moved first.                                             *)
SetFirst(s, n, o) ==
  IF o = Null
  THEN TakeOver(__track_check_free_mem_block(heap, s), s, n)
  ELSE UNION {HandOver(h, s, o) : h \in TakeOver(heap, s, n)}

SetPtrResults(s, n, o) ==
  LET released == IF o = Null THEN {__track_check_free_mem_block(heap, s)}
                              ELSE HandOver(heap, s, o)
  IN  UNION {TakeOver(h, s, n) : h \in released}

track_set_ptr(s, n, o) ==
  LET empty == "empty" \in core[n].flags
  IN  /\ Enters("set_ptr")
      /\ \/ Rejects({s, n})
         \/ Accepts({s, n}) /\ empty /\ Answer(ETRACK_IS_EMPTY, -1)
         \/ /\ Accepts({s, n})
            /\ ~empty
            /\ \E h \in SetPtrResults(s, n, o) : Return(h, main, handle)

-----------------------------------------------------------------------------
(* The program itself writes through TRACK_PTR, at the current address of  *)
(* a tracker that is not empty.                                            *)
UserWrite(p, v) ==
  LET a == core[p].cur
  IN  /\ Enters("write")
      /\ "empty" \notin core[p].flags
      /\ a <= core[p].end
      /\ \/ ~Readable(heap, a, 1) /\ Crash("use_after_free")
         \/ /\ Readable(heap, a, 1)
            /\ mem' = [mem EXCEPT ![a] = v]
            /\ UNCHANGED <<core, block, fault, clientVars, errtrack, ret>>

(* Nothing follows a fault.                                                *)
Stopped == fault # NoFault /\ UNCHANGED vars

Next ==
  \/ track_init
  \/ track_last_error
  \/ \E msize \in Sizes, flags \in FlagSets : track_malloc(msize, flags)
  \/ track_make_empty
  \/ \E p \in Arg : track_free(p)
  \/ track_destroy
  \/ DestroyNode
  \/ DestroyEnd
  \/ \E p \in Arg : track_overwrite_checksum(p)
  \/ \E p \in Arg : track_check_mem(p)
  \/ \E p \in Arg, k \in Moves : track_move_ptr(p, k)
  \/ \E p \in Arg, step \in Steps : TRACK_INC(p, step)
  \/ \E p \in Arg, step \in Steps : TRACK_DEC(p, step)
  \/ \E d, s \in Arg, n \in Lens : track_memcpy(d, s, n)
  \/ \E s, n \in Arg, o \in handle \cup {Null} : track_set_ptr(s, n, o)
  \/ \E p \in handle, v \in Byte : UserWrite(p, v)
  \/ Stopped

(* The library's own loop runs on until it ends; the program owes nothing. *)
Fairness == WF_vars(DestroyNode \/ DestroyEnd)

Spec == Init /\ [][Next]_vars /\ Fairness

=============================================================================
