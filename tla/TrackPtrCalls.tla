---------------------------- MODULE TrackPtrCalls ----------------------------
(***************************************************************************)
(* Proofs about what the calls of TrackPtr answer and do: failed calls     *)
(* explain themselves and leave no trace, pointers stay in their ranges,   *)
(* and the library implements Trackers.                                    *)
(***************************************************************************)
EXTENDS TrackPtrSafety

-----------------------------------------------------------------------------
(* Arithmetic that wraps at most once.                                     *)
LEMMA WrapOnce ==
  ASSUME NEW y \in Int, -AddrSpace <= y, y < 2 * AddrSpace
  PROVE  /\ Wrap(y) \in {y, y + AddrSpace, y - AddrSpace}
         /\ y \in Addr => Wrap(y) = y
  BY LayoutAssumption DEF Wrap, Addr

(* In a range of at most half the address space, the wrapped sum is inside *)
(* only if the sum is.                                                     *)
LEMMA WrapInside ==
  ASSUME NEW start \in Addr, NEW end \in Addr, NEW cur \in start .. end,
         NEW k \in Int, 2 * k \in -AddrSpace .. AddrSpace,
         2 * (end - start) < AddrSpace
  PROVE  /\ Wrap(cur + k) \in start .. end => Wrap(cur + k) = cur + k
         /\ cur + k \in start .. end => Wrap(cur + k) = cur + k
<1>1. cur \in Addr /\ AddrSpace \in Nat \ {0}
  BY LayoutAssumption DEF Addr
<1>2. /\ Wrap(cur + k) \in {cur + k, cur + k + AddrSpace, cur + k - AddrSpace}
      /\ cur + k \in Addr => Wrap(cur + k) = cur + k
  BY <1>1, WrapOnce DEF Addr
<1> QED
  BY <1>1, <1>2 DEF Addr

-----------------------------------------------------------------------------
(* How a step can end.                                                     *)

Reason == (Worded \ {ETRACK_NO_ERROR}) \cup {ETRACK_IS_EMPTY}

Same    == UNCHANGED <<heapVars, main, handle>>
Written == \E p \in handle, v \in Byte : UserWrite(p, v)

(* No call returns and nothing changes, or the program writes, or          *)
(* track_destroy is inside its loop; a call succeeds; track_last_error     *)
(* returns; a call answers 1, or fails for the reason it gives, having     *)
(* changed nothing.                                                        *)
Outcome ==
  \/ UNCHANGED <<errtrack, ret>> /\ (Same \/ Written \/ pc = "destroy")
  \/ ret' = 0 /\ UNCHANGED errtrack
  \/ ret' = 0 /\ errtrack' = ETRACK_NO_ERROR /\ track_last_error /\ Same
  \/ ret' = 1 /\ Same
  \/ ret' \in {-1, -2} /\ errtrack' \in Reason /\ Blames(errtrack') /\ Same

(* The codes that calls answer with are reasons.                           *)
LEMMA Reasons ==
  {ETRACK_MEM_WAS_CHANGED, ETRACK_WENT_LOWER_LIMIT, ETRACK_WENT_UPPER_LIMIT,
   ETRACK_NULL_PTR_PASSED, ETRACK_INIT_REQUIRED, ETRACK_ALLOC,
   ETRACK_INIT_TWICE, ETRACK_MEMCPY, ETRACK_MEMCPY_MEM_OVERLAP,
   ERTACK_MEMCPY_DEST_UP_LIM, ERTACK_MEMCPY_SRC_UP_LIM, ETRACK_IS_EMPTY}
    \subseteq Reason
  BY DEF Reason, Worded, ETRACK_NO_ERROR, ETRACK_MEM_WAS_CHANGED,
    ETRACK_WENT_LOWER_LIMIT, ETRACK_WENT_UPPER_LIMIT, ETRACK_MEM_NOT_FOUND,
    ETRACK_NULL_PTR_PASSED, ETRACK_INIT_REQUIRED, ETRACK_ALLOC,
    ETRACK_INIT_TWICE, ETRACK_MEMCPY, ETRACK_MEMCPY_MEM_OVERLAP,
    ERTACK_MEMCPY_DEST_UP_LIM, ERTACK_MEMCPY_SRC_UP_LIM, ETRACK_IS_EMPTY

(* A reason has a text that says so, or is the one that has none.          *)
LEMMA ReasonText ==
  ASSUME NEW e \in Reason
  PROVE  \/ e = ETRACK_IS_EMPTY
         \/ track_str_error(e) \notin {ETRACK_NO_ERROR, UnknownMsg}
<1> SUFFICES ASSUME e \in Worded \ {ETRACK_NO_ERROR}
             PROVE  track_str_error(e) \notin {ETRACK_NO_ERROR, UnknownMsg}
  BY DEF Reason
<1>1. UnknownMsg \notin Worded
  BY DEF UnknownMsg, Worded, ETRACK_NO_ERROR, ETRACK_MEM_WAS_CHANGED,
    ETRACK_WENT_LOWER_LIMIT, ETRACK_WENT_UPPER_LIMIT, ETRACK_MEM_NOT_FOUND,
    ETRACK_NULL_PTR_PASSED, ETRACK_INIT_REQUIRED, ETRACK_ALLOC,
    ETRACK_INIT_TWICE, ETRACK_MEMCPY, ETRACK_MEMCPY_MEM_OVERLAP,
    ERTACK_MEMCPY_DEST_UP_LIM, ERTACK_MEMCPY_SRC_UP_LIM
<1>2. track_str_error(e) = e
  BY DEF track_str_error
<1> QED
  BY <1>1, <1>2

-----------------------------------------------------------------------------
(* The parts calls are made of.                                            *)

(* An answer that leaves the last error, or fails for a reason.            *)
LEMMA AnswerOutcome ==
  ASSUME NEW e, NEW r, Answer(e, r),
         \/ r = 0 /\ e = errtrack
         \/ r = 1
         \/ r \in {-1, -2} /\ e \in Reason /\ Blames(e)
  PROVE  Outcome
<1>1. errtrack' = e /\ ret' = r /\ Same
  BY DEF Answer, Same, heapVars, clientVars
<1> QED
  BY <1>1 DEF Outcome

(* Undefined behaviour is no answer.                                       *)
LEMMA CrashOutcome == ASSUME NEW why, Crash(why) PROVE Outcome
  BY DEF Crash, Outcome, Same, heapVars, clientVars

(* An argument is a handle, or the program may pass null.                  *)
LEMMA ArgHeld ==
  ASSUME TypeOK, NEW p \in Arg
  PROVE  p \in handle \/ (p = Null /\ Null \in NullArg)
  BY ClientAssumption DEF Arg

(* A call that its first checks turn away says which of them did.          *)
LEMMA RejectsOutcome ==
  ASSUME TypeOK, NEW args, args \subseteq Arg, Rejects(args) PROVE Outcome
<1>1. CASE ~inited /\ Answer(ETRACK_INIT_REQUIRED, -1)
  <2>1. Blames(ETRACK_INIT_REQUIRED)
    BY <1>1 DEF Blames
  <2> QED
    BY <1>1, <2>1, AnswerOutcome, Reasons
<1>2. CASE inited /\ Null \in args /\ Answer(ETRACK_NULL_PTR_PASSED, -1)
  <2>1. Null \notin handle
    BY ValueAssumption DEF TypeOK
  <2>2. Null \in NullArg
    BY <1>2, <2>1 DEF Arg
  <2>3. Blames(ETRACK_NULL_PTR_PASSED)
    BY <1>2, <2>2 DEF Blames
  <2> QED
    BY <1>2, <2>3, AnswerOutcome, Reasons
<1> QED
  BY <1>1, <1>2 DEF Rejects

(* A call that returns its results has succeeded.                          *)
LEMMA ReturnOutcome ==
  ASSUME NEW h, NEW l, NEW hs, Return(h, l, hs) PROVE Outcome
  BY CrashOutcome DEF Return, Outcome

(* Making a tracker succeeds, or fails because memory ran out: the blame   *)
(* is right where allocations can fail at all, and what was made half-way  *)
(* is undone.                                                              *)
LEMMA CreateOutcome ==
  ASSUME TypeOK, NEW a \in Block \cup {Null}, NEW msize \in 0 .. MaxSize,
         NEW flags \in SUBSET Flag, NEW fill,
         a # Null => /\ block[a] = FreedBlock
                     /\ fill \in [a .. a + msize - 1 -> Byte],
         __track_create_memory_control(a, msize, flags, fill),
         \/ track_make_empty
         \/ \E size \in Sizes, fs \in FlagSets : track_malloc(size, fs)
  PROVE  Outcome
<1>1. ASSUME NEW h, NEW c, NEW m, PushCore(h, c, m)
      PROVE  Outcome
  BY <1>1, ReturnOutcome, CrashOutcome DEF PushCore, Push
<1>2. CASE MayFail = {}
  <2>1. \E c \in Core, g \in Garbage,
           n \in Allocatable(EmptyList), m \in Allocatable(main) :
          LET h == WithNewCore(a, msize, flags, fill, c, n, g)
          IN  Crash(h.fault) \/ PushCore(h, c, m)
    BY <1>2 DEF __track_create_memory_control
  <2> QED
    BY <1>1, <2>1, CrashOutcome
<1>3. CASE MayFail # {}
  <2>1. Blames(ETRACK_ALLOC) /\ ETRACK_ALLOC \in Reason
    BY <1>3, Reasons DEF Blames
  <2>2. CASE Answer(ETRACK_ALLOC, -1) \/ Crash("null_deref")
    BY <2>1, <2>2, AnswerOutcome, CrashOutcome
  <2>3. CASE GivenUp
    BY <2>1, <2>3, CrashOutcome DEF GivenUp, Outcome, Same
  <2>4. CASE \E c \in Core, g \in Garbage :
               \E n \in Allocatable(EmptyList), m \in Allocatable(main) :
                 LET h == WithNewCore(a, msize, flags, fill, c, n, g)
                 IN  Crash(h.fault) \/ PushCore(h, c, m)
    BY <1>1, <2>4, CrashOutcome
  <2> QED
    BY <2>2, <2>3, <2>4, CreateSteps
<1> QED
  BY <1>2, <1>3

-----------------------------------------------------------------------------
(* Every distance is a whole number.                                       *)
LEMMA DistanceInt == Distance \subseteq Int
<1>1. ASSUME NEW i \in Steps PROVE (-i) % UIntSpace \in Int
  <2>1. i \in Int /\ UIntSpace \in Nat \ {0}
    BY ClientAssumption
  <2> QED
    BY <2>1
<1>2. {(-i) % UIntSpace : i \in Steps} \subseteq Int
  BY <1>1
<1>3. Steps \subseteq Int /\ Moves \subseteq Int
  BY ClientAssumption
<1> QED
  BY <1>2, <1>3 DEF Distance

(* Moving a pointer: a limit is reported only where the distance leads out *)
(* of the range, for a sum inside it does not wrap.                        *)
LEMMA MoveOutcome ==
  ASSUME TypeOK, NEW p \in Arg, NEW k \in Distance, track_move_ptr(p, k)
  PROVE  Outcome
<1>1. CASE Rejects({p})
  BY <1>1, RejectsOutcome
<1>2. CASE Crash("out_of_bounds")
  BY <1>2, CrashOutcome
<1>3. CASE Accepts({p})
  <2>1. p \in handle
    BY <1>3, ArgHeld DEF Accepts
  <2>2. CASE /\ __track_memory_changed(heap, p)
             /\ Answer(ETRACK_MEM_WAS_CHANGED, -1)
    <3>1. ret' = -1
      BY <2>2 DEF Answer
    <3>2. Blames(ETRACK_MEM_WAS_CHANGED)
      BY <2>1, <2>2, <3>1 DEF Blames
    <3> QED
      BY <2>2, <3>2, AnswerOutcome, Reasons
  <2>3. CASE __track_ptr_move(p, k)
    <3> DEFINE r == core[p]
               a == Wrap(r.cur + k)
    <3>1. r.start \in Addr /\ r.cur \in Addr /\ r.end \in Addr
      BY <2>1 DEF TypeOK, CoreRec
    <3>2. r.cur + k \in r.start .. r.end => a = r.cur + k
      <4>1. k \in Int /\ AddrSpace \in Nat \ {0}
        BY DistanceInt, LayoutAssumption
      <4> HIDE DEF r
      <4>2. r.cur + k \in r.start .. r.end => r.cur + k \in Addr
        BY <3>1, <4>1 DEF Addr
      <4>3. r.cur + k \in Addr => Wrap(r.cur + k) = r.cur + k
        BY <4>1, WrapOnce DEF Addr
      <4> QED
        BY <4>2, <4>3
    <3>3. CASE Return([heap EXCEPT !.core[p].cur = a], main, handle)
      BY <3>3, ReturnOutcome
    <3>4. ASSUME NEW e \in {ETRACK_WENT_LOWER_LIMIT, ETRACK_WENT_UPPER_LIMIT},
                 Answer(e, -2), a < r.start \/ a > r.end
          PROVE  Outcome
      <4>1. r.cur + k \notin r.start .. r.end
        <5> HIDE DEF r, a
        <5> QED
          BY <3>1, <3>2, <3>4, DistanceInt DEF Addr
      <4>2. ret' = -2
        BY <3>4 DEF Answer
      <4>3. Blames(e)
        BY <2>1, <4>1, <4>2 DEF Blames
      <4> QED
        BY <3>4, <4>3, AnswerOutcome, Reasons
    <3> QED
      BY <2>3, <3>3, <3>4 DEF __track_ptr_move, MoveTo
  <2> QED
    BY <1>2, <1>3, <2>2, <2>3 DEF track_move_ptr, Rejects, Accepts
<1> QED
  BY <1>1, <1>2, <1>3 DEF track_move_ptr

(* Copying: a limit is reported only where the length leads past it.       *)
LEMMA MemcpyOutcome ==
  ASSUME TypeOK, NEW d \in Arg, NEW s \in Arg, NEW n \in Lens,
         track_memcpy(d, s, n)
  PROVE  Outcome
<1>1. CASE Rejects({d, s})
  BY <1>1, RejectsOutcome
<1>2. CASE Accepts({d, s}) /\ ~Rejects({d, s})
  <2>1. d \in handle /\ s \in handle
    BY <1>2, ArgHeld DEF Accepts
  <2>2. ASSUME NEW p \in handle, Wrap(core[p].cur + n) > core[p].end
        PROVE  core[p].cur + n > core[p].end
    <3> DEFINE r == core[p]
    <3>1. r.cur \in Addr /\ r.end \in Addr /\ n \in Addr
      BY ClientAssumption DEF TypeOK, CoreRec
    <3>2. Wrap(r.cur + n) > r.end
      BY <2>2
    <3>3. AddrSpace \in Nat \ {0}
      BY LayoutAssumption
    <3> HIDE DEF r
    <3>4. r.cur + n \in Addr => Wrap(r.cur + n) = r.cur + n
      BY <3>1, <3>3, WrapOnce DEF Addr
    <3>5. r.cur + n > r.end
      BY <3>1, <3>2, <3>3, <3>4 DEF Addr
    <3> QED
      BY <3>5 DEF r
  <2>3. CASE /\ Wrap(core[d].cur + n) > core[d].end
             /\ Answer(ERTACK_MEMCPY_DEST_UP_LIM, -1)
    <3>1. Blames(ERTACK_MEMCPY_DEST_UP_LIM)
      BY <2>1, <2>2, <2>3 DEF Blames
    <3> QED
      BY <2>3, <3>1, AnswerOutcome, Reasons
  <2>4. CASE /\ Wrap(core[s].cur + n) > core[s].end
             /\ Answer(ERTACK_MEMCPY_SRC_UP_LIM, -1)
    <3>1. Blames(ERTACK_MEMCPY_SRC_UP_LIM)
      BY <2>1, <2>2, <2>4 DEF Blames
    <3> QED
      BY <2>4, <3>1, AnswerOutcome, Reasons
  <2>5. CASE Answer(ETRACK_MEMCPY_MEM_OVERLAP, -1)
    <3>1. Blames(ETRACK_MEMCPY_MEM_OVERLAP)
      BY <2>1 DEF Blames
    <3> QED
      BY <2>5, <3>1, AnswerOutcome, Reasons
  <2>6. CASE Copy(d, s, n)
    <3>1. n = 0 => Blames(ETRACK_MEMCPY)
      BY <2>1 DEF Blames
    <3> QED
      BY <2>6, <3>1, AnswerOutcome, CrashOutcome, ReturnOutcome, Reasons
      DEF Copy
  <2> QED
    BY <1>2, <2>3, <2>4, <2>5, <2>6 DEF track_memcpy
<1> QED
  BY <1>1, <1>2 DEF track_memcpy

(* Checking a checksum leaves the last error or sets that of changed bytes.*)
LEMMA CheckMemOutcome ==
  ASSUME TypeOK, NEW p \in Arg, track_check_mem(p) PROVE Outcome
<1>1. CASE Rejects({p})
  BY <1>1, RejectsOutcome
<1>2. CASE \/ Crash("out_of_bounds")
           \/ Answer(ETRACK_MEM_WAS_CHANGED, 1)
           \/ Answer(errtrack, 0)
  BY <1>2, AnswerOutcome, CrashOutcome
<1> QED
  BY <1>1, <1>2 DEF track_check_mem

(* track_malloc and track_make_empty.                                      *)
LEMMA NewOutcome ==
  ASSUME TypeOK,
         \/ track_make_empty
         \/ \E msize \in Sizes, flags \in FlagSets : track_malloc(msize, flags)
  PROVE  Outcome
<1>1. CASE track_make_empty
  <2>1. CASE Rejects({})
    BY <2>1, RejectsOutcome
  <2>2. CASE __track_create_memory_control(Null, 0, {"empty"}, <<>>)
    <3>1. 0 \in 0 .. MaxSize /\ {"empty"} \in SUBSET Flag
      BY LayoutAssumption DEF Flag
    <3> QED
      BY <1>1, <2>2, <3>1, CreateOutcome
  <2> QED
    BY <1>1, <2>1, <2>2 DEF track_make_empty
<1>2. ASSUME NEW msize \in Sizes, NEW flags \in FlagSets,
             track_malloc(msize, flags)
      PROVE  Outcome
  <2>1. msize \in 0 .. MaxSize /\ flags \in SUBSET Flag
    BY ClientAssumption DEF Flag
  <2>2. CASE Rejects({})
    BY <2>2, RejectsOutcome
  <2>3. CASE "memory" \in MayFail /\ Answer(ETRACK_ALLOC, -1)
    <3>1. Blames(ETRACK_ALLOC)
      BY <1>2, <2>3 DEF Blames
    <3> QED
      BY <2>3, <3>1, AnswerOutcome, Reasons
  <2>4. ASSUME NEW a \in Block, block[a] = FreedBlock,
               NEW fill \in [a .. a + msize - 1 -> Byte],
               __track_create_memory_control(a, msize, flags, fill)
        PROVE  Outcome
    BY <1>2, <2>1, <2>4, CreateOutcome
  <2> QED
    BY <1>2, <2>2, <2>3, <2>4 DEF track_malloc
<1> QED
  BY <1>1, <1>2

(* The other calls without arguments, and the steps of track_destroy.      *)
LEMMA SessionOutcome ==
  ASSUME TypeOK,
         \/ track_init \/ track_last_error
         \/ track_destroy \/ DestroyNode \/ DestroyEnd
  PROVE  Outcome
<1>1. CASE track_init
  <2>1. inited => Blames(ETRACK_INIT_TWICE)
    BY <1>1 DEF Blames
  <2> QED
    BY <1>1, <2>1, AnswerOutcome, CrashOutcome, Reasons
    DEF track_init, Outcome
<1>2. CASE track_last_error
  BY <1>2 DEF track_last_error, Outcome, Same, clientVars
<1>3. CASE track_destroy
  <2>1. CASE Rejects({})
    BY <2>1, RejectsOutcome
  <2> QED
    BY <1>3, <2>1 DEF track_destroy, Outcome, Same
<1>4. CASE DestroyNode
  BY <1>4, CrashOutcome DEF DestroyNode, Outcome
<1>5. CASE DestroyEnd
  BY <1>5 DEF DestroyEnd, DestroyReturn, Outcome
<1> QED
  BY <1>1, <1>2, <1>3, <1>4, <1>5

(* Re-pointing: it fails only because tnew has no memory.                  *)
LEMMA SetPtrOutcome ==
  ASSUME TypeOK, NEW s \in Arg, NEW n \in Arg, NEW o \in handle \cup {Null},
         track_set_ptr(s, n, o)
  PROVE  Outcome
<1>1. CASE Rejects({s, n})
  BY <1>1, RejectsOutcome
<1>2. CASE /\ Accepts({s, n})
           /\ "empty" \in core[n].flags
           /\ Answer(ETRACK_IS_EMPTY, -1)
  <2>1. s \in handle /\ n \in handle
    BY <1>2, ArgHeld DEF Accepts
  <2>2. Blames(ETRACK_IS_EMPTY)
    BY <1>2, <2>1 DEF Blames, Empty
  <2> QED
    BY <1>2, <2>2, AnswerOutcome, Reasons
<1>3. CASE \E h \in SetPtrResults(s, n, o) : Return(h, main, handle)
  BY <1>3, ReturnOutcome
<1> QED
  BY <1>1, <1>2, <1>3 DEF track_set_ptr

(* Every step ends in one of these ways.                                   *)
LEMMA StepOutcome == TypeOK /\ [Next]_vars => Outcome
<1> SUFFICES ASSUME TypeOK, [Next]_vars PROVE Outcome
  OBVIOUS
<1>1. CASE \/ track_init \/ track_last_error
           \/ track_destroy \/ DestroyNode \/ DestroyEnd
  BY <1>1, SessionOutcome
<1>2. CASE \/ track_make_empty
           \/ \E msize \in Sizes, flags \in FlagSets :
                track_malloc(msize, flags)
  BY <1>2, NewOutcome
<1>3. ASSUME NEW p \in Arg, track_free(p) \/ track_overwrite_checksum(p)
      PROVE  Outcome
  <2>1. CASE Rejects({p})
    BY <2>1, RejectsOutcome
  <2> QED
    BY <1>3, <2>1, CrashOutcome, ReturnOutcome
    DEF track_free, track_overwrite_checksum
<1>4. CASE \/ \E p \in Arg : track_check_mem(p)
           \/ \E d, s \in Arg, n \in Lens : track_memcpy(d, s, n)
  BY <1>4, CheckMemOutcome, MemcpyOutcome
<1>5. CASE \/ \E p \in Arg, k \in Moves : track_move_ptr(p, k)
           \/ \E p \in Arg, step \in Steps : TRACK_INC(p, step)
           \/ \E p \in Arg, step \in Steps : TRACK_DEC(p, step)
  BY <1>5, MoveOutcome, CrashOutcome DEF TRACK_INC, TRACK_DEC, Distance
<1>6. CASE \E s, n \in Arg, o \in handle \cup {Null} : track_set_ptr(s, n, o)
  BY <1>6, SetPtrOutcome
<1>7. ASSUME NEW p \in handle, NEW v \in Byte, UserWrite(p, v)
      PROVE  Outcome
  BY <1>7, CrashOutcome DEF UserWrite, Written, Outcome
<1>8. CASE Stopped \/ UNCHANGED vars
  BY <1>8 DEF Stopped, vars, Outcome, Same, clientVars
<1> QED
  BY <1>1, <1>2, <1>3, <1>4, <1>5, <1>6, <1>7, <1>8 DEF Next

(* Whatever call fails, for whatever reason, it leaves an error code that  *)
(* fits this call and the state it found, whose text says why (but for     *)
(* ETRACK_IS_EMPTY); and the code stays until another call leaves one or   *)
(* track_last_error takes it away.                                         *)
THEOREM FailuresAlwaysExplained == Spec => FailuresExplained
<1>1. TypeOK /\ [Next]_vars =>
        /\ ret' < 0 /\ ~(UNCHANGED <<ret, errtrack>>) =>
             /\ Blames(errtrack')
             /\ \/ errtrack' = ETRACK_IS_EMPTY
                \/ track_str_error(errtrack')
                     \notin {ETRACK_NO_ERROR, UnknownMsg}
        /\ errtrack' # errtrack =>
             \/ ret' # 0
             \/ errtrack' = ETRACK_NO_ERROR /\ track_last_error
  BY StepOutcome, ReasonText DEF Outcome
<1> QED
  BY <1>1, TypeInit, TypeNext, PTL DEF Spec, FailuresExplained

(* A call that fails, at whichever of its allocations, tests or searches,  *)
(* has changed no structure, block, byte, list or handle; and a creation   *)
(* that runs out of memory half-way has undone what it did.                *)
THEOREM FailuresNeverChange == Spec => FailuresLeaveNoTrace
<1>1. TypeOK /\ [Next]_vars =>
        \/ UNCHANGED <<heapVars, main, handle>>
        \/ pc = "destroy"
        \/ ret' = 0 /\ errtrack' = errtrack
        \/ \E p \in handle, v \in Byte : UserWrite(p, v)
  BY StepOutcome DEF Outcome, Same, Written
<1> QED
  BY <1>1, TypeInit, TypeNext, PTL DEF Spec, FailuresLeaveNoTrace

-----------------------------------------------------------------------------
(* Where a copy that the checks let pass begins and ends: inside the range,*)
(* and so inside the block, for a length that does not wrap around.        *)
LEMMA CopyInside ==
  ASSUME SafeInv, "link" \notin MayFail, pc = "idle",
         NEW p \in handle, ~Empty(p), NEW n \in Nat \ {0},
         core[p].cur + n < AddrSpace,
         ~(Wrap(core[p].cur + n) > core[p].end)
  PROVE  /\ core[p].cur \in Nat /\ core[p].end \in Nat
         /\ core[p].cur + n <= core[p].end
         /\ core[p].end < AddrSpace
         /\ Wrap(core[p].cur + n) = core[p].cur + n
         /\ Readable(heap, core[p].cur, n)
<1> DEFINE r == core[p]
<1>1. p \in Core /\ core \in [Core -> CoreRec] /\ block \in [Block -> BlockRec]
  BY DEF SafeInv, CountInv, TypeOK
<1>2. PICK b \in Block : Within(heap, p, b)
  BY <1>1 DEF SafeInv, AllSafe, Safe, Empty, heap
<1>3. block[b].size \in 0 .. MaxSize
  BY <1>1 DEF BlockRec
<1>4. /\ b \in Nat /\ MaxSize \in Nat /\ AddrSpace \in Nat \ {0}
      /\ r.start \in Nat /\ r.cur \in Nat /\ r.end \in Nat
      /\ r.end < AddrSpace
  <2>1. r.start \in Addr /\ r.cur \in Addr /\ r.end \in Addr
    BY <1>1 DEF CoreRec
  <2> QED
    BY <2>1, BlockAddr, LayoutAssumption DEF Addr
<1>5. /\ block[b].live
      /\ b <= r.start /\ r.start <= r.cur /\ r.end = b + block[b].size - 1
      /\ r.cur <= r.end \/ (block[b].size = 0 /\ r.cur = b)
  BY <1>2 DEF Within, heap
<1>6. r.cur + n < AddrSpace
  OBVIOUS
<1>7. ~(Wrap(r.cur + n) > r.end)
  OBVIOUS
<1> HIDE DEF r
<1>8. r.cur + n \in Addr
  BY <1>3, <1>4, <1>5, <1>6 DEF Addr
<1>9. Wrap(r.cur + n) = r.cur + n
  BY <1>4, <1>8, WrapOnce DEF Addr
<1>10. r.cur + n <= r.end
  BY <1>4, <1>7, <1>9
<1>11. b <= r.cur /\ r.cur + n <= b + block[b].size
  BY <1>3, <1>4, <1>5, <1>10
<1>12. Readable(heap, r.cur, n)
  BY <1>5, <1>11 DEF Readable, heap
<1> QED
  BY <1>4, <1>9, <1>10, <1>12 DEF r

(* What memcpy leaves in memory.                                           *)
LEMMA CopiedExact ==
  ASSUME NEW to \in Nat, NEW from \in Nat, NEW n \in Nat \ {0},
         to + n < AddrSpace
  PROVE  LET h == Copied(to, from, n)
         IN  /\ h.fault = fault
             /\ \A i \in 0 .. n - 1 : h.mem[to + i] = mem[from + i]
             /\ \A a \in Addr \ (to .. to + n - 1) : h.mem[a] = mem[a]
<1> DEFINE m == [a \in Addr |-> IF a \in to .. to + n - 1
                                 THEN mem[from + (a - to)] ELSE mem[a]]
           h == Copied(to, from, n)
<1>1. h.mem = m /\ h.fault = fault
  BY DEF Copied, heap
<1>2. AddrSpace \in Nat
  BY LayoutAssumption
<1>3. ASSUME NEW i \in 0 .. n - 1 PROVE m[to + i] = mem[from + i]
  <2>1. to + i \in Addr /\ to + i \in to .. to + n - 1
    BY <1>2 DEF Addr
  <2>2. from + ((to + i) - to) = from + i
    OBVIOUS
  <2> QED
    BY <2>1, <2>2
<1>4. ASSUME NEW a \in Addr \ (to .. to + n - 1) PROVE m[a] = mem[a]
  OBVIOUS
<1> HIDE DEF m, h
<1>5. /\ h.fault = fault
      /\ \A i \in 0 .. n - 1 : h.mem[to + i] = mem[from + i]
      /\ \A a \in Addr \ (to .. to + n - 1) : h.mem[a] = mem[a]
  BY <1>1, <1>3, <1>4
<1> QED
  BY <1>5 DEF h

(* A copy that returns 0 did what was asked.                               *)
LEMMA MemcpyCopies ==
  ASSUME SafeInv, "link" \notin MayFail,
         NEW d \in handle, NEW s \in handle, NEW n \in Nat \ {0},
         core[d].cur + n < AddrSpace, core[s].cur + n < AddrSpace,
         ret' = 0, ~Empty(d), ~Empty(s), track_memcpy(d, s, n)
  PROVE  LET to   == core[d].cur
             from == core[s].cur
         IN  /\ fault' = NoFault
             /\ to + n - 1 <= core[d].end
             /\ from + n - 1 <= core[s].end
             /\ to + n <= from \/ from + n <= to
             /\ \A i \in 0 .. n - 1 : mem'[to + i] = mem[from + i]
             /\ \A a \in Addr \ (to .. to + n - 1) : mem'[a] = mem[a]
<1> DEFINE to   == core[d].cur
           from == core[s].cur
           h == Copied(to, from, n)
<1>1. /\ fault = NoFault /\ pc = "idle"
      /\ ~(Wrap(to + n) > core[d].end) /\ ~(Wrap(from + n) > core[s].end)
      /\ ~__track_check_overlay_cur_addr(heap, d, s, n)
      /\ Copy(d, s, n)
  BY DEF track_memcpy, Enters, Rejects, Answer
<1>2. /\ to \in Nat /\ core[d].end \in Nat /\ to + n <= core[d].end
      /\ core[d].end < AddrSpace /\ Wrap(to + n) = to + n
      /\ Readable(heap, to, n)
  BY <1>1, CopyInside
<1>3. /\ from \in Nat /\ core[s].end \in Nat /\ from + n <= core[s].end
      /\ Wrap(from + n) = from + n /\ Readable(heap, from, n)
  BY <1>1, CopyInside
<1>4. AddrSpace \in Nat
  BY LayoutAssumption
<1>5. ~(from <= to /\ to <= from + n) /\ ~(from <= to + n /\ to + n <= from + n)
  BY <1>1, <1>2, <1>3 DEF __track_check_overlay_cur_addr, heap
<1>6. Return(h, main, handle)
  BY <1>1, <1>2, <1>3 DEF Copy
<1>7. /\ h.fault = fault
      /\ \A i \in 0 .. n - 1 : h.mem[to + i] = mem[from + i]
      /\ \A a \in Addr \ (to .. to + n - 1) : h.mem[a] = mem[a]
  <2> HIDE DEF to, from
  <2>1. to + n < AddrSpace
    BY <1>2, <1>4
  <2> QED
    BY <1>2, <1>3, <2>1, CopiedExact
<1> HIDE DEF h
<1>8. mem' = h.mem /\ fault' = NoFault
  BY <1>1, <1>6, <1>7 DEF Return
<1> HIDE DEF to, from
<1>9. /\ to + n - 1 <= core[d].end /\ from + n - 1 <= core[s].end
      /\ to + n <= from \/ from + n <= to
  BY <1>2, <1>3, <1>5
<1> QED
  BY <1>7, <1>8, <1>9 DEF to, from

(* track_memcpy copies exactly what it was asked to, inside both ranges,   *)
(* and reads and writes no byte outside an allocated block: for lengths    *)
(* that do not wrap around when added to the two addresses (those sums are *)
(* all that the code tests), and where link nodes can be had.              *)
THEOREM MemcpyAlwaysExact ==
  ASSUME "link" \notin MayFail
  PROVE  Spec => MemcpyExact
<1>1. Lens \subseteq Nat
  BY ClientAssumption, AddrNat
<1>2. SafeInv =>
        \A d, s \in handle, n \in Lens \ {0} :
           /\ ret' = 0 /\ UNCHANGED <<main, handle, pc>>
           /\ ~Empty(d) /\ ~Empty(s)
           /\ core[d].cur + n < AddrSpace /\ core[s].cur + n < AddrSpace
           /\ track_memcpy(d, s, n)
           => LET to   == core[d].cur
                  from == core[s].cur
              IN  /\ fault' = NoFault
                  /\ to + n - 1 <= core[d].end
                  /\ from + n - 1 <= core[s].end
                  /\ to + n <= from \/ from + n <= to
                  /\ \A i \in 0 .. n - 1 : mem'[to + i] = mem[from + i]
                  /\ \A a \in Addr \ (to .. to + n - 1) : mem'[a] = mem[a]
  BY <1>1, MemcpyCopies
<1> QED
  BY <1>2, SafeInit, SafeNext, PTL DEF Spec, MemcpyExact

-----------------------------------------------------------------------------
(* What a structure views.                                                 *)

BlockOf(r) == CHOOSE b \in Block : b <= r.start /\ r.start <= b + MaxSize

Look(r) ==
  IF "empty" \in r.flags THEN Null
  ELSE [block |-> BlockOf(r), from |-> r.start - BlockOf(r),
        cur |-> r.cur - BlockOf(r), to |-> r.end - BlockOf(r)]

(* What a structure that is not empty views; null is no such thing.        *)
Views == [block : Block, from : Int, cur : Int, to : Int]

(* It starts and stands in one block.                                      *)
FitsIn(r, b) == b <= r.start /\ r.start <= r.cur /\ r.cur <= b + MaxSize
Fit(r) == "empty" \in r.flags \/ \E b \in Block : FitsIn(r, b)

(* The same view; the rest of a view; a view from its first byte.          *)
Same4(q, r) ==
  /\ q.start = r.start /\ q.cur = r.cur /\ q.end = r.end /\ q.flags = r.flags
Rest4(q, r) ==
  /\ q.start = r.cur /\ q.cur = r.cur /\ q.end = r.end /\ q.flags = r.flags
Back4(q, r) ==
  /\ q.start = r.start /\ q.cur = r.start /\ q.end = r.end
  /\ q.flags = r.flags

(* Two blocks do not hold the same address.                                *)
LEMMA BlockUnique ==
  ASSUME NEW r \in CoreRec, NEW b \in Block,
         b <= r.start, r.start <= b + MaxSize
  PROVE  BlockOf(r) = b
<1>1. \A a \in Block : a \in Nat
  BY BlockAddr
<1>2. r.start \in Nat /\ MaxSize \in Nat
  BY AddrNat, LayoutAssumption DEF CoreRec
<1>3. ASSUME NEW a \in Block, a <= r.start, r.start <= a + MaxSize
      PROVE  a = b
  <2>1. ~(a < b) /\ ~(b < a)
    BY <1>1, <1>2, <1>3, LayoutAssumption
  <2> QED
    BY <1>1, <2>1
<1> QED
  BY <1>3 DEF BlockOf

(* The parts of the view of a structure that fits in b.                    *)
LEMMA LookIn ==
  ASSUME NEW r \in CoreRec, "empty" \notin r.flags, NEW b \in Block,
         FitsIn(r, b)
  PROVE  Look(r) = [block |-> b, from |-> r.start - b, cur |-> r.cur - b,
                    to |-> r.end - b]
<1>1. r.start \in Nat /\ r.cur \in Nat /\ b \in Nat /\ MaxSize \in Nat
  BY AddrNat, BlockAddr, LayoutAssumption DEF CoreRec
<1>2. BlockOf(r) = b
  BY <1>1, BlockUnique DEF FitsIn
<1> QED
  BY <1>2 DEF Look

(* A view depends on four fields.                                          *)
LEMMA LookSame ==
  ASSUME NEW q, NEW r, Same4(q, r)
  PROVE  Look(q) = Look(r) /\ (Fit(r) => Fit(q))
<1>1. BlockOf(q) = BlockOf(r)
  BY DEF BlockOf, Same4
<1> QED
  BY <1>1 DEF Look, Fit, FitsIn, Same4

(* The view of the rest.                                                   *)
LEMMA LookRest ==
  ASSUME Null \notin Views,
         NEW q \in CoreRec, NEW r \in CoreRec, Fit(r), Rest4(q, r)
  PROVE  Look(q) = Promise!Rest(Look(r)) /\ Fit(q)
<1>1. CASE "empty" \in r.flags
  BY <1>1 DEF Look, Fit, Rest4, Promise!Rest
<1>2. ASSUME "empty" \notin r.flags, NEW b \in Block, FitsIn(r, b)
      PROVE  Look(q) = Promise!Rest(Look(r)) /\ Fit(q)
  <2>1. /\ r.start \in Nat /\ r.cur \in Nat /\ r.end \in Nat /\ b \in Nat
    BY AddrNat, BlockAddr DEF CoreRec
  <2>2. FitsIn(q, b) /\ "empty" \notin q.flags
    BY <1>2, <2>1 DEF FitsIn, Rest4
  <2>3. Look(q) = [block |-> b, from |-> r.cur - b, cur |-> r.cur - b,
                   to |-> r.end - b]
    BY <2>2, LookIn DEF Rest4
  <2>4. Look(r) = [block |-> b, from |-> r.start - b, cur |-> r.cur - b,
                   to |-> r.end - b]
    BY <1>2, LookIn
  <2>5. Look(r) # Null
    BY <2>1, <2>4 DEF Views
  <2> QED
    BY <2>2, <2>3, <2>4, <2>5 DEF Promise!Rest, Fit
<1> QED
  BY <1>1, <1>2 DEF Fit

(* The view from the first byte.                                           *)
LEMMA LookBack ==
  ASSUME Null \notin Views,
         NEW q \in CoreRec, NEW r \in CoreRec, Fit(r), Back4(q, r)
  PROVE  Look(q) = Promise!Back(Look(r)) /\ Fit(q)
<1>1. CASE "empty" \in r.flags
  BY <1>1 DEF Look, Fit, Back4, Promise!Back
<1>2. ASSUME "empty" \notin r.flags, NEW b \in Block, FitsIn(r, b)
      PROVE  Look(q) = Promise!Back(Look(r)) /\ Fit(q)
  <2>1. /\ r.start \in Nat /\ r.cur \in Nat /\ r.end \in Nat /\ b \in Nat
        /\ MaxSize \in Nat
    BY AddrNat, BlockAddr, LayoutAssumption DEF CoreRec
  <2>2. FitsIn(q, b) /\ "empty" \notin q.flags
    BY <1>2, <2>1 DEF FitsIn, Back4
  <2>3. Look(q) = [block |-> b, from |-> r.start - b, cur |-> r.start - b,
                   to |-> r.end - b]
    BY <2>2, LookIn DEF Back4
  <2>4. Look(r) = [block |-> b, from |-> r.start - b, cur |-> r.cur - b,
                   to |-> r.end - b]
    BY <1>2, LookIn
  <2>5. Look(r) # Null
    BY <2>1, <2>4 DEF Views
  <2> QED
    BY <2>2, <2>3, <2>4, <2>5 DEF Promise!Back, Fit
<1> QED
  BY <1>1, <1>2 DEF Fit

-----------------------------------------------------------------------------
(* What the functions do to the views.                                     *)

(* Naming another block is no change of view.                              *)
LEMMA LinksLook ==
  ASSUME NEW h \in Heap, NEW c \in Core, NEW b,
         NEW k \in {h.core, [h.core EXCEPT ![c].links = b]}
  PROVE  \A x \in Core : Same4(k[x], h.core[x])
<1>1. h.core \in [Core -> CoreRec]
  BY DEF Heap
<1>2. CASE k = h.core
  BY <1>2 DEF Same4
<1>3. CASE k = [h.core EXCEPT ![c].links = b]
  <2>1. /\ k[c] = [h.core[c] EXCEPT !.links = b]
        /\ \A x \in Core \ {c} : k[x] = h.core[x]
    BY <1>1, <1>3
  <2>2. h.core[c] \in CoreRec
    BY <1>1
  <2>3. Same4(k[c], h.core[c])
    BY <2>1, <2>2 DEF CoreRec, Same4
  <2> QED
    BY <2>1, <2>3 DEF Same4
<1> QED
  BY <1>2, <1>3

(* The second half of track_set_ptr.                                       *)
LEMMA TakeOverLook ==
  ASSUME Null \notin Views, NEW h \in Heap, Exact(h), Owned(h),
         NEW s \in Core, NEW n \in Core, Fit(h.core[n]),
         NEW g \in TakeOver(h, s, n)
  PROVE  /\ Look(g.core[s]) = Promise!Rest(Look(h.core[n]))
         /\ Fit(g.core[s])
         /\ \A x \in Core \ {s} : Same4(g.core[x], h.core[x])
<1> DEFINE moved == __track_migrate_cur_ptr(h, s, n)
           k == OverwriteChecksum(moved, s)
<1>0. moved \in Heap /\ k \in Heap /\ g \in Heap
  BY MigrateType, OverwriteChecksumType, TakeOverType
<1>1. /\ moved.block = h.block
      /\ Rest4(moved.core[s], h.core[n])
      /\ moved.core[s].links = h.core[s].links
      /\ \A x \in Core \ {s} : moved.core[x] = h.core[x]
  BY MigrateParts DEF Rest4
<1>2. g \in __track_review_mem_links_list(k, n, s)
  BY DEF TakeOver
<1> HIDE DEF moved
<1>3. k.block = moved.block
      /\ \A x \in Core : Alike(moved.core[x], k.core[x])
  BY <1>0, OverwriteParts
<1> HIDE DEF k
<1>4. /\ \A x \in Core : k.core[x].links = h.core[x].links
      /\ \A x \in Core \ {s} : Same4(k.core[x], h.core[x])
      /\ Rest4(k.core[s], h.core[n])
  BY <1>1, <1>3 DEF Alike, Same4, Rest4
<1>5. Owned(k)
  BY <1>0, <1>1, <1>3, <1>4, SameLinks
<1>6. g.core \in {k.core, [k.core EXCEPT ![s].links = k.core[n].links]}
  BY <1>0, <1>2, <1>5, JoinKeeps
<1>7. \A x \in Core : Same4(g.core[x], k.core[x])
  BY <1>0, <1>6, LinksLook
<1>8. g.core[s] \in CoreRec /\ h.core[n] \in CoreRec
  BY <1>0 DEF Heap
<1>9. Rest4(g.core[s], h.core[n])
  BY <1>4, <1>7 DEF Same4, Rest4
<1>10. \A x \in Core \ {s} : Same4(g.core[x], h.core[x])
  BY <1>4, <1>7 DEF Same4
<1> QED
  BY <1>8, <1>9, <1>10, LookRest

(* The first half, with told.                                              *)
LEMMA HandOverLook ==
  ASSUME Null \notin Views, NEW h \in Heap, Exact(h), Owned(h),
         NEW s \in Core, NEW o \in Core, Fit(h.core[s]), Fit(h.core[o]),
         NEW g \in HandOver(h, s, o)
  PROVE  /\ Look(g.core[o]) =
              Promise!Rest(IF s = o THEN Promise!Back(Look(h.core[o]))
                                    ELSE Look(h.core[s]))
         /\ Fit(g.core[o])
         /\ \A x \in Core \ {o} : Same4(g.core[x], h.core[x])
<1> DEFINE left  == __track_check_free_mem_block(h, o)
           reset == [left EXCEPT !.core[o].cur = h.core[o].start]
           moved == __track_migrate_cur_ptr(reset, o, s)
<1>1. left \in Heap /\ Exact(left)
  BY CheckFreeBlockType, CheckFreeBlockExact
<1>2. /\ Owned(left)
      /\ left.core \in {h.core, [h.core EXCEPT ![o].links = Null]}
  BY LeaveKeeps
<1> HIDE DEF left
<1>3. \A x \in Core : Same4(left.core[x], h.core[x])
  BY <1>2, LinksLook
<1>4. reset \in Heap
  <2>1. left.core[o] \in CoreRec /\ h.core[o] \in CoreRec
    BY <1>1 DEF Heap
  <2>2. [left.core[o] EXCEPT !.cur = h.core[o].start] \in CoreRec
    BY <2>1 DEF CoreRec
  <2> QED
    BY <1>1, <2>2, PutCore
<1>5. /\ reset.block = left.block
      /\ reset.core = [left.core EXCEPT ![o].cur = h.core[o].start]
  BY <1>1 DEF Heap
<1>6. /\ \A x \in Core \ {o} : Same4(reset.core[x], h.core[x])
      /\ Back4(reset.core[o], h.core[o])
      /\ \A x \in Core : reset.core[x].links = left.core[x].links
  BY <1>1, <1>3, <1>5 DEF Heap, CoreRec, Same4, Back4
<1> HIDE DEF reset
<1>7. Exact(reset) /\ Owned(reset)
  <2>1. Exact(reset)
    BY <1>1, <1>5 DEF Exact
  <2>2. Owned(reset)
    BY <1>1, <1>2, <1>4, <1>5, <1>6, SameLinks
  <2> QED
    BY <2>1, <2>2
<1>8. reset.core[o] \in CoreRec /\ h.core[o] \in CoreRec
      /\ reset.core[s] \in CoreRec
  BY <1>4 DEF Heap
<1>9. /\ Fit(reset.core[s])
      /\ Look(reset.core[s]) = IF s = o THEN Promise!Back(Look(h.core[o]))
                                        ELSE Look(h.core[s])
  <2>1. CASE s = o
    BY <1>6, <1>8, <2>1, LookBack
  <2>2. CASE s # o
    BY <1>6, <2>2, LookSame
  <2> QED
    BY <2>1, <2>2
<1>10. moved \in Heap
  BY <1>4, MigrateType
<1>11. /\ Rest4(moved.core[o], reset.core[s])
       /\ \A x \in Core \ {o} : moved.core[x] = reset.core[x]
  BY <1>4, MigrateParts DEF Rest4
<1>12. g = moved \/ g \in TakeOver(reset, o, s)
  BY DEF HandOver, TakeOver, left, reset
<1> HIDE DEF moved
<1>13. /\ Look(g.core[o]) = Promise!Rest(Look(reset.core[s]))
       /\ Fit(g.core[o])
       /\ \A x \in Core \ {o} : Same4(g.core[x], reset.core[x])
  <2>1. CASE g = moved
    <3>1. moved.core[o] \in CoreRec
      BY <1>10 DEF Heap
    <3>2. \A x \in Core \ {o} : Same4(g.core[x], reset.core[x])
      BY <1>11, <2>1 DEF Same4
    <3> QED
      BY <1>8, <1>9, <1>11, <2>1, <3>1, <3>2, LookRest
  <2>2. CASE g \in TakeOver(reset, o, s)
    BY <1>4, <1>7, <1>9, <2>2, TakeOverLook
  <2> QED
    BY <1>12, <2>1, <2>2
<1>14. \A x \in Core \ {o} : Same4(g.core[x], h.core[x])
  BY <1>6, <1>13 DEF Same4
<1> QED
  BY <1>9, <1>13, <1>14

(* track_set_ptr, whichever of its arguments are the same.                 *)
LEMMA SetPtrLook ==
  ASSUME Null \notin Views, heap \in Heap, Exact(heap), Owned(heap),
         NEW s \in Core, NEW n \in Core, NEW o \in Core \cup {Null},
         Fit(core[s]), Fit(core[n]), o # Null => Fit(core[o]),
         NEW g \in SetPtrResults(s, n, o)
  PROVE  LET B(x) == IF x = o THEN Promise!Back(Look(core[x]))
                              ELSE Look(core[x])
             G(x) == IF x = o THEN Promise!Rest(B(s)) ELSE Look(core[x])
         IN  /\ Look(g.core[s]) = Promise!Rest(G(n))
             /\ \A x \in Core \ {s} : Look(g.core[x]) = G(x)
<1> DEFINE B(x) == IF x = o THEN Promise!Back(Look(core[x]))
                            ELSE Look(core[x])
           G(x) == IF x = o THEN Promise!Rest(B(s)) ELSE Look(core[x])
<1>1. PICK k : g \in TakeOver(k, s, n)
                 /\ IF o = Null
                    THEN k = __track_check_free_mem_block(heap, s)
                    ELSE k \in HandOver(heap, s, o)
  BY DEF SetPtrResults
<1>2. heap.core = core
  BY DEF heap
<1>3. /\ k \in Heap /\ Exact(k) /\ Owned(k)
      /\ Fit(k.core[n])
      /\ \A x \in Core : Look(k.core[x]) = G(x)
  <2>1. CASE o = Null
    <3>1. k \in Heap /\ Exact(k)
      BY <1>1, <2>1, CheckFreeBlockType, CheckFreeBlockExact
    <3>2. /\ Owned(k)
          /\ k.core \in {heap.core, [heap.core EXCEPT ![s].links = Null]}
      BY <1>1, <2>1, LeaveKeeps
    <3>3. \A x \in Core : Same4(k.core[x], core[x])
      BY <1>2, <3>2, LinksLook
    <3>4. \A x \in Core : x # o
      BY <2>1, ValueAssumption
    <3> QED
      BY <3>1, <3>2, <3>3, <3>4, LookSame
  <2>2. CASE o # Null
    <3>1. o \in Core /\ k \in HandOver(heap, s, o)
      BY <1>1, <2>2
    <3>2. k \in Heap /\ Exact(k) /\ Owned(k)
      BY <3>1, HandOverType, HandOverExact, HandOverSafe
    <3>3. /\ Look(k.core[o]) = Promise!Rest(B(s))
          /\ Fit(k.core[o])
          /\ \A x \in Core \ {o} : Same4(k.core[x], core[x])
      <4>1. Fit(heap.core[s]) /\ Fit(heap.core[o])
        BY <1>2, <2>2
      <4> QED
        BY <1>2, <3>1, <4>1, HandOverLook
    <3>4. \A x \in Core \ {o} : Look(k.core[x]) = Look(core[x])
      BY <3>3, LookSame
    <3>5. Fit(k.core[n])
      BY <3>3, LookSame
    <3> QED
      BY <3>2, <3>3, <3>4, <3>5
  <2> QED
    BY <2>1, <2>2
<1>4. /\ Look(g.core[s]) = Promise!Rest(Look(k.core[n]))
      /\ \A x \in Core \ {s} : Same4(g.core[x], k.core[x])
  BY <1>1, <1>3, TakeOverLook
<1>5. \A x \in Core \ {s} : Look(g.core[x]) = Look(k.core[x])
  BY <1>4, LookSame
<1> QED
  BY <1>3, <1>4, <1>5

-----------------------------------------------------------------------------
(* What track_set_ptr hands over.                                          *)

(* Joining a block changes no more of a structure than its name of one,    *)
(* and no byte of memory.                                                  *)
LEMMA JoinParts ==
  ASSUME NEW h \in Heap, NEW s \in Core, NEW c \in Core,
         NEW g \in __track_review_mem_links_list(h, s, c), g.fault = NoFault
  PROVE  /\ h.fault = NoFault /\ g.mem = h.mem
         /\ g.core \in {h.core, [h.core EXCEPT ![c].links = h.core[s].links]}
<1>1. ASSUME NEW why, g = Broken(h, why)
      PROVE  g.core = h.core /\ g.mem = h.mem
  BY <1>1 DEF Broken, Heap
<1>2. ASSUME NEW n, g = AddLink(h, h.core[s].links, c, n)
      PROVE  /\ g.mem = h.mem
             /\ g.core = [h.core EXCEPT ![c].links = h.core[s].links]
  BY <1>2 DEF AddLink, Heap
<1>3. \/ g = h
      \/ /\ h.fault = NoFault
         /\ \/ \E n : g = AddLink(h, h.core[s].links, c, n)
            \/ \E why : g = Broken(h, why)
  BY DEF __track_review_mem_links_list
<1> QED
  BY <1>1, <1>2, <1>3

(* A checksum that could be computed is that of the bytes there are; what  *)
(* else the structures say stays.                                          *)
LEMMA OverwriteSum ==
  ASSUME NEW h \in Heap, NEW c \in Core, OverwriteChecksum(h, c).fault = NoFault
  PROVE  LET g == OverwriteChecksum(h, c)
         IN  /\ h.fault = NoFault /\ g.mem = h.mem
             /\ g.core[c] = [h.core[c] EXCEPT
                               !.sum = __track_calc_memory_checksum(h, c)]
             /\ \A x \in Core \ {c} : g.core[x] = h.core[x]
<1> DEFINE t == __track_calc_memory_checksum(h, c)
           g == OverwriteChecksum(h, c)
<1>1. Broken(h, "out_of_bounds").fault # NoFault
  BY DEF Broken, Heap, NoFault
<1>2. h.fault = NoFault /\ g = [h EXCEPT !.core[c].sum = t]
  BY <1>1 DEF OverwriteChecksum
<1> HIDE DEF t, g
<1>3. g.core = [h.core EXCEPT ![c].sum = t] /\ g.mem = h.mem
  BY <1>2 DEF Heap
<1>4. h.core \in [Core -> CoreRec]
  BY DEF Heap
<1>5. /\ g.core[c] = [h.core[c] EXCEPT !.sum = t]
      /\ \A x \in Core \ {c} : g.core[x] = h.core[x]
  BY <1>3, <1>4
<1> QED
  BY <1>2, <1>3, <1>5 DEF t, g

(* The second half: tset comes to track the rest of what tnew tracks, with *)
(* the checksum of what is there, and nobody else is changed.              *)
LEMMA TakeOverHands ==
  ASSUME NEW h \in Heap, NEW s \in Core, NEW n \in Core,
         NEW g \in TakeOver(h, s, n), g.fault = NoFault
  PROVE  /\ Rest4(g.core[s], h.core[n])
         /\ \A x \in Core \ {s} : g.core[x] = h.core[x]
         /\ ~__track_memory_changed(g, s)
<1> DEFINE moved == __track_migrate_cur_ptr(h, s, n)
           k == OverwriteChecksum(moved, s)
           t == __track_calc_memory_checksum(moved, s)
<1>0. moved \in Heap /\ k \in Heap /\ g \in Heap
  BY MigrateType, OverwriteChecksumType, TakeOverType
<1>1. /\ Rest4(moved.core[s], h.core[n])
      /\ \A x \in Core \ {s} : moved.core[x] = h.core[x]
  BY MigrateParts DEF Rest4
<1>2. g \in __track_review_mem_links_list(k, n, s)
  BY DEF TakeOver
<1> HIDE DEF moved
<1>3. /\ k.fault = NoFault /\ g.mem = k.mem
      /\ g.core \in {k.core, [k.core EXCEPT ![s].links = k.core[n].links]}
  <2> HIDE DEF k
  <2> QED
    BY <1>0, <1>2, JoinParts
<1>4. /\ k.mem = moved.mem
      /\ k.core[s] = [moved.core[s] EXCEPT !.sum = t]
      /\ \A x \in Core \ {s} : k.core[x] = moved.core[x]
  BY <1>0, <1>3, OverwriteSum
<1>5. t = [i \in 1 .. moved.core[s].msize |->
             moved.mem[moved.core[s].start + i - 1]]
  BY DEF __track_calc_memory_checksum
<1> HIDE DEF k, t
<1>6. moved.core[s] \in CoreRec
  BY <1>0 DEF Heap
<1>7. k.core[s].msize = moved.core[s].msize /\ k.core[s].sum = t
  BY <1>4, <1>6 DEF CoreRec
<1>8. /\ \A x \in Core \ {s} : g.core[x] = k.core[x]
      /\ Same4(g.core[s], k.core[s])
      /\ g.core[s].msize = k.core[s].msize /\ g.core[s].sum = k.core[s].sum
  <2>1. k.core \in [Core -> CoreRec] /\ k.core[s] \in CoreRec
    BY <1>0 DEF Heap
  <2>2. CASE g.core = k.core
    BY <2>2 DEF Same4
  <2>3. CASE g.core = [k.core EXCEPT ![s].links = k.core[n].links]
    BY <2>1, <2>3 DEF CoreRec, Same4
  <2> QED
    BY <1>3, <2>2, <2>3
<1>9. Same4(g.core[s], moved.core[s])
  BY <1>4, <1>6, <1>8 DEF CoreRec, Same4
<1>10. ~__track_memory_changed(g, s)
  <2>1. /\ g.core[s].start = moved.core[s].start
        /\ g.core[s].msize = moved.core[s].msize
        /\ g.core[s].sum = t /\ g.mem = moved.mem
    BY <1>3, <1>4, <1>7, <1>8, <1>9 DEF Same4
  <2> QED
    BY <1>5, <2>1 DEF __track_memory_changed, __track_calc_memory_checksum
<1>11. Rest4(g.core[s], h.core[n])
  BY <1>1, <1>9 DEF Same4, Rest4
<1> QED
  BY <1>1, <1>4, <1>8, <1>10, <1>11

(* The first half, with told: told comes to track the rest of what tset    *)
(* tracks, and nobody else is changed.  A told that is tset goes back to   *)
(* its first byte.                                                         *)
LEMMA HandOverHands ==
  ASSUME NEW h \in Heap, Exact(h), Owned(h),
         NEW s \in Core, NEW o \in Core,
         NEW g \in HandOver(h, s, o), g.fault = NoFault
  PROVE  /\ o # s => Rest4(g.core[o], h.core[s])
         /\ o = s => Back4(g.core[o], h.core[o])
         /\ g.core[o].flags = h.core[s].flags
         /\ \A x \in Core \ {o} : g.core[x] = h.core[x]
<1> DEFINE left  == __track_check_free_mem_block(h, o)
           reset == [left EXCEPT !.core[o].cur = h.core[o].start]
           moved == __track_migrate_cur_ptr(reset, o, s)
<1>1. /\ left \in Heap
      /\ \A x \in Core \ {o} : left.core[x] = h.core[x]
      /\ left.core \in {h.core, [h.core EXCEPT ![o].links = Null]}
  BY CheckFreeBlockType, LeaveSafe, LeaveKeeps
<1>6. Same4(left.core[o], h.core[o])
  BY <1>1 DEF Heap, CoreRec, Same4
<1> HIDE DEF left
<1>2. /\ reset \in Heap
      /\ \A x \in Core \ {o} : reset.core[x] = left.core[x]
      /\ Back4(reset.core[o], h.core[o])
  <2>1. left.core[o] \in CoreRec /\ h.core[o] \in CoreRec
    BY <1>1 DEF Heap
  <2>2. [left.core[o] EXCEPT !.cur = h.core[o].start] \in CoreRec
    BY <2>1 DEF CoreRec
  <2>3. reset \in Heap
    BY <1>1, <2>2, PutCore
  <2>4. reset.core = [left.core EXCEPT ![o].cur = h.core[o].start]
    BY <1>1 DEF Heap
  <2>5. \A x \in Core \ {o} : reset.core[x] = left.core[x]
    BY <1>1, <2>4 DEF Heap
  <2>6. Back4(reset.core[o], h.core[o])
    BY <1>1, <1>6, <2>1, <2>4 DEF Heap, CoreRec, Same4, Back4
  <2> QED
    BY <2>3, <2>5, <2>6
<1> HIDE DEF reset
<1>3. /\ Rest4(moved.core[o], reset.core[s])
      /\ \A x \in Core \ {o} : moved.core[x] = reset.core[x]
  BY <1>2, MigrateParts DEF Rest4
<1>4. g = moved \/ g \in TakeOver(reset, o, s)
  BY DEF HandOver, TakeOver, left, reset
<1> HIDE DEF moved
<1>5. /\ Rest4(g.core[o], reset.core[s])
      /\ \A x \in Core \ {o} : g.core[x] = reset.core[x]
  BY <1>2, <1>3, <1>4, TakeOverHands
<1>7. g.core[o].flags = h.core[s].flags
  BY <1>1, <1>2, <1>5 DEF Rest4, Back4
<1>8. o = s => Back4(g.core[o], h.core[o])
  BY <1>2, <1>5 DEF Rest4, Back4
<1> QED
  BY <1>1, <1>2, <1>5, <1>7, <1>8

(* The invariant says all that track_set_ptr needs.                        *)
LEMMA SafeInvHandsOver == SafeInv => SetPtrHandsOver
<1> SUFFICES ASSUME SafeInv, NEW s \in handle, NEW n \in handle,
                    NEW o \in handle \cup {Null}, s # n, o \notin {s, n},
                    NEW h \in SetPtrResults(s, n, o), h.fault = NoFault
             PROVE  /\ SameRange(h.core[s], core[n])
                    /\ o # Null => SameRange(h.core[o], core[s])
                    /\ \A p \in handle \ {s, o} : h.core[p] = core[p]
                    /\ ~__track_memory_changed(h, s)
  BY DEF SetPtrHandsOver
<1>0. /\ heap \in Heap /\ Exact(heap) /\ Owned(heap)
      /\ handle \subseteq Core /\ heap.core = core
  BY SafeInvHeap
<1>1. s \in Core /\ n \in Core /\ (o # Null => o \in Core)
  BY <1>0
<1>2. PICK k : h \in TakeOver(k, s, n)
                 /\ IF o = Null
                    THEN k = __track_check_free_mem_block(heap, s)
                    ELSE k \in HandOver(heap, s, o)
  BY DEF SetPtrResults
<1>3. k \in Heap
  <2>1. CASE o = Null
    BY <1>0, <1>1, <1>2, <2>1, CheckFreeBlockType
  <2>2. CASE o # Null
    BY <1>0, <1>1, <1>2, <2>2, HandOverType
  <2> QED
    BY <2>1, <2>2
<1>4. /\ Rest4(h.core[s], k.core[n])
      /\ \A x \in Core \ {s} : h.core[x] = k.core[x]
      /\ ~__track_memory_changed(h, s)
  BY <1>1, <1>2, <1>3, TakeOverHands
<1>5. k.fault = NoFault
  <2> DEFINE moved == __track_migrate_cur_ptr(k, s, n)
             w == OverwriteChecksum(moved, s)
  <2>1. moved \in Heap /\ w \in Heap
    BY <1>1, <1>3, MigrateType, OverwriteChecksumType
  <2>2. h \in __track_review_mem_links_list(w, n, s)
    BY <1>2 DEF TakeOver
  <2>3. moved.fault = k.fault
    BY <1>1, <1>3, MigrateParts
  <2> HIDE DEF moved
  <2>4. w.fault = NoFault
    <3> HIDE DEF w
    <3> QED
      BY <1>1, <2>1, <2>2, JoinParts
  <2> QED
    BY <1>1, <2>1, <2>3, <2>4, OverwriteSum
<1>6. /\ o # Null => Rest4(k.core[o], core[s])
      /\ \A x \in Core \ {s, o} : k.core[x] = core[x]
  <2>1. CASE o = Null
    BY <1>0, <1>1, <1>2, <2>1, LeaveSafe
  <2>2. CASE o # Null
    <3>1. /\ Rest4(k.core[o], heap.core[s])
          /\ \A x \in Core \ {o} : k.core[x] = heap.core[x]
      BY <1>0, <1>1, <1>2, <1>5, <2>2, HandOverHands
    <3> QED
      BY <1>0, <3>1
  <2> QED
    BY <2>1, <2>2
<1>7. /\ Rest4(h.core[s], core[n])
      /\ o # Null => Rest4(h.core[o], core[s])
  BY <1>1, <1>4, <1>6
<1> QED
  BY <1>0, <1>4, <1>6, <1>7 DEF Rest4, SameRange

(* track_set_ptr of different trackers, whoever shares whose block and     *)
(* whichever allocation fails: tset comes to track exactly the rest of     *)
(* what tnew tracks, with the checksum of what is there, told exactly the  *)
(* rest of what tset tracked, and no other tracker is changed.             *)
THEOREM SetPtrAlwaysHandsOver == Spec => []SetPtrHandsOver
  BY SafeInit, SafeNext, SafeInvHandsOver, PTL DEF Spec

-----------------------------------------------------------------------------
(* How long ranges are.  A range that was handed on is the rest of one, so *)
(* none is longer than a block, whatever became of the block.              *)
Compact(r) ==
  /\ r.start <= r.cur
  /\ r.cur <= r.end \/ r.end < r.start
  /\ r.end <= r.start \/ r.end - r.start < MaxSize

Narrow(cs) == \A c \in Core : "empty" \in cs[c].flags \/ Compact(cs[c])

(* The rest of a range, and a range from its first byte, are no longer.    *)
LEMMA CompactMoves ==
  ASSUME NEW q, NEW r \in CoreRec, "empty" \in r.flags \/ Compact(r),
         Same4(q, r) \/ Rest4(q, r) \/ Back4(q, r)
  PROVE  "empty" \in q.flags \/ Compact(q)
<1>1. r.start \in Int /\ r.cur \in Int /\ r.end \in Int /\ MaxSize \in Int
  BY LayoutAssumption DEF CoreRec, Addr
<1> QED
  BY <1>1 DEF Compact, Same4, Rest4, Back4

(* A step that changes no range.                                           *)
LEMMA SameNarrow ==
  ASSUME Narrow(core), NEW cs, \A c \in Core : Same4(cs[c], core[c])
  PROVE  Narrow(cs)
  BY DEF Narrow, Compact, Same4

(* A call that answers, or whose behaviour is undefined.                   *)
LEMMA AnswerNarrow ==
  ASSUME Narrow(core),
         \/ \E e, r : Answer(e, r)
         \/ \E why : Crash(why)
         \/ \E args : Rejects(args)
  PROVE  Narrow(core)'
<1>1. core' = core
  BY DEF Answer, Crash, Rejects, heapVars
<1> QED
  BY <1>1

(* A call that returns a heap.                                             *)
LEMMA ReturnNarrow ==
  ASSUME Narrow(core), NEW h, NEW l, NEW hs, Return(h, l, hs),
         h.fault = NoFault => Narrow(h.core)
  PROVE  Narrow(core)'
<1>1. CASE Crash(h.fault)
  BY <1>1, AnswerNarrow
<1>2. CASE h.fault = NoFault /\ core' = h.core
  BY <1>2
<1> QED
  BY <1>1, <1>2 DEF Return

(* track_set_ptr hands on rests of ranges.                                 *)
LEMMA SetPtrNarrow ==
  ASSUME heap \in Heap, Exact(heap), Owned(heap), Narrow(heap.core),
         NEW s \in Core, NEW n \in Core, NEW o \in Core \cup {Null},
         NEW g \in SetPtrResults(s, n, o), g.fault = NoFault
  PROVE  Narrow(g.core)
<1>1. PICK k : g \in TakeOver(k, s, n)
                 /\ IF o = Null
                    THEN k = __track_check_free_mem_block(heap, s)
                    ELSE k \in HandOver(heap, s, o)
  BY DEF SetPtrResults
<1>2. k \in Heap /\ Exact(k) /\ Owned(k)
  <2>1. CASE o = Null
    BY <1>1, <2>1, CheckFreeBlockType, CheckFreeBlockExact, LeaveKeeps
  <2>2. CASE o # Null
    BY <1>1, <2>2, HandOverType, HandOverExact, HandOverSafe
  <2> QED
    BY <2>1, <2>2
<1>3. k.fault = NoFault
  BY <1>1, <1>2, TakeOverSafe
<1>4. heap.core \in [Core -> CoreRec] /\ k.core \in [Core -> CoreRec]
  BY <1>2 DEF Heap
<1>5. ASSUME NEW x \in Core
      PROVE  "empty" \in k.core[x].flags \/ Compact(k.core[x])
  <2>1. CASE o = Null
    <3>1. k.core \in {heap.core, [heap.core EXCEPT ![s].links = Null]}
      BY <1>1, <2>1, LeaveKeeps
    <3>2. Same4(k.core[x], heap.core[x])
      BY <3>1, LinksLook
    <3> QED
      BY <1>4, <3>2, CompactMoves DEF Narrow
  <2>2. CASE o # Null
    <3>1. /\ o \in Core
          /\ o # s => Rest4(k.core[o], heap.core[s])
          /\ o = s => Back4(k.core[o], heap.core[o])
          /\ \A y \in Core \ {o} : k.core[y] = heap.core[y]
      BY <1>1, <1>3, <2>2, HandOverHands
    <3>2. CASE x = o
      BY <1>4, <3>1, <3>2, CompactMoves DEF Narrow
    <3>3. CASE x # o
      BY <3>1, <3>3 DEF Narrow
    <3> QED
      BY <3>2, <3>3
  <2> QED
    BY <2>1, <2>2
<1>6. /\ Rest4(g.core[s], k.core[n])
      /\ \A x \in Core \ {s} : g.core[x] = k.core[x]
  BY <1>1, <1>2, TakeOverHands
<1>7. "empty" \in g.core[s].flags \/ Compact(g.core[s])
  BY <1>4, <1>5, <1>6, CompactMoves
<1> QED
  BY <1>5, <1>6, <1>7 DEF Narrow

(* Releasing a structure.                                                  *)
LEMMA NodeFreeNarrow ==
  ASSUME NEW h \in Heap, Exact(h), Owned(h), Narrow(h.core),
         NEW c \in Core \cup {Null}
  PROVE  Narrow(__track_main_list_node_data_free(h, c).core)
<1> DEFINE g    == __track_main_list_node_data_free(h, c)
           left == __track_check_free_mem_block(h, c)
<1>1. CASE g = Broken(h, "use_after_free")
  BY <1>1 DEF Broken, Heap
<1>2. CASE c \in Core /\ g = [left EXCEPT !.core[c] = FreedCore]
  <2>1. /\ left \in Heap
        /\ left.core \in {h.core, [h.core EXCEPT ![c].links = Null]}
    BY <1>2, CheckFreeBlockType, LeaveKeeps
  <2> HIDE DEF left
  <2>2. g.core = [left.core EXCEPT ![c] = FreedCore]
    BY <1>2, <2>1 DEF Heap
  <2> HIDE DEF g
  <2>3. /\ g.core[c] = FreedCore
        /\ \A x \in Core \ {c} : g.core[x] = left.core[x]
    BY <1>2, <2>1, <2>2 DEF Heap
  <2>4. Compact(FreedCore)
    BY DEF FreedCore, Compact
  <2>5. \A x \in Core : Same4(left.core[x], h.core[x])
    BY <1>2, <2>1, LinksLook
  <2>6. Narrow(left.core)
    BY <2>5 DEF Narrow, Compact, Same4
  <2>7. Narrow(g.core)
    BY <2>3, <2>4, <2>6 DEF Narrow
  <2> QED
    BY <2>7 DEF g
<1> QED
  BY <1>1, <1>2 DEF __track_main_list_node_data_free

(* Making a tracker: its range is that of its block, or it has none.       *)
LEMMA CreateNarrow ==
  ASSUME SafeInv, Narrow(core), NEW a \in Block \cup {Null},
         NEW msize \in 0 .. MaxSize, NEW flags \in SUBSET Flag, NEW fill,
         a # Null => /\ block[a] = FreedBlock
                     /\ fill \in [a .. a + msize - 1 -> Byte],
         __track_create_memory_control(a, msize, flags, fill)
  PROVE  Narrow(core)'
<1>0. TypeOK /\ Exact(heap) /\ heap \in Heap /\ heap.core = core
  BY SafeInvHeap
<1>1. CASE GivenUp \/ (\E e, r : Answer(e, r))
             \/ (\E why : Crash(why))
  <2>1. core' = core
    BY <1>1 DEF GivenUp, Answer, Crash, heapVars
  <2> QED
    BY <2>1
<1>2. ASSUME NEW c \in Core, NEW g \in Garbage, NEW n \in Allocatable(EmptyList),
             NEW m \in Allocatable(main),
             PushCore(WithNewCore(a, msize, flags, fill, c, n, g), c, m)
      PROVE  Narrow(core)'
  <2>1. PICK h : h = WithNewCore(a, msize, flags, fill, c, n, g)
    OBVIOUS
  <2> DEFINE k == [h EXCEPT !.core[c].ptrid = m]
  <2>2. n \in Node
    BY AllocatableType
  <2>3. h \in Heap
    BY <1>0, <2>1, <2>2, WithNewCoreType
  <2>4. /\ "empty" \in h.core[c].flags \/ Compact(h.core[c])
        /\ \A x \in Core \ {c} : h.core[x] = core[x]
    <3>1. CASE a = Null
      <4> DEFINE r == NewCore(0, 0, {"empty"}, g)
      <4>1. h.core = [core EXCEPT ![c] = r]
        <5>1. h = CoreAdded(a, msize, flags, fill, c, n, g)
          BY ONLY <1>0, <2>1, NewCoreIs
        <5> QED
          BY <3>1, <5>1 DEF CoreAdded, heap
      <4>2. r.flags = {"empty"}
        BY DEF NewCore, CoreAt
      <4> HIDE DEF r
      <4> QED
        BY <1>0, <4>1, <4>2 DEF Heap
    <3>2. CASE a # Null
      <4>1. a \in Block /\ ~block[a].live
        BY <3>2 DEF FreedBlock
      <4>2. Spans(h, a, msize, flags, c, n)
        BY <1>0, <2>1, <2>2, <4>1, NewCoreParts
      <4>3. a \in Int /\ msize \in Int /\ MaxSize \in Int /\ msize <= MaxSize
        BY <4>1, LayoutAssumption
      <4> QED
        BY <4>2, <4>3 DEF Spans, Compact
    <3> QED
      BY <3>1, <3>2
  <2>5. \A x \in Core : Same4(k.core[x], h.core[x])
    BY <2>3 DEF Heap, CoreRec, Same4
  <2>6. (\E l, hs : Return(k, l, hs)) \/ Crash("use_after_free")
    BY <1>2, <2>1 DEF PushCore, Push
  <2> HIDE DEF k
  <2>7. Narrow(k.core)
    BY <2>4, <2>5 DEF Narrow, Compact, Same4
  <2> QED
    BY <2>6, <2>7, ReturnNarrow, AnswerNarrow
<1> QED
  BY <1>0, <1>1, <1>2, CreateSteps

(* Before the first call there are no ranges.                              *)
LEMMA NarrowInit == Init => Narrow(core)
  BY DEF Init, Narrow, Compact, FreedCore

(* Every step.                                                             *)
LEMMA StepNarrow ==
  ASSUME SafeInv, Narrow(core), [Next]_vars
  PROVE  Narrow(core)'
<1>0. /\ TypeOK /\ heap \in Heap /\ Exact(heap) /\ Owned(heap)
      /\ handle \subseteq Core /\ main \in ListOf(Core)
      /\ heap.core = core /\ heap.block = block
  BY SafeInvHeap
<1>1. CASE \/ track_init \/ track_last_error \/ track_destroy
           \/ DestroyEnd \/ Stopped \/ UNCHANGED vars
           \/ \E p \in handle, v \in Byte : UserWrite(p, v)
  <2>1. core' = core
    BY <1>1
    DEF track_init, track_last_error, track_destroy, DestroyEnd,
        DestroyReturn, Stopped, UserWrite, Rejects, Answer, Crash, vars,
        heapVars
  <2> QED
    BY <2>1
<1>2. ASSUME NEW p \in Arg, track_check_mem(p) \/ track_overwrite_checksum(p)
      PROVE  Narrow(core)'
  <2>1. CASE track_check_mem(p)
    BY <2>1, AnswerNarrow DEF track_check_mem
  <2>2. CASE Rejects({p})
    BY <2>2, AnswerNarrow
  <2>3. CASE /\ Accepts({p})
             /\ Return(OverwriteChecksum(heap, p), main, handle)
    <3> DEFINE h == OverwriteChecksum(heap, p)
    <3>1. p \in Core
      BY <1>0, <2>3, ArgType DEF Accepts
    <3>2. \A x \in Core : Alike(heap.core[x], h.core[x])
      BY <1>0, <3>1, OverwriteParts
    <3> HIDE DEF h
    <3>3. \A x \in Core : Same4(h.core[x], core[x])
      BY <1>0, <3>2 DEF Alike, Same4
    <3>4. Narrow(h.core)
      BY <3>3, SameNarrow
    <3> QED
      BY <2>3, <3>4, ReturnNarrow DEF h
  <2> QED
    BY <1>2, <2>1, <2>2, <2>3 DEF track_overwrite_checksum
<1>3. ASSUME NEW p \in Arg, NEW k, track_move_ptr(p, k) PROVE Narrow(core)'
  <2>1. CASE \/ \E e, r : Answer(e, r)
             \/ \E why : Crash(why)
             \/ \E args : Rejects(args)
    BY <2>1, AnswerNarrow
  <2>2. ASSUME NEW a, a \in core[p].start .. core[p].end, Accepts({p}),
               Return([heap EXCEPT !.core[p].cur = a], main, handle)
        PROVE  Narrow(core)'
    <3> DEFINE h == [heap EXCEPT !.core[p].cur = a]
    <3>0. p \in Core
      BY <1>0, <2>2, ArgType DEF Accepts
    <3>1. h.core = [core EXCEPT ![p].cur = a]
      BY <1>0 DEF heap
    <3> HIDE DEF h
    <3>2. /\ h.core[p].flags = core[p].flags
          /\ h.core[p].start = core[p].start
          /\ h.core[p].end = core[p].end
          /\ h.core[p].cur = a
          /\ \A x \in Core \ {p} : h.core[x] = core[x]
      BY <1>0, <3>0, <3>1 DEF Heap, CoreRec
    <3>3. core[p].start \in Int /\ core[p].end \in Int
      BY <1>0, <3>0, LayoutAssumption DEF Heap, CoreRec, Addr
    <3>4. "empty" \in core[p].flags \/ Compact(core[p])
      BY <3>0 DEF Narrow
    <3>5. "empty" \in h.core[p].flags \/ Compact(h.core[p])
      BY <2>2, <3>2, <3>3, <3>4 DEF Compact
    <3>6. Narrow(h.core)
      BY <3>2, <3>5 DEF Narrow
    <3> QED
      BY <2>2, <3>6, ReturnNarrow DEF h
  <2> QED
    BY <1>3, <2>1, <2>2 DEF track_move_ptr, __track_ptr_move, MoveTo
<1>4. ASSUME NEW p \in Arg, NEW step,
             TRACK_INC(p, step) \/ TRACK_DEC(p, step)
      PROVE  Narrow(core)'
  BY <1>3, <1>4, AnswerNarrow DEF TRACK_INC, TRACK_DEC
<1>5. ASSUME NEW d, NEW s, NEW n, track_memcpy(d, s, n) PROVE Narrow(core)'
  <2>1. core' = core
    BY <1>5
    DEF track_memcpy, Copy, Copied, Return, Rejects, Answer, Crash, heap,
        heapVars
  <2> QED
    BY <2>1
<1>6. ASSUME NEW p \in Arg, track_free(p) PROVE Narrow(core)'
  <2> DEFINE c == main.data[core[p].ptrid]
             h == __track_main_list_node_data_free(heap, c)
  <2>1. CASE \/ \E why : Crash(why)
             \/ \E args : Rejects(args)
    BY <2>1, AnswerNarrow
  <2>2. CASE /\ Accepts({p}) /\ pc = "idle"
             /\ \E l, hs : Return(h, l, hs)
    <3>1. p \in handle
      BY <2>2, ClientAssumption DEF Accepts, Arg
    <3>2. c = p
      BY <2>2, <3>1 DEF SafeInv, Listed
    <3>3. Narrow(h.core)
      BY <1>0, <3>1, <3>2, NodeFreeNarrow
    <3> QED
      BY <2>2, <3>3, ReturnNarrow
  <2> QED
    BY <1>6, <2>1, <2>2 DEF track_free, Enters
<1>7. CASE DestroyNode
  <2> DEFINE h == __track_main_list_node_data_free(heap, main.data[pos])
  <2>1. pos \in Node
    BY <1>0, <1>7 DEF DestroyNode, TypeOK, Ref
  <2>2. main.data[pos] \in Core \cup {Null}
    BY <1>0, <2>1 DEF ListOf
  <2>3. Narrow(h.core)
    BY <1>0, <2>2, NodeFreeNarrow
  <2> HIDE DEF h
  <2>4. core' = h.core \/ core' = core
    BY <1>7 DEF DestroyNode, Crash, heapVars, h
  <2> QED
    BY <2>3, <2>4
<1>8. ASSUME NEW s \in Arg, NEW n \in Arg, NEW o \in handle \cup {Null},
             track_set_ptr(s, n, o)
      PROVE  Narrow(core)'
  <2>1. CASE \/ \E e, r : Answer(e, r)
             \/ \E args : Rejects(args)
    BY <2>1, AnswerNarrow
  <2>2. CASE /\ Accepts({s, n})
             /\ \E h \in SetPtrResults(s, n, o) : Return(h, main, handle)
    <3>1. s \in Core /\ n \in Core /\ o \in Core \cup {Null}
      BY <1>0, <2>2, ClientAssumption DEF Accepts, Arg
    <3>2. PICK h \in SetPtrResults(s, n, o) : Return(h, main, handle)
      BY <2>2
    <3>3. h.fault = NoFault => Narrow(h.core)
      BY <1>0, <3>1, SetPtrNarrow
    <3> QED
      BY <3>2, <3>3, ReturnNarrow
  <2> QED
    BY <1>8, <2>1, <2>2 DEF track_set_ptr
<1>9. ASSUME NEW msize \in Sizes, NEW flags \in FlagSets,
             track_malloc(msize, flags)
      PROVE  Narrow(core)'
  <2>1. CASE \/ \E e, r : Answer(e, r)
             \/ \E args : Rejects(args)
    BY <2>1, AnswerNarrow
  <2>2. ASSUME NEW a \in Block, block[a] = FreedBlock,
               NEW fill \in [a .. a + msize - 1 -> Byte],
               __track_create_memory_control(a, msize, flags, fill)
        PROVE  Narrow(core)'
    <3>1. msize \in 0 .. MaxSize /\ flags \in SUBSET Flag
      BY ClientAssumption DEF Flag
    <3> QED
      BY <2>2, <3>1, CreateNarrow
  <2> QED
    BY <1>9, <2>1, <2>2 DEF track_malloc
<1>10. CASE track_make_empty
  <2>1. CASE \E args : Rejects(args)
    BY <2>1, AnswerNarrow
  <2>2. CASE __track_create_memory_control(Null, 0, {"empty"}, <<>>)
    <3>1. 0 \in 0 .. MaxSize /\ {"empty"} \in SUBSET Flag
      BY LayoutAssumption DEF Flag
    <3> QED
      BY <2>2, <3>1, CreateNarrow
  <2> QED
    BY <1>10, <2>1, <2>2 DEF track_make_empty, Enters
<1> QED
  BY <1>1, <1>2, <1>3, <1>4, <1>5, <1>6, <1>7, <1>8, <1>9, <1>10 DEF Next

(* Sums and distances of addresses within a compact range.                 *)
LEMMA RangeSpan ==
  ASSUME SafeInv, Narrow(core), 2 * MaxSize <= AddrSpace,
         NEW p \in handle, ~Empty(p)
  PROVE  LET r == core[p]
         IN  /\ r.start \in Addr /\ r.cur \in Addr /\ r.end \in Addr
             /\ \/ r.start .. r.end = {}
                \/ r.cur \in r.start .. r.end /\ 2 * (r.end - r.start) < AddrSpace
<1> DEFINE r == core[p]
<1>1. p \in Core /\ core \in [Core -> CoreRec] /\ block \in [Block -> BlockRec]
  BY DEF SafeInv, CountInv, TypeOK
<1>2. r \in CoreRec
  BY <1>1
<1>3. r.start \in Addr /\ r.cur \in Addr /\ r.end \in Addr
  BY <1>2 DEF CoreRec
<1>4. Compact(r)
  BY <1>1 DEF Narrow, Empty
<1>5. MaxSize \in Nat /\ AddrSpace \in Nat \ {0}
  BY LayoutAssumption
<1>6. r.start \in Int /\ r.cur \in Int /\ r.end \in Int
  BY <1>3, <1>5 DEF Addr
<1> HIDE DEF r
<1> QED
  BY <1>3, <1>4, <1>5, <1>6 DEF Compact, r

(* track_move_ptr does what whole numbers would.                           *)
LEMMA MoveExact ==
  ASSUME SafeInv, Narrow(core), 2 * MaxSize <= AddrSpace,
         NEW p \in handle, NEW k \in Int, 2 * k \in -AddrSpace .. AddrSpace,
         ~Empty(p), fault' = NoFault, track_move_ptr(p, k)
  PROVE  LET r == core[p]
             a == r.cur + k
             stale == "checksum" \in r.flags /\ __track_memory_changed(heap, p)
         IN  \/ /\ ret' = 0 /\ ~stale /\ a \in r.start .. r.end
                /\ core'[p].cur = a
             \/ ret' = -2 /\ ~stale /\ a \notin r.start .. r.end
             \/ ret' = -1 /\ stale
<1> DEFINE r == core[p]
           w == Wrap(r.cur + k)
           stale == "checksum" \in r.flags /\ __track_memory_changed(heap, p)
<1>1. /\ pc = "idle" /\ inited /\ p # Null /\ p \in Core
      /\ core \in [Core -> CoreRec]
  BY ValueAssumption DEF track_move_ptr, Enters, SafeInv, CountInv, TypeOK
<1>2. ~Crash("out_of_bounds")
  BY DEF Crash, NoFault
<1>3. \/ stale /\ ret' = -1
      \/ ~stale /\ __track_ptr_move(p, k)
  BY <1>1, <1>2 DEF track_move_ptr, Rejects, Accepts, Answer
<1>4. /\ r.start \in Addr /\ r.cur \in Addr /\ r.end \in Addr
      /\ \/ r.start .. r.end = {}
         \/ r.cur \in r.start .. r.end /\ 2 * (r.end - r.start) < AddrSpace
  BY <1>1, RangeSpan
<1>5. /\ r.start \in Int /\ r.cur \in Int /\ r.end \in Int
      /\ w \in Int
  BY <1>4, WrapType, LayoutAssumption DEF Addr
<1>6. /\ w \in r.start .. r.end => w = r.cur + k
      /\ r.cur + k \in r.start .. r.end => w = r.cur + k
  <2>1. CASE r.start .. r.end = {}
    BY <2>1
  <2>2. CASE r.cur \in r.start .. r.end /\ 2 * (r.end - r.start) < AddrSpace
    BY <1>4, <2>2, WrapInside
  <2> QED
    BY <1>4, <2>1, <2>2
<1>7. core'[p].cur = w
      \/ ~Return([heap EXCEPT !.core[p].cur = w], main, handle)
  <2> SUFFICES ASSUME Return([heap EXCEPT !.core[p].cur = w], main, handle)
               PROVE  core'[p].cur = w
    OBVIOUS
  <2>1. core[p] \in CoreRec
    BY <1>1
  <2>2. core' = [core EXCEPT ![p].cur = w]
    BY DEF Return, Crash, heap
  <2> HIDE DEF w
  <2> QED
    BY <1>1, <2>1, <2>2 DEF CoreRec
<1>8. ASSUME __track_ptr_move(p, k)
      PROVE  \/ ret' = 0 /\ r.cur + k \in r.start .. r.end
                /\ core'[p].cur = r.cur + k
             \/ ret' = -2 /\ r.cur + k \notin r.start .. r.end
  <2>1. CASE ret' = -2 /\ (w > r.end \/ w < r.start)
    <3>1. w \notin r.start .. r.end
      BY <1>5, <2>1
    <3> QED
      BY <1>6, <2>1, <3>1
  <2>2. CASE /\ w \in r.start .. r.end
             /\ Return([heap EXCEPT !.core[p].cur = w], main, handle)
    <3>1. ret' = 0
      BY <2>2 DEF Return, Crash, heap
    <3> QED
      BY <1>6, <1>7, <2>2, <3>1
  <2> QED
    BY <1>8, <2>1, <2>2 DEF __track_ptr_move, MoveTo, Answer
<1> QED
  BY <1>3, <1>8

(* Where no block takes more than half of the address space, as malloc     *)
(* sees to, and distances are those of a signed number of the width of an  *)
(* address, track_move_ptr moves a pointer exactly when it stays in its    *)
(* range and its checksum, if it wants one, agrees; whatever allocation    *)
(* failed before and whether or not the memory of that range is still      *)
(* there: a sum that wraps around is never mistaken for one inside.        *)
THEOREM MovesAlwaysInRange ==
  ASSUME 2 * MaxSize <= AddrSpace,
         \A k \in Distance : 2 * k \in -AddrSpace .. AddrSpace
  PROVE  Spec => MoveStaysInRange
<1>1. SafeInv /\ Narrow(core) =>
        \A p \in handle, k \in Distance :
          ~Empty(p) /\ fault' = NoFault /\ track_move_ptr(p, k) =>
            LET r     == core[p]
                a     == r.cur + k
                stale == "checksum" \in r.flags /\ __track_memory_changed(heap, p)
            IN  \/ /\ ret' = 0 /\ ~stale /\ a \in r.start .. r.end
                   /\ core'[p].cur = a
                \/ ret' = -2 /\ ~stale /\ a \notin r.start .. r.end
                \/ ret' = -1 /\ stale
  BY MoveExact, DistanceInt
<1>2. SafeInv /\ Narrow(core) /\ [Next]_vars => Narrow(core)'
  BY StepNarrow
<1>3. Init => Narrow(core)
  BY NarrowInit
<1> QED
  BY <1>1, <1>2, <1>3, SafeInit, SafeNext, PTL DEF Spec, MoveStaysInRange

-----------------------------------------------------------------------------
(* What the program's trackers view, before and after a step.              *)

Viewing(cs, hs) == [p \in Core |-> IF p \in hs THEN Look(cs[p]) ELSE Null]
Allocated(bs) == {b \in Block : bs[b].live}

(* This is what Trackers sees of a state.                                  *)
LEMMA Seen ==
  /\ [p \in Core |-> ViewOf(p)] = Viewing(core, Held)
  /\ [p \in Core |-> ViewOf(p)]' = Viewing(core', Held')
  /\ {b \in Block : block[b].live} = Allocated(block)
  /\ {b \in Block : block[b].live}' = Allocated(block')
<1>1. \A p \in Core : ViewOf(p) = IF p \in Held THEN Look(core[p]) ELSE Null
  BY DEF ViewOf, Look, BlockOf, Empty
<1>2. \A p \in Core : ViewOf(p)' = IF p \in Held' THEN Look(core'[p]) ELSE Null
  BY DEF ViewOf, Look, BlockOf, Empty
<1> QED
  BY <1>1, <1>2 DEF Viewing, Allocated

(* What the program holds fits in a block that is allocated.               *)
LEMMA HeldFits ==
  ASSUME SafeInv, "link" \notin MayFail, pc = "idle", NEW p \in handle
  PROVE  /\ core[p] \in CoreRec
         /\ "empty" \notin core[p].flags =>
              \E b \in Block : block[b].live /\ FitsIn(core[p], b)
<1>1. p \in Core /\ core \in [Core -> CoreRec] /\ block \in [Block -> BlockRec]
  BY DEF SafeInv, CountInv, TypeOK
<1>2. core[p] \in CoreRec
  BY <1>1
<1>3. ASSUME "empty" \notin core[p].flags
      PROVE  \E b \in Block : block[b].live /\ FitsIn(core[p], b)
  <2>1. PICK b \in Block : Within(heap, p, b)
    BY <1>1, <1>3 DEF SafeInv, AllSafe, Safe, heap
  <2>2. block[b].size \in 0 .. MaxSize
    BY <1>1 DEF BlockRec
  <2>3. /\ b \in Nat /\ MaxSize \in Nat
        /\ core[p].start \in Nat /\ core[p].cur \in Nat /\ core[p].end \in Nat
    BY <1>2, AddrNat, BlockAddr, LayoutAssumption DEF CoreRec
  <2>4. FitsIn(core[p], b) /\ block[b].live
    BY <2>1, <2>2, <2>3 DEF Within, FitsIn, heap
  <2> QED
    BY <2>4
<1> QED
  BY <1>2, <1>3

(* So it is seen by Trackers, in that block.                               *)
LEMMA HeldViews ==
  ASSUME SafeInv, "link" \notin MayFail, Null \notin Views, pc = "idle",
         NEW p \in handle
  PROVE  /\ Fit(core[p])
         /\ "empty" \in core[p].flags => Look(core[p]) = Null
         /\ "empty" \notin core[p].flags =>
              /\ Look(core[p]) # Null
              /\ Look(core[p]).block \in Allocated(block)
<1>1. CASE "empty" \in core[p].flags
  BY <1>1 DEF Fit, Look
<1>2. CASE "empty" \notin core[p].flags
  <2>1. core[p] \in CoreRec
    BY HeldFits
  <2>2. PICK b \in Block : block[b].live /\ FitsIn(core[p], b)
    BY <1>2, HeldFits
  <2>3. Look(core[p]) = [block |-> b, from |-> core[p].start - b,
                         cur |-> core[p].cur - b, to |-> core[p].end - b]
    BY <1>2, <2>1, <2>2, LookIn
  <2>4. /\ b \in Nat
        /\ core[p].start \in Nat /\ core[p].cur \in Nat /\ core[p].end \in Nat
    BY <2>1, AddrNat, BlockAddr DEF CoreRec
  <2>5. Look(core[p]) \in Views
    BY <2>3, <2>4 DEF Views
  <2> QED
    BY <1>2, <2>2, <2>3, <2>5 DEF Fit, Allocated
<1> QED
  BY <1>1, <1>2

(* What is viewed is allocated.                                            *)
LEMMA ViewedLive ==
  ASSUME "link" \notin MayFail, Null \notin Views
  PROVE  SafeInv => Promise!Viewed(Viewing(core, Held)) \subseteq Allocated(block)
<1> SUFFICES ASSUME SafeInv, NEW p \in Core, Viewing(core, Held)[p] # Null
             PROVE  Viewing(core, Held)[p].block \in Allocated(block)
  BY DEF Promise!Viewed
<1>1. p \in Held /\ Viewing(core, Held)[p] = Look(core[p])
  BY DEF Viewing
<1>2. pc = "idle" /\ p \in handle
  BY <1>1 DEF Held
<1> QED
  BY <1>1, <1>2, HeldViews

-----------------------------------------------------------------------------
(* Each step is a step of Trackers, or is not seen there.                  *)

Mapped == Promise!Next \/ UNCHANGED Promise!vars

(* What is viewed after the step is allocated.                             *)
Live == Promise!Viewed(Viewing(core, Held)) \subseteq Allocated(block)

(* The same trackers view the same, and the same blocks are allocated.     *)
LEMMA QuietStep ==
  ASSUME Held' = Held, Allocated(block') = Allocated(block),
         \A p \in Core \cap Held : Look(core'[p]) = Look(core[p])
  PROVE  Mapped
<1>1. Viewing(core', Held') = Viewing(core, Held)
  BY DEF Viewing
<1> QED
  BY <1>1, Seen DEF Mapped, Promise!vars

(* A call that leaves the structures, blocks and handles alone.            *)
LEMMA SameSeen ==
  ASSUME UNCHANGED <<core, block, handle, pc>> PROVE Mapped
  BY QuietStep DEF Held

(* A call that answers, or whose behaviour is undefined.                   *)
LEMMA AnswerSeen ==
  ASSUME \/ \E e, r : Answer(e, r)
         \/ \E why : Crash(why)
         \/ \E args : Rejects(args)
  PROVE  Mapped
  BY SameSeen DEF Answer, Crash, Rejects, heapVars, clientVars

(* A call that returns.                                                    *)
LEMMA ReturnSeen ==
  ASSUME pc = "idle", NEW h, NEW l, NEW hs, Return(h, l, hs)
  PROVE  \/ Mapped
         \/ /\ h.fault = NoFault /\ core' = h.core /\ block' = h.block
            /\ Held = handle /\ Held' = hs
<1>1. CASE Crash(h.fault)
  BY <1>1, AnswerSeen
<1>2. CASE /\ h.fault = NoFault /\ core' = h.core /\ block' = h.block
           /\ handle' = hs /\ UNCHANGED pc
  BY <1>2 DEF Held
<1> QED
  BY <1>1, <1>2 DEF Return

(* No block is allocated but by track_malloc.                              *)
LEMMA SteadyBlocks ==
  ASSUME NEW h, Steady(heap, h)
  PROVE  Allocated(h.block) \subseteq Allocated(block)
  BY DEF Steady, Allocated, heap

(* Calls that touch no structure and no block.                             *)
LEMMA PlainSeen ==
  ASSUME \/ track_init \/ track_last_error \/ Stopped \/ UNCHANGED vars
         \/ \E p \in Arg : track_check_mem(p)
         \/ \E d, s \in Arg, n \in Lens : track_memcpy(d, s, n)
         \/ \E p \in handle, v \in Byte : UserWrite(p, v)
  PROVE  Mapped
<1>1. CASE track_init
  BY <1>1, AnswerSeen, SameSeen DEF track_init, heapVars
<1>2. CASE track_last_error \/ Stopped \/ UNCHANGED vars
  BY <1>2, SameSeen DEF track_last_error, Stopped, vars, heapVars, clientVars
<1>3. CASE \E p \in Arg : track_check_mem(p)
  <2>1. \/ \E e, r : Answer(e, r)
        \/ \E why : Crash(why)
        \/ \E args : Rejects(args)
    BY <1>3 DEF track_check_mem
  <2> QED
    BY <2>1, AnswerSeen
<1>4. CASE \E d, s \in Arg, n \in Lens : track_memcpy(d, s, n)
  <2>1. PICK d \in Arg, s \in Arg, n \in Lens : track_memcpy(d, s, n)
    BY <1>4
  <2>2. CASE Copy(d, s, n)
    <3> DEFINE h == Copied(core[d].cur, core[s].cur, n)
    <3>1. /\ h.core = core /\ h.block = block
          /\ heap.core = core /\ heap.block = block
      BY DEF heap, Copied
    <3> HIDE DEF h
    <3>2. UNCHANGED <<core, block, handle, pc>>
      BY <2>2, <3>1 DEF Copy, Return, Answer, Crash, heapVars, clientVars, h
    <3> QED
      BY <3>2, SameSeen
  <2>3. CASE \/ \E e, r : Answer(e, r)
             \/ \E args : Rejects(args)
    BY <2>3, AnswerSeen
  <2> QED
    BY <2>1, <2>2, <2>3 DEF track_memcpy
<1>5. CASE \E p \in handle, v \in Byte : UserWrite(p, v)
  BY <1>5, SameSeen DEF UserWrite, Crash, heapVars, clientVars
<1> QED
  BY <1>1, <1>2, <1>3, <1>4, <1>5

(* track_overwrite_checksum changes no view.                               *)
LEMMA OverwriteSeen ==
  ASSUME SafeInv, NEW p \in Arg, track_overwrite_checksum(p)
  PROVE  Mapped
<1>1. CASE Rejects({p})
  BY <1>1, AnswerSeen
<1>2. CASE /\ Accepts({p}) /\ pc = "idle"
           /\ Return(OverwriteChecksum(heap, p), main, handle)
  <2> DEFINE h == OverwriteChecksum(heap, p)
  <2>1. /\ TypeOK /\ heap \in Heap /\ handle \subseteq Core
        /\ heap.core = core /\ heap.block = block
    BY SafeInvHeap
  <2>2. p \in Core
    BY <1>2, <2>1, ArgType DEF Accepts
  <2>3. /\ h.block = block
        /\ \A x \in Core : Alike(core[x], h.core[x])
    BY <2>1, <2>2, OverwriteParts
  <2>4. \A x \in Core : Look(h.core[x]) = Look(core[x])
    <3>1. \A x \in Core : Same4(h.core[x], core[x])
      BY <2>3 DEF Alike, Same4
    <3> QED
      BY <3>1, LookSame
  <2> HIDE DEF h
  <2>5. \/ Mapped
        \/ core' = h.core /\ block' = h.block /\ Held' = Held
    BY <1>2, ReturnSeen DEF h
  <2> QED
    BY <2>3, <2>4, <2>5, QuietStep
<1> QED
  BY <1>1, <1>2 DEF track_overwrite_checksum, Enters

(* track_move_ptr moves within the view.                                   *)
LEMMA MoveSeen ==
  ASSUME SafeInv, "link" \notin MayFail, Null \notin Views,
         NEW p \in Arg, NEW k \in Int, track_move_ptr(p, k)
  PROVE  Mapped
<1> DEFINE a == Wrap(core[p].cur + k)
           h == [heap EXCEPT !.core[p].cur = a]
<1>1. CASE \/ \E e, r : Answer(e, r)
           \/ \E why : Crash(why)
           \/ \E args : Rejects(args)
  BY <1>1, AnswerSeen
<1>2. CASE /\ Accepts({p}) /\ pc = "idle"
           /\ a \in core[p].start .. core[p].end
           /\ Return(h, main, handle)
  <2>1. /\ heap \in Heap /\ handle \subseteq Core
        /\ heap.core = core /\ heap.block = block
    BY SafeInvHeap
  <2>2. p \in handle /\ p \in Core
    BY <1>2, <2>1, ClientAssumption DEF Accepts, Arg
  <2>3. core[p] \in CoreRec
    BY <2>1, <2>2 DEF Heap
  <2>4. core[p].cur \in Nat /\ core[p].start \in Nat /\ core[p].end \in Nat
    BY <2>3, AddrNat DEF CoreRec
  <2>5. a \in Addr
    BY <2>4, WrapType
  <2> HIDE DEF a
  <2>6. h.core = [core EXCEPT ![p].cur = a] /\ h.block = block
    BY DEF heap
  <2>7. [core[p] EXCEPT !.cur = a] \in CoreRec
    BY <2>3, <2>5 DEF CoreRec
  <2>8. /\ \A x \in Core \ {p} : h.core[x] = core[x]
        /\ h.core[p] = [core[p] EXCEPT !.cur = a]
    BY <2>1, <2>2, <2>6 DEF Heap
  <2>9. \/ Mapped
        \/ core' = h.core /\ block' = h.block /\ Held' = Held /\ Held = handle
    BY <1>2, ReturnSeen DEF h
  <2> HIDE DEF h
  <2>10. CASE /\ core' = h.core /\ block' = h.block
              /\ Held' = Held /\ Held = handle /\ "empty" \in core[p].flags
    <3>1. h.core[p].flags = core[p].flags
      BY <2>3, <2>8 DEF CoreRec
    <3>2. \A x \in Core : Look(h.core[x]) = Look(core[x])
      BY <2>8, <2>10, <3>1 DEF Look
    <3> QED
      BY <2>6, <2>10, <3>2, QuietStep
  <2>11. CASE /\ core' = h.core /\ block' = h.block
              /\ Held' = Held /\ Held = handle /\ "empty" \notin core[p].flags
    <3>1. PICK b \in Block : FitsIn(core[p], b)
      BY <1>2, <2>2, <2>11, HeldFits
    <3>2. b \in Nat /\ MaxSize \in Nat /\ a \in Nat
      BY <2>5, AddrNat, BlockAddr, LayoutAssumption
    <3>3. Look(core[p]) = [block |-> b, from |-> core[p].start - b,
                           cur |-> core[p].cur - b, to |-> core[p].end - b]
      BY <2>3, <2>11, <3>1, LookIn
    <3>4. /\ core'[p] = [core[p] EXCEPT !.cur = a]
          /\ \A x \in Core \ {p} : core'[x] = core[x]
      BY <2>8, <2>11
    <3>5. BlockOf(core'[p]) = b
      <4>1. BlockOf(core[p]) = b
        BY <2>3, <2>4, <3>1, <3>2, BlockUnique DEF FitsIn
      <4>2. core'[p].start = core[p].start
        BY <2>3, <3>4 DEF CoreRec
      <4> QED
        BY <4>1, <4>2 DEF BlockOf
    <3>6. Look(core'[p]) = [Look(core[p]) EXCEPT !.cur = a - b]
      <4>1. /\ core'[p].start = core[p].start /\ core'[p].cur = a
            /\ core'[p].end = core[p].end /\ core'[p].flags = core[p].flags
        BY <2>3, <3>4 DEF CoreRec
      <4> QED
        BY <2>11, <3>3, <3>5, <4>1 DEF Look
    <3>7. a - b \in Look(core[p]).from .. Look(core[p]).to
      BY <1>2, <2>4, <3>2, <3>3 DEF a
    <3>8. Look(core[p]) # Null
      BY <1>2, <2>2, <2>11, HeldViews
    <3>9. /\ Viewing(core, Held)[p] = Look(core[p])
          /\ Viewing(core', Held') =
               [Viewing(core, Held) EXCEPT ![p].cur = a - b]
      BY <2>2, <2>11, <3>4, <3>6 DEF Viewing
    <3>10. Promise!Move(p)
      <4>1. Allocated(block') = Allocated(block)
        BY <2>6, <2>11
      <4> QED
        BY <2>2, <2>11, <3>7, <3>8, <3>9, <4>1, Seen DEF Promise!Move
    <3> QED
      BY <2>2, <3>10 DEF Mapped, Promise!Next
  <2> QED
    BY <2>9, <2>10, <2>11
<1> QED
  BY <1>1, <1>2 DEF track_move_ptr, __track_ptr_move, MoveTo, Enters

(* track_set_ptr re-points as promised, whichever arguments are the same.  *)
LEMMA SetPtrSeen ==
  ASSUME SafeInv, "link" \notin MayFail, Null \notin Views, Live',
         NEW s \in Arg, NEW n \in Arg, NEW o \in handle \cup {Null},
         track_set_ptr(s, n, o)
  PROVE  Mapped
<1>1. CASE Rejects({s, n}) \/ Answer(ETRACK_IS_EMPTY, -1)
  BY <1>1, AnswerSeen
<1>2. CASE /\ Accepts({s, n}) /\ pc = "idle" /\ "empty" \notin core[n].flags
           /\ \E h \in SetPtrResults(s, n, o) : Return(h, main, handle)
  <2>1. PICK h \in SetPtrResults(s, n, o) : Return(h, main, handle)
    BY <1>2
  <2>2. /\ heap \in Heap /\ Exact(heap) /\ Owned(heap)
        /\ handle \in SUBSET Core
    BY SafeInvHeap
  <2>3. s \in handle /\ n \in handle
    BY <1>2, ClientAssumption DEF Accepts, Arg
  <2>4. Steady(heap, h)
    BY <2>2, <2>3, SetPtrSafe
  <2>5. \/ Mapped
        \/ core' = h.core /\ block' = h.block /\ Held' = Held /\ Held = handle
    BY <1>2, <2>1, ReturnSeen
  <2>6. CASE core' = h.core /\ block' = h.block /\ Held' = Held /\ Held = handle
    <3> DEFINE V == Viewing(core, Held)
               W == Viewing(core', Held')
               B(x) == IF x = o THEN Promise!Back(Look(core[x]))
                                ELSE Look(core[x])
               G(x) == IF x = o THEN Promise!Rest(B(s)) ELSE Look(core[x])
               back  == IF o = Null THEN V
                        ELSE [V EXCEPT ![o] = Promise!Back(@)]
               given == IF o = Null THEN V
                        ELSE [back EXCEPT ![o] = Promise!Rest(back[s])]
    <3>1. /\ Look(core'[s]) = Promise!Rest(G(n))
          /\ \A x \in Core \ {s} : Look(core'[x]) = G(x)
      <4>1. Fit(core[s]) /\ Fit(core[n]) /\ (o # Null => Fit(core[o]))
        BY <1>2, <2>3, HeldViews
      <4>2. s \in Core /\ n \in Core /\ o \in Core \cup {Null}
        BY <2>2, <2>3
      <4> QED
        BY <2>1, <2>2, <2>6, <4>1, <4>2, SetPtrLook
    <3>2. \A x \in handle : V[x] = Look(core[x]) /\ W[x] = Look(core'[x])
      BY <2>2, <2>6 DEF Viewing
    <3>3. \A x \in Core \ handle : V[x] = Null /\ W[x] = Null
      BY <2>6 DEF Viewing
    <3>4. V = [x \in Core |-> V[x]] /\ W = [x \in Core |-> W[x]]
      BY DEF Viewing
    <3> HIDE DEF V, W
    <3>5. back = [x \in Core |-> IF x = o THEN Promise!Back(V[x]) ELSE V[x]]
      <4>1. CASE o = Null
        BY <3>4, <4>1, ValueAssumption
      <4>2. CASE o # Null
        BY <3>4, <4>2
      <4> QED
        BY <4>1, <4>2
    <3>6. \A x \in handle : back[x] = B(x)
      BY <2>2, <3>2, <3>5
    <3> HIDE DEF back
    <3>7. given = [x \in Core |-> IF x = o THEN Promise!Rest(back[s])
                                           ELSE V[x]]
      <4>1. CASE o = Null
        BY <3>4, <4>1, ValueAssumption DEF given
      <4>2. CASE o # Null
        BY <3>4, <3>5, <4>2 DEF given
      <4> QED
        BY <4>1, <4>2
    <3>8. \A x \in handle : given[x] = G(x)
      BY <2>2, <2>3, <3>2, <3>6, <3>7
    <3> HIDE DEF given, B, G
    <3>9. \A x \in Core \ handle : given[x] = Null
      BY <2>2, <3>3, <3>7, ValueAssumption
    <3>10. W = [given EXCEPT ![s] = Promise!Rest(given[n])]
      <4>1. W[s] = Promise!Rest(given[n])
        BY <2>3, <3>1, <3>2, <3>8
      <4>2. \A x \in Core \ {s} : W[x] = given[x]
        BY <3>1, <3>2, <3>3, <3>8, <3>9
      <4>3. given = [x \in Core |-> given[x]] /\ s \in Core
        BY <2>2, <2>3, <3>7
      <4> QED
        BY <3>4, <4>1, <4>2, <4>3
    <3>11. V[n] # Null
      BY <1>2, <2>3, <3>2, HeldViews
    <3>12. /\ Allocated(block') \subseteq Allocated(block)
           /\ Promise!Viewed(W) \subseteq Allocated(block')
      <4>1. Promise!Viewed(W) \subseteq Allocated(block')
        BY DEF Live, W, Promise!Viewed
      <4> QED
        BY <2>4, <2>6, <4>1, SteadyBlocks
    <3>13. Promise!SetPtr(s, n, o)
      <4> DEFINE U == [p \in Core |-> ViewOf(p)]
                 first == IF o = Null THEN U
                          ELSE [U EXCEPT ![o] = Promise!Back(@)]
                 then  == IF o = Null THEN U
                          ELSE [first EXCEPT ![o] = Promise!Rest(first[s])]
      <4>1. U = V
        BY Seen DEF V
      <4>2. /\ {s, n} \cup ({o} \ {Null}) \subseteq Held
            /\ Held' = Held
        BY <2>3, <2>6
      <4> HIDE DEF U
      <4>3. then = given
        BY <4>1 DEF given, back
      <4> HIDE DEF then
      <4>4. /\ U[n] # Null
            /\ Promise!Become([then EXCEPT ![s] = Promise!Rest(then[n])])
        BY <3>10, <3>11, <3>12, <4>1, <4>3, Seen DEF Promise!Become, W
      <4> QED
        BY <4>2, <4>4 DEF Promise!SetPtr, then, U
    <3> QED
      BY <2>3, <2>6, <3>13 DEF Mapped, Promise!Next
  <2> QED
    BY <2>5, <2>6
<1> QED
  BY <1>1, <1>2 DEF track_set_ptr, Enters

(* track_free takes one view away.                                         *)
LEMMA FreeSeen ==
  ASSUME SafeInv, Live', NEW p \in Arg, track_free(p)
  PROVE  Mapped
<1> DEFINE n == core[p].ptrid
           h == __track_main_list_node_data_free(heap, main.data[n])
           l == FreeNode(dht_list_remove_node(main, n), n)
<1>1. CASE Rejects({p}) \/ Crash(RemoveFault(main, n))
  BY <1>1, AnswerSeen
<1>2. CASE Accepts({p}) /\ pc = "idle" /\ Return(h, l, handle \ {p})
  <2>1. /\ heap \in Heap /\ Exact(heap) /\ Owned(heap)
        /\ handle \subseteq Core /\ heap.core = core
    BY SafeInvHeap
  <2>2. p \in handle
    BY <1>2, ClientAssumption DEF Accepts, Arg
  <2>3. main.data[n] = p
    BY <1>2, <2>2 DEF SafeInv, Listed
  <2>4. /\ Steady(heap, h)
        /\ h.fault = NoFault => \A q \in Core \ {p} : h.core[q] = core[q]
    BY <2>1, <2>2, <2>3, NodeFreeSafe
  <2> HIDE DEF h, l
  <2>5. \/ Mapped
        \/ /\ h.fault = NoFault /\ core' = h.core /\ block' = h.block
           /\ Held = handle /\ Held' = handle \ {p}
    BY <1>2, ReturnSeen
  <2>6. CASE /\ h.fault = NoFault /\ core' = h.core /\ block' = h.block
             /\ Held = handle /\ Held' = handle \ {p}
    <3>1. Viewing(core', Held') = [Viewing(core, Held) EXCEPT ![p] = Null]
      BY <2>1, <2>2, <2>4, <2>6 DEF Viewing
    <3>2. Allocated(block') \subseteq Allocated(block)
      BY <2>4, <2>6, SteadyBlocks
    <3>3. Promise!Viewed(Viewing(core', Held')) \subseteq Allocated(block')
      BY DEF Live, Promise!Viewed
    <3>4. Promise!Free(p)
      BY <2>2, <2>6, <3>1, <3>2, <3>3, Seen
      DEF Promise!Free, Promise!Become
    <3> QED
      BY <2>1, <2>2, <3>4 DEF Mapped, Promise!Next
  <2> QED
    BY <2>5, <2>6
<1> QED
  BY <1>1, <1>2 DEF track_free, Enters

(* track_destroy takes all views away; then memory goes.                   *)
LEMMA DestroySeen ==
  ASSUME SafeInv, track_destroy \/ DestroyNode \/ DestroyEnd
  PROVE  Mapped
<1>1. CASE track_destroy
  <2>1. CASE Rejects({})
    BY <2>1, AnswerSeen
  <2>2. CASE pc' = "destroy" /\ UNCHANGED <<core, block>>
    <3>1. Held' = {}
      BY <2>2 DEF Held
    <3>2. /\ Viewing(core', Held') = [t \in Core |-> Null]
          /\ Allocated(block') = Allocated(block)
      BY <2>2, <3>1 DEF Viewing
    <3>3. Promise!Viewed([t \in Core |-> Null]) = {}
      BY DEF Promise!Viewed
    <3>4. Promise!Destroy
      BY <3>1, <3>2, <3>3, Seen DEF Promise!Destroy, Promise!Become
    <3> QED
      BY <3>4 DEF Mapped, Promise!Next
  <2> QED
    BY <1>1, <2>1, <2>2 DEF track_destroy, heapVars
<1>2. CASE DestroyNode
  <2> DEFINE h == __track_main_list_node_data_free(heap, main.data[pos])
  <2>1. /\ heap \in Heap /\ Exact(heap) /\ Owned(heap)
        /\ main \in ListOf(Core) /\ pos \in Node /\ pc = "destroy"
    BY <1>2, SafeInvHeap DEF DestroyNode, TypeOK, Ref
  <2>2. main.data[pos] \in Core \cup {Null}
    BY <2>1 DEF ListOf
  <2>3. Steady(heap, h)
    BY <2>1, <2>2, NodeFreeSafe
  <2> HIDE DEF h
  <2>4. CASE Crash("use_after_free") \/ Crash(h.fault)
    BY <2>4, AnswerSeen
  <2>5. CASE block' = h.block /\ UNCHANGED pc
    <3>1. Held = {} /\ Held' = {}
      BY <2>1, <2>5 DEF Held
    <3>2. /\ Viewing(core, Held) = [t \in Core |-> Null]
          /\ Viewing(core', Held') = [t \in Core |-> Null]
      BY <3>1 DEF Viewing
    <3>3. Promise!Viewed([t \in Core |-> Null]) = {}
      BY DEF Promise!Viewed
    <3>4. Allocated(block') \subseteq Allocated(block)
      BY <2>3, <2>5, SteadyBlocks
    <3>5. Promise!Release
      BY <3>1, <3>2, <3>3, <3>4, Seen DEF Promise!Release, Promise!Become
    <3> QED
      BY <3>5 DEF Mapped, Promise!Next
  <2> QED
    BY <1>2, <2>4, <2>5 DEF DestroyNode, h
<1>3. CASE DestroyEnd
  <2>1. Held = {} /\ Held' = {} /\ block' = block
    BY <1>3 DEF DestroyEnd, AtEnd, DestroyReturn, Held, heapVars
  <2> QED
    BY <2>1, QuietStep
<1> QED
  BY <1>1, <1>2, <1>3

(* A new tracker views its new block, or nothing.                          *)
LEMMA CreateSeen ==
  ASSUME SafeInv, Null \notin Views, inited, pc = "idle",
         NEW a \in Block \cup {Null}, NEW msize \in 0 .. MaxSize, NEW flags \in SUBSET Flag, NEW fill,
         a # Null => /\ block[a] = FreedBlock
                     /\ fill \in [a .. a + msize - 1 -> Byte]
                     /\ "empty" \notin flags,
         __track_create_memory_control(a, msize, flags, fill)
  PROVE  Mapped
<1>1. CASE Answer(ETRACK_ALLOC, -1) \/ \E why : Crash(why)
  BY <1>1, AnswerSeen
<1>2. CASE GivenUp
  <2>1. UNCHANGED <<core, block, handle, pc>>
    BY <1>2 DEF GivenUp, Answer, Crash, heapVars, clientVars
  <2> QED
    BY <2>1, SameSeen
<1>3. CASE \E c \in Core, g \in Garbage :
             /\ ~core[c].live
             /\ \E n \in Allocatable(EmptyList), m \in Allocatable(main) :
                  PushCore(WithNewCore(a, msize, flags, fill, c, n, g), c, m)
  <2>1. PICK c \in Core, g \in Garbage,
             n \in Allocatable(EmptyList), m \in Allocatable(main) :
               /\ ~core[c].live
               /\ PushCore(WithNewCore(a, msize, flags, fill, c, n, g), c, m)
    BY <1>3
  <2>2. n \in Node /\ m \in Ref
    BY AllocatableType DEF Ref
  <2>3. /\ TypeOK /\ heap \in Heap /\ heap.core = core /\ heap.block = block
        /\ handle \subseteq Core
    BY SafeInvHeap
  <2> DEFINE h == WithNewCore(a, msize, flags, fill, c, n, g)
             k == [h EXCEPT !.core[c].ptrid = m]
  <2>4. h \in Heap
    BY <2>2, <2>3, WithNewCoreType
  <2>5. c \notin handle
    BY <2>1 DEF SafeInv, Listed
  <2>6. a # Null => Spans(h, a, msize, flags, c, n)
    BY <2>2, <2>3, NewCoreParts DEF FreedBlock
  <2>7. a = Null => /\ h.core = [core EXCEPT ![c] =
                                   NewCore(0, 0, {"empty"}, g)]
                    /\ h.block = block
    <3>1. h = CoreAdded(a, msize, flags, fill, c, n, g)
      BY ONLY <2>3, NewCoreIs
    <3> HIDE DEF h
    <3> QED
      BY <3>1 DEF CoreAdded, heap
  <2> HIDE DEF h
  <2>8. h.core[c] \in CoreRec
    BY <2>4 DEF Heap
  <2>9. /\ k.core = [h.core EXCEPT ![c].ptrid = m] /\ k.block = h.block
    BY <2>4 DEF Heap
  <2>10. /\ \A x \in Core \ {c} : k.core[x] = h.core[x]
         /\ Same4(k.core[c], h.core[c])
    BY <2>4, <2>8, <2>9 DEF Heap, CoreRec, Same4
  <2>11. Look(k.core[c]) = Look(h.core[c])
    BY <2>10, LookSame
  <2> HIDE DEF k
  <2>12. \/ Mapped
         \/ /\ core' = k.core /\ block' = k.block
            /\ Held = handle /\ Held' = handle \cup {c}
    <3>1. \/ Crash("use_after_free")
          \/ \E l : Return(k, l, handle \cup {c})
      BY <2>1 DEF PushCore, Push, k, h
    <3> QED
      BY <3>1, AnswerSeen, ReturnSeen
  <2>13. CASE /\ core' = k.core /\ block' = k.block
              /\ Held = handle /\ Held' = handle \cup {c} /\ a = Null
    <3>1. Look(k.core[c]) = Null
      BY <2>3, <2>7, <2>11, <2>13 DEF Heap, Look, NewCore, CoreAt
    <3>2. \A x \in Core \ {c} : k.core[x] = core[x]
      BY <2>3, <2>7, <2>10, <2>13 DEF Heap
    <3>3. Viewing(core', Held') = Viewing(core, Held)
      BY <2>5, <2>13, <3>1, <3>2 DEF Viewing
    <3>4. Promise!MakeEmpty(c)
      BY <2>5, <2>7, <2>9, <2>13, <3>3, Seen DEF Promise!MakeEmpty
    <3> QED
      BY <3>4 DEF Mapped, Promise!Next
  <2>14. CASE /\ core' = k.core /\ block' = k.block
              /\ Held = handle /\ Held' = handle \cup {c} /\ a # Null
    <3>1. /\ a \in Block /\ a \in Nat /\ msize \in Nat /\ MaxSize \in Nat
          /\ "empty" \notin flags /\ ~block[a].live
      BY <2>14, AddrNat, BlockAddr, LayoutAssumption DEF FreedBlock
    <3>2. /\ h.core[c].flags = flags
          /\ h.core[c].start = a /\ h.core[c].cur = a
          /\ h.core[c].end = a + msize - 1
          /\ \A x \in Core \ {c} : h.core[x] = core[x]
          /\ h.block = [block EXCEPT ![a] = NewBlock(msize, c, n)]
      BY <2>6, <2>14 DEF Spans
    <3>4. Look(h.core[c]) =
            [block |-> a, from |-> 0, cur |-> 0, to |-> msize - 1]
      <4>1. BlockOf(h.core[c]) = a
        BY <2>8, <3>1, <3>2, BlockUnique
      <4>2. /\ h.core[c].start - a = 0 /\ h.core[c].cur - a = 0
            /\ h.core[c].end - a = msize - 1
        BY <3>1, <3>2
      <4>3. "empty" \notin h.core[c].flags
        BY <3>1, <3>2
      <4> QED
        BY <4>1, <4>2, <4>3 DEF Look
    <3>5. Viewing(core', Held') =
            [Viewing(core, Held) EXCEPT ![c] =
               [block |-> a, from |-> 0, cur |-> 0, to |-> msize - 1]]
      BY <2>5, <2>10, <2>11, <2>14, <3>2, <3>4 DEF Viewing
    <3>6. Allocated(block') = Allocated(block) \cup {a}
      BY <2>3, <2>9, <2>14, <3>1, <3>2 DEF Heap, Allocated, NewBlock,
                                          UnlinkedBlock
    <3>7. a \notin Allocated(block)
      BY <3>1 DEF Allocated
    <3>8. Promise!Malloc(c, a, msize)
      BY <2>5, <2>14, <3>5, <3>6, <3>7, Seen DEF Promise!Malloc
    <3> QED
      BY <3>1, <3>8 DEF Mapped, Promise!Next
  <2> QED
    BY <2>12, <2>13, <2>14
<1> QED
  BY <1>1, <1>2, <1>3, CreateSteps, SafeInvHeap

(* track_malloc and track_make_empty.                                      *)
LEMMA NewSeen ==
  ASSUME SafeInv, Null \notin Views,
         \/ track_make_empty
         \/ \E msize \in Sizes, flags \in FlagSets : track_malloc(msize, flags)
  PROVE  Mapped
<1>1. CASE Rejects({}) \/ Answer(ETRACK_ALLOC, -1)
  BY <1>1, AnswerSeen
<1>2. CASE /\ inited /\ pc = "idle"
           /\ __track_create_memory_control(Null, 0, {"empty"}, <<>>)
  <2>1. 0 \in 0 .. MaxSize /\ {"empty"} \in SUBSET Flag
    BY LayoutAssumption DEF Flag
  <2> QED
    BY <1>2, <2>1, CreateSeen
<1>3. ASSUME inited, pc = "idle", NEW msize \in Sizes, NEW flags \in FlagSets,
             \E a \in Block :
               /\ block[a] = FreedBlock
               /\ \E fill \in [a .. a + msize - 1 -> Byte] :
                    __track_create_memory_control(a, msize, flags, fill)
      PROVE  Mapped
  <2>1. /\ msize \in 0 .. MaxSize /\ flags \in SUBSET Flag
        /\ "empty" \notin flags
    BY ClientAssumption DEF Flag
  <2> QED
    BY <1>3, <2>1, CreateSeen
<1> QED
  BY <1>1, <1>2, <1>3 DEF track_malloc, track_make_empty, Enters

(* Every step.                                                             *)
LEMMA StepSeen ==
  ASSUME SafeInv, [Next]_vars, "link" \notin MayFail, Null \notin Views, Live'
  PROVE  Mapped
<1>1. CASE \/ track_init \/ track_last_error \/ Stopped \/ UNCHANGED vars
           \/ \E p \in Arg : track_check_mem(p)
           \/ \E d, s \in Arg, n \in Lens : track_memcpy(d, s, n)
           \/ \E p \in handle, v \in Byte : UserWrite(p, v)
  BY <1>1, PlainSeen
<1>2. CASE \/ track_make_empty
           \/ \E msize \in Sizes, flags \in FlagSets :
                track_malloc(msize, flags)
  BY <1>2, NewSeen
<1>3. ASSUME NEW p \in Arg, track_free(p) \/ track_overwrite_checksum(p)
      PROVE  Mapped
  BY <1>3, FreeSeen, OverwriteSeen
<1>4. CASE track_destroy \/ DestroyNode \/ DestroyEnd
  BY <1>4, DestroySeen
<1>5. ASSUME NEW p \in Arg, NEW k \in Moves, track_move_ptr(p, k)
      PROVE  Mapped
  BY <1>5, MoveSeen, ClientAssumption
<1>6. ASSUME NEW p \in Arg, NEW step \in Steps,
             TRACK_INC(p, step) \/ TRACK_DEC(p, step)
      PROVE  Mapped
  BY <1>6, StepIsMove, MoveSeen, AnswerSeen
<1>7. ASSUME NEW s \in Arg, NEW n \in Arg, NEW o \in handle \cup {Null},
             track_set_ptr(s, n, o)
      PROVE  Mapped
  BY <1>7, SetPtrSeen
<1> QED
  BY <1>1, <1>2, <1>3, <1>4, <1>5, <1>6, <1>7 DEF Next

(* Before the first call nothing is held and nothing is allocated.         *)
LEMMA InitSeen == Init => Promise!Init
<1> SUFFICES ASSUME Init PROVE Promise!Init
  OBVIOUS
<1>1. Held = {} /\ \A b \in Block : ~block[b].live
  BY DEF Init, Held, FreedBlock
<1>2. /\ Viewing(core, Held) = [t \in Core |-> Null]
      /\ Allocated(block) = {}
  BY <1>1 DEF Viewing, Allocated
<1> QED
  BY <1>1, <1>2, Seen DEF Promise!Init

(* The library implements Trackers: whatever its lists look like and       *)
(* whichever arguments of a call are the same tracker, each call changes   *)
(* what trackers view as promised and frees no memory in view; for every   *)
(* program and any number of trackers, blocks and bytes, where there is    *)
(* memory for link nodes (and null is no view).                            *)
THEOREM LibraryImplementsTrackers ==
  ASSUME "link" \notin MayFail, Null \notin Views
  PROVE  Spec => ImplementsTrackers
<1>1. SafeInv => Live
  BY ViewedLive DEF Live
<1>2. SafeInv /\ [Next]_vars /\ Live' => Promise!Next \/ UNCHANGED Promise!vars
  BY StepSeen DEF Mapped
<1> QED
  BY <1>1, <1>2, InitSeen, SafeInit, SafeNext, PTL
  DEF Spec, ImplementsTrackers, Promise!Spec

-----------------------------------------------------------------------------
(* Tidy heaps: a structure without memory names no block whose list is a   *)
(* chain, and one that names leftover bytes was made without memory and    *)
(* is as it was made, at address 0.                                        *)
Leftovers(h) ==
  \A c \in Core : h.core[c].links = Wild => h.core[c].start = 0

Tidy(h) == StrayLost(h) /\ Leftovers(h)

(* Tidiness depends on the blocks, and on three fields of the structures.  *)
LEMMA TidyMoves ==
  ASSUME NEW h, NEW g, NEW c \in Core, Tidy(h), g.block = h.block,
         \A x \in Core : g.core[x].links = h.core[x].links,
         \A x \in Core \ {c} : /\ g.core[x].flags = h.core[x].flags
                               /\ g.core[x].start = h.core[x].start,
         "empty" \in g.core[c].flags => Loose(h, c),
         h.core[c].links = Wild => g.core[c].start = 0
  PROVE  Tidy(g)
<1>1. ASSUME NEW x \in Core, "empty" \in g.core[x].flags PROVE Loose(g, x)
  <2>1. Loose(h, x)
    BY <1>1 DEF Tidy, StrayLost
  <2> QED
    BY <2>1 DEF Loose
<1>2. Leftovers(g)
  BY DEF Tidy, Leftovers
<1> QED
  BY <1>1, <1>2 DEF Tidy, StrayLost

(* What leaves a block without fault did not name leftover bytes ...       *)
LEMMA LeaveNamed ==
  ASSUME NEW h \in Heap, NEW c \in Core,
         __track_check_free_mem_block(h, c).fault = NoFault
  PROVE  h.core[c].links # Wild
<1> SUFFICES ASSUME h.core[c].links = Wild, h.fault = NoFault PROVE FALSE
  BY DEF __track_check_free_mem_block
<1>1. LinksFault(h, c) = "wild_pointer"
  BY ValueAssumption DEF LinksFault
<1>2. Broken(h, "wild_pointer").fault # NoFault
  BY DEF Broken, Heap, NoFault
<1> QED
  BY <1>1, <1>2, ValueAssumption DEF __track_check_free_mem_block, NoFault

(* ... nor did that whose block is joined.                                 *)
LEMMA JoinNamed ==
  ASSUME NEW h \in Heap, NEW s \in Core, NEW c \in Core,
         NEW g \in __track_review_mem_links_list(h, s, c), g.fault = NoFault
  PROVE  h.core[s].links # Wild
<1> SUFFICES ASSUME h.core[s].links = Wild PROVE FALSE
  OBVIOUS
<1>1. LinksFault(h, s) = "wild_pointer"
  BY ValueAssumption DEF LinksFault
<1>2. Broken(h, "wild_pointer").fault # NoFault
  BY DEF Broken, Heap, NoFault
<1> QED
  BY <1>1, <1>2 DEF __track_review_mem_links_list, NoFault

(* Leaving a block.                                                        *)
LEMMA LeaveTidy ==
  ASSUME NEW h \in Heap, Exact(h), Owned(h), Tidy(h), NEW c \in Core
  PROVE  LET g == __track_check_free_mem_block(h, c)
         IN  /\ Tidy(g)
             /\ g.fault = NoFault => Loose(g, c)
<1> DEFINE g == __track_check_free_mem_block(h, c)
<1>1. /\ LostStays(h, g)
      /\ g.fault = NoFault => Loose(g, c)
  BY LeaveLost
<1>2. g.core \in {h.core, [h.core EXCEPT ![c].links = Null]}
  BY LeaveKeeps
<1> HIDE DEF g
<1>3. /\ \A x \in Core : g.core[x].flags = h.core[x].flags
      /\ \A x \in Core : g.core[x].start = h.core[x].start
      /\ \A x \in Core : g.core[x].links \in {h.core[x].links, Null}
  BY <1>2 DEF Heap, CoreRec
<1>4. ASSUME NEW x \in Core, "empty" \in g.core[x].flags PROVE Loose(g, x)
  <2>1. Loose(h, x)
    BY <1>3, <1>4 DEF Tidy, StrayLost
  <2> QED
    BY <1>1, <1>3, <2>1, ValueAssumption, LooseKept
<1>5. Leftovers(g)
  BY <1>3, ValueAssumption DEF Tidy, Leftovers
<1> QED
  BY <1>1, <1>4, <1>5 DEF Tidy, StrayLost, g

(* Taking over what n controls: where n has no memory, s must be loose.    *)
LEMMA TakeOverTidy ==
  ASSUME NEW h \in Heap, Exact(h), Owned(h), Tidy(h),
         NEW s \in Core, NEW n \in Core,
         "empty" \in h.core[n].flags => Loose(h, s),
         h.core[s].links # Wild,
         NEW g \in TakeOver(h, s, n), g.fault = NoFault
  PROVE  Tidy(g) /\ h.core[n].links # Wild /\ g.core[s].links # Wild
<1> DEFINE moved == __track_migrate_cur_ptr(h, s, n)
           k == OverwriteChecksum(moved, s)
<1>1. moved \in Heap /\ k \in Heap
  BY MigrateType, OverwriteChecksumType
<1>2. /\ moved.block = h.block
      /\ moved.core[s].flags = h.core[n].flags
      /\ moved.core[s].links = h.core[s].links
      /\ \A x \in Core \ {s} : moved.core[x] = h.core[x]
  BY MigrateParts
<1>3. g \in __track_review_mem_links_list(k, n, s)
  BY DEF TakeOver
<1> HIDE DEF moved
<1>4. k.block = moved.block /\ \A x \in Core : Alike(moved.core[x], k.core[x])
  BY <1>1, OverwriteParts
<1> HIDE DEF k
<1>5. /\ k.block = h.block
      /\ \A x \in Core : k.core[x].links = h.core[x].links
      /\ \A x \in Core \ {s} : /\ k.core[x].flags = h.core[x].flags
                               /\ k.core[x].start = h.core[x].start
      /\ k.core[s].flags = h.core[n].flags
  BY <1>2, <1>4 DEF Alike
<1>6. Tidy(k)
  BY <1>5, TidyMoves
<1>7. Owned(k)
  BY <1>1, <1>5, SameLinks
<1>8. "empty" \in k.core[s].flags => "empty" \in k.core[n].flags
  BY <1>5
<1>9. StrayLost(g)
  BY <1>1, <1>3, <1>6, <1>7, <1>8, JoinStray DEF Tidy
<1>10. g.core \in {k.core, [k.core EXCEPT ![s].links = k.core[n].links]}
  BY <1>1, <1>3, <1>7, JoinKeeps
<1>11. k.core[n].links # Wild
  BY <1>1, <1>3, JoinNamed
<1>12. /\ g.core[s].links # Wild
       /\ \A x \in Core \ {s} : g.core[x] = k.core[x]
  <2>1. k.core[s] \in CoreRec /\ k.core \in [Core -> CoreRec]
    BY <1>1 DEF Heap
  <2>2. CASE g.core = [k.core EXCEPT ![s].links = k.core[n].links]
    <3>1. g.core[s].links = k.core[n].links
      BY <2>1, <2>2 DEF CoreRec
    <3>2. \A x \in Core \ {s} : g.core[x] = k.core[x]
      BY <2>1, <2>2
    <3> QED
      BY <1>11, <3>1, <3>2
  <2>3. CASE g.core = k.core
    BY <1>5, <2>3
  <2> QED
    BY <1>10, <2>2, <2>3
<1>13. Leftovers(g)
  BY <1>6, <1>12 DEF Tidy, Leftovers
<1> QED
  BY <1>5, <1>9, <1>11, <1>12, <1>13 DEF Tidy

(* The first half of track_set_ptr with told, as a copy or a TakeOver.     *)
LEMMA HandOverTidy ==
  ASSUME NEW h \in Heap, Exact(h), Owned(h), Tidy(h),
         NEW s \in Core, NEW o \in Core,
         NEW g \in HandOver(h, s, o), g.fault = NoFault
  PROVE  /\ Tidy(g) /\ g.core[o].links # Wild
         /\ h.core[o].links # Wild /\ h.core[s].links # Wild
<1> DEFINE left  == __track_check_free_mem_block(h, o)
           reset == [left EXCEPT !.core[o].cur = h.core[o].start]
           moved == __track_migrate_cur_ptr(reset, o, s)
<1>1. left \in Heap /\ Exact(left) /\ Owned(left) /\ Tidy(left)
  BY CheckFreeBlockType, CheckFreeBlockExact, LeaveKeeps, LeaveTidy
<1>2. left.fault = NoFault => Loose(left, o) /\ h.core[o].links # Wild
  BY LeaveTidy, LeaveNamed
<1>2a. /\ left.core[o].links \in {h.core[o].links, Null}
       /\ \A x \in Core \ {o} : left.core[x] = h.core[x]
  <2>1. left.core \in {h.core, [h.core EXCEPT ![o].links = Null]}
    BY LeaveKeeps
  <2> HIDE DEF left
  <2> QED
    BY <2>1 DEF Heap, CoreRec
<1> HIDE DEF left
<1>3. reset \in Heap
  <2>1. left.core[o] \in CoreRec /\ h.core[o] \in CoreRec
    BY <1>1 DEF Heap
  <2>2. [left.core[o] EXCEPT !.cur = h.core[o].start] \in CoreRec
    BY <2>1 DEF CoreRec
  <2> QED
    BY <1>1, <2>2, PutCore
<1>4. /\ reset.block = left.block /\ reset.fault = left.fault
      /\ \A x \in Core : /\ reset.core[x].flags = left.core[x].flags
                         /\ reset.core[x].links = left.core[x].links
                         /\ reset.core[x].start = left.core[x].start
  <2>1. /\ reset.block = left.block /\ reset.fault = left.fault
        /\ reset.core = [left.core EXCEPT ![o].cur = h.core[o].start]
    BY <1>1 DEF Heap
  <2> QED
    BY <1>1, <2>1 DEF Heap, CoreRec
<1>5. IF moved.core[s].links = Null THEN g = moved
                                    ELSE g \in TakeOver(reset, o, s)
  BY DEF HandOver, TakeOver, left, reset
<1> HIDE DEF reset
<1>6. /\ moved.block = reset.block /\ moved.fault = reset.fault
      /\ moved.core[o].flags = reset.core[s].flags
      /\ moved.core[o].links = reset.core[o].links
      /\ moved.core[s].links = reset.core[s].links
      /\ \A x \in Core \ {o} : moved.core[x] = reset.core[x]
  BY <1>3, MigrateParts
<1> HIDE DEF moved
<1>7. Exact(reset) /\ Owned(reset)
  BY <1>1, <1>3, <1>4, SameLinks DEF Exact
<1>8. Tidy(reset)
  BY <1>1, <1>4 DEF Tidy, StrayLost, Loose, Leftovers
<1>9. reset.fault = NoFault
  BY <1>3, <1>5, <1>6, <1>7, TakeOverSafe
<1>10. Loose(reset, o)
  BY <1>2, <1>4, <1>9 DEF Loose
<1>11. h.core[o].links # Wild /\ reset.core[o].links # Wild
  BY <1>2, <1>2a, <1>4, <1>9, ValueAssumption
<1>12. Tidy(g) /\ g.core[o].links # Wild /\ reset.core[s].links # Wild
  <2>1. CASE reset.core[s].links = Null
    <3>1. g = moved
      BY <1>5, <1>6, <2>1
    <3>2. \A x \in Core : moved.core[x].links = reset.core[x].links
      BY <1>6
    <3>3. Tidy(moved)
      BY <1>6, <1>8, <1>10, <1>11, <3>2, TidyMoves
    <3> QED
      BY <1>11, <2>1, <3>1, <3>2, <3>3, ValueAssumption
  <2>2. CASE reset.core[s].links # Null
    BY <1>3, <1>5, <1>6, <1>7, <1>8, <1>10, <1>11, <2>2, TakeOverTidy
  <2> QED
    BY <2>1, <2>2
<1>13. h.core[s].links # Wild
  BY <1>2a, <1>4, <1>11, <1>12
<1> QED
  BY <1>11, <1>12, <1>13

(* track_set_ptr where tnew has memory.                                    *)
LEMMA SetPtrTidy ==
  ASSUME heap \in Heap, Exact(heap), Owned(heap), Tidy(heap),
         NEW s \in Core, NEW n \in Core, NEW o \in Core \cup {Null},
         "empty" \notin heap.core[n].flags,
         NEW g \in SetPtrResults(s, n, o), g.fault = NoFault
  PROVE  Tidy(g)
<1>1. PICK k : g \in TakeOver(k, s, n)
                 /\ IF o = Null
                    THEN k = __track_check_free_mem_block(heap, s)
                    ELSE k \in HandOver(heap, s, o)
  BY DEF SetPtrResults
<1>2. k \in Heap /\ Exact(k) /\ Owned(k)
  <2>1. CASE o = Null
    BY <1>1, <2>1, CheckFreeBlockType, CheckFreeBlockExact, LeaveKeeps
  <2>2. CASE o # Null
    BY <1>1, <2>2, HandOverType, HandOverExact, HandOverSafe
  <2> QED
    BY <2>1, <2>2
<1>3. k.fault = NoFault
  BY <1>1, <1>2, TakeOverSafe
<1>4. /\ Tidy(k) /\ k.core[s].links # Wild
      /\ "empty" \in k.core[n].flags => Loose(k, s)
  <2>1. CASE o = Null
    <3>1. Tidy(k) /\ Loose(k, s) /\ heap.core[s].links # Wild
      BY <1>1, <1>3, <2>1, LeaveTidy, LeaveNamed
    <3>2. k.core \in {heap.core, [heap.core EXCEPT ![s].links = Null]}
      BY <1>1, <2>1, LeaveKeeps
    <3>3. k.core[s].links \in {heap.core[s].links, Null}
      BY <3>2 DEF Heap, CoreRec
    <3> QED
      BY <3>1, <3>3, ValueAssumption
  <2>2. CASE o # Null
    <3>1. Tidy(k) /\ heap.core[s].links # Wild
      BY <1>1, <1>3, <2>2, HandOverTidy
    <3>2. /\ k.core[o].flags = heap.core[s].flags
          /\ \A x \in Core \ {o} : k.core[x] = heap.core[x]
      BY <1>1, <1>3, <2>2, HandOverHands
    <3>3. ASSUME "empty" \in k.core[n].flags PROVE Loose(k, s)
      <4>1. n = o
        BY <3>2, <3>3
      <4>2. s # o /\ "empty" \in k.core[s].flags
        BY <2>2, <3>2, <3>3, <4>1
      <4> QED
        BY <3>1, <4>2 DEF Tidy, StrayLost
    <3>4. k.core[s].links # Wild
      <4>1. CASE s # o
        BY <3>1, <3>2, <4>1
      <4>2. CASE s = o
        BY <1>1, <1>3, <2>2, <4>2, HandOverTidy
      <4> QED
        BY <4>1, <4>2
    <3> QED
      BY <3>1, <3>3, <3>4
  <2> QED
    BY <2>1, <2>2
<1> QED
  BY <1>1, <1>2, <1>4, TakeOverTidy

(* Releasing a structure.                                                  *)
LEMMA NodeFreeTidy ==
  ASSUME NEW h \in Heap, Exact(h), Owned(h), Tidy(h), NEW c \in Core \cup {Null}
  PROVE  Tidy(__track_main_list_node_data_free(h, c))
<1> DEFINE g    == __track_main_list_node_data_free(h, c)
           left == __track_check_free_mem_block(h, c)
<1>1. CASE g = Broken(h, "use_after_free")
  <2>1. g.core = h.core /\ g.block = h.block
    BY <1>1 DEF Broken, Heap
  <2> QED
    BY <2>1 DEF Tidy, StrayLost, Loose, Leftovers
<1>2. CASE c \in Core /\ g = [left EXCEPT !.core[c] = FreedCore]
  <2>1. left \in Heap /\ Tidy(left)
    BY <1>2, CheckFreeBlockType, LeaveTidy
  <2> HIDE DEF left
  <2>2. g.core = [left.core EXCEPT ![c] = FreedCore] /\ g.block = left.block
    BY <1>2, <2>1 DEF Heap
  <2> HIDE DEF g
  <2>3. /\ g.core[c] = FreedCore
        /\ \A x \in Core \ {c} : g.core[x] = left.core[x]
    BY <1>2, <2>1, <2>2 DEF Heap
  <2>4. FreedCore.flags = {} /\ FreedCore.links # Wild
    BY ValueAssumption DEF FreedCore
  <2>5. Tidy(g)
    BY <2>1, <2>2, <2>3, <2>4 DEF Tidy, StrayLost, Loose, Leftovers
  <2> QED
    BY <2>5 DEF g
<1> QED
  BY <1>1, <1>2 DEF __track_main_list_node_data_free

-----------------------------------------------------------------------------
(* Calls that return.                                                      *)

(* The rest of a tracker that has bytes can be read.                       *)
LEMMA RestReadable ==
  ASSUME NEW h \in Heap, NEW p \in Core, Safe(h, p),
         "empty" \notin h.core[p].flags, ~(h.core[p].end < h.core[p].cur)
  PROVE  Readable(h, h.core[p].cur, Wrap(h.core[p].end - h.core[p].cur))
<1> DEFINE r == h.core[p]
<1>1. PICK b \in Block : Within(h, p, b)
  BY DEF Safe
<1>2. /\ r.start \in Addr /\ r.cur \in Addr /\ r.end \in Addr
      /\ h.block[b].size \in 0 .. MaxSize
  BY DEF Heap, CoreRec, BlockRec
<1>3. b \in Nat /\ MaxSize \in Nat /\ AddrSpace \in Nat
  BY BlockAddr, LayoutAssumption
<1>4. r.cur <= r.end /\ r.end - r.cur \in Addr
  BY <1>2, <1>3 DEF Addr
<1>5. Wrap(r.end - r.cur) = r.end - r.cur
  BY <1>3, <1>4 DEF Wrap, Addr
<1>6. /\ h.block[b].live /\ b <= r.cur
      /\ r.cur + (r.end - r.cur) <= b + h.block[b].size
  BY <1>1, <1>2, <1>3, <1>4 DEF Within, Addr
<1> QED
  BY <1>5, <1>6 DEF Readable

(* Taking over what can be read, in a block whose list is a chain, returns *)
(* and breaks no chain.                                                    *)
LEMMA TakeOverReturns ==
  ASSUME NEW h \in Heap, Exact(h), Owned(h), h.fault = NoFault,
         NEW s \in Core, NEW n \in Core, h.core[n].links \in Block,
         Chain(h.block[h.core[n].links].links),
         Readable(h, h.core[n].cur, Wrap(h.core[n].end - h.core[n].cur)),
         NEW g \in TakeOver(h, s, n)
  PROVE  /\ g.fault = NoFault
         /\ \A a \in Block : Chain(h.block[a].links) => Chain(g.block[a].links)
<1> DEFINE moved == __track_migrate_cur_ptr(h, s, n)
           k == OverwriteChecksum(moved, s)
<1>1. moved \in Heap /\ k \in Heap /\ Exact(k)
  BY MigrateType, OverwriteChecksumType, MigrateExact, OverwriteExact
<1>2. /\ moved.block = h.block /\ moved.fault = h.fault
      /\ moved.core[s].start = h.core[n].cur
      /\ moved.core[s].links = h.core[s].links
      /\ \A x \in Core \ {s} : moved.core[x] = h.core[x]
  BY MigrateParts
<1>3. moved.core[s].msize = Wrap(h.core[n].end - h.core[n].cur)
  <2>1. moved.core[s] = [h.core[s] EXCEPT
                 !.start = h.core[n].cur, !.cur = h.core[n].cur,
                 !.end = h.core[n].end,
                 !.msize = Wrap(h.core[n].end - h.core[n].cur),
                 !.flags = h.core[n].flags]
    BY DEF __track_migrate_cur_ptr, Heap
  <2> HIDE DEF moved
  <2> QED
    BY <2>1 DEF Heap, CoreRec
<1>4. g \in __track_review_mem_links_list(k, n, s)
  BY DEF TakeOver
<1> HIDE DEF moved
<1>5. CanChecksum(moved, s)
  BY <1>2, <1>3 DEF CanChecksum, Readable
<1>6. k.fault = NoFault
  <2>1. k = [moved EXCEPT !.core[s].sum =
                             __track_calc_memory_checksum(moved, s)]
    BY <1>2, <1>5 DEF OverwriteChecksum
  <2> HIDE DEF k
  <2> QED
    BY <1>1, <1>2, <2>1 DEF Heap
<1>7. k.block = moved.block /\ \A x \in Core : Alike(moved.core[x], k.core[x])
  BY <1>1, OverwriteParts
<1> HIDE DEF k
<1>8. k.block = h.block /\ \A x \in Core : k.core[x].links = h.core[x].links
  BY <1>2, <1>7 DEF Alike
<1>9. Owned(k)
  BY <1>1, <1>8, SameLinks
<1>10. /\ k.core[n].links \in Block
       /\ Chain(k.block[k.core[n].links].links)
  BY <1>8
<1> QED
  BY <1>1, <1>4, <1>6, <1>8, <1>9, <1>10, JoinChains

(* Handing over returns, and breaks no other chain than that of the block  *)
(* which told leaves.                                                      *)
LEMMA HandOverReturns ==
  ASSUME NEW h \in Heap, Exact(h), Owned(h), Tidy(h), h.fault = NoFault,
         NEW s \in Core, NEW o \in Core, Safe(h, s),
         h.core[s].links # Wild, h.core[o].links # Wild,
         "empty" \in h.core[s].flags \/ ~(h.core[s].end < h.core[s].cur),
         \A b \in Block : Chain(h.block[b].links),
         o # s => h.core[o].links = Null \/ h.core[o].links # h.core[s].links,
         NEW g \in HandOver(h, s, o)
  PROVE  /\ g.fault = NoFault
         /\ \A a \in Block : a # h.core[o].links => Chain(g.block[a].links)
<1> DEFINE left  == __track_check_free_mem_block(h, o)
           reset == [left EXCEPT !.core[o].cur = h.core[o].start]
           moved == __track_migrate_cur_ptr(reset, o, s)
<1>0. left \in Heap /\ Exact(left)
  BY CheckFreeBlockType, CheckFreeBlockExact
<1>1. /\ left.fault = NoFault
      /\ left.core[o].links = Null
      /\ \A a \in Block : a # h.core[o].links => left.block[a] = h.block[a]
  BY LeaveChains
<1>2. /\ Owned(left)
      /\ \A p \in Core \ {o} : left.core[p] = h.core[p]
      /\ s # o => Safe(left, s)
  BY LeaveSafe DEF SafeOrGone
<1> HIDE DEF left
<1>3. reset \in Heap
  <2>1. left.core[o] \in CoreRec /\ h.core[o] \in CoreRec
    BY <1>0 DEF Heap
  <2>2. [left.core[o] EXCEPT !.cur = h.core[o].start] \in CoreRec
    BY <2>1 DEF CoreRec
  <2> QED
    BY <1>0, <2>2, PutCore
<1>4. /\ reset.block = left.block /\ reset.fault = left.fault
      /\ reset.core[o].links = Null
      /\ \A x \in Core \ {o} : reset.core[x] = left.core[x]
  <2>1. /\ reset.block = left.block /\ reset.fault = left.fault
        /\ reset.core = [left.core EXCEPT ![o].cur = h.core[o].start]
    BY <1>0 DEF Heap
  <2> QED
    BY <1>0, <1>1, <2>1 DEF Heap, CoreRec
<1>5. IF moved.core[s].links = Null THEN g = moved
                                    ELSE g \in TakeOver(reset, o, s)
  BY DEF HandOver, TakeOver, left, reset
<1> HIDE DEF reset
<1>6. /\ moved.block = reset.block /\ moved.fault = reset.fault
      /\ moved.core[s].links = reset.core[s].links
  BY <1>3, MigrateParts
<1> HIDE DEF moved
<1>7. CASE reset.core[s].links = Null
  BY <1>1, <1>4, <1>5, <1>6, <1>7
<1>8. CASE reset.core[s].links # Null
  <2> DEFINE b == h.core[s].links
  <2>1. s # o /\ reset.core[s] = h.core[s] /\ left.core[s] = h.core[s]
    BY <1>2, <1>4, <1>8
  <2>2. b \in Block
    BY <1>8, <2>1 DEF Heap, CoreRec
  <2>3. b # h.core[o].links
    BY <2>1, <2>2, ValueAssumption
  <2>4. "empty" \notin h.core[s].flags
    <3>1. h.block[b].links \in ListOf(Core) /\ Chain(h.block[b].links)
      BY <2>2 DEF Heap, BlockRec
    <3>2. ~Lost(h.block[b].links)
      BY <3>1, LostBreaks
    <3> QED
      BY <2>2, <3>2 DEF Tidy, StrayLost, Loose
  <2>5. Readable(left, h.core[s].cur, Wrap(h.core[s].end - h.core[s].cur))
    BY <1>0, <1>2, <2>1, <2>4, RestReadable
  <2>6. Readable(reset, reset.core[s].cur,
                 Wrap(reset.core[s].end - reset.core[s].cur))
    BY <1>4, <2>1, <2>5 DEF Readable
  <2>7. /\ reset.core[s].links \in Block
        /\ Chain(reset.block[reset.core[s].links].links)
    BY <1>1, <1>4, <2>1, <2>2, <2>3
  <2>8. Exact(reset) /\ Owned(reset) /\ reset.fault = NoFault
    <3>1. Exact(reset)
      BY <1>0, <1>4 DEF Exact
    <3>2. Owned(reset)
      BY <1>2, <1>1, <1>4 DEF Owned
    <3> QED
      BY <1>1, <1>4, <3>1, <3>2
  <2>9. g \in TakeOver(reset, o, s)
    BY <1>5, <1>6, <1>8
  <2>10. /\ g.fault = NoFault
         /\ \A a \in Block :
              Chain(reset.block[a].links) => Chain(g.block[a].links)
    BY <1>3, <2>6, <2>7, <2>8, <2>9, TakeOverReturns
  <2> QED
    BY <1>1, <1>4, <2>10
<1> QED
  BY <1>7, <1>8

(* track_set_ptr of trackers that have bytes and do not share the block    *)
(* that is left.                                                           *)
LEMMA SetPtrReturns ==
  ASSUME "link" \notin MayFail,
         heap \in Heap, Exact(heap), Owned(heap), Tidy(heap), fault = NoFault,
         \A b \in Block : Chain(block[b].links),
         NEW s \in Core, NEW n \in Core, NEW o \in Core \cup {Null},
         Safe(heap, s), Safe(heap, n),
         ~Empty(n), ~NoBytes(n), o # Null => ~NoBytes(s),
         ~Entangled(s, n, o),
         \A p \in {s, n, o} \ {Null} : ~Leftover(p),
         NEW g \in SetPtrResults(s, n, o)
  PROVE  g.fault = NoFault
<1> DEFINE u == IF o = Null THEN s ELSE o
           P == core[n].links
<1>0. heap.core = core /\ heap.block = block /\ heap.fault = NoFault
  BY DEF heap
<1>0a. /\ core[s].links # Wild /\ core[n].links # Wild
       /\ o # Null => core[o].links # Wild
  BY ValueAssumption DEF Leftover
<1>1. PICK k : g \in TakeOver(k, s, n)
                 /\ IF o = Null
                    THEN k = __track_check_free_mem_block(heap, s)
                    ELSE k \in HandOver(heap, s, o)
  BY DEF SetPtrResults
<1>2. P \in Block
  <2>1. P # Null /\ P # Wild
    BY <1>0a DEF Entangled
  <2> QED
    BY <1>0, <2>1 DEF Heap, CoreRec
<1>3. n # u /\ P # core[u].links
  BY <1>2, ValueAssumption DEF Entangled
<1>4. /\ k \in Heap /\ Exact(k) /\ Owned(k) /\ k.fault = NoFault
      /\ k.core[n] = core[n]
      /\ Safe(k, n)
      /\ Chain(k.block[P].links)
  <2>1. CASE o = Null
    <3>1. k \in Heap /\ Exact(k) /\ Owned(k) /\ k.core[n] = core[n]
          /\ Safe(k, n)
      BY <1>0, <1>1, <1>3, <2>1, CheckFreeBlockType, CheckFreeBlockExact,
         LeaveSafe DEF SafeOrGone
    <3>2. k.fault = NoFault /\ k.block[P] = heap.block[P]
      BY <1>0, <1>0a, <1>1, <1>2, <1>3, <2>1, LeaveChains
    <3> QED
      BY <1>0, <1>2, <3>1, <3>2
  <2>2. CASE o # Null
    <3>0. o \in Core /\ k \in HandOver(heap, s, o)
      BY <1>1, <2>2
    <3>1. "empty" \in heap.core[s].flags
            \/ ~(heap.core[s].end < heap.core[s].cur)
      BY <1>0, <2>2 DEF NoBytes, Empty
    <3>2. o # s => \/ heap.core[o].links = Null
                   \/ heap.core[o].links # heap.core[s].links
      BY <1>0, <2>2 DEF Entangled
    <3>3. k.fault = NoFault /\ Chain(k.block[P].links)
      BY <1>0, <1>0a, <1>2, <1>3, <2>2, <3>0, <3>1, <3>2, HandOverReturns
    <3>4. k.core[n] = core[n]
      BY <1>0, <1>3, <2>2, <3>0, <3>3, HandOverHands
    <3>5. k \in Heap /\ Exact(k) /\ Owned(k) /\ SafeOrGone(k, n, s)
      BY <3>0, <3>3, HandOverType, HandOverExact, HandOverSafe
    <3>6. Safe(k, n)
      BY <1>2, <3>4, <3>5, ValueAssumption DEF SafeOrGone
    <3> QED
      BY <3>3, <3>4, <3>5, <3>6
  <2> QED
    BY <2>1, <2>2
<1>5. Readable(k, k.core[n].cur, Wrap(k.core[n].end - k.core[n].cur))
  BY <1>4, RestReadable DEF Empty, NoBytes
<1> QED
  BY <1>1, <1>2, <1>4, <1>5, TakeOverReturns

-----------------------------------------------------------------------------
(* Every step leaves the heap tidy.                                        *)

(* A step that changes neither the blocks nor what names them.             *)
LEMMA SameTidy ==
  ASSUME Tidy(heap), block' = block,
         \A c \in Core : core'[c].links = core[c].links,
         \A c \in Core : /\ core'[c].flags = core[c].flags
                         /\ core'[c].start = core[c].start
  PROVE  Tidy(heap)'
  BY DEF Tidy, StrayLost, Loose, Leftovers, heap

(* A call that answers, or whose behaviour is undefined.                   *)
LEMMA AnswerTidy ==
  ASSUME Tidy(heap),
         \/ \E e, r : Answer(e, r)
         \/ \E why : Crash(why)
         \/ \E args : Rejects(args)
  PROVE  Tidy(heap)'
<1>1. core' = core /\ block' = block
  BY DEF Answer, Crash, Rejects, heapVars
<1> QED
  BY <1>1, SameTidy

(* A call that returns a tidy heap.                                        *)
LEMMA ReturnTidy ==
  ASSUME Tidy(heap), NEW h, NEW l, NEW hs, Return(h, l, hs),
         h.fault = NoFault => Tidy(h)
  PROVE  Tidy(heap)'
<1>1. CASE Crash(h.fault)
  BY <1>1, AnswerTidy
<1>2. CASE h.fault = NoFault /\ core' = h.core /\ block' = h.block
  BY <1>2 DEF Tidy, StrayLost, Loose, Leftovers, heap
<1> QED
  BY <1>1, <1>2 DEF Return

(* A new structure names the new block, or none.                           *)
LEMMA WithNewCoreTidy ==
  ASSUME TypeOK, Exact(heap), Tidy(heap), NEW a \in Block \cup {Null},
         a # Null => ~block[a].live,
         NEW msize \in 0 .. MaxSize, NEW flags, NEW fill,
         a # Null => "empty" \notin flags,
         NEW c \in Core, NEW n \in Node, NEW g \in Garbage,
         NEW w, w = WithNewCore(a, msize, flags, fill, c, n, g)
  PROVE  Tidy(w)
<1>0. heap \in Heap /\ heap.core = core /\ heap.block = block
  BY HeapTyped DEF heap
<1>1. CASE a = Null
  <2> DEFINE r == NewCore(0, 0, {"empty"}, g)
  <2>1. w.core = [core EXCEPT ![c] = r] /\ w.block = block
    <3>1. w = CoreAdded(a, msize, flags, fill, c, n, g)
      BY ONLY TypeOK, w = WithNewCore(a, msize, flags, fill, c, n, g), NewCoreIs
    <3> QED
      BY <1>1, <3>1 DEF CoreAdded, heap
  <2>2. r.links \notin Block /\ r.start = 0
    BY <1>1, ClientAssumption, ValueAssumption DEF NewCore, CoreAt
  <2> HIDE DEF r
  <2>3. /\ w.core[c] = r
        /\ \A x \in Core \ {c} : w.core[x] = core[x]
    BY <1>0, <2>1 DEF Heap
  <2> QED
    BY <1>0, <2>1, <2>2, <2>3 DEF Tidy, StrayLost, Loose, Leftovers
<1>2. CASE a # Null
  <2>0. a \in Block /\ ~block[a].live
    BY <1>2
  <2>1. /\ w.core[c].flags = flags /\ w.core[c].links = a
        /\ \A x \in Core \ {c} : w.core[x] = core[x]
        /\ w.block = [block EXCEPT ![a] = NewBlock(msize, c, n)]
    <3>1. Spans(w, a, msize, flags, c, n)
      BY <2>0, NewCoreParts
    <3> QED
      BY <3>1 DEF Spans
  <2>2. \A b \in Block \ {a} : w.block[b] = block[b]
    BY <1>0, <2>1 DEF Heap
  <2>3. ~Lost(block[a].links)
    BY <1>0, <2>0 DEF Exact, ExactBlock, Lost
  <2>4. ASSUME NEW x \in Core, "empty" \in w.core[x].flags PROVE Loose(w, x)
    <3>1. x # c
      BY <1>2, <2>1, <2>4
    <3>2. w.core[x] = heap.core[x] /\ Loose(heap, x)
      BY <1>0, <2>1, <2>4, <3>1 DEF Tidy, StrayLost
    <3> QED
      BY <1>0, <2>2, <2>3, <3>2 DEF Loose
  <2>5. Leftovers(w)
    BY <1>0, <2>0, <2>1, ValueAssumption DEF Tidy, Leftovers
  <2> QED
    BY <2>4, <2>5 DEF Tidy, StrayLost
<1> QED
  BY <1>1, <1>2

(* Making a tracker.                                                       *)
LEMMA CreateTidy ==
  ASSUME SafeInv, Tidy(heap), NEW a \in Block \cup {Null},
         NEW msize \in 0 .. MaxSize, NEW flags \in SUBSET Flag, NEW fill,
         a # Null => /\ block[a] = FreedBlock
                     /\ fill \in [a .. a + msize - 1 -> Byte],
         a # Null => "empty" \notin flags,
         __track_create_memory_control(a, msize, flags, fill)
  PROVE  Tidy(heap)'
<1>0. TypeOK /\ Exact(heap)
  BY SafeInvHeap
<1>1. CASE GivenUp \/ (\E e, r : Answer(e, r))
             \/ (\E why : Crash(why))
  <2>1. core' = core /\ block' = block
    BY <1>1 DEF GivenUp, Answer, Crash, heapVars
  <2> QED
    BY <2>1, SameTidy
<1>2. ASSUME NEW c \in Core, NEW g \in Garbage, NEW n \in Allocatable(EmptyList),
             NEW m \in Allocatable(main),
             PushCore(WithNewCore(a, msize, flags, fill, c, n, g), c, m)
      PROVE  Tidy(heap)'
  <2>1. PICK h : h = WithNewCore(a, msize, flags, fill, c, n, g)
    OBVIOUS
  <2> DEFINE k == [h EXCEPT !.core[c].ptrid = m]
  <2>2. n \in Node
    BY AllocatableType
  <2>3. h \in Heap
    BY <1>0, <2>1, <2>2, WithNewCoreType
  <2>4. Tidy(h)
    BY <1>0, <2>1, <2>2, WithNewCoreTidy DEF FreedBlock
  <2>5. /\ k.block = h.block
        /\ \A x \in Core : /\ k.core[x].links = h.core[x].links
                           /\ k.core[x].flags = h.core[x].flags
                           /\ k.core[x].start = h.core[x].start
    BY <2>3 DEF Heap, CoreRec
  <2>6. (\E l, hs : Return(k, l, hs)) \/ Crash("use_after_free")
    BY <1>2, <2>1 DEF PushCore, Push
  <2> HIDE DEF k
  <2>7. Tidy(k)
    BY <2>4, <2>5 DEF Tidy, StrayLost, Loose, Leftovers
  <2> QED
    BY <2>6, <2>7, ReturnTidy, AnswerTidy
<1> QED
  BY <1>0, <1>1, <1>2, CreateSteps

(* Every step.                                                             *)
LEMMA StepTidy ==
  ASSUME SafeInv, Tidy(heap), [Next]_vars
  PROVE  Tidy(heap)'
<1>0. /\ TypeOK /\ heap \in Heap /\ Exact(heap) /\ Owned(heap)
      /\ handle \subseteq Core /\ main \in ListOf(Core)
      /\ heap.core = core /\ heap.block = block
  BY SafeInvHeap
<1>1. CASE \/ track_init \/ track_last_error \/ track_destroy
           \/ DestroyEnd \/ Stopped \/ UNCHANGED vars
           \/ \E p \in handle, v \in Byte : UserWrite(p, v)
  <2>1. core' = core /\ block' = block
    BY <1>1
    DEF track_init, track_last_error, track_destroy, DestroyEnd,
        DestroyReturn, Stopped, UserWrite, Rejects, Answer, Crash, vars,
        heapVars
  <2> QED
    BY <2>1, SameTidy
<1>2. ASSUME NEW p \in Arg, track_check_mem(p) \/ track_overwrite_checksum(p)
      PROVE  Tidy(heap)'
  <2>1. CASE track_check_mem(p)
    BY <2>1, AnswerTidy DEF track_check_mem
  <2>2. CASE Rejects({p})
    BY <2>2, AnswerTidy
  <2>3. CASE /\ Accepts({p})
             /\ Return(OverwriteChecksum(heap, p), main, handle)
    <3> DEFINE h == OverwriteChecksum(heap, p)
    <3>1. p \in Core
      BY <1>0, <2>3, ArgType DEF Accepts
    <3>2. /\ h.block = heap.block
          /\ \A x \in Core : Alike(heap.core[x], h.core[x])
      BY <1>0, <3>1, OverwriteParts
    <3> HIDE DEF h
    <3>3. Tidy(h)
      BY <3>2 DEF Alike, Tidy, StrayLost, Loose, Leftovers
    <3> QED
      BY <2>3, <3>3, ReturnTidy DEF h
  <2> QED
    BY <1>2, <2>1, <2>2, <2>3 DEF track_overwrite_checksum
<1>3. ASSUME NEW p \in Arg, NEW k, track_move_ptr(p, k) PROVE Tidy(heap)'
  <2>1. CASE \/ \E e, r : Answer(e, r)
             \/ \E why : Crash(why)
             \/ \E args : Rejects(args)
    BY <2>1, AnswerTidy
  <2>2. ASSUME NEW a, Return([heap EXCEPT !.core[p].cur = a], main, handle)
        PROVE  Tidy(heap)'
    <3> DEFINE h == [heap EXCEPT !.core[p].cur = a]
    <3>1. h.core = [core EXCEPT ![p].cur = a] /\ h.block = block
      BY <1>0 DEF heap
    <3> HIDE DEF h
    <3>2. \A x \in Core : /\ h.core[x].links = core[x].links
                          /\ h.core[x].flags = core[x].flags
                          /\ h.core[x].start = core[x].start
      BY <1>0, <3>1 DEF Heap, CoreRec
    <3>3. Tidy(h)
      BY <1>0, <3>1, <3>2 DEF Tidy, StrayLost, Loose, Leftovers
    <3> QED
      BY <2>2, <3>3, ReturnTidy DEF h
  <2> QED
    BY <1>3, <2>1, <2>2 DEF track_move_ptr, __track_ptr_move, MoveTo
<1>4. ASSUME NEW p \in Arg, NEW step,
             TRACK_INC(p, step) \/ TRACK_DEC(p, step)
      PROVE  Tidy(heap)'
  BY <1>3, <1>4, AnswerTidy DEF TRACK_INC, TRACK_DEC
<1>5. ASSUME NEW d, NEW s, NEW n, track_memcpy(d, s, n) PROVE Tidy(heap)'
  <2>1. core' = core /\ block' = block
    BY <1>5
    DEF track_memcpy, Copy, Copied, Return, Rejects, Answer, Crash, heap,
        heapVars
  <2> QED
    BY <2>1, SameTidy
<1>6. ASSUME NEW p \in Arg, track_free(p) PROVE Tidy(heap)'
  <2> DEFINE c == main.data[core[p].ptrid]
             h == __track_main_list_node_data_free(heap, c)
  <2>1. CASE \/ \E why : Crash(why)
             \/ \E args : Rejects(args)
    BY <2>1, AnswerTidy
  <2>2. CASE /\ Accepts({p}) /\ pc = "idle"
             /\ \E l, hs : Return(h, l, hs)
    <3>1. p \in handle
      BY <2>2, ClientAssumption DEF Accepts, Arg
    <3>2. c = p
      BY <2>2, <3>1 DEF SafeInv, Listed
    <3>3. Tidy(h)
      BY <1>0, <3>1, <3>2, NodeFreeTidy
    <3> QED
      BY <2>2, <3>3, ReturnTidy
  <2> QED
    BY <1>6, <2>1, <2>2 DEF track_free, Enters
<1>7. CASE DestroyNode
  <2> DEFINE h == __track_main_list_node_data_free(heap, main.data[pos])
  <2>1. pos \in Node
    BY <1>0, <1>7 DEF DestroyNode, TypeOK, Ref
  <2>2. main.data[pos] \in Core \cup {Null}
    BY <1>0, <2>1 DEF ListOf
  <2>3. Tidy(h)
    BY <1>0, <2>2, NodeFreeTidy
  <2> HIDE DEF h
  <2>4. \/ core' = h.core /\ block' = h.block
        \/ core' = core /\ block' = block
    BY <1>7 DEF DestroyNode, Crash, heapVars, h
  <2>5. core' = h.core /\ block' = h.block => Tidy(heap)'
    BY <2>3 DEF Tidy, StrayLost, Loose, Leftovers, heap
  <2> QED
    BY <2>4, <2>5, SameTidy
<1>8. ASSUME NEW s \in Arg, NEW n \in Arg, NEW o \in handle \cup {Null},
             track_set_ptr(s, n, o)
      PROVE  Tidy(heap)'
  <2>1. CASE \/ \E e, r : Answer(e, r)
             \/ \E args : Rejects(args)
    BY <2>1, AnswerTidy
  <2>2. CASE /\ Accepts({s, n})
             /\ "empty" \notin core[n].flags
             /\ \E h \in SetPtrResults(s, n, o) : Return(h, main, handle)
    <3>1. s \in Core /\ n \in Core /\ o \in Core \cup {Null}
      BY <1>0, <2>2, ClientAssumption DEF Accepts, Arg
    <3>2. PICK h \in SetPtrResults(s, n, o) : Return(h, main, handle)
      BY <2>2
    <3>3. h.fault = NoFault => Tidy(h)
      BY <1>0, <2>2, <3>1, SetPtrTidy
    <3> QED
      BY <3>2, <3>3, ReturnTidy
  <2> QED
    BY <1>8, <2>1, <2>2 DEF track_set_ptr
<1>9. ASSUME NEW msize \in Sizes, NEW flags \in FlagSets,
             track_malloc(msize, flags)
      PROVE  Tidy(heap)'
  <2>1. CASE \/ \E e, r : Answer(e, r)
             \/ \E args : Rejects(args)
    BY <2>1, AnswerTidy
  <2>2. ASSUME NEW a \in Block, block[a] = FreedBlock,
               NEW fill \in [a .. a + msize - 1 -> Byte],
               __track_create_memory_control(a, msize, flags, fill)
        PROVE  Tidy(heap)'
    <3>1. /\ msize \in 0 .. MaxSize
          /\ flags \in SUBSET Flag /\ "empty" \notin flags
      BY ClientAssumption DEF Flag
    <3>2. a # Null
      BY ValueAssumption
    <3> QED
      BY <2>2, <3>1, <3>2, CreateTidy
  <2> QED
    BY <1>9, <2>1, <2>2 DEF track_malloc
<1>10. CASE track_make_empty
  <2>1. CASE \E args : Rejects(args)
    BY <2>1, AnswerTidy
  <2>2. CASE /\ "make_empty" \in Calls
             /\ __track_create_memory_control(Null, 0, {"empty"}, <<>>)
    <3>1. 0 \in 0 .. MaxSize /\ {"empty"} \in SUBSET Flag
      BY LayoutAssumption DEF Flag
    <3> QED
      BY <2>2, <3>1, CreateTidy
  <2> QED
    BY <1>10, <2>1, <2>2 DEF track_make_empty, Enters
<1> QED
  BY <1>1, <1>2, <1>3, <1>4, <1>5, <1>6, <1>7, <1>8, <1>9, <1>10 DEF Next

-----------------------------------------------------------------------------
(* The invariant.  Inside track_destroy the counter of the main list stays *)
(* behind its nodes from the first one freed; until then all is as it was. *)
Held1(p) ==
  /\ core[p].live
  /\ core[p].ptrid \in main.used
  /\ main.data[core[p].ptrid] = p
  /\ "link" \notin MayFail => Safe(heap, p)

Begun ==
  pc = "destroy" =>
    /\ main.cnt >= Cardinality(main.used)
    /\ main.cnt = Cardinality(main.used) => \A p \in handle : Held1(p)

TidyInv == SafeInv /\ Tidy(heap) /\ Begun

(* It holds before the first call.                                         *)
LEMMA TidyInit == Init => TidyInv
<1> SUFFICES ASSUME Init PROVE TidyInv
  OBVIOUS
<1>1. \A c \in Core : heap.core[c].links = Null /\ heap.core[c].flags = {}
  BY DEF Init, heap, FreedCore
<1>2. Tidy(heap)
  BY <1>1, ValueAssumption DEF Tidy, StrayLost, Leftovers
<1>3. Begun
  BY DEF Init, Begun
<1> QED
  BY <1>2, <1>3, SafeInit DEF TidyInv

(* What the program holds while the main list is a chain.                  *)
LEMMA ChainHeld ==
  ASSUME TidyInv, Chain(main), NEW p \in handle
  PROVE  Held1(p)
<1>1. CASE pc = "idle"
  BY <1>1 DEF TidyInv, SafeInv, Listed, AllSafe, Held1
<1>2. CASE pc = "destroy"
  BY <1>2 DEF TidyInv, Begun, Chain
<1> QED
  BY <1>1, <1>2, SafeInvHeap DEF TidyInv, TypeOK

(* Only the steps of track_destroy begin and end it.                       *)
LEMMA OtherIdle ==
  ASSUME [Next]_vars, pc' = "destroy"
  PROVE  track_destroy \/ DestroyNode \/ UNCHANGED <<core, block, main, handle, pc>>
<1>1. /\ \A e, r : Answer(e, r) => pc' = pc
      /\ \A why : Crash(why) => pc' = pc
      /\ \A args : Rejects(args) => pc' = pc
      /\ \A h, l, hs : Return(h, l, hs) => pc' = pc
      /\ \A h, a, c : Abandon(h, a, c) => pc' = pc
  BY DEF Answer, Crash, Rejects, Return, Abandon, clientVars
<1>2. \A a, msize, flags, fill :
        __track_create_memory_control(a, msize, flags, fill) => pc' = pc
  <2> SUFFICES ASSUME NEW a, NEW msize, NEW flags, NEW fill,
                      __track_create_memory_control(a, msize, flags, fill)
               PROVE  pc' = pc
    OBVIOUS
  <2>1. \A h, c, m : PushCore(h, c, m) => pc' = pc
    BY <1>1 DEF PushCore, Push
  <2>2. \/ \E e, r : Answer(e, r)
        \/ \E why : Crash(why)
        \/ \E h, x, c : Abandon(h, x, c)
        \/ \E h, c, m : PushCore(h, c, m)
    BY DEF __track_create_memory_control
  <2> QED
    BY ONLY <1>1, <2>1, <2>2
<1>3. \A p, k : track_move_ptr(p, k) => pc' = pc /\ pc = "idle"
  BY <1>1 DEF track_move_ptr, __track_ptr_move, MoveTo, Enters
<1>4. \A p, step : TRACK_INC(p, step) \/ TRACK_DEC(p, step) =>
        pc' = pc /\ pc = "idle"
  BY <1>1, <1>3 DEF TRACK_INC, TRACK_DEC, Enters
<1>5. \A d, s, n : track_memcpy(d, s, n) \/ track_set_ptr(d, s, n) =>
        pc' = pc /\ pc = "idle"
  BY <1>1 DEF track_memcpy, Copy, track_set_ptr, Enters
<1>6. \A p, k : track_free(p) \/ track_overwrite_checksum(p)
                  \/ track_check_mem(p) \/ UserWrite(p, k) =>
        pc' = pc /\ pc = "idle"
  BY <1>1 DEF track_free, track_overwrite_checksum, track_check_mem,
              UserWrite, Enters, clientVars
<1>7. \A m, f : track_malloc(m, f) \/ track_make_empty \/ track_init
                  \/ track_last_error =>
        pc' = pc /\ pc = "idle"
  BY <1>1, <1>2 DEF track_malloc, track_make_empty, track_init,
                    track_last_error, Enters, clientVars
<1>8. DestroyEnd => pc' = "idle"
  BY DEF DestroyEnd, DestroyReturn
<1>9. Stopped \/ UNCHANGED vars => UNCHANGED <<core, block, main, handle, pc>>
  BY DEF Stopped, vars, heapVars, clientVars
<1> QED
  BY <1>3, <1>4, <1>5, <1>6, <1>7, <1>8, <1>9 DEF Next

(* What track_destroy relies on holds at its start, and until it frees a  *)
(* node whatever it still holds is whole.                                  *)
LEMMA StepBegun ==
  ASSUME SafeInv, Begun, [Next]_vars
  PROVE  Begun'
<1> SUFFICES ASSUME pc' = "destroy" PROVE Begun'
  BY DEF Begun
<1>1. CASE track_destroy
  <2>1. inited /\ pc = "idle" /\ UNCHANGED <<core, block, main, handle>>
    BY <1>1 DEF track_destroy, Enters, Rejects, Answer, clientVars, heapVars
  <2>2. main.cnt = Cardinality(main.used)
    BY <2>1 DEF SafeInv, CountInv, MainExact, Counted
  <2>3. \A p \in handle : Held1(p)
    BY <2>1 DEF SafeInv, Listed, AllSafe, Held1
  <2>4. Cardinality(main.used) \in Nat
    BY SafeInvHeap, UsedBound
  <2>5. \A p \in handle : Held1(p)'
    BY <2>1, <2>3 DEF Held1, Safe, Within, Kept, Spare, heap
  <2> QED
    BY <2>1, <2>2, <2>4, <2>5 DEF Begun
<1>2. CASE DestroyNode /\ main' = FreeNode(main, pos) /\ pos \in main.used
  <2>1. /\ main \in ListOf(Core) /\ IsFiniteSet(main.used)
        /\ Cardinality(main.used) \in Nat
    BY SafeInvHeap, UsedBound
  <2>2. main'.used = main.used \ {pos} /\ main'.cnt = main.cnt
    BY <1>2, <2>1 DEF FreeNode, ListOf
  <2>3. Cardinality(main'.used) = Cardinality(main.used) - 1
    BY <1>2, <2>1, <2>2, FS_RemoveElement
  <2>4. main.cnt \in Int /\ main.cnt >= Cardinality(main.used)
    BY <1>2, <2>1 DEF Begun, DestroyNode, ListOf
  <2> QED
    BY <2>1, <2>2, <2>3, <2>4 DEF Begun
<1>3. CASE UNCHANGED <<core, block, main, handle, pc>>
  BY <1>3 DEF Begun, Held1, Safe, Within, Kept, Spare, heap
<1>4. DestroyNode =>
        \/ main' = FreeNode(main, pos) /\ pos \in main.used
        \/ UNCHANGED <<core, block, main, handle, pc>>
  BY DEF DestroyNode, Crash, heapVars, clientVars
<1> QED
  BY <1>1, <1>2, <1>3, <1>4, OtherIdle

(* Every step keeps the invariant.                                         *)
LEMMA TidyNext == TidyInv /\ [Next]_vars => TidyInv'
  BY SafeNext, StepTidy, StepBegun DEF TidyInv

(* While the lists are chains, no removal goes wrong ...                   *)
LEMMA TidyInvRemoves == TidyInv => RemovalsReturn
<1> SUFFICES ASSUME TidyInv, Chains, fault = NoFault, NEW p \in handle
             PROVE  /\ CanRemove(main, core[p].ptrid)
                    /\ ~Leftover(p) =>
                         __track_main_list_node_data_free(heap, p).fault
                           = NoFault
  BY DEF RemovalsReturn
<1>0. /\ heap \in Heap /\ Exact(heap) /\ Owned(heap)
      /\ handle \subseteq Core /\ main \in ListOf(Core)
      /\ heap.core = core /\ heap.block = block /\ heap.fault = NoFault
  BY SafeInvHeap DEF TidyInv, heap
<1>1. Chain(main) /\ \A b \in Block : Chain(block[b].links)
  BY DEF Chains
<1>2. core[p].ptrid \in main.used /\ core[p].live /\ p \in Core /\ p # Null
  BY <1>0, <1>1, ChainHeld, ValueAssumption DEF Held1
<1>3. CanRemove(main, core[p].ptrid)
  BY <1>0, <1>1, <1>2, ChainFollows
<1>4. ASSUME ~Leftover(p)
      PROVE  __track_main_list_node_data_free(heap, p).fault = NoFault
  <2> DEFINE left == __track_check_free_mem_block(heap, p)
  <2>1. left.fault = NoFault /\ left \in Heap
    BY <1>0, <1>1, <1>2, <1>4, LeaveChains, CheckFreeBlockType DEF Leftover
  <2>2. __track_main_list_node_data_free(heap, p) =
          [left EXCEPT !.core[p] = FreedCore]
    BY <1>0, <1>2 DEF __track_main_list_node_data_free
  <2> HIDE DEF left
  <2>3. [left EXCEPT !.core[p] = FreedCore].fault = NoFault
    BY <2>1 DEF Heap
  <2> QED
    BY <2>2, <2>3
<1> QED
  BY <1>3, <1>4

(* ... nor, where what is held is safe, does a re-pointing.                *)
LEMMA TidyInvRepoints ==
  ASSUME "link" \notin MayFail, TidyInv PROVE RepointingReturns
<1> SUFFICES ASSUME Chains, fault = NoFault,
                    NEW s \in handle, NEW n \in handle,
                    NEW o \in handle \cup {Null},
                    \A p \in {s, n, o} \ {Null} : ~Leftover(p),
                    ~Empty(n), ~NoBytes(n), o # Null => ~NoBytes(s),
                    ~Entangled(s, n, o), NEW h \in SetPtrResults(s, n, o)
             PROVE  h.fault = NoFault
  BY DEF RepointingReturns
<1>0. heap \in Heap /\ Exact(heap) /\ Owned(heap) /\ Tidy(heap)
      /\ handle \subseteq Core
  BY SafeInvHeap DEF TidyInv
<1>1. Chain(main) /\ \A b \in Block : Chain(block[b].links)
  BY DEF Chains
<1>2. s \in Core /\ n \in Core /\ o \in Core \cup {Null}
  BY <1>0
<1>3. Safe(heap, s) /\ Safe(heap, n)
  BY <1>1, ChainHeld DEF Held1
<1> QED
  BY <1>0, <1>1, <1>2, <1>3, SetPtrReturns

(* While every list is a chain no removal follows a pointer it must not    *)
(* follow: every tracker whose block pointer was written can be freed,     *)
(* whichever allocations failed before.                                    *)
THEOREM RemovalsAlwaysReturn == Spec => []RemovalsReturn
  BY TidyInvRemoves, TidyNext, TidyInit, PTL DEF Spec

(* And track_set_ptr of trackers that have bytes returns, whoever shares   *)
(* whose block and whatever malloc leaves in the structures of other       *)
(* trackers.                                                               *)
THEOREM ChainsAlwaysSafe ==
  ASSUME "link" \notin MayFail
  PROVE  Spec => []ChainsKeepSafe
<1>1. TidyInv => ChainsKeepSafe
  BY TidyInvRemoves, TidyInvRepoints DEF ChainsKeepSafe
<1>2. TidyInv /\ [Next]_vars => TidyInv'
  BY TidyNext
<1> QED
  BY <1>1, <1>2, TidyInit, PTL DEF Spec

-----------------------------------------------------------------------------
(* What becomes of a right checksum.                                       *)

(* A byte that p's checksum in h covers is another one in g.               *)
Altered(h, g, p) ==
  \E a \in h.core[p].start .. h.core[p].start + h.core[p].msize - 1 :
    g.mem[a] # h.mem[a]

(* p's checksum is not wrong in g, or has become so for a reason told in   *)
(* StaleOnlyByWrite.                                                       *)
Excused(h, g, p) ==
  Matches(h, p) /\ g.core[p].links # Null => Matches(g, p) \/ Altered(h, g, p)

SumsKept == \A p \in handle \cap handle' : Excused(heap, heap', p)

(* The same bytes with the same checksum; the same blocks.                 *)
SameSum(r, q) == r.start = q.start /\ r.msize = q.msize /\ r.sum = q.sum
SameBlocks(h, g) ==
  \A b \in Block : /\ g.block[b].live = h.block[b].live
                   /\ g.block[b].size = h.block[b].size

(* A checksum that stays can only go wrong by a byte.                      *)
LEMMA SumOrBytes ==
  ASSUME NEW h \in Heap, NEW g, NEW p \in Core,
         SameSum(h.core[p], g.core[p]), CanChecksum(g, p)
  PROVE  Excused(h, g, p)
<1> SUFFICES ASSUME Matches(h, p), ~Altered(h, g, p) PROVE Matches(g, p)
  BY DEF Excused
<1> DEFINE r == h.core[p]
<1>1. r.start \in Nat /\ r.msize \in Nat
  BY AddrNat DEF Heap, CoreRec
<1>2. ASSUME NEW i \in 1 .. r.msize
      PROVE  g.mem[r.start + i - 1] = h.mem[r.start + i - 1]
  <2>1. r.start + i - 1 \in r.start .. r.start + r.msize - 1
    BY <1>1
  <2> QED
    BY <2>1 DEF Altered
<1>3. [i \in 1 .. r.msize |-> g.mem[r.start + i - 1]]
        = [i \in 1 .. r.msize |-> h.mem[r.start + i - 1]]
  BY <1>2
<1> QED
  BY <1>3 DEF Matches, __track_memory_changed, __track_calc_memory_checksum,
              SameSum

(* Whether bytes can be read depends on which blocks there are.            *)
LEMMA BlocksReadable ==
  ASSUME NEW h, NEW g, SameBlocks(h, g), NEW a, NEW len, Readable(h, a, len)
  PROVE  Readable(g, a, len)
  BY DEF SameBlocks, Readable

(* Bytes that could be read can be, if the block they are in is still      *)
(* there.                                                                  *)
LEMMA SteadyReadable ==
  ASSUME NEW h \in Heap, NEW g \in Heap, Steady(h, g),
         NEW p \in Core, NEW b \in Block, Within(g, p, b), NEW len \in Nat,
         Readable(h, g.core[p].start, len)
  PROVE  Readable(g, g.core[p].start, len)
<1> DEFINE r == g.core[p]
<1>1. /\ r \in CoreRec /\ r.start \in Nat /\ r.cur \in Nat /\ r.end \in Nat
      /\ \A x \in Block : x \in Nat
      /\ MaxSize \in Nat
  BY AddrNat, BlockAddr, LayoutAssumption DEF Heap, CoreRec
<1>2. \A x \in Block : h.block[x].size \in 0 .. MaxSize
                         /\ g.block[x].size \in 0 .. MaxSize
  BY DEF Heap, BlockRec
<1>3. CASE len = 0
  BY <1>3 DEF Readable
<1>4. ASSUME NEW x \in Block, h.block[x].live, x <= r.start,
             r.start + len <= x + h.block[x].size
      PROVE  Readable(g, r.start, len)
  <2>1. r.start <= x + MaxSize
    BY <1>1, <1>2, <1>4
  <2>2. b <= r.start /\ r.start <= b + MaxSize
    BY <1>1, <1>2 DEF Within
  <2>3. x = b
    BY <1>1, <1>4, <2>1, <2>2, BlockUnique
  <2> QED
    BY <1>4, <2>3 DEF Within, Steady, Readable
<1> QED
  BY <1>3, <1>4 DEF Readable

(* While the lists are chains a structure that names a block is not empty. *)
LEMMA NamingFull ==
  ASSUME Chains, TidyInv, NEW p \in Core, core[p].links \in Block
  PROVE  "empty" \notin core[p].flags
<1>1. /\ heap.core = core /\ heap.block = block /\ heap \in Heap
      /\ Tidy(heap) /\ Exact(heap)
  BY SafeInvHeap DEF TidyInv
<1>2. ~Lost(block[core[p].links].links)
  <2>1. block[core[p].links].links \in ListOf(Core)
    BY <1>1 DEF Heap, BlockRec
  <2> QED
    BY <2>1, LostBreaks DEF Chains
<1> QED
  BY <1>1, <1>2 DEF Tidy, StrayLost, Loose

(* No block holds address 0: a checksum there is right only over no bytes. *)
LEMMA NothingAtZero ==
  ASSUME NEW h \in Heap, NEW p \in Core, NEW g,
         h.core[p].start = 0, g.core[p] = h.core[p], CanChecksum(h, p)
  PROVE  CanChecksum(g, p)
<1>1. \A b \in Block : b \in Nat /\ b > 0
  BY LayoutAssumption
<1>2. h.core[p].msize = 0
  BY <1>1 DEF CanChecksum, Readable
<1> QED
  BY <1>2 DEF CanChecksum, Readable

(* A structure left alone by a step that leaves its memory.                *)
LEMMA SteadyExcused ==
  ASSUME Chains, TidyInv, NEW g \in Heap, Steady(heap, g), NEW p \in Core,
         g.core[p] = core[p], Safe(g, p)
  PROVE  Excused(heap, g, p)
<1> SUFFICES ASSUME Matches(heap, p), core[p].links # Null
             PROVE  Excused(heap, g, p)
  BY DEF Excused
<1>1. heap \in Heap /\ heap.core = core
  BY SafeInvHeap DEF TidyInv
<1>2. core[p].msize \in Nat /\ core[p].links \in Block \cup {Null, Wild}
  BY <1>1, AddrNat DEF Heap, CoreRec
<1>3. ASSUME core[p].links \in Block PROVE CanChecksum(g, p)
  <2>1. PICK b \in Block : Within(g, p, b)
    BY <1>3, NamingFull DEF Safe
  <2> QED
    BY <1>1, <1>2, <2>1, SteadyReadable DEF Matches, CanChecksum
<1>4. ASSUME core[p].links = Wild PROVE CanChecksum(g, p)
  <2>1. core[p].start = 0
    BY <1>1, <1>4 DEF TidyInv, Tidy, Leftovers
  <2> QED
    BY <1>1, <2>1, NothingAtZero DEF Matches
<1> QED
  BY <1>1, <1>2, <1>3, <1>4, SumOrBytes DEF SameSum

(* A checksum just computed is right.                                      *)
LEMMA OverwriteMatches ==
  ASSUME NEW h \in Heap, NEW c \in Core, OverwriteChecksum(h, c).fault = NoFault
  PROVE  Matches(OverwriteChecksum(h, c), c)
<1> DEFINE t == __track_calc_memory_checksum(h, c)
           g == OverwriteChecksum(h, c)
<1>1. /\ g.mem = h.mem /\ g.block = h.block
      /\ g.core[c] = [h.core[c] EXCEPT !.sum = t]
  BY OverwriteSum, OverwriteParts
<1>2. CanChecksum(h, c)
  <2>1. Broken(h, "out_of_bounds").fault # NoFault
    BY DEF Broken, Heap, NoFault
  <2> QED
    BY <2>1 DEF OverwriteChecksum
<1>3. t = [i \in 1 .. h.core[c].msize |-> h.mem[h.core[c].start + i - 1]]
  BY DEF __track_calc_memory_checksum
<1>4. h.core[c] \in CoreRec
  BY DEF Heap
<1> HIDE DEF t, g
<1>5. /\ g.core[c].start = h.core[c].start
      /\ g.core[c].msize = h.core[c].msize
      /\ g.core[c].sum = t
  BY <1>1, <1>4 DEF CoreRec
<1>6. CanChecksum(g, c)
  BY <1>1, <1>2, <1>5 DEF CanChecksum, Readable
<1>7. ~__track_memory_changed(g, c)
  BY <1>1, <1>3, <1>5
  DEF __track_memory_changed, __track_calc_memory_checksum
<1> QED
  BY <1>6, <1>7 DEF Matches, g

(* Joining a block allocates and frees none.                               *)
LEMMA JoinBlocks ==
  ASSUME NEW h \in Heap, NEW s \in Core, NEW c \in Core,
         NEW g \in __track_review_mem_links_list(h, s, c)
  PROVE  SameBlocks(h, g)
<1>1. ASSUME NEW why, g = Broken(h, why) PROVE SameBlocks(h, g)
  BY <1>1 DEF Broken, Heap, SameBlocks
<1>2. ASSUME NEW n, NEW b, g = AddLink(h, b, c, n) PROVE SameBlocks(h, g)
  <2> DEFINE l == dht_list_add_node_head(npl_node_alloc(h.block[b].links, n, c), n)
  <2>1. g.block = [h.block EXCEPT ![b].links = l]
    BY <1>2 DEF AddLink, Heap
  <2> HIDE DEF l
  <2>2. h.block \in [Block -> BlockRec]
    BY DEF Heap
  <2> QED
    BY <2>1, <2>2 DEF BlockRec, SameBlocks
<1>3. \/ g = h
      \/ \E n : g = AddLink(h, h.core[s].links, c, n)
      \/ \E why : g = Broken(h, why)
  BY DEF __track_review_mem_links_list
<1> QED
  BY <1>1, <1>2, <1>3 DEF SameBlocks

(* A right checksum depends on three fields, the bytes and the blocks.     *)
LEMMA MatchesSame ==
  ASSUME NEW h, NEW g, NEW p, SameSum(h.core[p], g.core[p]),
         g.mem = h.mem, SameBlocks(h, g), Matches(h, p)
  PROVE  Matches(g, p)
<1>1. CanChecksum(g, p)
  BY BlocksReadable DEF CanChecksum, SameSum, Matches
<1> QED
  BY <1>1 DEF Matches, __track_memory_changed, __track_calc_memory_checksum,
              SameSum

(* What takes over memory has the checksum of it.                          *)
LEMMA TakeOverMatches ==
  ASSUME NEW h \in Heap, NEW s \in Core, NEW n \in Core,
         NEW g \in TakeOver(h, s, n), g.fault = NoFault
  PROVE  Matches(g, s) /\ SameBlocks(h, g) /\ g.mem = h.mem
<1> DEFINE moved == __track_migrate_cur_ptr(h, s, n)
           k == OverwriteChecksum(moved, s)
<1>1. moved \in Heap /\ k \in Heap
  BY MigrateType, OverwriteChecksumType
<1>2. moved.block = h.block /\ moved.mem = h.mem
  BY MigrateParts DEF __track_migrate_cur_ptr, Heap
<1>3. g \in __track_review_mem_links_list(k, n, s)
  BY DEF TakeOver
<1> HIDE DEF moved
<1>4. k.block = moved.block
  BY <1>1, OverwriteParts
<1>5. /\ k.fault = NoFault /\ g.mem = k.mem /\ SameBlocks(k, g)
      /\ g.core \in {k.core, [k.core EXCEPT ![s].links = k.core[n].links]}
  <2> HIDE DEF k
  <2> QED
    BY <1>1, <1>3, JoinParts, JoinBlocks
<1>6. Matches(k, s) /\ k.mem = moved.mem
  BY <1>1, <1>5, OverwriteMatches, OverwriteSum
<1> HIDE DEF k
<1>7. SameSum(k.core[s], g.core[s])
  <2>1. k.core \in [Core -> CoreRec] /\ k.core[s] \in CoreRec
    BY <1>1 DEF Heap
  <2>2. CASE g.core = k.core
    BY <2>2 DEF SameSum
  <2>3. CASE g.core = [k.core EXCEPT ![s].links = k.core[n].links]
    BY <2>1, <2>3 DEF CoreRec, SameSum
  <2> QED
    BY <1>5, <2>2, <2>3
<1>8. Matches(g, s)
  BY <1>5, <1>6, <1>7, MatchesSame
<1>9. SameBlocks(h, g)
  BY <1>2, <1>4, <1>5 DEF SameBlocks
<1> QED
  BY <1>2, <1>5, <1>6, <1>8, <1>9

(* told names no block any more, or has the checksum of its new memory.    *)
LEMMA HandOverMatches ==
  ASSUME NEW h \in Heap, Exact(h), Owned(h), h.fault = NoFault,
         NEW s \in Core, NEW o \in Core, o # s,
         h.core[o].links # Wild,
         h.core[o].links \in Block => Chain(h.block[h.core[o].links].links),
         NEW g \in HandOver(h, s, o), g.fault = NoFault
  PROVE  g.core[o].links = Null \/ Matches(g, o)
<1> DEFINE left  == __track_check_free_mem_block(h, o)
           reset == [left EXCEPT !.core[o].cur = h.core[o].start]
           moved == __track_migrate_cur_ptr(reset, o, s)
<1>1. left \in Heap /\ left.core[o].links = Null
  BY CheckFreeBlockType, LeaveChains
<1>2. g = moved \/ g \in TakeOver(reset, o, s)
  BY DEF HandOver, TakeOver
<1> HIDE DEF left
<1>3. reset \in Heap /\ reset.core[o].links = Null
  <2>1. left.core[o] \in CoreRec /\ h.core[o] \in CoreRec
    BY <1>1 DEF Heap
  <2>2. [left.core[o] EXCEPT !.cur = h.core[o].start] \in CoreRec
    BY <2>1 DEF CoreRec
  <2>3. reset \in Heap
    BY <1>1, <2>2, PutCore
  <2>4. reset.core = [left.core EXCEPT ![o].cur = h.core[o].start]
    BY <1>1 DEF Heap
  <2>5. reset.core[o].links = left.core[o].links
    BY <1>1, <2>1, <2>4 DEF Heap, CoreRec
  <2> QED
    BY <1>1, <2>3, <2>5
<1> HIDE DEF reset
<1>4. moved.core[o].links = Null
  BY <1>3, MigrateParts
<1> HIDE DEF moved
<1> QED
  BY <1>2, <1>3, <1>4, TakeOverMatches

-----------------------------------------------------------------------------
(* What becomes of right checksums in each step.                           *)

(* A heap the step leaves.                                                 *)
LEMMA LeftExcused ==
  ASSUME NEW g, core' = g.core, block' = g.block, mem' = g.mem,
         NEW p \in Core, Excused(heap, g, p)
  PROVE  Excused(heap, heap', p)
<1> USE DEF heap
<1>1. /\ heap'.core = g.core /\ heap'.block = g.block /\ heap'.mem = g.mem
  OBVIOUS
<1>2. Matches(g, p) <=> Matches(heap', p)
  BY <1>1 DEF Matches, CanChecksum, Readable, __track_memory_changed,
              __track_calc_memory_checksum
<1>3. Altered(heap, g, p) <=> Altered(heap, heap', p)
  BY <1>1 DEF Altered
<1> QED
  BY ONLY <1>1, <1>2, <1>3, Excused(heap, g, p) DEF Excused

(* A step that moves no structure and no block.                            *)
LEMMA StillExcused ==
  ASSUME SafeInv, core' = core, block' = block
  PROVE  SumsKept
<1> SUFFICES ASSUME NEW p \in handle PROVE Excused(heap, heap', p)
  BY DEF SumsKept
<1>1. heap \in Heap /\ p \in Core
  BY SafeInvHeap
<1>2. heap'.core = heap.core /\ heap'.block = heap.block
  BY DEF heap
<1>3. Matches(heap, p) => CanChecksum(heap', p)
  BY <1>2 DEF Matches, CanChecksum, Readable
<1>4. SameSum(heap.core[p], heap'.core[p])
  BY <1>2 DEF SameSum
<1>5. CanChecksum(heap', p) => Excused(heap, heap', p)
  BY <1>1, <1>4, SumOrBytes
<1> QED
  BY <1>3, <1>5 DEF Excused

(* A call that answers, or whose behaviour is undefined.                   *)
LEMMA AnswerExcused ==
  ASSUME SafeInv,
         \/ \E e, r : Answer(e, r)
         \/ \E why : Crash(why)
         \/ \E args : Rejects(args)
  PROVE  SumsKept
<1>1. core' = core /\ block' = block
  BY DEF Answer, Crash, Rejects, heapVars
<1> QED
  BY <1>1, StillExcused

(* A call that returns a heap.                                             *)
LEMMA ReturnExcused ==
  ASSUME SafeInv, NEW h, NEW l, NEW hs, Return(h, l, hs),
         h.fault = NoFault =>
           \A p \in handle \cap handle' : Excused(heap, h, p)
  PROVE  SumsKept
<1>1. CASE Crash(h.fault)
  BY <1>1, AnswerExcused
<1>2. CASE /\ h.fault = NoFault
           /\ core' = h.core /\ block' = h.block /\ mem' = h.mem
  <2>1. ASSUME NEW p \in handle \cap handle' PROVE Excused(heap, heap', p)
    <3>1. p \in Core /\ Excused(heap, h, p)
      BY <1>2, SafeInvHeap
    <3> QED
      BY <1>2, <3>1, LeftExcused
  <2> QED
    BY <2>1 DEF SumsKept
<1> QED
  BY <1>1, <1>2 DEF Return

(* Freeing a structure.                                                    *)
LEMMA NodeFreeExcused ==
  ASSUME Chains, TidyInv, NEW c \in Core, NEW p \in handle,
         __track_main_list_node_data_free(heap, c).fault = NoFault,
         Safe(heap, p)
  PROVE  Excused(heap, __track_main_list_node_data_free(heap, c), p)
<1> DEFINE g == __track_main_list_node_data_free(heap, c)
           left == __track_check_free_mem_block(heap, c)
<1>0. /\ heap \in Heap /\ Exact(heap) /\ Owned(heap)
      /\ heap.core = core /\ p \in Core
  BY SafeInvHeap DEF TidyInv
<1>1. CASE p = c
  <2>1. g = [left EXCEPT !.core[c] = FreedCore]
    <3>1. Broken(heap, "use_after_free").fault # NoFault
      BY <1>0 DEF Broken, Heap, NoFault
    <3> QED
      BY <3>1 DEF __track_main_list_node_data_free
  <2>2. left \in Heap
    BY <1>0, CheckFreeBlockType
  <2> HIDE DEF left
  <2>3. g.core[c] = FreedCore
    BY <2>1, <2>2 DEF Heap
  <2> QED
    BY <1>1, <2>3 DEF Excused, FreedCore
<1>2. CASE p # c
  <2>1. g \in Heap
    BY <1>0, MainNodeFreeType
  <2>2. Steady(heap, g) /\ g.core[p] = core[p] /\ Safe(g, p)
    BY <1>0, <1>2, NodeFreeSafe
  <2> QED
    BY <1>0, <2>1, <2>2, SteadyExcused
<1> QED
  BY <1>1, <1>2

(* track_set_ptr: tset has a fresh checksum; told has, or names no block;  *)
(* every other tracker is as it was.                                       *)
LEMMA SetPtrExcused ==
  ASSUME Chains, TidyInv, fault = NoFault, "link" \notin MayFail, pc = "idle",
         NEW s \in handle, NEW n \in handle, NEW o \in handle \cup {Null},
         NEW h \in SetPtrResults(s, n, o), h.fault = NoFault,
         NEW p \in handle
  PROVE  Excused(heap, h, p)
<1>0. /\ heap \in Heap /\ Exact(heap) /\ Owned(heap) /\ Tidy(heap)
      /\ handle \subseteq Core /\ heap.core = core /\ heap.block = block
      /\ heap.fault = NoFault
  BY SafeInvHeap DEF TidyInv, heap
<1>1. s \in Core /\ n \in Core /\ p \in Core /\ (o # Null => o \in Core)
  BY <1>0
<1>2. \A q \in handle : Safe(heap, q)
  BY DEF TidyInv, SafeInv, AllSafe
<1>3. h \in Heap /\ Steady(heap, h) /\ Safe(h, p)
  BY <1>0, <1>2, SetPtrSafe
<1>4. PICK k : h \in TakeOver(k, s, n)
                 /\ IF o = Null
                    THEN k = __track_check_free_mem_block(heap, s)
                    ELSE k \in HandOver(heap, s, o)
  BY DEF SetPtrResults
<1>5. k \in Heap
  BY <1>0, <1>1, <1>4, CheckFreeBlockType, HandOverType
<1>6. /\ Matches(h, s) /\ SameBlocks(k, h) /\ h.mem = k.mem
      /\ \A x \in Core \ {s} : h.core[x] = k.core[x]
      /\ k.fault = NoFault
  <2>1. Exact(k) /\ Owned(k)
    BY <1>0, <1>1, <1>4, CheckFreeBlockExact, HandOverExact, LeaveSafe,
       HandOverSafe
  <2> QED
    BY <1>1, <1>4, <1>5, <2>1, TakeOverMatches, TakeOverHands, TakeOverSafe
<1>7. CASE p = s
  BY <1>6, <1>7 DEF Excused
<1>8. CASE p # s /\ p # o
  <2>1. k.core[p] = core[p]
    <3>1. CASE o = Null
      BY <1>0, <1>1, <1>4, <1>8, <3>1, LeaveSafe
    <3>2. CASE o # Null
      BY <1>0, <1>1, <1>4, <1>6, <1>8, <3>2, HandOverHands
    <3> QED
      BY <3>1, <3>2
  <2>2. h.core[p] = core[p]
    BY <1>1, <1>6, <1>8, <2>1
  <2> QED
    BY <1>1, <1>3, <2>2, SteadyExcused
<1>9. CASE p # s /\ p = o
  <2>1. o \in Core /\ o # Null /\ k \in HandOver(heap, s, o)
    BY <1>1, <1>4, <1>9, ValueAssumption
  <2>2. /\ heap.core[o].links # Wild
        /\ heap.core[o].links \in Block =>
             Chain(heap.block[heap.core[o].links].links)
    BY <1>0, <1>1, <1>6, <2>1, HandOverTidy DEF Chains
  <2>3. k.core[o].links = Null \/ Matches(k, o)
    BY <1>0, <1>1, <1>6, <1>9, <2>1, <2>2, HandOverMatches
  <2>4. h.core[o] = k.core[o]
    BY <1>6, <1>9, <2>1
  <2>5. Matches(k, o) => Matches(h, o)
    BY <1>6, <2>4, MatchesSame DEF SameSum
  <2> QED
    BY <1>9, <2>3, <2>4, <2>5 DEF Excused
<1> QED
  BY <1>7, <1>8, <1>9

(* Making a tracker: the new block was not allocated, so no byte that      *)
(* could be read before is out of reach.                                   *)
LEMMA NewExcused ==
  ASSUME SafeInv, NEW a \in Block \cup {Null}, a # Null => ~block[a].live,
         NEW msize \in 0 .. MaxSize, NEW flags, NEW fill,
         NEW c \in Core, NEW n \in Node, NEW g \in Garbage,
         NEW p \in Core \ {c},
         NEW w, w = WithNewCore(a, msize, flags, fill, c, n, g)
  PROVE  w.core[p] = core[p] /\ Excused(heap, w, p)
<1>0. TypeOK /\ heap \in Heap /\ heap.core = core /\ heap.block = block
  BY SafeInvHeap
<1>1. /\ w.core[p] = core[p]
      /\ \A b \in Block : block[b].live => w.block[b] = block[b]
  <2>1. CASE a = Null
    <3> DEFINE r == NewCore(0, 0, {"empty"}, g)
    <3>1. w.core = [core EXCEPT ![c] = r] /\ w.block = block
      <4>1. w = CoreAdded(a, msize, flags, fill, c, n, g)
        BY ONLY <1>0, w = WithNewCore(a, msize, flags, fill, c, n, g), NewCoreIs
      <4> QED
        BY <2>1, <4>1 DEF CoreAdded, heap
    <3> HIDE DEF r
    <3> QED
      BY <1>0, <3>1 DEF Heap
  <2>2. CASE a # Null
    <3>1. a \in Block /\ ~block[a].live
      BY <2>2
    <3>2. Spans(w, a, msize, flags, c, n)
      BY <1>0, <3>1, NewCoreParts
    <3>3. w.block = [block EXCEPT ![a] = NewBlock(msize, c, n)]
      BY <3>2 DEF Spans
    <3>4. \A b \in Block \ {a} : w.block[b] = block[b]
      BY <1>0, <3>3 DEF Heap
    <3> QED
      BY <3>1, <3>2, <3>4 DEF Spans
  <2> QED
    BY <2>1, <2>2
<1>2. SameSum(heap.core[p], w.core[p])
  BY <1>0, <1>1 DEF SameSum
<1>3. Matches(heap, p) => CanChecksum(w, p)
  BY <1>0, <1>1 DEF Matches, CanChecksum, Readable
<1>4. CanChecksum(w, p) => Excused(heap, w, p)
  BY <1>0, <1>2, SumOrBytes
<1>5. Excused(heap, w, p)
  BY <1>3, <1>4 DEF Excused
<1> QED
  BY <1>1, <1>5

(* The call that makes it, whichever allocation fails.                     *)
LEMMA CreateExcused ==
  ASSUME SafeInv, pc = "idle", NEW a \in Block \cup {Null},
         NEW msize \in 0 .. MaxSize, NEW flags \in SUBSET Flag, NEW fill,
         a # Null => /\ block[a] = FreedBlock
                     /\ fill \in [a .. a + msize - 1 -> Byte],
         __track_create_memory_control(a, msize, flags, fill)
  PROVE  SumsKept
<1>0. TypeOK /\ Exact(heap) /\ heap \in Heap /\ handle \subseteq Core
  BY SafeInvHeap
<1>1. CASE GivenUp \/ (\E e, r : Answer(e, r))
             \/ (\E why : Crash(why))
  <2>1. core' = core /\ block' = block
    BY <1>1 DEF GivenUp, Answer, Crash, heapVars
  <2> QED
    BY <2>1, StillExcused
<1>2. ASSUME NEW c \in Core, ~core[c].live, NEW g \in Garbage,
             NEW n \in Allocatable(EmptyList), NEW m \in Allocatable(main),
             PushCore(WithNewCore(a, msize, flags, fill, c, n, g), c, m)
      PROVE  SumsKept
  <2>1. PICK h : h = WithNewCore(a, msize, flags, fill, c, n, g)
    OBVIOUS
  <2> DEFINE k == [h EXCEPT !.core[c].ptrid = m]
  <2>2. n \in Node
    BY AllocatableType
  <2>3. h \in Heap
    BY <1>0, <2>1, <2>2, WithNewCoreType
  <2>4. /\ k.block = h.block /\ k.mem = h.mem
        /\ \A x \in Core \ {c} : k.core[x] = h.core[x]
    BY <2>3 DEF Heap, CoreRec
  <2>5. Crash("use_after_free")
          \/ Return(k, dht_list_add_node_tail(npl_node_alloc(main, m, c), m),
                    handle \cup {c})
    BY <1>2, <2>1 DEF PushCore, Push
  <2> HIDE DEF k
  <2>6. ASSUME NEW p \in handle PROVE Excused(heap, k, p)
    <3>1. p \in Core \ {c}
      BY <1>0, <1>2 DEF SafeInv, Listed
    <3>2. Excused(heap, h, p)
      BY <2>1, <2>2, <3>1, NewExcused DEF FreedBlock
    <3>3. k.core[p] = h.core[p]
      BY <2>4, <3>1
    <3>4. SameBlocks(h, k)
      BY <2>4 DEF SameBlocks
    <3>5. Matches(h, p) => Matches(k, p)
      BY <2>4, <3>3, <3>4, MatchesSame DEF SameSum
    <3> QED
      BY <2>4, <3>2, <3>3, <3>5 DEF Excused, Altered
  <2> QED
    BY <2>5, <2>6, ReturnExcused, AnswerExcused
<1> QED
  BY <1>0, <1>1, <1>2, CreateSteps

(* Every step of a program whose lists are chains.                         *)
LEMMA StepExcused ==
  ASSUME "link" \notin MayFail, Chains, TidyInv, TidyInv', [Next]_vars
  PROVE  SumsKept
<1>0. /\ SafeInv /\ TypeOK /\ heap \in Heap /\ Exact(heap) /\ Owned(heap)
      /\ handle \subseteq Core /\ main \in ListOf(Core)
      /\ heap.core = core /\ heap.block = block
  BY SafeInvHeap DEF TidyInv
<1>1. CASE \/ track_init \/ track_last_error \/ track_destroy
           \/ DestroyEnd \/ Stopped \/ UNCHANGED vars
           \/ \E p \in handle, v \in Byte : UserWrite(p, v)
  <2>1. core' = core /\ block' = block
    BY <1>1
    DEF track_init, track_last_error, track_destroy, DestroyEnd,
        DestroyReturn, Stopped, UserWrite, Rejects, Answer, Crash, vars,
        heapVars
  <2> QED
    BY <1>0, <2>1, StillExcused
<1>2. ASSUME NEW p \in Arg, track_check_mem(p) \/ track_overwrite_checksum(p)
      PROVE  SumsKept
  <2>1. CASE track_check_mem(p)
    BY <1>0, <2>1, AnswerExcused DEF track_check_mem
  <2>2. CASE Rejects({p})
    BY <1>0, <2>2, AnswerExcused
  <2>3. CASE /\ Accepts({p})
             /\ Return(OverwriteChecksum(heap, p), main, handle)
    <3> DEFINE h == OverwriteChecksum(heap, p)
    <3>1. p \in Core
      BY <1>0, <2>3, ArgType DEF Accepts
    <3>2. ASSUME NEW q \in handle, h.fault = NoFault
          PROVE  Excused(heap, h, q)
      <4>1. CASE q = p
        BY <1>0, <3>1, <3>2, <4>1, OverwriteMatches DEF Excused
      <4>2. CASE q # p
        <5>1. q \in Core /\ h.core[q] = core[q] /\ h.block = block
          <6>1. q \in Core \ {p}
            BY <1>0, <4>2
          <6>2. h.core[q] = heap.core[q]
            BY <1>0, <3>1, <3>2, <6>1, OverwriteSum
          <6>3. h.block = heap.block
            BY <1>0, <3>1, OverwriteParts
          <6> QED
            BY <1>0, <6>1, <6>2, <6>3
        <5> HIDE DEF h
        <5>2. Matches(heap, q) => CanChecksum(h, q)
          BY <1>0, <5>1 DEF Matches, CanChecksum, Readable
        <5>3. CanChecksum(h, q) => Excused(heap, h, q)
          BY <1>0, <5>1, SumOrBytes DEF SameSum
        <5> QED
          BY <5>2, <5>3 DEF Excused
      <4> QED
        BY <4>1, <4>2
    <3> HIDE DEF h
    <3> QED
      BY <1>0, <2>3, <3>2, ReturnExcused DEF h
  <2> QED
    BY <1>2, <2>1, <2>2, <2>3 DEF track_overwrite_checksum
<1>3. ASSUME NEW p \in Arg, NEW k, track_move_ptr(p, k) PROVE SumsKept
  <2>1. CASE \/ \E e, r : Answer(e, r)
             \/ \E why : Crash(why)
             \/ \E args : Rejects(args)
    BY <1>0, <2>1, AnswerExcused
  <2>2. ASSUME NEW a, Return([heap EXCEPT !.core[p].cur = a], main, handle)
        PROVE  SumsKept
    <3> DEFINE h == [heap EXCEPT !.core[p].cur = a]
    <3>1. h.core = [core EXCEPT ![p].cur = a] /\ h.block = block /\ h.mem = mem
      BY <1>0 DEF heap
    <3> HIDE DEF h
    <3>2. \A x \in Core : SameSum(core[x], h.core[x])
      BY <1>0, <3>1 DEF Heap, CoreRec, SameSum
    <3>3. SameBlocks(heap, h) /\ h.mem = heap.mem
      BY <1>0, <3>1 DEF SameBlocks, heap
    <3>4. ASSUME NEW q \in handle PROVE Excused(heap, h, q)
      BY <1>0, <3>2, <3>3, MatchesSame DEF Excused
    <3> QED
      BY <1>0, <2>2, <3>4, ReturnExcused DEF h
  <2> QED
    BY <1>3, <2>1, <2>2 DEF track_move_ptr, __track_ptr_move, MoveTo
<1>4. ASSUME NEW p \in Arg, NEW step,
             TRACK_INC(p, step) \/ TRACK_DEC(p, step)
      PROVE  SumsKept
  BY <1>0, <1>3, <1>4, AnswerExcused DEF TRACK_INC, TRACK_DEC
<1>5. ASSUME NEW d, NEW s, NEW n, track_memcpy(d, s, n) PROVE SumsKept
  <2>1. core' = core /\ block' = block
    BY <1>5
    DEF track_memcpy, Copy, Copied, Return, Rejects, Answer, Crash, heap,
        heapVars
  <2> QED
    BY <1>0, <2>1, StillExcused
<1>6. ASSUME NEW p \in Arg, track_free(p) PROVE SumsKept
  <2> DEFINE c == main.data[core[p].ptrid]
             h == __track_main_list_node_data_free(heap, c)
  <2>1. CASE \/ \E why : Crash(why)
             \/ \E args : Rejects(args)
    BY <1>0, <2>1, AnswerExcused
  <2>2. CASE /\ Accepts({p}) /\ pc = "idle"
             /\ \E l, hs : Return(h, l, hs)
    <3>1. p \in handle
      BY <2>2, ClientAssumption DEF Accepts, Arg
    <3>2. c = p /\ c \in Core
      BY <1>0, <2>2, <3>1 DEF SafeInv, Listed
    <3>3. \A q \in handle : Safe(heap, q)
      BY <1>0, <2>2 DEF SafeInv, AllSafe
    <3>4. ASSUME NEW q \in handle, h.fault = NoFault
          PROVE  Excused(heap, h, q)
      BY <3>2, <3>3, <3>4, NodeFreeExcused
    <3> HIDE DEF h
    <3> QED
      BY <1>0, <2>2, <3>4, ReturnExcused
  <2> QED
    BY <1>6, <2>1, <2>2 DEF track_free, Enters
<1>7. CASE DestroyNode
  <2> DEFINE c == main.data[pos]
             h == __track_main_list_node_data_free(heap, c)
  <2>1. CASE \E why : Crash(why)
    BY <1>0, <2>1, AnswerExcused
  <2>2. CASE /\ h.fault = NoFault
             /\ core' = h.core /\ block' = h.block /\ mem' = h.mem
    <3>1. c \in Core \cup {Null}
      <4>1. pos \in Node
        BY <1>0, <1>7 DEF DestroyNode, TypeOK, Ref
      <4> QED
        BY <1>0, <4>1 DEF ListOf
    <3>2. c \in Core
      <4>1. Broken(heap, "use_after_free").fault # NoFault
        BY <1>0 DEF Broken, Heap, NoFault
      <4> QED
        BY <2>2, <3>1, <4>1 DEF __track_main_list_node_data_free
    <3>3. \A q \in handle : Safe(heap, q)
      BY ChainHeld DEF Chains, Held1
    <3> HIDE DEF c
    <3>4. ASSUME NEW q \in handle PROVE Excused(heap, h, q)
      BY <2>2, <3>2, <3>3, NodeFreeExcused
    <3> HIDE DEF h
    <3>5. ASSUME NEW q \in handle PROVE Excused(heap, heap', q)
      BY <1>0, <2>2, <3>4, LeftExcused
    <3> QED
      BY <3>5 DEF SumsKept
  <2> QED
    BY <1>7, <2>1, <2>2 DEF DestroyNode
<1>8. ASSUME NEW s \in Arg, NEW n \in Arg, NEW o \in handle \cup {Null},
             track_set_ptr(s, n, o)
      PROVE  SumsKept
  <2>1. CASE \/ \E e, r : Answer(e, r)
             \/ \E args : Rejects(args)
    BY <1>0, <2>1, AnswerExcused
  <2>2. CASE /\ Accepts({s, n}) /\ fault = NoFault /\ pc = "idle"
             /\ \E h \in SetPtrResults(s, n, o) : Return(h, main, handle)
    <3>1. s \in handle /\ n \in handle
      BY <2>2, ClientAssumption DEF Accepts, Arg
    <3>2. PICK h \in SetPtrResults(s, n, o) : Return(h, main, handle)
      BY <2>2
    <3>3. ASSUME NEW q \in handle, h.fault = NoFault
          PROVE  Excused(heap, h, q)
      BY <2>2, <3>1, <3>3, SetPtrExcused
    <3> QED
      BY <1>0, <3>2, <3>3, ReturnExcused
  <2> QED
    BY <1>8, <2>1, <2>2 DEF track_set_ptr, Enters
<1>9. ASSUME NEW msize \in Sizes, NEW flags \in FlagSets,
             track_malloc(msize, flags)
      PROVE  SumsKept
  <2>1. CASE \/ \E e, r : Answer(e, r)
             \/ \E args : Rejects(args)
    BY <1>0, <2>1, AnswerExcused
  <2>2. ASSUME NEW a \in Block, block[a] = FreedBlock, pc = "idle",
               NEW fill \in [a .. a + msize - 1 -> Byte],
               __track_create_memory_control(a, msize, flags, fill)
        PROVE  SumsKept
    <3>1. /\ msize \in 0 .. MaxSize
          /\ flags \in SUBSET Flag
      BY ClientAssumption DEF Flag
    <3> QED
      BY <1>0, <2>2, <3>1, CreateExcused
  <2> QED
    BY <1>9, <2>1, <2>2 DEF track_malloc, Enters
<1>10. CASE track_make_empty
  <2>1. CASE \E args : Rejects(args)
    BY <1>0, <2>1, AnswerExcused
  <2>2. CASE /\ pc = "idle"
             /\ __track_create_memory_control(Null, 0, {"empty"}, <<>>)
    <3>1. 0 \in 0 .. MaxSize /\ {"empty"} \in SUBSET Flag
      BY LayoutAssumption DEF Flag
    <3> QED
      BY <1>0, <2>2, <3>1, CreateExcused
  <2> QED
    BY <1>10, <2>1, <2>2 DEF track_make_empty, Enters
<1> QED
  BY <1>1, <1>2, <1>3, <1>4, <1>5, <1>6, <1>7, <1>8, <1>9, <1>10 DEF Next

(* While every list is a chain, a right checksum goes wrong only because a *)
(* byte it covers was written: no call moves a tracker to other bytes, or  *)
(* frees its bytes, and leaves the old checksum behind.                    *)
THEOREM ChecksumsStaleByWrites ==
  ASSUME "link" \notin MayFail
  PROVE  Spec => StaleOnlyByWrite
<1>1. ASSUME TidyInv, TidyInv', [Next]_vars, Chains,
             NEW p \in handle \cap handle', Matches(heap, p),
             core'[p].links # Null, ~Matches(heap', p)
      PROVE  \E a \in core[p].start .. core[p].start + core[p].msize - 1 :
               mem'[a] # mem[a]
  <2>1. Excused(heap, heap', p)
    BY <1>1, StepExcused DEF SumsKept
  <2>2. heap'.core = core' /\ heap'.mem = mem' /\ heap.core = core /\ heap.mem = mem
    BY DEF heap
  <2>3. Altered(heap, heap', p)
    BY <1>1, <2>1, <2>2 DEF Excused
  <2> QED
    BY <2>2, <2>3 DEF Altered
<1>2. TidyInv /\ TidyInv' /\ [Next]_vars =>
        [Chains =>
           \A p \in handle \cap handle' :
             /\ Matches(heap, p)
             /\ core'[p].links # Null
             /\ ~Matches(heap', p)
             => \E a \in core[p].start .. core[p].start + core[p].msize - 1 :
                  mem'[a] # mem[a]]_vars
  BY <1>1
<1>3. TidyInv /\ [Next]_vars => TidyInv'
  BY TidyNext
<1> QED
  BY <1>2, <1>3, TidyInit, PTL DEF Spec, StaleOnlyByWrite

=============================================================================
