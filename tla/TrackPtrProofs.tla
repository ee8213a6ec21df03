--------------------------- MODULE TrackPtrProofs ---------------------------
(***************************************************************************)
(* Proofs about the library of TrackPtr, for every number of control       *)
(* structures, blocks and nodes, every address space and every program.    *)
(***************************************************************************)
EXTENDS TrackPtrProps, TrackFuncsLemmas

(* Every variable of a state has its type, and the heap is a heap.         *)
LEMMA HeapTyped == TypeOK => heap \in Heap
  BY DEF TypeOK, heap, Heap

(* The first state is typed.                                               *)
LEMMA TypeInit == Init => TypeOK
<1> SUFFICES ASSUME Init PROVE TypeOK
  OBVIOUS
<1>1. core \in [Core -> CoreRec] /\ block \in [Block -> BlockRec]
  BY FreedCoreType, FreedBlockType DEF Init
<1>2. ZeroByte \in Byte
  BY ValueAssumption DEF ZeroByte
<1>3. main \in ListOf(Core)
  BY EmptyListType DEF Init
<1> QED
  BY <1>1, <1>2, <1>3 DEF Init, TypeOK, Ref, Error, ETRACK_NO_ERROR

-----------------------------------------------------------------------------
(* How a call ends.                                                        *)

(* A call that only answers.                                               *)
LEMMA AnswerType ==
  ASSUME TypeOK, NEW e \in Error, NEW r \in {-2, -1, 0, 1}, Answer(e, r)
  PROVE  TypeOK'
  BY DEF Answer, TypeOK, heapVars, clientVars

(* A call whose behaviour is undefined.                                    *)
LEMMA CrashType ==
  ASSUME TypeOK, NEW why \in {NoFault} \cup Fault, Crash(why)
  PROVE  TypeOK'
  BY DEF Crash, TypeOK, heapVars, clientVars

(* A call that returns a heap, a main list and a set of handles.           *)
LEMMA ReturnType ==
  ASSUME TypeOK, NEW h \in Heap, NEW l \in ListOf(Core),
         NEW hs \in SUBSET Core, Return(h, l, hs)
  PROVE  TypeOK'
<1>1. CASE h.fault # NoFault /\ Crash(h.fault)
  BY <1>1, HeapFields, CrashType
<1>2. CASE h.fault = NoFault
  BY <1>2, HeapFields DEF Return, TypeOK
<1> QED
  BY <1>1, <1>2 DEF Return

(* The tests that every call begins with.                                  *)
LEMMA RejectsType ==
  ASSUME TypeOK, NEW args, Rejects(args)
  PROVE  TypeOK'
<1>1. ETRACK_INIT_REQUIRED \in Error /\ ETRACK_NULL_PTR_PASSED \in Error
  BY DEF Error, ETRACK_INIT_REQUIRED, ETRACK_NULL_PTR_PASSED
<1> QED
  BY <1>1, AnswerType DEF Rejects

(* An argument that is not rejected is a structure.                        *)
LEMMA ArgType ==
  ASSUME TypeOK, NEW p \in Arg, p # Null
  PROVE  p \in Core
  BY ClientAssumption DEF Arg, TypeOK

(* The faults and codes that the actions name.                             *)
LEMMA FaultNames ==
  /\ "null_deref" \in Fault /\ "wild_pointer" \in Fault
  /\ "use_after_free" \in Fault /\ "out_of_bounds" \in Fault
  BY DEF Fault

(* The codes the calls set are error codes.                                *)
LEMMA ErrorCodes ==
  /\ ETRACK_NO_ERROR \in Error /\ ETRACK_MEM_WAS_CHANGED \in Error
  /\ ETRACK_WENT_LOWER_LIMIT \in Error /\ ETRACK_WENT_UPPER_LIMIT \in Error
  /\ ETRACK_ALLOC \in Error /\ ETRACK_INIT_TWICE \in Error
  /\ ETRACK_MEMCPY \in Error /\ ETRACK_MEMCPY_MEM_OVERLAP \in Error
  /\ ERTACK_MEMCPY_DEST_UP_LIM \in Error
  /\ ERTACK_MEMCPY_SRC_UP_LIM \in Error /\ ETRACK_IS_EMPTY \in Error
  BY DEF Error, ETRACK_NO_ERROR, ETRACK_MEM_WAS_CHANGED,
         ETRACK_WENT_LOWER_LIMIT, ETRACK_WENT_UPPER_LIMIT, ETRACK_ALLOC,
         ETRACK_INIT_TWICE, ETRACK_MEMCPY, ETRACK_MEMCPY_MEM_OVERLAP,
         ERTACK_MEMCPY_DEST_UP_LIM, ERTACK_MEMCPY_SRC_UP_LIM, ETRACK_IS_EMPTY

-----------------------------------------------------------------------------
(* Creating a tracker.                                                     *)

(* The heap with the new structure and its block, written at once.         *)
CoreAdded(a, msize, flags, fill, c, n, g) ==
  IF a = Null
  THEN [heap EXCEPT !.core[c] = NewCore(0, 0, {"empty"}, g)]
  ELSE LET made ==
             [heap EXCEPT
                !.core[c]  = [NewCore(a, msize, flags, g) EXCEPT !.links = a],
                !.block[a] = NewBlock(msize, c, n),
                !.mem      = [x \in Addr |-> IF x \in DOMAIN fill
                                             THEN fill[x] ELSE heap.mem[x]]]
       IN  IF "checksum" \in flags THEN OverwriteChecksum(made, c) ELSE made

(* Made step by step it is the same heap.                                  *)
LEMMA NewCoreIs ==
  ASSUME TypeOK, NEW a \in Block \cup {Null}, NEW msize, NEW flags, NEW fill,
         NEW c \in Core, NEW n, NEW g
  PROVE  WithNewCore(a, msize, flags, fill, c, n, g)
           = CoreAdded(a, msize, flags, fill, c, n, g)
<1>1. CASE a = Null
  BY <1>1 DEF WithNewCore, CoreAdded, Made, MadeCore
<1>2. CASE a # Null
  <2> DEFINE b == NewBlock(msize, c, n)
             r == NewCore(a, msize, flags, g)
             bytes == [x \in Addr |-> IF x \in DOMAIN fill
                                      THEN fill[x] ELSE heap.mem[x]]
             made == Made(a, msize, flags, c, g, b)
             once == [heap EXCEPT !.core[c] = [r EXCEPT !.links = a],
                                  !.block[a] = b, !.mem = bytes]
  <2>1. core \in [Core -> CoreRec]
    BY DEF TypeOK
  <2>2. [heap EXCEPT !.core[c] = r].core[c] = r
    BY <2>1 DEF heap
  <2>3. made = [heap EXCEPT !.core[c] = [r EXCEPT !.links = a], !.block[a] = b]
    BY <1>2, <2>1, <2>2 DEF Made, MadeCore, heap
  <2>4. made.mem = heap.mem
    BY <2>3 DEF heap
  <2>5. [made EXCEPT !.mem = [x \in Addr |-> IF x \in DOMAIN fill
                                            THEN fill[x] ELSE @[x]]] = once
    BY <2>3, <2>4 DEF heap
  <2> HIDE DEF made, once
  <2> QED
    BY <1>2, <2>5 DEF WithNewCore, CoreAdded, made, once
<1> QED
  BY <1>1, <1>2

(* The heap with the new structure.                                        *)
LEMMA WithNewCoreType ==
  ASSUME TypeOK, NEW a \in Block \cup {Null}, NEW msize \in 0 .. MaxSize,
         NEW flags \in SUBSET Flag, NEW fill,
         a # Null => fill \in [a .. a + msize - 1 -> Byte],
         NEW c \in Core, NEW n \in Node, NEW g \in Garbage
  PROVE  WithNewCore(a, msize, flags, fill, c, n, g) \in Heap
<1>0. heap \in Heap
  BY HeapTyped
<1>1. g.msize \in Addr /\ g.links \in {Null, Wild}
      /\ g.sum \in {NoSum} \cup Seq(Byte)
  BY ClientAssumption
<1> DEFINE w == WithNewCore(a, msize, flags, fill, c, n, g)
<1>w. w = CoreAdded(a, msize, flags, fill, c, n, g)
  BY ONLY TypeOK, NewCoreIs
<1> SUFFICES w \in Heap
  OBVIOUS
<1> HIDE DEF w
<1>2. CASE a = Null
  <2>1. 0 \in Addr /\ 0 \in 0 .. MaxSize
    BY LayoutAssumption DEF Addr
  <2>2. {"empty"} \in SUBSET Flag
    BY DEF Flag
  <2>3. NewCore(0, 0, {"empty"}, g) \in CoreRec
    BY <1>1, <2>1, <2>2, NewCoreType
  <2>4. [heap EXCEPT !.core[c] = NewCore(0, 0, {"empty"}, g)] \in Heap
    BY <1>0, <2>3, PutCore
  <2> QED
    BY <1>2, <1>w, <2>4 DEF CoreAdded
<1>3. CASE a # Null
  <2> DEFINE r == [NewCore(a, msize, flags, g) EXCEPT !.links = a]
             bytes == [x \in Addr |->
                         IF x \in DOMAIN fill THEN fill[x] ELSE heap.mem[x]]
             made == [heap EXCEPT !.core[c] = r,
                                  !.block[a] = NewBlock(msize, c, n),
                                  !.mem = bytes]
  <2>1. a \in Block /\ a \in Addr
    BY <1>3, BlockAddr
  <2>2. NewCore(a, msize, flags, g) \in CoreRec
    BY <1>1, <2>1, NewCoreType
  <2>3. r \in CoreRec
    BY <2>1, <2>2 DEF CoreRec
  <2>4. NewBlock(msize, c, n) \in BlockRec
    BY NewBlockType
  <2>5. bytes \in [Addr -> Byte]
    BY <1>0, <1>3 DEF Heap
  <2>6. w \in {made, OverwriteChecksum(made, c)}
    BY <1>3, <1>w DEF CoreAdded
  <2> HIDE DEF r, bytes
  <2>7. made \in Heap
    BY <1>0, <2>1, <2>3, <2>4, <2>5 DEF Heap
  <2> HIDE DEF made
  <2> QED
    BY <2>6, <2>7, OverwriteChecksumType
<1> QED
  BY <1>2, <1>3

(* The new structure joins the main list.                                  *)
LEMMA PushCoreType ==
  ASSUME TypeOK, NEW h \in Heap, NEW c \in Core, NEW m \in Node,
         PushCore(h, c, m)
  PROVE  TypeOK'
<1> DEFINE k == [h EXCEPT !.core[c].ptrid = m]
           l == npl_node_alloc(main, m, c)
<1>1. k \in Heap
  <2>1. h.core[c] \in CoreRec /\ m \in Ref
    BY DEF Heap, Ref
  <2>2. [h.core[c] EXCEPT !.ptrid = m] \in CoreRec
    BY <2>1 DEF CoreRec
  <2> QED
    BY <2>2, PutCore
<1>2. l \in ListOf(Core)
  BY AllocType DEF TypeOK
<1>3. CASE CanAddTail(l) /\ Return(k, dht_list_add_node_tail(l, m),
                                   handle \cup {c})
  <2>1. dht_list_add_node_tail(l, m) \in ListOf(Core)
    BY <1>2, <1>3, AddTailType
  <2>2. handle \cup {c} \in SUBSET Core
    BY DEF TypeOK
  <2> HIDE DEF k, l
  <2> QED
    BY <1>1, <1>3, <2>1, <2>2, ReturnType
<1>4. CASE Crash("use_after_free")
  BY <1>4, FaultNames, CrashType
<1> QED
  BY <1>3, <1>4 DEF PushCore, Push

(* What a failure half-way leaves: everything as it was, but for the       *)
(* result, the code and what was leaked.                                   *)
GivenUp ==
  \/ Crash("wild_pointer")
  \/ /\ ret' = -1
     /\ errtrack' = ETRACK_ALLOC
     /\ leaked' \in BOOLEAN
     /\ UNCHANGED <<heapVars, fault, inited, main, handle, pc, pos>>

(* Heap h is the present one but for structure c, block a and bytes.       *)
SameBut(h, a, c) ==
  /\ h \in Heap
  /\ \A d \in Core \ {c} : h.core[d] = core[d]
  /\ \A b \in Block \ {a} : h.block[b] = block[b]

(* The undoing undoes: a heap that differs from the present one in the new *)
(* structure and its block only gives the present one back.                *)
LEMMA AbandonSame ==
  ASSUME TypeOK, NEW a, NEW c \in Core, core[c] = FreedCore,
         a # Null => block[a] = FreedBlock,
         NEW h, Abandon(h, a, c), SameBut(h, a, c)
  PROVE  GivenUp
<1>1. CASE Crash("wild_pointer")
  BY <1>1 DEF GivenUp
<1>2. CASE /\ core' = [h.core EXCEPT ![c] = FreedCore]
           /\ block' = [b \in Block |-> IF b = a THEN FreedBlock ELSE h.block[b]]
           /\ leaked' = (leaked \/ \E b \in Block : b = a /\ h.block[b].live)
           /\ ret' = -1
           /\ errtrack' = ETRACK_ALLOC
           /\ UNCHANGED <<mem, fault, inited, main, handle, pc, pos>>
  <2>1. core \in [Core -> CoreRec] /\ h.core \in [Core -> CoreRec]
    BY DEF TypeOK, Heap, SameBut
  <2>2. core' = core
    BY <1>2, <2>1 DEF SameBut
  <2>3. block \in [Block -> BlockRec] /\ Null \notin Block
    BY ValueAssumption DEF TypeOK
  <2>4. block' = block
    BY <1>2, <2>3 DEF SameBut
  <2>5. leaked' \in BOOLEAN
    BY <1>2
  <2> QED
    BY <1>2, <2>2, <2>4, <2>5 DEF GivenUp, heapVars
<1> QED
  BY <1>1, <1>2 DEF Abandon

(* The stages of a tracker that has memory: the structure ...              *)
LEMMA MadeCoreSame ==
  ASSUME TypeOK, NEW a \in Block, NEW msize \in 0 .. MaxSize,
         NEW flags \in SUBSET Flag, NEW c \in Core, NEW g \in Garbage
  PROVE  SameBut(MadeCore(a, msize, flags, c, g), a, c)
<1>1. g.msize \in Addr /\ g.links \in {Null, Wild}
      /\ g.sum \in {NoSum} \cup Seq(Byte)
  BY ClientAssumption
<1>2. NewCore(a, msize, flags, g) \in CoreRec
  BY <1>1, BlockAddr, NewCoreType
<1>3. heap \in Heap /\ core \in [Core -> CoreRec]
  BY HeapTyped DEF TypeOK
<1>4. MadeCore(a, msize, flags, c, g) \in Heap
  BY <1>2, <1>3, PutCore DEF MadeCore
<1> QED
  BY <1>3, <1>4 DEF MadeCore, heap, SameBut

(* ... its block, whatever record it is ...                                *)
LEMMA MadeSame ==
  ASSUME TypeOK, NEW a \in Block, NEW msize \in 0 .. MaxSize,
         NEW flags \in SUBSET Flag, NEW c \in Core, NEW g \in Garbage,
         NEW b \in BlockRec
  PROVE  SameBut(Made(a, msize, flags, c, g, b), a, c)
<1> DEFINE h == MadeCore(a, msize, flags, c, g)
           k == [h EXCEPT !.core[c].links = a]
<1>1. a # Null
  BY ValueAssumption
<1>2. SameBut(h, a, c)
  BY MadeCoreSame
<1>3. Made(a, msize, flags, c, g, b) = [h EXCEPT !.core[c].links = a,
                                               !.block[a] = b]
  BY <1>1 DEF Made
<1> HIDE DEF h
<1>4. k \in Heap
  BY <1>2, PutCoreLinks DEF SameBut
<1>5. SameBut(k, a, c)
  BY <1>2, <1>4 DEF SameBut, Heap
<1>6. [h EXCEPT !.core[c].links = a, !.block[a] = b] = [k EXCEPT !.block[a] = b]
  OBVIOUS
<1> HIDE DEF k
<1>7. [k EXCEPT !.block[a] = b] \in Heap
  BY <1>4, PutBlock
<1>8. SameBut([k EXCEPT !.block[a] = b], a, c)
  BY <1>5, <1>7 DEF SameBut, Heap
<1> QED
  BY <1>3, <1>6, <1>8

(* ... and all of it: the checksum is in the structure itself.             *)
LEMMA NewCoreSame ==
  ASSUME TypeOK, NEW a \in Block \cup {Null}, NEW msize \in 0 .. MaxSize,
         NEW flags \in SUBSET Flag, NEW fill,
         a # Null => fill \in [a .. a + msize - 1 -> Byte],
         NEW c \in Core, NEW n \in Node, NEW g \in Garbage
  PROVE  SameBut(WithNewCore(a, msize, flags, fill, c, n, g), a, c)
<1> DEFINE w == WithNewCore(a, msize, flags, fill, c, n, g)
<1>1. core \in [Core -> CoreRec] /\ block \in [Block -> BlockRec]
  BY DEF TypeOK
<1>2. w = CoreAdded(a, msize, flags, fill, c, n, g)
  BY ONLY TypeOK, NewCoreIs
<1>3. w \in Heap
  BY WithNewCoreType
<1> HIDE DEF w
<1>4. CASE a = Null
  BY <1>1, <1>2, <1>3, <1>4 DEF CoreAdded, heap, SameBut, w
<1>5. CASE a # Null
  <2>1. /\ \A d \in Core \ {c} : w.core[d] = core[d]
        /\ w.block = [block EXCEPT ![a] = NewBlock(msize, c, n)]
    BY <1>1, <1>2, <1>5 DEF CoreAdded, OverwriteChecksum, Broken, heap
  <2> QED
    BY <1>1, <1>3, <2>1 DEF SameBut, w
<1> QED
  BY <1>4, <1>5

(* What __track_create_memory_control comes to: an answer, a crash, a      *)
(* failure undone, or a new tracker where there was none.                  *)
LEMMA CreateSteps ==
  ASSUME TypeOK, NEW a \in Block \cup {Null}, NEW msize \in 0 .. MaxSize,
         NEW flags \in SUBSET Flag, NEW fill,
         a # Null => /\ block[a] = FreedBlock
                     /\ fill \in [a .. a + msize - 1 -> Byte],
         __track_create_memory_control(a, msize, flags, fill)
  PROVE  \/ Answer(ETRACK_ALLOC, -1)
         \/ Crash("null_deref")
         \/ GivenUp
         \/ \E c \in Core, g \in Garbage :
              /\ ~core[c].live
              /\ \E n \in Allocatable(EmptyList), m \in Allocatable(main) :
                   LET h == WithNewCore(a, msize, flags, fill, c, n, g)
                   IN  \/ h.fault # NoFault /\ Crash(h.fault)
                       \/ h.fault = NoFault /\ PushCore(h, c, m)
<1> DEFINE Added(c, g, n, m) ==
             LET h == WithNewCore(a, msize, flags, fill, c, n, g)
             IN  \/ h.fault # NoFault /\ Crash(h.fault)
                 \/ h.fault = NoFault /\ PushCore(h, c, m)
<1>1. CASE \/ "core" \in MayFail /\ Answer(ETRACK_ALLOC, -1)
           \/ a # Null /\ "list" \in MayFail /\ Crash("null_deref")
  BY <1>1
<1>2. ASSUME NEW c \in Core, NEW g \in Garbage, core[c] = FreedCore,
             a # Null, Abandon(MadeCore(a, msize, flags, c, g), a, c)
      PROVE  GivenUp
  <2>1. a \in Block
    BY <1>2
  <2>2. SameBut(MadeCore(a, msize, flags, c, g), a, c)
    BY <2>1, MadeCoreSame
  <2> QED
    BY <1>2, <2>2, AbandonSame
<1>3. ASSUME NEW c \in Core, NEW g \in Garbage, core[c] = FreedCore, a # Null,
             NEW b \in BlockRec, Abandon(Made(a, msize, flags, c, g, b), a, c)
      PROVE  GivenUp
  <2>1. a \in Block
    BY <1>3
  <2>2. SameBut(Made(a, msize, flags, c, g, b), a, c)
    BY <2>1, MadeSame
  <2> QED
    BY <1>3, <2>2, AbandonSame
<1>4. ASSUME NEW c \in Core, NEW g \in Garbage, core[c] = FreedCore,
             NEW n \in Node,
             Abandon(WithNewCore(a, msize, flags, fill, c, n, g), a, c)
      PROVE  GivenUp
  <2>1. SameBut(WithNewCore(a, msize, flags, fill, c, n, g), a, c)
    BY NewCoreSame
  <2> QED
    BY <1>4, <2>1, AbandonSame
<1>5. ASSUME NEW c \in Core, NEW g \in Garbage, core[c] = FreedCore,
             NEW n \in Node,
             Abandon(Made(a, msize, flags, c, g, NewBlock(msize, c, n)), a, c)
      PROVE  GivenUp
  <2>1. CASE a # Null
    BY <1>3, <1>5, <2>1, NewBlockType
  <2>2. CASE a = Null
    <3>1. Made(a, msize, flags, c, g, NewBlock(msize, c, n))
            = WithNewCore(a, msize, flags, fill, c, n, g)
      BY <2>2 DEF WithNewCore
    <3> QED
      BY <1>4, <1>5, <3>1
  <2> QED
    BY <2>1, <2>2
<1>6. ASSUME NEW c \in Core, NEW g \in Garbage, core[c] = FreedCore,
             \/ /\ a # Null
                /\ Abandon(MadeCore(a, msize, flags, c, g), a, c)
             \/ /\ a # Null
                /\ Abandon(Made(a, msize, flags, c, g, UnlinkedBlock(msize)),
                           a, c)
             \/ \E n \in Allocatable(EmptyList), m \in Allocatable(main) :
                  \/ Abandon(Made(a, msize, flags, c, g,
                                  NewBlock(msize, c, n)), a, c)
                  \/ Abandon(WithNewCore(a, msize, flags, fill, c, n, g), a, c)
                  \/ Added(c, g, n, m)
      PROVE  GivenUp \/ \E n \in Allocatable(EmptyList),
                            m \in Allocatable(main) : Added(c, g, n, m)
  <2>1. CASE \E n \in Allocatable(EmptyList) :
               \/ Abandon(Made(a, msize, flags, c, g,
                               NewBlock(msize, c, n)), a, c)
               \/ Abandon(WithNewCore(a, msize, flags, fill, c, n, g), a, c)
    BY <1>4, <1>5, <1>6, <2>1, AllocatableType
  <2> HIDE DEF Added
  <2> QED
    BY <1>2, <1>3, <1>6, <2>1, UnlinkedBlockType
<1>7. \A c \in Core : core[c] = FreedCore => ~core[c].live
  BY DEF FreedCore
<1> HIDE DEF Added
<1>8. CASE \E c \in Core, g \in Garbage :
             /\ core[c] = FreedCore
             /\ \/ GivenUp
                \/ \E n \in Allocatable(EmptyList), m \in Allocatable(main) :
                     Added(c, g, n, m)
  BY <1>7, <1>8 DEF Added
<1>9. \/ "core" \in MayFail /\ Answer(ETRACK_ALLOC, -1)
      \/ a # Null /\ "list" \in MayFail /\ Crash("null_deref")
      \/ \E c \in Core, g \in Garbage :
           /\ core[c] = FreedCore
           /\ \/ /\ a # Null
                 /\ Abandon(MadeCore(a, msize, flags, c, g), a, c)
              \/ /\ a # Null
                 /\ Abandon(Made(a, msize, flags, c, g, UnlinkedBlock(msize)),
                            a, c)
              \/ \E n \in Allocatable(EmptyList), m \in Allocatable(main) :
                   \/ Abandon(Made(a, msize, flags, c, g,
                                   NewBlock(msize, c, n)), a, c)
                   \/ Abandon(WithNewCore(a, msize, flags, fill, c, n, g),
                              a, c)
                   \/ Added(c, g, n, m)
  BY DEF __track_create_memory_control, Added
<1> QED
  BY <1>1, <1>6, <1>8, <1>9

(* A failure half-way keeps the types.                                     *)
LEMMA GivenUpType == TypeOK /\ GivenUp => TypeOK'
<1>1. CASE Crash("wild_pointer")
  BY <1>1, FaultNames, CrashType
<1>2. CASE /\ ret' = -1
           /\ errtrack' = ETRACK_ALLOC
           /\ leaked' \in BOOLEAN
           /\ UNCHANGED <<heapVars, fault, inited, main, handle, pc, pos>>
  BY <1>2, ErrorCodes DEF TypeOK, heapVars
<1> QED
  BY <1>1, <1>2 DEF GivenUp

(* __track_create_memory_control keeps the types.                          *)
LEMMA CreateType ==
  ASSUME TypeOK, NEW a \in Block \cup {Null}, NEW msize \in 0 .. MaxSize,
         NEW flags \in SUBSET Flag, NEW fill,
         a # Null => /\ block[a] = FreedBlock
                     /\ fill \in [a .. a + msize - 1 -> Byte],
         __track_create_memory_control(a, msize, flags, fill)
  PROVE  TypeOK'
<1>1. CASE Answer(ETRACK_ALLOC, -1) \/ Crash("null_deref") \/ GivenUp
  BY <1>1, ErrorCodes, FaultNames, AnswerType, CrashType, GivenUpType
<1>2. ASSUME NEW c \in Core, NEW g \in Garbage,
             NEW n \in Allocatable(EmptyList), NEW m \in Allocatable(main),
             LET h == WithNewCore(a, msize, flags, fill, c, n, g)
             IN  Crash(h.fault) \/ PushCore(h, c, m)
      PROVE  TypeOK'
  <2> DEFINE h == WithNewCore(a, msize, flags, fill, c, n, g)
  <2>1. n \in Node /\ m \in Node
    BY AllocatableType
  <2>2. h \in Heap
    BY <2>1, WithNewCoreType
  <2> HIDE DEF h
  <2>3. CASE Crash(h.fault)
    BY <2>2, <2>3, HeapFields, CrashType
  <2>4. CASE PushCore(h, c, m)
    BY <2>1, <2>2, <2>4, PushCoreType
  <2> QED
    BY <1>2, <2>3, <2>4 DEF h
<1> QED
  BY <1>1, <1>2, CreateSteps

-----------------------------------------------------------------------------
(* One lemma for each call.                                                *)

(* track_init keeps the types.                                             *)
LEMMA InitCallType == TypeOK /\ track_init => TypeOK'
<1> SUFFICES ASSUME TypeOK, track_init PROVE TypeOK'
  OBVIOUS
<1>1. CASE Answer(ETRACK_INIT_TWICE, -1)
  BY <1>1, ErrorCodes, AnswerType
<1>2. CASE Crash("null_deref")
  BY <1>2, FaultNames, CrashType
<1>3. CASE /\ inited' = TRUE /\ main' = EmptyList /\ ret' = 0
           /\ UNCHANGED <<heapVars, fault, handle, leaked, pc, pos, errtrack>>
  BY <1>3, EmptyListType DEF TypeOK, heapVars
<1> QED
  BY <1>1, <1>2, <1>3 DEF track_init

(* track_last_error keeps the types.                                       *)
LEMMA LastErrorType == TypeOK /\ track_last_error => TypeOK'
  BY ErrorCodes DEF track_last_error, TypeOK, heapVars, clientVars

(* track_malloc keeps the types.                                           *)
LEMMA MallocType ==
  ASSUME TypeOK, NEW msize \in Sizes, NEW flags \in FlagSets,
         track_malloc(msize, flags)
  PROVE  TypeOK'
<1>1. msize \in 0 .. MaxSize /\ flags \in SUBSET Flag
  BY ClientAssumption DEF Flag
<1>2. CASE Rejects({})
  BY <1>2, RejectsType
<1>3. CASE Answer(ETRACK_ALLOC, -1)
  BY <1>3, ErrorCodes, AnswerType
<1>4. CASE \E a \in Block :
             /\ block[a] = FreedBlock
             /\ \E fill \in [a .. a + msize - 1 -> Byte] :
                  __track_create_memory_control(a, msize, flags, fill)
  BY <1>1, <1>4, CreateType
<1> QED
  BY <1>2, <1>3, <1>4 DEF track_malloc

(* track_make_empty keeps the types.                                       *)
LEMMA MakeEmptyType == TypeOK /\ track_make_empty => TypeOK'
<1> SUFFICES ASSUME TypeOK, track_make_empty PROVE TypeOK'
  OBVIOUS
<1>1. CASE Rejects({})
  BY <1>1, RejectsType
<1>2. CASE __track_create_memory_control(Null, 0, {"empty"}, <<>>)
  <2>1. 0 \in 0 .. MaxSize /\ {"empty"} \in SUBSET Flag
    BY LayoutAssumption DEF Flag
  <2> QED
    BY <1>2, <2>1, CreateType
<1> QED
  BY <1>1, <1>2 DEF track_make_empty

(* track_free keeps the types.                                             *)
LEMMA FreeCallType ==
  ASSUME TypeOK, NEW p \in Arg, track_free(p)
  PROVE  TypeOK'
<1> DEFINE n == core[p].ptrid
           h == __track_main_list_node_data_free(heap, main.data[n])
           l == FreeNode(dht_list_remove_node(main, n), n)
<1>1. CASE Rejects({p})
  BY <1>1, RejectsType
<1>2. CASE Crash(RemoveFault(main, n))
  BY <1>2, RemoveFaultType, CrashType
<1>3. CASE CanRemove(main, n) /\ Return(h, l, handle \ {p})
  <2>1. main \in ListOf(Core) /\ heap \in Heap /\ handle \ {p} \in SUBSET Core
    BY HeapTyped DEF TypeOK
  <2>2. n \in Node
    BY <1>3, <2>1 DEF CanRemove, ListOf
  <2>3. l \in ListOf(Core)
    BY <1>3, <2>1, <2>2, RemoveType, FreeType
  <2>4. main.data[n] \in Core \cup {Null}
    BY <2>1, <2>2 DEF ListOf
  <2>5. h \in Heap
    BY <2>1, <2>4, MainNodeFreeType
  <2> HIDE DEF h, l
  <2> QED
    BY <1>3, <2>1, <2>3, <2>5, ReturnType
<1> QED
  BY <1>1, <1>2, <1>3 DEF track_free

(* The start of track_destroy keeps the types.                             *)
LEMMA DestroyCallType == TypeOK /\ track_destroy => TypeOK'
<1> SUFFICES ASSUME TypeOK, track_destroy PROVE TypeOK'
  OBVIOUS
<1>1. CASE Rejects({})
  BY <1>1, RejectsType
<1>2. CASE /\ pc' = "destroy" /\ pos' = main.head
           /\ UNCHANGED <<heapVars, fault, inited, main, handle, leaked,
                          errtrack, ret>>
  BY <1>2 DEF TypeOK, heapVars, ListOf
<1> QED
  BY <1>1, <1>2 DEF track_destroy

(* A step of track_destroy's loop keeps the types.                         *)
LEMMA DestroyNodeType == TypeOK /\ DestroyNode => TypeOK'
<1> SUFFICES ASSUME TypeOK, DestroyNode PROVE TypeOK'
  OBVIOUS
<1> DEFINE h == __track_main_list_node_data_free(heap, main.data[pos])
<1>1. main \in ListOf(Core) /\ pos \in Node /\ heap \in Heap
  BY HeapTyped DEF DestroyNode, TypeOK, Ref
<1>2. main.data[pos] \in Core \cup {Null}
  BY <1>1 DEF ListOf
<1>3. h \in Heap
  BY <1>1, <1>2, MainNodeFreeType
<1> HIDE DEF h
<1>4. CASE Crash("use_after_free")
  BY <1>4, FaultNames, CrashType
<1>5. CASE Crash(h.fault)
  BY <1>3, <1>5, HeapFields, CrashType
<1>6. CASE /\ core' = h.core /\ block' = h.block /\ mem' = h.mem
           /\ pos' = main.next[pos]
           /\ main' = FreeNode(main, pos)
           /\ UNCHANGED <<fault, inited, handle, leaked, pc, errtrack, ret>>
  <2>1. main.next[pos] \in Ref
    BY <1>1 DEF ListOf
  <2>2. FreeNode(main, pos) \in ListOf(Core)
    BY <1>1, FreeType
  <2> QED
    BY <1>3, <1>6, <2>1, <2>2, HeapFields DEF TypeOK
<1> QED
  BY <1>4, <1>5, <1>6 DEF DestroyNode, h

(* The end of track_destroy keeps the types.                               *)
LEMMA DestroyEndType == TypeOK /\ DestroyEnd => TypeOK'
  BY EmptyListType
  DEF DestroyEnd, DestroyReturn, AtEnd, TypeOK, heapVars

(* track_overwrite_checksum keeps the types.                               *)
LEMMA OverwriteCallType ==
  ASSUME TypeOK, NEW p \in Arg, track_overwrite_checksum(p)
  PROVE  TypeOK'
<1>1. CASE Rejects({p})
  BY <1>1, RejectsType
<1>2. CASE Accepts({p}) /\ Return(OverwriteChecksum(heap, p), main, handle)
  <2>1. p \in Core
    BY <1>2, ArgType DEF Accepts
  <2>2. OverwriteChecksum(heap, p) \in Heap
    BY <2>1, HeapTyped, OverwriteChecksumType
  <2>3. main \in ListOf(Core) /\ handle \in SUBSET Core
    BY DEF TypeOK
  <2> QED
    BY <1>2, <2>2, <2>3, ReturnType
<1> QED
  BY <1>1, <1>2 DEF track_overwrite_checksum

(* track_check_mem keeps the types.                                        *)
LEMMA CheckMemType ==
  ASSUME TypeOK, NEW p \in Arg, track_check_mem(p)
  PROVE  TypeOK'
<1>1. CASE Rejects({p})
  BY <1>1, RejectsType
<1>2. CASE Crash("out_of_bounds")
  BY <1>2, FaultNames, CrashType
<1>3. CASE Answer(ETRACK_MEM_WAS_CHANGED, 1)
  BY <1>3, ErrorCodes, AnswerType
<1>4. CASE Answer(errtrack, 0)
  <2>1. errtrack \in Error
    BY DEF TypeOK
  <2> QED
    BY <1>4, <2>1, AnswerType
<1> QED
  BY <1>1, <1>2, <1>3, <1>4 DEF track_check_mem

(* track_move_ptr keeps the types.                                         *)
LEMMA MovePtrType ==
  ASSUME TypeOK, NEW p \in Arg, NEW k \in Int, track_move_ptr(p, k)
  PROVE  TypeOK'
<1>1. CASE Rejects({p})
  BY <1>1, RejectsType
<1>2. CASE Crash("out_of_bounds")
  BY <1>2, FaultNames, CrashType
<1>3. CASE Answer(ETRACK_MEM_WAS_CHANGED, -1)
  BY <1>3, ErrorCodes, AnswerType
<1>4. CASE Accepts({p}) /\ __track_ptr_move(p, k)
  <2> DEFINE a == Wrap(core[p].cur + k)
             r == [core[p] EXCEPT !.cur = a]
             h == [heap EXCEPT !.core[p].cur = a]
  <2>1. p \in Core
    BY <1>4, ArgType DEF Accepts
  <2>2. core[p] \in CoreRec
    BY <2>1 DEF TypeOK
  <2>3. a \in Addr
    <3>1. core[p].cur \in Addr /\ k \in Int
      BY <2>2 DEF CoreRec
    <3>2. core[p].cur + k \in Int
      BY <3>1, LayoutAssumption DEF Addr
    <3> QED
      BY <3>2, WrapType
  <2>4. CASE Answer(ETRACK_WENT_UPPER_LIMIT, -2)
    BY <2>4, ErrorCodes, AnswerType
  <2>5. CASE Answer(ETRACK_WENT_LOWER_LIMIT, -2)
    BY <2>5, ErrorCodes, AnswerType
  <2>6. CASE Return(h, main, handle)
    <3> HIDE DEF a
    <3>1. r \in CoreRec
      BY <2>2, <2>3 DEF CoreRec
    <3>2. [heap EXCEPT !.core[p] = r] \in Heap
      BY <2>1, <3>1, HeapTyped, PutCore
    <3>3. h = [heap EXCEPT !.core[p] = r]
      BY DEF heap
    <3>4. main \in ListOf(Core) /\ handle \in SUBSET Core
      BY DEF TypeOK
    <3> HIDE DEF h
    <3> QED
      BY <2>6, <3>2, <3>3, <3>4, ReturnType
  <2> QED
    BY <1>4, <2>4, <2>5, <2>6 DEF __track_ptr_move, MoveTo
<1> QED
  BY <1>1, <1>2, <1>3, <1>4 DEF track_move_ptr

(* TRACK_INC and TRACK_DEC move by a whole number.                         *)
LEMMA StepIsMove ==
  ASSUME NEW p \in Arg, NEW step \in Steps,
         TRACK_INC(p, step) \/ TRACK_DEC(p, step)
  PROVE  Crash("null_deref") \/ \E k \in Int : track_move_ptr(p, k)
<1>1. step \in Int /\ UIntSpace \in Nat \ {0}
  BY ClientAssumption
<1>2. (-step) % UIntSpace \in Int
  BY <1>1
<1> QED
  BY <1>1, <1>2 DEF TRACK_INC, TRACK_DEC

(* The macros keep the types.                                              *)
LEMMA StepType ==
  ASSUME TypeOK, NEW p \in Arg, NEW step \in Steps,
         TRACK_INC(p, step) \/ TRACK_DEC(p, step)
  PROVE  TypeOK'
<1>1. CASE Crash("null_deref")
  BY <1>1, FaultNames, CrashType
<1>2. CASE \E k \in Int : track_move_ptr(p, k)
  BY <1>2, MovePtrType
<1> QED
  BY <1>1, <1>2, StepIsMove

(* track_memcpy keeps the types.                                           *)
LEMMA MemcpyType ==
  ASSUME TypeOK, NEW d \in Arg, NEW s \in Arg, NEW n \in Lens,
         track_memcpy(d, s, n)
  PROVE  TypeOK'
<1>1. CASE Rejects({d, s})
  BY <1>1, RejectsType
<1>2. CASE \E e \in {ERTACK_MEMCPY_DEST_UP_LIM, ERTACK_MEMCPY_SRC_UP_LIM,
                     ETRACK_MEMCPY_MEM_OVERLAP} : Answer(e, -1)
  BY <1>2, ErrorCodes, AnswerType
<1>3. CASE Accepts({d, s}) /\ Copy(d, s, n)
  <2> DEFINE to   == core[d].cur
             from == core[s].cur
             h    == Copied(to, from, n)
  <2>1. d \in Core /\ s \in Core
    BY <1>3, ArgType DEF Accepts
  <2>2. to \in Nat /\ from \in Nat /\ n \in Nat
    <3>1. core[d] \in CoreRec /\ core[s] \in CoreRec
      BY <2>1 DEF TypeOK
    <3> QED
      BY <3>1, AddrNat, ClientAssumption DEF CoreRec
  <2>3. main \in ListOf(Core) /\ handle \in SUBSET Core /\ heap \in Heap
    BY HeapTyped DEF TypeOK
  <2>4. CASE Answer(ETRACK_MEMCPY, -1)
    BY <2>4, ErrorCodes, AnswerType
  <2>5. CASE Return(heap, main, handle)
    BY <2>3, <2>5, ReturnType
  <2>6. CASE Readable(heap, from, n) /\ Return(h, main, handle)
    <3>1. \A a \in to .. to + n - 1 : from + (a - to) \in Addr
      <4> TAKE a \in to .. to + n - 1
      <4>1. a - to \in 0 .. n - 1
        BY <2>2
      <4> QED
        BY <2>2, <2>3, <2>6, <4>1, ReadableAddr
    <3>2. h \in Heap
      BY <2>3, <3>1 DEF Copied, Heap
    <3> HIDE DEF h
    <3> QED
      BY <2>3, <2>6, <3>2, ReturnType
  <2>7. CASE Crash("out_of_bounds")
    BY <2>7, FaultNames, CrashType
  <2> QED
    BY <1>3, <2>4, <2>5, <2>6, <2>7 DEF Copy
<1> QED
  BY <1>1, <1>2, <1>3 DEF track_memcpy

(* The first half of track_set_ptr with told.                              *)
LEMMA HandOverType ==
  ASSUME NEW h \in Heap, NEW s \in Core, NEW o \in Core
  PROVE  HandOver(h, s, o) \subseteq Heap
<1> DEFINE left  == __track_check_free_mem_block(h, o)
           reset == [left EXCEPT !.core[o].cur = h.core[o].start]
           moved == __track_migrate_cur_ptr(reset, o, s)
<1>1. left \in Heap
  BY CheckFreeBlockType
<1>2. reset \in Heap
  <2>1. left.core[o] \in CoreRec /\ h.core[o] \in CoreRec
    BY <1>1 DEF Heap
  <2> HIDE DEF left
  <2>2. [left.core[o] EXCEPT !.cur = h.core[o].start] \in CoreRec
    BY <2>1 DEF CoreRec
  <2> QED
    BY <1>1, <2>2, PutCore
<1>3. moved \in Heap
  BY <1>2, MigrateType
<1>4. __track_review_mem_links_list(OverwriteChecksum(moved, o), s, o)
        \subseteq Heap
  BY <1>3, OverwriteChecksumType, ReviewType
<1>5. \/ HandOver(h, s, o) = {moved}
      \/ HandOver(h, s, o) =
           __track_review_mem_links_list(OverwriteChecksum(moved, o), s, o)
  BY DEF HandOver
<1> HIDE DEF moved
<1> QED
  BY <1>3, <1>4, <1>5

(* The second half.                                                        *)
LEMMA TakeOverType ==
  ASSUME NEW h \in Heap, NEW s \in Core, NEW n \in Core
  PROVE  TakeOver(h, s, n) \subseteq Heap
<1>1. __track_migrate_cur_ptr(h, s, n) \in Heap
  BY MigrateType
<1>2. OverwriteChecksum(__track_migrate_cur_ptr(h, s, n), s) \in Heap
  BY <1>1, OverwriteChecksumType
<1> QED
  BY <1>2, ReviewType DEF TakeOver

(* track_set_ptr keeps the types.                                          *)
LEMMA SetPtrType ==
  ASSUME TypeOK, NEW s \in Arg, NEW n \in Arg, NEW o \in handle \cup {Null},
         track_set_ptr(s, n, o)
  PROVE  TypeOK'
<1>1. CASE Rejects({s, n})
  BY <1>1, RejectsType
<1>2. CASE Answer(ETRACK_IS_EMPTY, -1)
  BY <1>2, ErrorCodes, AnswerType
<1>3. CASE Accepts({s, n}) /\ \E h \in SetPtrResults(s, n, o) :
                                 Return(h, main, handle)
  <2>1. s \in Core /\ n \in Core /\ heap \in Heap
    BY <1>3, ArgType, HeapTyped DEF Accepts
  <2>2. __track_check_free_mem_block(heap, s) \in Heap
    BY <2>1, CheckFreeBlockType
  <2>3. o # Null => HandOver(heap, s, o) \subseteq Heap
    <3>1. o # Null => o \in Core
      BY DEF TypeOK
    <3> QED
      BY <2>1, <3>1, HandOverType
  <2>4. SetPtrResults(s, n, o) \subseteq Heap
    BY <2>1, <2>2, <2>3, TakeOverType DEF SetPtrResults
  <2>5. main \in ListOf(Core) /\ handle \in SUBSET Core
    BY DEF TypeOK
  <2> QED
    BY <1>3, <2>4, <2>5, ReturnType
<1> QED
  BY <1>1, <1>2, <1>3 DEF track_set_ptr

(* The program's own writes keep the types.                                *)
LEMMA WriteType ==
  ASSUME TypeOK, NEW p \in handle, NEW v \in Byte, UserWrite(p, v)
  PROVE  TypeOK'
<1>1. CASE Crash("use_after_free")
  BY <1>1, FaultNames, CrashType
<1>2. CASE /\ mem' = [mem EXCEPT ![core[p].cur] = v]
           /\ UNCHANGED <<core, block, fault, clientVars, errtrack, ret>>
  BY <1>2 DEF TypeOK, clientVars
<1> QED
  BY <1>1, <1>2 DEF UserWrite

-----------------------------------------------------------------------------
(* Every step keeps the types.                                             *)
LEMMA TypeNext == TypeOK /\ [Next]_vars => TypeOK'
<1> SUFFICES ASSUME TypeOK, [Next]_vars PROVE TypeOK'
  OBVIOUS
<1>1. CASE track_init \/ track_last_error \/ track_make_empty
  BY <1>1, InitCallType, LastErrorType, MakeEmptyType
<1>2. ASSUME NEW msize \in Sizes, NEW flags \in FlagSets,
             track_malloc(msize, flags)
      PROVE  TypeOK'
  BY <1>2, MallocType
<1>3. CASE track_destroy \/ DestroyNode \/ DestroyEnd
  BY <1>3, DestroyCallType, DestroyNodeType, DestroyEndType
<1>4. ASSUME NEW p \in Arg,
             track_free(p) \/ track_overwrite_checksum(p) \/ track_check_mem(p)
      PROVE  TypeOK'
  BY <1>4, FreeCallType, OverwriteCallType, CheckMemType
<1>5. ASSUME NEW p \in Arg, NEW k \in Moves, track_move_ptr(p, k)
      PROVE  TypeOK'
  BY <1>5, MovePtrType, ClientAssumption
<1>6. ASSUME NEW d \in Arg, NEW s \in Arg, NEW n \in Lens,
             track_memcpy(d, s, n)
      PROVE  TypeOK'
  BY <1>6, MemcpyType
<1>7. ASSUME NEW s \in Arg, NEW n \in Arg, NEW o \in handle \cup {Null},
             track_set_ptr(s, n, o)
      PROVE  TypeOK'
  BY <1>7, SetPtrType
<1>8. ASSUME NEW p \in handle, NEW v \in Byte, UserWrite(p, v)
      PROVE  TypeOK'
  BY <1>8, WriteType
<1>9. ASSUME NEW p \in Arg, NEW step \in Steps,
             TRACK_INC(p, step) \/ TRACK_DEC(p, step)
      PROVE  TypeOK'
  BY <1>9, StepType
<1>10. CASE UNCHANGED vars
  BY <1>10 DEF TypeOK, vars, heapVars, clientVars
<1> QED
  BY <1>1, <1>2, <1>3, <1>4, <1>5, <1>6, <1>7, <1>8, <1>9, <1>10
  DEF Next, Stopped

(* Every variable of the library and its heap keeps its type in every      *)
(* behaviour: addresses stay in the address space through the wrapping     *)
(* arithmetic of migrate, move and first_init, checksums are read from     *)
(* allocated bytes only, and the pointers of every list, also of one whose *)
(* ends were damaged, are null or name a node.                             *)
THEOREM LibraryTyped == Spec => []TypeOK
  BY TypeInit, TypeNext, PTL DEF Spec

-----------------------------------------------------------------------------
(* The counts.  CountsExact is inductive together with the types; what it  *)
(* says of the blocks is that the heap is exact, and of the main list that *)
(* its counter is right but while track_destroy frees its nodes.           *)

MainExact == inited => Counted(main) \/ pc = "destroy"
CountInv  == TypeOK /\ Exact(heap) /\ MainExact

(* The inductive invariant says what CountsExact says.                     *)
LEMMA CountInvMeans == CountInv => CountsExact
  BY DEF CountInv, CountsExact, MainExact, Exact, ExactBlock, Counted, heap

(* It holds before the first call.                                         *)
LEMMA CountInit == Init => CountInv
<1> SUFFICES ASSUME Init PROVE CountInv
  OBVIOUS
<1>1. Exact(heap)
  BY FreedBlockExact DEF Init, Exact, heap
<1> QED
  BY <1>1, TypeInit DEF CountInv, MainExact, Init

(* A call that leaves the blocks and the main list alone.                  *)
LEMMA SameCounts ==
  ASSUME CountInv, TypeOK', UNCHANGED <<block, main, inited, pc>>
  PROVE  CountInv'
  BY DEF CountInv, MainExact, Exact, ExactBlock, heap, Counted

(* A call that answers, or whose behaviour is undefined.                   *)
LEMMA AnswerCounts ==
  ASSUME CountInv, TypeOK',
         \/ \E e, r : Answer(e, r)
         \/ \E why : Crash(why)
         \/ \E args : Rejects(args)
  PROVE  CountInv'
  BY SameCounts DEF Answer, Crash, Rejects, heapVars, clientVars

(* A call that returns an exact heap and main list.                        *)
LEMMA ReturnCounts ==
  ASSUME CountInv, TypeOK', NEW h \in Heap, Exact(h), NEW l, NEW hs,
         (MainExact /\ l = main) \/ Counted(l), Return(h, l, hs)
  PROVE  CountInv'
<1>1. CASE Crash(h.fault)
  BY <1>1, AnswerCounts
<1>2. CASE /\ block' = h.block /\ main' = l
           /\ UNCHANGED <<inited, pc>>
  BY <1>2 DEF CountInv, MainExact, Exact, ExactBlock, heap, Counted
<1> QED
  BY <1>1, <1>2 DEF Return

(* A new tracker.                                                          *)
LEMMA WithNewCoreExact ==
  ASSUME CountInv, NEW a \in Block \cup {Null}, NEW msize \in 0 .. MaxSize,
         NEW flags, NEW fill, NEW c \in Core, NEW n \in Node, NEW g
  PROVE  Exact(WithNewCore(a, msize, flags, fill, c, n, g))
<1> DEFINE w == WithNewCore(a, msize, flags, fill, c, n, g)
<1> SUFFICES Exact(w)
  OBVIOUS
<1>0. heap \in Heap /\ Exact(heap)
  BY HeapTyped DEF CountInv
<1>w. w = CoreAdded(a, msize, flags, fill, c, n, g)
  BY NewCoreIs DEF CountInv
<1> HIDE DEF w
<1>1. CASE a = Null
  <2>1. w.block = heap.block
    BY <1>1, <1>w DEF CoreAdded, heap
  <2> QED
    BY <1>0, <2>1 DEF Exact
<1>2. CASE a # Null
  <2>1. a \in Block
    BY <1>2
  <2>2. w.block = [heap.block EXCEPT ![a] = NewBlock(msize, c, n)]
    BY <1>2, <1>w DEF CoreAdded, OverwriteChecksum, Broken, heap
  <2> QED
    BY <1>0, <2>1, <2>2, NewBlockExact, PutBlockExact
<1> QED
  BY <1>1, <1>2

(* Adding a structure to the main list counts it.                          *)
LEMMA PushCoreCounts ==
  ASSUME CountInv, TypeOK', inited, pc = "idle", NEW h \in Heap, Exact(h),
         NEW c \in Core, NEW m \in Allocatable(main), PushCore(h, c, m)
  PROVE  CountInv'
<1> DEFINE k == [h EXCEPT !.core[c].ptrid = m]
           l == npl_node_alloc(main, m, c)
           t == dht_list_add_node_tail(l, m)
<1>1. m \in Node /\ m \notin main.used
  BY AllocatableType
<1>2. main \in ListOf(Core) /\ Counted(main)
  BY DEF CountInv, TypeOK, MainExact
<1>3. k \in Heap /\ Exact(k)
  <2>1. h.core[c] \in CoreRec /\ m \in Ref
    BY <1>1 DEF Heap, Ref
  <2>2. [h.core[c] EXCEPT !.ptrid = m] \in CoreRec
    BY <2>1 DEF CoreRec
  <2>3. k \in Heap
    BY <2>2, PutCore
  <2>4. k.block = h.block
    BY DEF Heap
  <2> QED
    BY <2>3, <2>4 DEF Exact
<1>4. CASE CanAddTail(l) /\ Return(k, t, handle \cup {c})
  <2>1. Counted(t)
    BY <1>1, <1>2, <1>4, AddCounted
  <2> HIDE DEF k, t
  <2> QED
    BY <1>3, <1>4, <2>1, ReturnCounts
<1>5. CASE Crash("use_after_free")
  BY <1>5, AnswerCounts
<1> QED
  BY <1>4, <1>5 DEF PushCore, Push

(* __track_create_memory_control keeps the counts exact.                   *)
LEMMA CreateCounts ==
  ASSUME CountInv, TypeOK', inited, pc = "idle",
         NEW a \in Block \cup {Null}, NEW msize \in 0 .. MaxSize,
         NEW flags \in SUBSET Flag, NEW fill,
         a # Null => /\ block[a] = FreedBlock
                     /\ fill \in [a .. a + msize - 1 -> Byte],
         __track_create_memory_control(a, msize, flags, fill)
  PROVE  CountInv'
<1>0. TypeOK
  BY DEF CountInv
<1>1. CASE \/ Answer(ETRACK_ALLOC, -1) \/ Crash("null_deref")
  BY <1>1, AnswerCounts
<1>2. CASE GivenUp
  <2>1. UNCHANGED <<block, main, inited, pc>>
    BY <1>2 DEF GivenUp, Crash, heapVars, clientVars
  <2> QED
    BY <2>1, SameCounts
<1>3. ASSUME NEW c \in Core, NEW g \in Garbage,
             NEW n \in Allocatable(EmptyList), NEW m \in Allocatable(main),
             LET h == WithNewCore(a, msize, flags, fill, c, n, g)
             IN  Crash(h.fault) \/ PushCore(h, c, m)
      PROVE  CountInv'
  <2> DEFINE h == WithNewCore(a, msize, flags, fill, c, n, g)
  <2>1. n \in Node
    BY AllocatableType
  <2>2. h \in Heap /\ Exact(h)
    BY <1>0, <2>1, WithNewCoreType, WithNewCoreExact
  <2> HIDE DEF h
  <2> QED
    BY <1>3, <2>2, AnswerCounts, PushCoreCounts DEF h
<1> QED
  BY <1>0, <1>1, <1>2, <1>3, CreateSteps

(* track_malloc keeps the counts exact.                                    *)
LEMMA MallocCounts ==
  ASSUME CountInv, TypeOK', NEW msize \in Sizes, NEW flags \in FlagSets,
         track_malloc(msize, flags)
  PROVE  CountInv'
<1>1. msize \in 0 .. MaxSize /\ flags \in SUBSET Flag
  BY ClientAssumption DEF Flag
<1>2. CASE Rejects({}) \/ Answer(ETRACK_ALLOC, -1)
  BY <1>2, AnswerCounts
<1>3. CASE inited /\ pc = "idle"
             /\ \E a \in Block :
                  /\ block[a] = FreedBlock
                  /\ \E fill \in [a .. a + msize - 1 -> Byte] :
                       __track_create_memory_control(a, msize, flags, fill)
  BY <1>1, <1>3, CreateCounts
<1> QED
  BY <1>2, <1>3 DEF track_malloc, Enters

(* track_make_empty keeps the counts exact.                                *)
LEMMA MakeEmptyCounts ==
  ASSUME CountInv, TypeOK', track_make_empty
  PROVE  CountInv'
<1>1. CASE Rejects({})
  BY <1>1, AnswerCounts
<1>2. CASE inited /\ pc = "idle"
             /\ __track_create_memory_control(Null, 0, {"empty"}, <<>>)
  <2>1. 0 \in 0 .. MaxSize /\ {"empty"} \in SUBSET Flag
    BY LayoutAssumption DEF Flag
  <2> QED
    BY <1>2, <2>1, CreateCounts
<1> QED
  BY <1>1, <1>2 DEF track_make_empty, Enters

(* track_free keeps the counts exact, whichever node it removes.           *)
LEMMA FreeCallCounts ==
  ASSUME CountInv, TypeOK', NEW p \in Arg, track_free(p)
  PROVE  CountInv'
<1> DEFINE n == core[p].ptrid
           h == __track_main_list_node_data_free(heap, main.data[n])
           l == FreeNode(dht_list_remove_node(main, n), n)
<1>1. CASE Rejects({p}) \/ Crash(RemoveFault(main, n))
  BY <1>1, AnswerCounts
<1>2. CASE /\ inited /\ pc = "idle" /\ CanRemove(main, n)
           /\ Return(h, l, handle \ {p})
  <2>1. main \in ListOf(Core) /\ heap \in Heap /\ Exact(heap) /\ Counted(main)
    BY <1>2, HeapTyped DEF CountInv, TypeOK, MainExact
  <2>2. n \in Node
    BY <1>2, <2>1 DEF CanRemove, ListOf
  <2>3. Counted(l)
    BY <1>2, <2>1, <2>2, RemoveCounted
  <2>4. main.data[n] \in Core \cup {Null}
    BY <2>1, <2>2 DEF ListOf
  <2>5. h \in Heap /\ Exact(h)
    BY <2>1, <2>4, MainNodeFreeType, MainNodeFreeExact
  <2> HIDE DEF h, l
  <2> QED
    BY <1>2, <2>3, <2>5, ReturnCounts
<1> QED
  BY <1>1, <1>2 DEF track_free, Enters, Accepts

(* track_destroy frees the nodes of the main list without counting them;   *)
(* the list is gone before anything reads its counter again.               *)
LEMMA DestroyCounts ==
  ASSUME CountInv, TypeOK', track_destroy \/ DestroyNode \/ DestroyEnd
  PROVE  CountInv'
<1>1. CASE track_destroy
  <2>1. CASE Rejects({})
    BY <2>1, AnswerCounts
  <2>2. CASE pc' = "destroy" /\ UNCHANGED block
    BY <2>2 DEF CountInv, MainExact, Exact, ExactBlock, heap, Counted
  <2> QED
    BY <1>1, <2>1, <2>2 DEF track_destroy, heapVars
<1>2. CASE DestroyNode
  <2> DEFINE h == __track_main_list_node_data_free(heap, main.data[pos])
  <2>1. main \in ListOf(Core) /\ pos \in Node /\ heap \in Heap /\ Exact(heap)
    BY <1>2, HeapTyped DEF DestroyNode, CountInv, TypeOK, Ref
  <2>2. main.data[pos] \in Core \cup {Null}
    BY <2>1 DEF ListOf
  <2>3. Exact(h)
    BY <2>1, <2>2, MainNodeFreeExact
  <2>4. CASE Crash("use_after_free") \/ Crash(h.fault)
    BY <2>4, AnswerCounts
  <2>5. CASE block' = h.block /\ pc' = "destroy"
    BY <2>3, <2>5 DEF CountInv, MainExact, Exact, ExactBlock, heap, Counted
  <2> QED
    BY <1>2, <2>4, <2>5 DEF DestroyNode
<1>3. CASE DestroyEnd
  BY <1>3 DEF DestroyEnd, DestroyReturn, heapVars, CountInv, MainExact,
              Exact, ExactBlock, heap, Counted
<1> QED
  BY <1>1, <1>2, <1>3

(* track_overwrite_checksum keeps the counts exact.                        *)
LEMMA OverwriteCallCounts ==
  ASSUME CountInv, TypeOK', NEW p \in Arg, track_overwrite_checksum(p)
  PROVE  CountInv'
<1>1. CASE Rejects({p})
  BY <1>1, AnswerCounts
<1>2. CASE Accepts({p}) /\ Return(OverwriteChecksum(heap, p), main, handle)
  <2>1. TypeOK /\ MainExact /\ Exact(heap) /\ heap \in Heap
    BY HeapTyped DEF CountInv
  <2>2. p \in Core
    BY <1>2, <2>1, ArgType DEF Accepts
  <2>3. OverwriteChecksum(heap, p) \in Heap
    BY <2>1, <2>2, OverwriteChecksumType
  <2>4. Exact(OverwriteChecksum(heap, p))
    BY <2>1, <2>2, OverwriteExact
  <2> QED
    BY <1>2, <2>1, <2>3, <2>4, ReturnCounts
<1> QED
  BY <1>1, <1>2 DEF track_overwrite_checksum

(* Moving a pointer, copying and writing leave blocks and lists alone.     *)
LEMMA PointerCounts ==
  ASSUME CountInv, TypeOK',
         \/ \E p \in Arg : track_check_mem(p)
         \/ \E p \in Arg, k \in Int : track_move_ptr(p, k)
         \/ \E d, s \in Arg, n \in Lens : track_memcpy(d, s, n)
         \/ \E p \in handle, v \in Byte : UserWrite(p, v)
  PROVE  CountInv'
<1>1. CASE \E p \in Arg : track_check_mem(p)
  <2>1. \/ \E e, r : Answer(e, r)
        \/ \E why : Crash(why)
        \/ \E args : Rejects(args)
    BY <1>1 DEF track_check_mem
  <2> QED
    BY <2>1, AnswerCounts
<1>2. CASE \E p \in Arg, k \in Int : track_move_ptr(p, k)
  <2>1. PICK p \in Arg, k \in Int : track_move_ptr(p, k)
    BY <1>2
  <2> DEFINE h == [heap EXCEPT !.core[p].cur = Wrap(core[p].cur + k)]
  <2>2. CASE Return(h, main, handle)
    <3>1. h.block = heap.block
      BY DEF heap
    <3>2. UNCHANGED <<block, main, inited, pc>>
      BY <2>2, <3>1 DEF Return, Crash, heap, heapVars, clientVars
    <3> QED
      BY <3>2, SameCounts
  <2>3. CASE \/ \E e, r : Answer(e, r)
             \/ \E why : Crash(why)
             \/ \E args : Rejects(args)
    BY <2>3, AnswerCounts
  <2> QED
    BY <2>1, <2>2, <2>3 DEF track_move_ptr, __track_ptr_move, MoveTo
<1>3. CASE \E d, s \in Arg, n \in Lens : track_memcpy(d, s, n)
  <2>1. PICK d \in Arg, s \in Arg, n \in Lens : track_memcpy(d, s, n)
    BY <1>3
  <2>2. CASE Copy(d, s, n)
    <3> DEFINE h == Copied(core[d].cur, core[s].cur, n)
    <3>1. h.block = heap.block
      BY DEF heap, Copied
    <3> HIDE DEF h
    <3>2. UNCHANGED <<block, main, inited, pc>>
      BY <2>2, <3>1 DEF Copy, Return, Answer, Crash, heap, heapVars,
                        clientVars, h
    <3> QED
      BY <3>2, SameCounts
  <2>3. CASE \/ \E e, r : Answer(e, r)
             \/ \E args : Rejects(args)
    BY <2>3, AnswerCounts
  <2> QED
    BY <2>1, <2>2, <2>3 DEF track_memcpy
<1>4. CASE \E p \in handle, v \in Byte : UserWrite(p, v)
  <2>1. UNCHANGED <<block, main, inited, pc>>
    BY <1>4 DEF UserWrite, Crash, heapVars, clientVars
  <2> QED
    BY <2>1, SameCounts
<1> QED
  BY <1>1, <1>2, <1>3, <1>4

(* Re-pointing: each half leaves every block exact, whichever of the three *)
(* trackers share a block.                                                 *)
LEMMA HandOverExact ==
  ASSUME NEW h \in Heap, Exact(h), NEW s \in Core, NEW o \in Core,
         NEW g \in HandOver(h, s, o)
  PROVE  Exact(g)
<1> DEFINE left  == __track_check_free_mem_block(h, o)
           reset == [left EXCEPT !.core[o].cur = h.core[o].start]
           moved == __track_migrate_cur_ptr(reset, o, s)
           summed == OverwriteChecksum(moved, o)
<1>1. left \in Heap /\ Exact(left)
  BY CheckFreeBlockType, CheckFreeBlockExact
<1>2. reset \in Heap /\ Exact(reset)
  <2>1. left.core[o] \in CoreRec /\ h.core[o] \in CoreRec
    BY <1>1 DEF Heap
  <2> HIDE DEF left
  <2>2. [left.core[o] EXCEPT !.cur = h.core[o].start] \in CoreRec
    BY <2>1 DEF CoreRec
  <2>3. reset \in Heap
    BY <1>1, <2>2, PutCore
  <2>4. reset.block = left.block
    BY <1>1 DEF Heap
  <2> QED
    BY <1>1, <2>3, <2>4 DEF Exact
<1> HIDE DEF reset
<1>3. moved \in Heap /\ Exact(moved)
  BY <1>2, MigrateType, MigrateExact
<1> HIDE DEF moved
<1>4. summed \in Heap /\ Exact(summed)
  BY <1>3, OverwriteChecksumType, OverwriteExact
<1> HIDE DEF summed
<1>5. g = moved \/ g \in __track_review_mem_links_list(summed, s, o)
  BY DEF HandOver, reset, moved, summed
<1> QED
  BY <1>3, <1>4, <1>5, ReviewExact

(* The second half of track_set_ptr keeps every block exact.               *)
LEMMA TakeOverExact ==
  ASSUME NEW h \in Heap, Exact(h), NEW s \in Core, NEW n \in Core,
         NEW g \in TakeOver(h, s, n)
  PROVE  Exact(g)
<1> DEFINE moved == __track_migrate_cur_ptr(h, s, n)
           summed == OverwriteChecksum(moved, s)
<1>1. moved \in Heap /\ Exact(moved)
  BY MigrateType, MigrateExact
<1> HIDE DEF moved
<1>2. summed \in Heap /\ Exact(summed)
  BY <1>1, OverwriteChecksumType, OverwriteExact
<1> HIDE DEF summed
<1>3. g \in __track_review_mem_links_list(summed, n, s)
  BY DEF TakeOver, moved, summed
<1> QED
  BY <1>2, <1>3, ReviewExact

(* track_set_ptr keeps the counts exact, with any arguments.               *)
LEMMA SetPtrCounts ==
  ASSUME CountInv, TypeOK', NEW s \in Arg, NEW n \in Arg,
         NEW o \in handle \cup {Null}, track_set_ptr(s, n, o)
  PROVE  CountInv'
<1>1. CASE Rejects({s, n}) \/ Answer(ETRACK_IS_EMPTY, -1)
  BY <1>1, AnswerCounts
<1>2. CASE Accepts({s, n}) /\ \E h \in SetPtrResults(s, n, o) :
                                 Return(h, main, handle)
  <2>1. PICK h \in SetPtrResults(s, n, o) : Return(h, main, handle)
    BY <1>2
  <2>2. /\ s \in Core /\ n \in Core /\ (o # Null => o \in Core)
        /\ heap \in Heap /\ Exact(heap) /\ MainExact
    BY <1>2, ArgType, HeapTyped DEF Accepts, CountInv, TypeOK
  <2>3. PICK g : h \in TakeOver(g, s, n)
                   /\ IF o = Null
                      THEN g = __track_check_free_mem_block(heap, s)
                      ELSE g \in HandOver(heap, s, o)
    BY DEF SetPtrResults
  <2>4. g \in Heap /\ Exact(g)
    <3>1. CASE o = Null
      BY <2>2, <2>3, <3>1, CheckFreeBlockType, CheckFreeBlockExact
    <3>2. CASE o # Null
      BY <2>2, <2>3, <3>2, HandOverType, HandOverExact
    <3> QED
      BY <3>1, <3>2
  <2>5. h \in Heap /\ Exact(h)
    BY <2>2, <2>3, <2>4, TakeOverType, TakeOverExact
  <2> QED
    BY <2>1, <2>2, <2>5, ReturnCounts
<1> QED
  BY <1>1, <1>2 DEF track_set_ptr

(* Every step keeps the counts.                                            *)
LEMMA CountNext == CountInv /\ [Next]_vars => CountInv'
<1> SUFFICES ASSUME CountInv, [Next]_vars PROVE CountInv'
  OBVIOUS
<1>0. TypeOK'
  BY TypeNext DEF CountInv
<1>1. CASE track_init
  <2>1. CASE Answer(ETRACK_INIT_TWICE, -1) \/ Crash("null_deref")
    BY <1>0, <2>1, AnswerCounts
  <2>2. CASE main' = EmptyList /\ UNCHANGED block
    BY <1>0, <2>2, EmptyListCounted
    DEF CountInv, MainExact, Exact, ExactBlock, heap, Counted
  <2> QED
    BY <1>1, <2>1, <2>2 DEF track_init, heapVars
<1>2. CASE track_last_error \/ Stopped \/ UNCHANGED vars
  <2>1. UNCHANGED <<block, main, inited, pc>>
    BY <1>2 DEF track_last_error, Stopped, vars, heapVars, clientVars
  <2> QED
    BY <1>0, <2>1, SameCounts
<1>3. CASE track_make_empty
  BY <1>0, <1>3, MakeEmptyCounts
<1>4. ASSUME NEW msize \in Sizes, NEW flags \in FlagSets,
             track_malloc(msize, flags)
      PROVE  CountInv'
  BY <1>0, <1>4, MallocCounts
<1>5. CASE track_destroy \/ DestroyNode \/ DestroyEnd
  BY <1>0, <1>5, DestroyCounts
<1>6. ASSUME NEW p \in Arg, track_free(p) \/ track_overwrite_checksum(p)
      PROVE  CountInv'
  BY <1>0, <1>6, FreeCallCounts, OverwriteCallCounts
<1>7. CASE \/ \E p \in Arg : track_check_mem(p)
           \/ \E p \in Arg, k \in Int : track_move_ptr(p, k)
           \/ \E d, s \in Arg, n \in Lens : track_memcpy(d, s, n)
           \/ \E p \in handle, v \in Byte : UserWrite(p, v)
  BY <1>0, <1>7, PointerCounts
<1>8. ASSUME NEW s \in Arg, NEW n \in Arg, NEW o \in handle \cup {Null},
             track_set_ptr(s, n, o)
      PROVE  CountInv'
  BY <1>0, <1>8, SetPtrCounts
<1>9. ASSUME NEW p \in Arg, NEW step \in Steps,
             TRACK_INC(p, step) \/ TRACK_DEC(p, step)
      PROVE  CountInv'
  BY <1>0, <1>9, StepIsMove, AnswerCounts, PointerCounts
<1>10. ASSUME NEW p \in Arg, NEW k \in Moves, track_move_ptr(p, k)
       PROVE  CountInv'
  BY <1>7, <1>10, ClientAssumption
<1> QED
  BY <1>1, <1>2, <1>3, <1>4, <1>5, <1>6, <1>7, <1>8, <1>9, <1>10 DEF Next

(* The count that decides when memory is freed is right in every behaviour *)
(* of every program: a block is allocated exactly while nodes of its list  *)
(* are, and no re-pointing, free or failed allocation is counted twice or  *)
(* missed, although removals at the ends of a list leave its pointers      *)
(* dangling.                                                               *)
THEOREM CountsAlwaysExact == Spec => []CountsExact
  BY CountInit, CountNext, CountInvMeans, PTL DEF Spec

=============================================================================
