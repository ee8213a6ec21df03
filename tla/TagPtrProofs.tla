---------------------------- MODULE TagPtrProofs ----------------------------
(***************************************************************************)
(* Proofs about the tagged allocations of TagPtr, for every size of        *)
(* size_t, all sizes and counts, any number of chunks and any bytes.       *)
(***************************************************************************)
EXTENDS TagPtr, TLAPS

(* Null is no chunk of bytes and no number.                                *)
LEMMA NullApart == Null \notin Seq(Byte) /\ Null \notin Nat
  BY SizeAssumption

(* A size that does not wrap leaves room for the tag.                      *)
LEMMA WithTagFits ==
  ASSUME NEW n \in Nat
  PROVE  /\ WithTag(n) \in 0 .. SizeSpace - 1
         /\ n + 1 < SizeSpace => WithTag(n) = n + 1
  BY SizeAssumption DEF WithTag

(* For the sizes of realloc, the only one that wraps gives no bytes.       *)
LEMMA ReallocFits ==
  ASSUME NEW n \in Sizes, WithTag(n) # 0
  PROVE  n \in Nat /\ n + 1 < SizeSpace
  BY SizeAssumption DEF WithTag

(* The tag stored in front of m bytes.                                     *)
LEMMA TaggedBytes ==
  ASSUME NEW m \in Nat \ {0}, NEW bytes \in [1 .. m -> Byte]
  PROVE  LET t == [bytes EXCEPT ![1] = PTAG_PTR_OK]
         IN  /\ t \in Seq(Byte) /\ Len(t) = m
             /\ t[1] = PTAG_PTR_OK
             /\ \A i \in 2 .. m : t[i] = bytes[i]
<1> DEFINE t == [bytes EXCEPT ![1] = PTAG_PTR_OK]
<1>1. t \in [1 .. m -> Byte]
  BY SizeAssumption DEF PTAG_PTR_OK
<1>2. t[1] = PTAG_PTR_OK /\ \A i \in 2 .. m : t[i] = bytes[i]
  OBVIOUS
<1> HIDE DEF t
<1>3. t \in Seq(Byte) /\ Len(t) = m
  BY <1>1
<1> QED
  BY <1>2, <1>3 DEF t

(* bytes of a new chunk are empty only if none were asked for.             *)
LEMMA BytesEmpty ==
  ASSUME NEW m \in Nat, NEW bytes \in [1 .. m -> Byte], bytes # <<>>
  PROVE  m # 0
<1> SUFFICES ASSUME m = 0 PROVE FALSE
  OBVIOUS
<1>1. bytes \in Seq(Byte) /\ Len(bytes) = 0
  OBVIOUS
<1> QED
  BY <1>1

TagInv == TypeOK /\ TagsIntact

(* What TagInv says of one chunk.                                          *)
Good(b, n, c, w) ==
  /\ b \in Seq(Byte) \cup {Null}
  /\ b # Null => Len(b) < SizeSpace
  /\ n \in Nat \cup {Null}
  /\ n # Null /\ c \notin w => b # Null /\ n < Len(b) /\ b[1] = PTAG_PTR_OK

(* TagInv, chunk by chunk.                                                 *)
LEMMA TagInvGood ==
  TagInv => \A c \in Chunk : Good(chunk[c], asked[c], c, wrapped)
  BY DEF TagInv, TypeOK, TagsIntact, Good, Held, Freed

(* The first state.                                                        *)
LEMMA TagInit == Init => TagInv
  BY NullApart DEF Init, TagInv, TypeOK, TagsIntact, Held, Freed

(* Steps that change no chunk.                                             *)
LEMMA SameTags ==
  ASSUME TagInv, UNCHANGED <<chunk, asked, wrapped>>,
         fault' \in BOOLEAN, ret' \in {-1, 0}
  PROVE  TagInv'
  BY DEF TagInv, TypeOK, TagsIntact, Held, Freed

(* A call that refuses, or whose behaviour is undefined.                   *)
LEMMA RefuseTags ==
  ASSUME TagInv, Refuse \/ Crash \/ \E p : Rejects(p)
  PROVE  TagInv'
  BY SameTags DEF Refuse, Crash, Rejects, TagInv, TypeOK

(* A new chunk.                                                            *)
LEMMA NewTags ==
  ASSUME TagInv, NEW n \in Nat, NEW c \in Freed,
         NEW bytes \in [1 .. WithTag(n) -> Byte], Tag(c, bytes, n)
  PROVE  TagInv'
<1>1. CASE Crash
  BY <1>1, RefuseTags
<1>2. CASE bytes # <<>> /\ ~Crash
  <2> DEFINE t == [bytes EXCEPT ![1] = PTAG_PTR_OK]
  <2>1. WithTag(n) \in Nat \ {0} /\ WithTag(n) < SizeSpace
    BY <1>2, WithTagFits, BytesEmpty, SizeAssumption
  <2>2. t \in Seq(Byte) /\ Len(t) = WithTag(n) /\ t[1] = PTAG_PTR_OK
    BY <2>1, TaggedBytes
  <2>3. /\ chunk' = [chunk EXCEPT ![c] = t]
        /\ asked' = [asked EXCEPT ![c] = n]
        /\ wrapped' = IF n + 1 < SizeSpace THEN wrapped \ {c}
                                           ELSE wrapped \cup {c}
        /\ ret' = 0 /\ fault' = fault
    BY <1>2 DEF Tag
  <2> HIDE DEF t
  <2>4. c \in Chunk /\ chunk \in [Chunk -> Seq(Byte) \cup {Null}]
        /\ asked \in [Chunk -> Nat \cup {Null}]
    BY DEF Freed, TagInv, TypeOK
  <2>5. ASSUME NEW x \in Chunk
        PROVE  Good(chunk'[x], asked'[x], x, wrapped')
    <3>1. CASE x = c
      <4>1. chunk'[x] = t /\ asked'[x] = n
        BY <2>3, <2>4, <3>1
      <4>2. x \notin wrapped' => WithTag(n) = n + 1
        BY <2>3, <3>1, WithTagFits
      <4> QED
        BY <2>1, <2>2, <4>1, <4>2, NullApart DEF Good
    <3>2. CASE x # c
      <4>1. chunk'[x] = chunk[x] /\ asked'[x] = asked[x]
            /\ (x \in wrapped' <=> x \in wrapped)
        BY <2>3, <2>4, <3>2
      <4> QED
        BY <4>1, TagInvGood DEF Good
    <3> QED
      BY <3>1, <3>2
  <2>6. /\ chunk' \in [Chunk -> Seq(Byte) \cup {Null}]
        /\ asked' \in [Chunk -> Nat \cup {Null}]
    BY <2>2, <2>3, <2>4
  <2>7. wrapped' \subseteq Chunk /\ fault' \in BOOLEAN /\ ret' \in {-1, 0}
    BY <2>3, <2>4 DEF TagInv, TypeOK
  <2> QED
    BY <2>5, <2>6, <2>7
    DEF TagInv, TypeOK, TagsIntact, Good, Held, Freed
<1> QED
  BY <1>1, <1>2 DEF Tag

(* A pointer that a call accepts leads to a chunk the program holds.       *)
LEMMA AcceptedHeld ==
  ASSUME TagInv, NEW p \in Pointer \cup {Null}, Accepts(p)
  PROVE  /\ p[1] \in Held /\ p[1] \in Chunk
         /\ chunk[p[1]] \in Seq(Byte) /\ chunk[p[1]] # Null
<1>1. p \in Pointer
  BY DEF Accepts
<1>2. p[1] \in Held /\ p[1] \in Chunk
  BY <1>1 DEF Pointer, Held
<1> QED
  BY <1>2 DEF Accepts, InChunk, TagInv, TypeOK

(* ptag_free keeps the tags.                                               *)
LEMMA FreeTags ==
  ASSUME TagInv, NEW p \in Pointer \cup {Null}, ptag_free(p)
  PROVE  TagInv'
<1>1. CASE Rejects(p)
  BY <1>1, RefuseTags
<1>2. CASE /\ Accepts(p)
           /\ chunk' = [chunk EXCEPT ![p[1]] = Null]
           /\ asked' = [asked EXCEPT ![p[1]] = Null]
           /\ ret' = 0
           /\ UNCHANGED <<wrapped, fault>>
  <2>1. p[1] \in Chunk
    BY <1>2, AcceptedHeld
  <2> QED
    BY <1>2, <2>1 DEF TagInv, TypeOK, TagsIntact, Held, Freed
<1> QED
  BY <1>1, <1>2 DEF ptag_free

(* The program's own stores keep the tags.                                 *)
LEMMA StoreTags ==
  ASSUME TagInv, NEW c \in Held, NEW v \in Byte, NEW i \in 1 .. asked[c],
         Store(c, i, v)
  PROVE  TagInv'
<1>1. CASE Crash
  BY <1>1, RefuseTags
<1>2. CASE /\ InChunk(<<c, i + 1>>)
           /\ chunk' = [chunk EXCEPT ![c][i + 1] = v]
           /\ UNCHANGED <<asked, wrapped, fault, ret>>
  <2>1. /\ c \in Chunk /\ chunk[c] \in Seq(Byte) /\ chunk[c] # Null
        /\ i \in Nat \ {0} /\ i + 1 <= Len(chunk[c])
    BY <1>2 DEF Held, InChunk, TagInv, TypeOK
  <2> DEFINE t == [chunk[c] EXCEPT ![i + 1] = v]
  <2>2. /\ t \in Seq(Byte) /\ Len(t) = Len(chunk[c]) /\ t[1] = chunk[c][1]
        /\ t # Null
    BY <2>1, NullApart
  <2>3. chunk' = [chunk EXCEPT ![c] = t]
    BY <1>2
  <2> HIDE DEF t
  <2>4. /\ chunk \in [Chunk -> Seq(Byte) \cup {Null}]
        /\ asked \in [Chunk -> Nat \cup {Null}]
        /\ wrapped \subseteq Chunk /\ fault \in BOOLEAN /\ ret \in {-1, 0}
    BY DEF TagInv, TypeOK
  <2>5. ASSUME NEW x \in Chunk
        PROVE  Good(chunk'[x], asked'[x], x, wrapped')
    <3>1. Good(chunk[x], asked[x], x, wrapped)
      BY TagInvGood
    <3>2. asked'[x] = asked[x] /\ wrapped' = wrapped
      BY <1>2
    <3>3. CASE x = c
      <4>1. chunk'[x] = t
        BY <2>1, <2>3, <2>4, <3>3
      <4> QED
        BY <2>1, <2>2, <3>1, <3>2, <3>3, <4>1 DEF Good
    <3>4. CASE x # c
      <4>1. chunk'[x] = chunk[x]
        BY <2>3, <2>4, <3>4
      <4> QED
        BY <3>1, <3>2, <4>1
    <3> QED
      BY <3>3, <3>4
  <2>6. chunk' \in [Chunk -> Seq(Byte) \cup {Null}]
    BY <2>1, <2>2, <2>3, <2>4
  <2> QED
    BY <1>2, <2>4, <2>5, <2>6 DEF Good, TagInv, TypeOK, TagsIntact, Held, Freed
<1> QED
  BY <1>1, <1>2 DEF Store

(* ptag_realloc keeps the tags, in place and elsewhere.                    *)
LEMMA ReallocTags ==
  ASSUME TagInv, NEW p \in Pointer \cup {Null}, NEW n \in Sizes,
         ptag_realloc(p, n)
  PROVE  TagInv'
<1> DEFINE c == p[1]
<1>1. CASE Rejects(p) \/ Refuse
  BY <1>1, RefuseTags
<1>2. CASE /\ Accepts(p)
           /\ chunk' = [chunk EXCEPT ![c] = Null]
           /\ wrapped' = wrapped \cup {c}
           /\ ret' = -1
           /\ UNCHANGED <<asked, fault>>
  <2>1. c \in Chunk
    BY <1>2, AcceptedHeld
  <2> QED
    BY <1>2, <2>1 DEF TagInv, TypeOK, TagsIntact, Held, Freed
<1>3. ASSUME Accepts(p), WithTag(n) # 0, NEW d \in {c} \cup Freed,
             NEW bytes \in Realloc(c, WithTag(n)),
             chunk' = [chunk EXCEPT ![c] = Null,
                                    ![d] = [bytes EXCEPT ![1] = PTAG_PTR_OK]],
             asked' = [asked EXCEPT ![c] = Null, ![d] = n],
             wrapped' = wrapped \ {d}, ret' = 0, UNCHANGED fault
      PROVE  TagInv'
  <2> DEFINE t == [bytes EXCEPT ![1] = PTAG_PTR_OK]
  <2>1. /\ n \in Nat /\ n + 1 < SizeSpace /\ WithTag(n) = n + 1
        /\ bytes \in [1 .. n + 1 -> Byte]
    BY <1>3, ReallocFits, WithTagFits DEF Realloc
  <2>2. t \in Seq(Byte) /\ Len(t) = n + 1 /\ t[1] = PTAG_PTR_OK
    BY <2>1, TaggedBytes
  <2>3. chunk' = [chunk EXCEPT ![c] = Null, ![d] = t]
    BY <1>3
  <2> HIDE DEF t
  <2>4. /\ c \in Chunk /\ d \in Chunk
        /\ chunk \in [Chunk -> Seq(Byte) \cup {Null}]
        /\ asked \in [Chunk -> Nat \cup {Null}]
        /\ wrapped \subseteq Chunk /\ fault \in BOOLEAN
    BY <1>3, AcceptedHeld DEF Freed, TagInv, TypeOK
  <2> HIDE DEF c
  <2>5. ASSUME NEW x \in Chunk
        PROVE  Good(chunk'[x], asked'[x], x, wrapped')
    <3>1. CASE x = d
      <4>1. chunk'[x] = t /\ asked'[x] = n
        BY <1>3, <2>3, <2>4, <3>1
      <4> QED
        BY <2>1, <2>2, <4>1, NullApart DEF Good
    <3>2. CASE x # d /\ x = c
      <4>1. chunk'[x] = Null /\ asked'[x] = Null
        BY <1>3, <2>3, <2>4, <3>2
      <4> QED
        BY <4>1 DEF Good
    <3>3. CASE x # d /\ x # c
      <4>1. chunk'[x] = chunk[x] /\ asked'[x] = asked[x]
            /\ (x \in wrapped' <=> x \in wrapped)
        BY <1>3, <2>3, <2>4, <3>3
      <4> QED
        BY <4>1, TagInvGood DEF Good
    <3> QED
      BY <3>1, <3>2, <3>3
  <2>6. /\ chunk' \in [Chunk -> Seq(Byte) \cup {Null}]
        /\ asked' \in [Chunk -> Nat \cup {Null}]
    BY <1>3, <2>1, <2>2, <2>3, <2>4
  <2>7. wrapped' \subseteq Chunk /\ fault' \in BOOLEAN /\ ret' \in {-1, 0}
    BY <1>3, <2>4
  <2> QED
    BY <2>5, <2>6, <2>7
    DEF TagInv, TypeOK, TagsIntact, Good, Held, Freed
<1> QED
  BY <1>1, <1>2, <1>3 DEF ptag_realloc

(* ptag_malloc and ptag_calloc promise a number of bytes.                  *)
LEMMA AllocTags ==
  ASSUME TagInv,
         \/ \E n \in Sizes : ptag_malloc(n)
         \/ \E k \in Counts, n \in Sizes : ptag_calloc(k, n)
  PROVE  TagInv'
<1>1. CASE \E n \in Sizes : ptag_malloc(n)
  <2>1. PICK n \in Sizes : ptag_malloc(n)
    BY <1>1
  <2>2. n \in Nat
    BY SizeAssumption
  <2> QED
    BY <2>1, <2>2, RefuseTags, NewTags DEF ptag_malloc
<1>2. CASE \E k \in Counts, n \in Sizes : ptag_calloc(k, n)
  <2>1. PICK k \in Counts, n \in Sizes : ptag_calloc(k, n)
    BY <1>2
  <2>2. k \in Nat /\ n \in Nat
    BY SizeAssumption
  <2>3. PICK m \in Nat : m = k * n
    BY <2>2
  <2>4. CASE Refuse
    BY <2>4, RefuseTags
  <2>5. CASE \E c \in Freed, bytes \in Cleared(WithTag(m)) : Tag(c, bytes, m)
    <3>1. PICK c \in Freed, bytes \in Cleared(WithTag(m)) : Tag(c, bytes, m)
      BY <2>5
    <3>2. bytes \in [1 .. WithTag(m) -> Byte]
      BY <3>1, SizeAssumption DEF Cleared
    <3> QED
      BY <3>1, <3>2, NewTags
  <2> QED
    BY <2>1, <2>3, <2>4, <2>5 DEF ptag_calloc
<1> QED
  BY <1>1, <1>2

-----------------------------------------------------------------------------
(* Every step keeps the types and the tags.                                *)
LEMMA TagNext == TagInv /\ [Next]_vars => TagInv'
<1> SUFFICES ASSUME TagInv, [Next]_vars PROVE TagInv'
  OBVIOUS
<1>1. CASE \/ \E n \in Sizes : ptag_malloc(n)
           \/ \E k \in Counts, n \in Sizes : ptag_calloc(k, n)
  BY <1>1, AllocTags
<1>2. CASE \E p \in Pointer \cup {Null} : ptag_free(p)
  BY <1>2, FreeTags
<1>3. CASE \E p \in Pointer \cup {Null}, n \in Sizes : ptag_realloc(p, n)
  BY <1>3, ReallocTags
<1>4. CASE \E c \in Held, v \in Byte : \E i \in 1 .. asked[c] : Store(c, i, v)
  BY <1>4, StoreTags
<1>5. CASE UNCHANGED vars
  BY <1>5, SameTags DEF vars, TagInv, TypeOK
<1> QED
  BY <1>1, <1>2, <1>3, <1>4, <1>5 DEF Next

(* Every variable keeps its type: chunks stay byte strings no longer than  *)
(* a size_t can say, through allocation, stores and realloc.               *)
THEOREM TagsTyped == Spec => []TypeOK
<1>1. TagInv => TypeOK
  BY DEF TagInv
<1> QED
  BY <1>1, TagInit, TagNext, PTL DEF Spec

(* The tag in front of the program's bytes is right, and there is room for *)
(* every byte promised, in every sequence of allocations, stores, moves    *)
(* and frees: ptag_free and ptag_realloc never refuse a good pointer.      *)
(* Chunks whose size wrapped around are the exception.                     *)
THEOREM TagsAlwaysIntact == Spec => []TagsIntact
<1>1. TagInv => TagsIntact
  BY DEF TagInv
<1> QED
  BY <1>1, TagInit, TagNext, PTL DEF Spec

-----------------------------------------------------------------------------
(* What one call of ptag_calloc clears.                                    *)
LEMMA CallocStep ==
  ASSUME TagInv, NEW k \in Counts, NEW n \in Sizes, ptag_calloc(k, n),
         NEW c \in Held' \ (Held \cup wrapped')
  PROVE  asked'[c] = k * n /\ \A i \in 1 .. k * n : chunk'[c][i + 1] = 0
<1>1. k \in Nat /\ n \in Nat
  BY SizeAssumption
<1>2. PICK m \in Nat : m = k * n
  BY <1>1
<1>3. c \in Chunk /\ asked'[c] # Null /\ asked[c] = Null /\ c \notin wrapped'
  BY DEF Held
<1>4. asked' # asked
  BY <1>3
<1>5. PICK d \in Freed, bytes \in Cleared(WithTag(m)) : Tag(d, bytes, m)
  BY <1>2, <1>4 DEF ptag_calloc, Refuse
<1>6. /\ bytes # <<>>
      /\ chunk' = [chunk EXCEPT ![d] = [bytes EXCEPT ![1] = PTAG_PTR_OK]]
      /\ asked' = [asked EXCEPT ![d] = m]
      /\ wrapped' = IF m + 1 < SizeSpace THEN wrapped \ {d}
                                         ELSE wrapped \cup {d}
  BY <1>4, <1>5 DEF Tag, Crash
<1>7. d \in Chunk /\ chunk \in [Chunk -> Seq(Byte) \cup {Null}]
      /\ asked \in [Chunk -> Nat \cup {Null}]
  BY DEF Freed, TagInv, TypeOK
<1>8. c = d
  BY <1>3, <1>6, <1>7
<1>9. m + 1 < SizeSpace /\ WithTag(m) = m + 1
  BY <1>3, <1>6, <1>8, WithTagFits
<1>10. bytes = [i \in 1 .. m + 1 |-> 0]
  BY <1>5, <1>9 DEF Cleared
<1>11. chunk'[c] = [bytes EXCEPT ![1] = PTAG_PTR_OK] /\ asked'[c] = m
  BY <1>6, <1>7, <1>8
<1>12. ASSUME NEW i \in 1 .. m PROVE chunk'[c][i + 1] = 0
  <2>1. i + 1 \in 1 .. m + 1 /\ i + 1 # 1
    BY <1>2
  <2> QED
    BY <1>10, <1>11, <2>1
<1> QED
  BY <1>2, <1>11, <1>12

(* Where the bytes of a chunk are after one call of ptag_realloc.          *)
LEMMA ReallocStep ==
  ASSUME TagInv, NEW c \in Held \ wrapped, NEW n \in Sizes,
         ptag_realloc(<<c, 1>>, n), n + 1 < SizeSpace
  PROVE  \E d \in Held' :
            /\ \/ d = c
               \/ c \notin Held' /\ d \notin Held \ wrapped
            /\ asked'[d] = IF ret' = 0 THEN n ELSE asked[c]
            /\ asked'[d] < Len(chunk'[d])
            /\ \A i \in 1 .. asked[c] :
                 i <= asked'[d] => chunk'[d][i + 1] = chunk[c][i + 1]
<1> DEFINE p == <<c, 1>>
<1>1. /\ c \in Chunk /\ asked[c] \in Nat /\ asked[c] # Null
      /\ chunk[c] # Null /\ chunk[c] \in Seq(Byte)
      /\ asked[c] < Len(chunk[c]) /\ chunk[c][1] = PTAG_PTR_OK
  BY DEF Held, TagInv, TypeOK, TagsIntact
<1>2. p[1] = c /\ p[2] = 1 /\ InChunk(p) /\ PTAG_CHECK_PTR(p)
  BY <1>1 DEF InChunk, PTAG_CHECK_PTR
<1>3. n \in Nat /\ WithTag(n) = n + 1
  BY SizeAssumption, WithTagFits
<1>4. CASE Refuse
  BY <1>1, <1>4 DEF Refuse, Held
<1>5. ASSUME NEW d \in {c} \cup Freed, NEW bytes \in Realloc(c, n + 1),
             chunk' = [chunk EXCEPT ![c] = Null,
                                    ![d] = [bytes EXCEPT ![1] = PTAG_PTR_OK]],
             asked' = [asked EXCEPT ![c] = Null, ![d] = n], ret' = 0
      PROVE  /\ d \in Held' /\ (d = c \/ (c \notin Held' /\ d \notin Held \ wrapped))
             /\ asked'[d] = n /\ n < Len(chunk'[d])
             /\ \A i \in 1 .. asked[c] :
                  i <= n => chunk'[d][i + 1] = chunk[c][i + 1]
  <2> DEFINE t == [bytes EXCEPT ![1] = PTAG_PTR_OK]
  <2>1. d \in Chunk /\ chunk \in [Chunk -> Seq(Byte) \cup {Null}]
        /\ asked \in [Chunk -> Nat \cup {Null}]
    BY <1>1 DEF Freed, TagInv, TypeOK
  <2>2. bytes \in [1 .. n + 1 -> Byte]
        /\ \A i \in 1 .. n + 1 : i <= Len(chunk[c]) => bytes[i] = chunk[c][i]
    BY DEF Realloc
  <2>3. Len(t) = n + 1 /\ \A i \in 2 .. n + 1 : t[i] = bytes[i]
    BY <1>3, <2>2, TaggedBytes
  <2>4. chunk'[d] = t /\ asked'[d] = n
    BY <1>5, <2>1
  <2> HIDE DEF t
  <2>5. d \in Held'
    BY <1>3, <2>1, <2>4, NullApart DEF Held
  <2>6. d = c \/ (c \notin Held' /\ d \notin Held \ wrapped)
    <3> SUFFICES ASSUME d # c
                 PROVE  c \notin Held' /\ d \notin Held \ wrapped
      OBVIOUS
    <3>1. asked'[c] = Null /\ chunk[d] = Null
      BY <1>1, <1>5, <2>1 DEF Freed
    <3> QED
      BY <3>1 DEF Held, TagInv, TagsIntact
  <2>7. ASSUME NEW i \in 1 .. asked[c], i <= n
        PROVE  chunk'[d][i + 1] = chunk[c][i + 1]
    <3>1. i + 1 \in 2 .. n + 1 /\ i + 1 \in 1 .. n + 1
          /\ i + 1 <= Len(chunk[c])
      BY <1>1, <1>3, <2>7
    <3> QED
      BY <2>2, <2>3, <2>4, <3>1
  <2> QED
    BY <1>3, <2>3, <2>4, <2>5, <2>6, <2>7
<1>6. \/ Refuse
      \/ \E d \in {c} \cup Freed, bytes \in Realloc(c, n + 1) :
           /\ chunk' = [chunk EXCEPT ![c] = Null,
                                     ![d] = [bytes EXCEPT ![1] = PTAG_PTR_OK]]
           /\ asked' = [asked EXCEPT ![c] = Null, ![d] = n]
           /\ ret' = 0
  BY <1>2, <1>3 DEF ptag_realloc, Rejects
<1> QED
  BY <1>4, <1>5, <1>6

(* A chunk of ptag_calloc holds as many zeroes as were asked for, however  *)
(* often the memory was used before (sizes that wrap around aside).        *)
THEOREM CallocAlwaysZeroes == Spec => CallocZeroes
<1>1. TagInv => (\A k \in Counts, n \in Sizes :
                   ptag_calloc(k, n) =>
         \A c \in Held' \ (Held \cup wrapped') :
           asked'[c] = k * n /\ \A i \in 1 .. k * n : chunk'[c][i + 1] = 0)
  BY CallocStep
<1> QED
  BY <1>1, TagInit, TagNext, PTL DEF Spec, CallocZeroes

(* ptag_realloc loses no byte the program still owns, whether it moves the *)
(* chunk, resizes it in place or fails.                                    *)
THEOREM ReallocAlwaysKeeps == Spec => ReallocKeeps
<1>1. TagInv =>
        \A c \in Held \ wrapped, n \in Sizes :
          /\ ptag_realloc(<<c, 1>>, n)
          /\ n + 1 < SizeSpace
          => \E d \in Held' :
               /\ \/ d = c
                  \/ c \notin Held' /\ d \notin Held \ wrapped
               /\ asked'[d] = IF ret' = 0 THEN n ELSE asked[c]
               /\ asked'[d] < Len(chunk'[d])
               /\ \A i \in 1 .. asked[c] :
                    i <= asked'[d] => chunk'[d][i + 1] = chunk[c][i + 1]
  BY ReallocStep
<1> QED
  BY <1>1, TagInit, TagNext, PTL DEF Spec, ReallocKeeps

=============================================================================
