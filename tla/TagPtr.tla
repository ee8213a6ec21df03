------------------------------- MODULE TagPtr -------------------------------
(***************************************************************************)
(* tagptr.c: allocations with a tag byte in front.  A chunk is what malloc *)
(* returned, a sequence of bytes whose first is the tag; the program gets  *)
(* the pointer to the second.  The program may store into the bytes it was *)
(* promised, and passes pointers it was given, or has moved on within      *)
(* those bytes.  Sizes are of type size_t and wrap around.                 *)
(***************************************************************************)
EXTENDS Integers, Sequences

CONSTANTS
  Chunk,      \* addresses malloc can return
  Null,
  SizeSpace,  \* the number of values of a size_t
  Sizes,      \* sizes the program asks for
  Counts,     \* numbers of elements it asks ptag_calloc for
  Byte

ASSUME SizeAssumption ==
  /\ SizeSpace \in Nat \ {0}
  /\ Sizes \subseteq 0 .. SizeSpace - 1
  /\ Counts \subseteq 0 .. SizeSpace - 1
  /\ 0 \in Byte
  /\ Null \notin Seq(Byte) /\ Null \notin Nat

VARIABLES
  chunk,    \* the bytes of each chunk, Null where nothing is allocated
  asked,    \* the bytes promised to the program behind the pointer into a
            \* chunk, Null where it holds none
  wrapped,  \* the chunks asked for with a size that wrapped around
  fault,    \* undefined behaviour has happened
  ret       \* the last call: 0, or -1 for -1 and for NULL

vars == <<chunk, asked, wrapped, fault, ret>>

PTAG_PTR_OK == 0
Held == {c \in Chunk : asked[c] # Null}
Freed == {c \in Chunk : chunk[c] = Null}

Init ==
  /\ chunk = [c \in Chunk |-> Null]
  /\ asked = [c \in Chunk |-> Null]
  /\ wrapped = {}
  /\ fault = FALSE
  /\ ret = 0

Refuse == ret' = -1 /\ UNCHANGED <<chunk, asked, wrapped, fault>>
Crash  == fault' = TRUE /\ UNCHANGED <<chunk, asked, wrapped, ret>>

-----------------------------------------------------------------------------
(* A mutant: no room for the tag.                                          *)
Untagged(n) == n % SizeSpace
(* A mutant: sizes do not wrap.                                            *)
Unwrapped(n) == n + 1

WithTag(n) == (n + 1) % SizeSpace

(* malloc returned bytes at c for n promised ones; the tag is stored.      *)
Tag(c, bytes, n) ==
  \/ bytes = <<>> /\ Crash
  \/ /\ bytes # <<>>
     /\ chunk' = [chunk EXCEPT ![c] = [bytes EXCEPT ![1] = PTAG_PTR_OK]]
     /\ asked' = [asked EXCEPT ![c] = n]
     /\ wrapped' = IF n + 1 < SizeSpace THEN wrapped \ {c}
                                       ELSE wrapped \cup {c}
     /\ ret' = 0
     /\ UNCHANGED fault

ptag_malloc(msize) ==
  /\ ~fault
  /\ \/ Refuse
     \/ \E c \in Freed, bytes \in [1 .. WithTag(msize) -> Byte] :
          Tag(c, bytes, msize)

(* A mutant: the last byte is not cleared.                                 *)
ClearedButLast(n) ==
  {bytes \in [1 .. n -> Byte] : \A i \in 1 .. n - 1 : bytes[i] = 0}

Cleared(n) == {[i \in 1 .. n |-> 0]}

ptag_calloc(nmemb, msize) ==
  /\ ~fault
  /\ \/ Refuse
     \/ \E c \in Freed, bytes \in Cleared(WithTag(nmemb * msize)) :
          Tag(c, bytes, nmemb * msize)

-----------------------------------------------------------------------------
(* A pointer <<c, o>> is o bytes into chunk c; the byte before it is the   *)
(* o-th of the chunk.                                                      *)
Pointer == {p \in Held \X (1 .. SizeSpace) : p[2] = 1 \/ p[2] <= asked[p[1]]}

InChunk(p) == chunk[p[1]] # Null /\ p[2] <= Len(chunk[p[1]])

PTAG_CHECK_PTR(p) == chunk[p[1]][p[2]] = PTAG_PTR_OK

(* The tests both calls begin with, and what free and realloc make of a    *)
(* pointer that malloc never returned.                                     *)
Rejects(p) ==
  \/ p = Null /\ Refuse
  \/ p # Null /\ ~InChunk(p) /\ Crash
  \/ p # Null /\ InChunk(p) /\ ~PTAG_CHECK_PTR(p) /\ Refuse
  \/ p # Null /\ InChunk(p) /\ PTAG_CHECK_PTR(p) /\ p[2] # 1 /\ Crash

Accepts(p) ==
  p # Null /\ p[2] = 1 /\ InChunk(p) /\ PTAG_CHECK_PTR(p)

ptag_free(p) ==
  /\ ~fault
  /\ \/ Rejects(p)
     \/ /\ Accepts(p)
        /\ chunk' = [chunk EXCEPT ![p[1]] = Null]
        /\ asked' = [asked EXCEPT ![p[1]] = Null]
        /\ ret' = 0
        /\ UNCHANGED <<wrapped, fault>>

(* realloc of the m bytes of chunk c: what it may leave at d, in place or  *)
(* elsewhere.                                                              *)
Realloc(c, m) ==
  {bytes \in [1 .. m -> Byte] :
     \A i \in 1 .. m : i <= Len(chunk[c]) => bytes[i] = chunk[c][i]}

(* A size that wraps to 0 makes realloc free the chunk and return NULL.    *)
ptag_realloc(p, msize) ==
  LET c == p[1]
  IN  /\ ~fault
      /\ \/ Rejects(p)
         \/ /\ Accepts(p)
            /\ WithTag(msize) = 0
            /\ chunk' = [chunk EXCEPT ![c] = Null]
            /\ wrapped' = wrapped \cup {c}
            /\ ret' = -1
            /\ UNCHANGED <<asked, fault>>
         \/ Accepts(p) /\ WithTag(msize) # 0 /\ Refuse
         \/ /\ Accepts(p)
            /\ WithTag(msize) # 0
            /\ \E d \in {c} \cup Freed,
                  bytes \in Realloc(c, WithTag(msize)) :
                 /\ chunk' = [chunk EXCEPT ![c] = Null,
                                           ![d] = [bytes EXCEPT
                                                     ![1] = PTAG_PTR_OK]]
                 /\ asked' = [asked EXCEPT ![c] = Null, ![d] = msize]
                 /\ wrapped' = wrapped \ {d}
                 /\ ret' = 0
                 /\ UNCHANGED fault

(* The program stores v in the i-th of the bytes it was promised at c.     *)
Store(c, i, v) ==
  /\ ~fault
  /\ \/ ~InChunk(<<c, i + 1>>) /\ Crash
     \/ /\ InChunk(<<c, i + 1>>)
        /\ chunk' = [chunk EXCEPT ![c][i + 1] = v]
        /\ UNCHANGED <<asked, wrapped, fault, ret>>

Next ==
  \/ \E n \in Sizes : ptag_malloc(n)
  \/ \E k \in Counts, n \in Sizes : ptag_calloc(k, n)
  \/ \E p \in Pointer \cup {Null} : ptag_free(p)
  \/ \E p \in Pointer \cup {Null}, n \in Sizes : ptag_realloc(p, n)
  \/ \E c \in Held, v \in Byte : \E i \in 1 .. asked[c] : Store(c, i, v)
  \/ fault /\ UNCHANGED vars

Spec == Init /\ [][Next]_vars

-----------------------------------------------------------------------------
(* Every variable has its type, and no chunk is larger than a size_t says. *)
TypeOK ==
  /\ chunk \in [Chunk -> Seq(Byte) \cup {Null}]
  /\ \A c \in Chunk \ Freed : Len(chunk[c]) < SizeSpace
  /\ asked \in [Chunk -> Nat \cup {Null}]
  /\ wrapped \subseteq Chunk
  /\ fault \in BOOLEAN
  /\ ret \in {-1, 0}

(* Unless the size it asked for wrapped around, the program's own pointer  *)
(* leads into an allocated chunk that has room for every byte promised and *)
(* whose tag is right: its stores stay inside and do not reach the tag,    *)
(* and ptag_free and ptag_realloc never refuse it, wherever realloc has    *)
(* moved the chunk.                                                        *)
TagsIntact ==
  \A c \in Held \ wrapped :
    /\ chunk[c] # Null
    /\ asked[c] < Len(chunk[c])
    /\ chunk[c][1] = PTAG_PTR_OK

(* ptag_calloc promises bytes that are zero, one for each byte of each     *)
(* element (unless their number wraps around).                             *)
CallocZeroes ==
  [][\A k \in Counts, n \in Sizes :
       ptag_calloc(k, n) =>
         \A c \in Held' \ (Held \cup wrapped') :
           asked'[c] = k * n /\ \A i \in 1 .. k * n : chunk'[c][i + 1] = 0]_vars

(* The program's bytes survive ptag_realloc, up to the smaller of the old  *)
(* and the new size; and when it returns NULL the old ones are still       *)
(* there, but for the one size that wraps around to zero.                  *)
ReallocKeeps ==
  [][\A c \in Held \ wrapped, n \in Sizes :
       /\ ptag_realloc(<<c, 1>>, n)
       /\ n + 1 < SizeSpace
       => \E d \in Held' :
            /\ \/ d = c
               \/ c \notin Held' /\ d \notin Held \ wrapped
            /\ asked'[d] = IF ret' = 0 THEN n ELSE asked[c]
            /\ asked'[d] < Len(chunk'[d])
            /\ \A i \in 1 .. asked[c] :
                 i <= asked'[d] => chunk'[d][i + 1] = chunk[c][i + 1]]_vars

=============================================================================
