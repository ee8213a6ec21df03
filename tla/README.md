# ptr_is_protected: a verification project

`ptr_is_protected` is a C library that hands out *tracked pointers*. A program
asks for memory with `track_malloc` and gets a `track_ptr_t`; it reads the
current address with `TRACK_PTR`, moves it with `track_move_ptr` (which refuses
to leave the allocated range), copies with `track_memcpy`, points one tracker at
what another tracks with `track_set_ptr`, checks memory against a checksum, and
releases with `track_free` or, all at once, `track_destroy`. Several trackers may
use one block of memory; the library frees the block when the last one leaves.

This directory holds TLA+ models of the library, the TLC configurations that
check them and the theorems about them that TLAPS proves.

## 1. Inventory

| component | source | state | operations | status |
|---|---|---|---|---|
| doubly linked list | `tracklist.h` | `cnt`, `head`, `tail`; per node `data`, `next`, `prev` | init, add at head or tail, remove a node, walk, full free | modelled |
| internal functions | `tfuncs.c`, `tfuncs.h` | `main_track_list` and what it reaches | create a structure and block, join and leave a block, migrate, move, checksum, overlap | modelled |
| public interface | `trackptr.c`, `trackptr.h` | `errtrack` | the `track_*` calls, `TRACK_PTR`, `TRACK_INC`, `TRACK_DEC` | modelled |
| control structures | `tcore.h`, `tlmblock.h`, `maddr.h` | one `struct_core_track_ptr_t` per tracker, one `lmblock_t` per block | - | modelled |
| errors | `errdefs.h`, `errcheck.h`, `errmsgs.h` | - | checks at the start of calls, `track_str_error` | modelled |
| CRC-32 | `crc32.c` | a constant table | `Crc32` | modelled |
| tagged allocations | `tagptr.c` | a tag byte before each allocation | `ptag_malloc`, `ptag_calloc`, `ptag_realloc`, `ptag_free` | modelled |
| demonstration | `main.c` | - | one fixed sequence of calls | not modelled |

**How they interact.** There are two kinds of lists, both made of the nodes of
`tracklist.h`. The *main list* has one node per control structure; a tracker
finds its node through `__ptrid`. Each block has a *links list* with one node for
each structure that uses the block; the structure points back at the block
through `links_shared_mem_block`. `track_malloc` makes a block, a structure, a
links list holding the structure, and a main list node. `track_set_ptr` takes
structures out of one links list and puts them into another
(`__track_check_free_mem_block`, `__track_review_mem_links_list`); the removal
that brings a list's `cnt` to zero frees the block. `track_free` and
`track_destroy` do the same for a structure and then free it. Checksums are
computed by `crc32.c` over the bytes of a tracker's range. `tagptr.c` is used by
nothing else in the library.

**What is hard.** The program is one thread, with no callbacks and nothing
persistent. The difficulty is in long sequences of legal calls: shared
ownership decided by a counter; a list removal that leaves head or tail
pointers at freed nodes, whose effect depends on which addresses `malloc`
returns later; trackers re-pointed with arguments that share blocks; seven
allocations in `track_malloc`, each of which may fail; unsigned address
arithmetic at both ends of the address space, and of sizes in `tagptr.c`; fields
read that nothing wrote.
`PROJECT.json` lists these hazards with their lines.

**What makes each part correct.**

- list: it is the sequence of nodes it was told to be, its counter is the number
  of its nodes, a search finds what is there and follows no pointer to a freed node;
- blocks: memory in use by a tracker is not freed, a block nobody uses is, and
  no structure points at a freed block;
- calls: a failed call leaves a code that fits it and has undone what it did; a handle finds its
  own structure; a pointer stays within its range and a copy within both; after
  `track_set_ptr` each argument tracks what it should;
- checksums: they cover the tracker's bytes and go wrong only when these change;
- `track_destroy`: it ends and gives everything back;
- tagged allocations: the tag and the program's bytes survive stores, moves of
  the chunk and reuse of freed ones; sizes that wrap around are the only exception.

## 2. The modules

    TrackList ------- TrackListSpec ---- MCTrackList
       |                 |  \____ implements ____ NodeSeq
       |            TrackListProofs (with TrackListLemmas)
    TrackFuncs ------ TrackFuncsLemmas -- TrackFuncsOwners
       |                      |                |
    TrackPtr -- TrackPtrProps - TrackPtrProofs - TrackPtrSafety - TrackPtrCalls
                   |     \____ implements ____ Trackers
     Crc32 --- MCTrackPtr

    TagPtr -- MCTagPtr, TagPtrProofs

- **TrackList** - the operations of `tracklist.h` on a list value, the record
  `cnt, head, tail` with the heap of the list's nodes. `used` is the set of node
  addresses allocated and not freed. A freed node's address can be handed out
  again (`Allocatable`: any free address that some pointer of the list still
  names, and one other; addresses no pointer names behave alike). The branches of
  `dht_list_remove_node` are `IsSole`, head with others (nothing but the
  counter), `IsTail` and `IsInterior`. `CanAddHead`, `CanAddTail`, `CanRemove`
  say when the operation follows only pointers to nodes in use. `Chain` is the
  shape a list ought to have.
- **NodeSeq** - what a doubly linked list promises: a sequence, and the set of
  nodes `present`. `LeaveEnd(n)`, the removal of the first or the last of several
  nodes, is the only step that may turn `kept` false, where the code gives the
  promise up; additions and every other removal keep the order. Afterwards a
  step still puts in one node or takes out one (`Lost`).
- **TrackListSpec** - one list as a state machine: `AddTail`, `AddHead`, `Remove`
  of any node, in any order; undefined behaviour sets `fault`.
- **TrackFuncs** - the functions of `tfuncs.c` as operators from a heap (cores,
  blocks, bytes, fault) to a heap, or to a set of heaps where `malloc` has a
  choice. Addresses are numbers below `AddrSpace` and wrap (`Wrap`), as `addr_t`
  does. A read through a null, never written or freed pointer, or outside every
  allocated block, makes the heap *broken*: `fault` names the reason and later
  functions leave it alone.
- **TrackPtr** - the library: one action per public call, its checks and error
  codes in the order of the code. A call is one step, since nothing can come
  between; `track_destroy` is a step per node so that its termination can be
  asked about. A creation that runs out of memory half-way goes through its
  stages as the code does (`MadeCore`, `Made`, `WithNewCore`), and `Abandon` frees
  what the error path frees of the heap made so far. `fault # "none"` ends a
  behaviour: nothing is claimed beyond undefined behaviour. `UserWrite` is the program storing through `TRACK_PTR`.
- **Trackers** - what the library promises, with no structures, lists or
  counters: the trackers held, what each views (a block, its first, current and
  last byte, as offsets) and the blocks allocated. A block in view is never
  freed; when the others go is left open.
- **TrackPtrProps** - the properties, each with the code behaviour it is about, and
  the refinement mapping to Trackers: `Held` is the handles (none while
  `track_destroy` runs), `ViewOf` reads a view off the addresses of a structure.
- **Crc32** - `Crc32` and its table, and a division by the polynomial to compare
  the table with. A 32-bit word is a pair of 16-bit halves.
- **TagPtr** - the four `ptag_` functions, the program's stores, and `malloc`,
  `realloc` and `free` as they may behave: fail, move a chunk, leave any bytes in
  new memory. Sizes wrap at `SizeSpace`. The program passes pointers it was
  given or has moved on within its bytes (a moved pointer whose byte before it
  happens to be the tag's value is taken for a chunk's, and the C library gets an
  address it never returned: a fault).
- **MCTrackList, MCTrackPtr, MCTagPtr** - values for TLC.
- **TrackListLemmas, TrackFuncsLemmas, TrackFuncsOwners** - lemmas about the
  operators; **TrackListProofs, TrackPtrProofs, TrackPtrSafety, TrackPtrCalls,
  TagPtrProofs** - the theorems.

| model | code |
|---|---|
| `core[c]` (`live`, `flags`, `start`, `end`, `cur`, `msize`, `links`, `sum`, `ptrid`) | `struct_core_track_ptr_t` and the `__ptrid` of its `track_ptr_t` |
| `block[b]` (`live`, `size`, `links`) | a `malloc` result, its `lmblock_t` and `dht_list_t` |
| `mem` | the bytes of memory |
| `main`, `inited` | `*main_track_list`, `main_track_list != NULL` |
| `handle` | the `track_ptr_t *` the program still may use |
| `errtrack`, `ret` | `errtrack`, the last return value (0 for a pointer, -1 for `NULL`) |
| `pc`, `pos` | being inside `track_destroy`, its loop variable |
| `leaked` | a failed allocation path dropped a links list |
| `chunk[c]`, `asked[c]` of TagPtr | the bytes `malloc` returned at c; how many of them the program was promised behind the tag |
| `wrapped`, `fault`, `ret` of TagPtr | chunks whose size wrapped around; undefined behaviour; the last return value |

Abstractions. `ptr_cur` always changes together with `mem_cur_addr` and is not
kept apart; `save_ptr` is never read. A `track_ptr_t` lives exactly as long as
its structure. In TrackFuncs a checksum is the sequence of bytes it was computed
from, and two are equal when the bytes are; `SumsStandForCrc` in run `checksum`
shows that the CRC-32 of `crc32.c` gives the same answers there. An error text is
named by its code (`track_str_error`). What `malloc` leaves in the fields of a structure
is chosen from `Garbage`. Node addresses are reused within one list
only. The program passes only handles it holds (or null, where a run says so):
a call with a freed handle reads freed memory before the library can do anything.

Some definitions are marked *A mutant*: each is a way the code could be wrong, used
by no specification. `PROJECT.json` pairs every property of a passing run with a
mutant that TLC finds to violate it, as evidence that the property can fail.

## 3. The runs

A run is `tlc -config <run>.cfg <module>`; all are for `MCTrackPtr`, except
`list` for `MCTrackList` and `tagptr` for `MCTagPtr`. Every action and disjunct is
taken in some passing run.

| run | instance | checks |
|---|---|---|
| `list` | 4 nodes, 2 items | `CountExact`, `SearchFinds`, `ChainNeverFaults`, `ImplementsNodeSeq` |
| `sharing` | 3 trackers, 2 blocks, 3 nodes per list; malloc, set_ptr | `TrackersBacked`, `CountsExact`, `LinksAgree`, `SetPtrHandsOver`, `ChainsKeepSafe` |
| `lifetime` | 2 trackers, 2 blocks, 3 nodes; all calls that allocate memory, share or free | `TrackersBacked`, `CountsExact`, `LinksAgree`, `HandlesListed`, `ChainsKeepSafe`, `ImplementsTrackers` |
| `oom` | 2 trackers, 1 block, 2 nodes; every allocation may fail; leftover block pointers | `TypeOK`, `FailuresExplained`, `FailuresLeaveNoTrace`, `CountsExact`, `LinksAgree`, `HandlesListed`, `RemovalsReturn`, `CountedKeepsBlock`, `DestroyEnds` (liveness) |
| `bounds` | 16 addresses, a block of 4 bytes, sizes 0 and 4, with and without checksums, step 1, an unsigned int of 8 values, distances -7 and -1, lengths 0, 1, 2 and 9, empty trackers, leftover block pointers, null arguments, calls before `track_init` | `MoveStaysInRange`, `MemcpyExact`, `FailuresExplained`, `FailuresLeaveNoTrace`, `TrackersBacked`, `ChainsKeepSafe`, `ImplementsTrackers` |
| `checksum` | 8 addresses, 2 blocks of 2 bytes, leftover sizes, checksums and block pointers | `SumsStandForCrc`, `StaleOnlyByWrite`, `MemcpyExact` |
| `tagptr` | 2 chunks, sizes 0, 1, 2, 4 and counts 1 to 3 in a `size_t` of 5 values | `TypeOK`, `TagsIntact`, `CallocZeroes`, `ReallocKeeps` |

Why these bounds show something. A links list needs three structures for an
interior node, the only one whose removal the code does in full; `sharing` has
three. Two blocks are needed for a re-pointing from one to another, and to have
a block freed while a tracker arrives from it. Four nodes in `list` are enough
for a chain with two interior nodes and for a freed address to come back at the
other end. In `bounds` the block lies at addresses 6 to 9 of 16: the distance -7
wraps below the first address from its first byte, and 7, which `TRACK_DEC` makes
of a step of 1 in an unsigned int of 8 values, wraps past the last address from its
last byte. Length 9 wraps past the test of `track_memcpy`; of the copies that
succeed all are of one byte, as the test refuses a copy that ends with the last
byte and overlapping ones are refused (longer ones are left to the theorem). In `tagptr` the
largest size, 4, wraps to 0 when the tag's byte is added, and the products
2 * 2, 2 * 4, 3 * 2 and 3 * 4 wrap to every kind of wrong size; two chunks are
enough for `realloc` to move one, and for a freed one to be reused. Empty
trackers appear in `oom`, `bounds` and `checksum`, where one block is enough for them
to join and leave; `lifetime` has two blocks and none. Three trackers that are
re-pointed at each other are checked against Trackers by proof (section 4),
two by `lifetime` and `bounds`. Actions that a run
does not need are left out by `Calls`. `sharing` and
`lifetime` have blocks of one byte and no moves or checksums, so that a tracker
is at the start of its range there; `bounds` has the others. `VIEW TrackView`
leaves out `errtrack` and `ret`, which no guard reads; the runs that use it check
no invariant about them. `FailuresExplained` is an action property and is evaluated on
every step of the states TLC keeps; which `errtrack` and `ret` such a state has only
decides whether a failure that repeats the last answer is a stutter. `oom`
has no view and checks it, and `TypeOK`, on every state. Symmetry is over
structures only (over nodes in `list`, chunks in `tagptr`): `Allocatable` chooses a node, which a
permutation of nodes would not respect. `oom`, which checks liveness, uses neither.

**Fairness.** `WF_vars(DestroyNode \/ DestroyEnd)`: once inside `track_destroy`
the library's own loop runs on. Nothing is assumed of the program, which may stop
calling at any time. It is the only loop that is a sequence of steps.

**What they show.** However damaged the lists become, counts stay exact and a
block is allocated just while its list has nodes, so memory in use is not freed
early (as long as link nodes can be allocated) and no structure points at a
freed block: seen from outside, the library implements Trackers. Where a link
node cannot be allocated, `track_set_ptr` ignores the -1
(`trackptr.c:390`); only the tracker that lost its link is harmed
(`CountedKeepsBlock`). While all lists are chains, every tracker can be freed, also one
that lost its link (`RemovalsReturn`), and only a `track_set_ptr` with *entangled*
arguments (one of them joins the block another has just left, or `tnew` has no block)
or of a tracker of no bytes can go wrong. Both are said of trackers whose block
pointer was written: `track_make_empty` leaves in it what `malloc` left, and the first
removal follows that; no other tracker is drawn in. A failed call leaves a code that
blames this call for something that was so (`Blames`: the limit that the whole-number
sum would cross, the changed bytes, the allocation, the null argument). It has changed
no structure, block, byte, list or handle; what a failed creation had made it has
freed again, but for a links list with its node, which the error paths of
`track_malloc` lose (`tfuncs.c:104-129`; `leaked` records it).
Moves never leave a range whatever the distance.

**What does not hold.** Five runs end in a counterexample against what the
comments of the repository say:

| run | what it shows | said at |
|---|---|---|
| `free_destroy` (`CallsReturn`) | freeing the first of several trackers leaves the main list headed by a freed node; the next `track_free` or `track_destroy` reads it | `trackptr.h:164-165` |
| `destroy_leak` (`DestroyReleasesAll`) | a dangling tail plus a reused node address makes a list of two look like a list of one; a block is never freed | `trackptr.h:124-125` |
| `stale_link` (`LinksRefer`) | with `told`, `tset` stays in the list of the block it left | `tlmblock.h:19`, `tcore.h:38-40` |
| `track_dec` (`DecMovesBack`) | `TRACK_DEC` negates an unsigned int: the distance is a large positive one and the pointer never moves back | `trackptr.h:71-72` |
| `checksum_cover` (`ChecksumCoversMemory`) | the checksum covers `msize` bytes, which is unset after `track_malloc` and one too few after `track_set_ptr` | `trackptr.h:170`, `tcore.h:56` |

Other disagreements met while modelling and not given a run: `track_move_ptr`
answers -2 at a limit where `trackptr.h:214` says -1; the `MEM_NOT_FOUND` branch of
`track_free` is unreachable; `track_str_error` has no text for `ETRACK_IS_EMPTY`;
`DHT_LIST_INIT` writes through null when out of memory; the flag
`TRACK_FLAG_ADDR_PROTECT` has no effect; `track_memcpy` recomputes no checksum
though `tcore.h:74-76` says so; `track_memcpy` refuses a copy that ends with the
last byte; `track_set_ptr` onto a tracker of a block of no bytes takes its size to be
the largest `size_t` (`tfuncs.c:295`) and reads outside the block for the checksum; `crc32.c:17-18` says that all odd numbers of wrong bits are detected,
which a polynomial of 15 terms does not do.

## 4. What is proved

TLAPS checks these for every value of the constants that meets the assumptions.

| theorem | says |
|---|---|
| `TrackListProofs!ListTyped` | `Spec => []TypeOK` for one list |
| `TrackListProofs!CountAlwaysExact` | the counter of a list is the number of its unfreed nodes |
| `TrackListProofs!SearchAlwaysFinds` | while a list is a chain, a search finds the first node with the item, or none if there is none |
| `TrackListProofs!ChainsNeverFault` | no operation on a chain follows a wrong pointer |
| `TrackListProofs!ListImplementsNodeSeq` | `Spec => ImplementsNodeSeq`: the refinement; only the removal of an end of several nodes breaks the sequence |
| `TrackPtrProofs!LibraryTyped` | `Spec => []TypeOK` for the library |
| `TrackPtrProofs!CountsAlwaysExact` | every counter is right, and a block is allocated iff its list has nodes |
| `TrackPtrSafety!LinksAlwaysAgree` | `links_shared_mem_block` never leads to a freed block |
| `TrackPtrSafety!HandlesAlwaysListed` | a handle finds its own structure, and nothing else is in the main list |
| `TrackPtrSafety!TrackedMemoryStays` | memory a tracker has is never freed under it (L) |
| `TrackPtrSafety!CountedAlwaysKeeps` | a tracker its block counts stays counted, and the block allocated, until it leaves itself; no (L) |
| `TrackPtrCalls!FailuresAlwaysExplained` | a failed call leaves a code that fits the call and the state it found, with a text (but for `ETRACK_IS_EMPTY`); the code stays until another call leaves one or `track_last_error` clears it |
| `TrackPtrCalls!FailuresNeverChange` | a failed call has changed no structure, block, byte, list or handle, or has undone what it did |
| `TrackPtrCalls!MovesAlwaysInRange` | `track_move_ptr` moves exactly when the pointer stays in its range and its checksum agrees (M) |
| `TrackPtrCalls!MemcpyAlwaysExact` | a copy that succeeds changes the bytes asked for, as asked, and no others, for lengths that do not wrap (L) |
| `TrackPtrCalls!SetPtrAlwaysHandsOver` | `track_set_ptr` gives each argument what it should have, with the right checksum, and leaves the others alone |
| `TrackPtrCalls!RemovalsAlwaysReturn` | while all lists are chains every tracker can be freed; no (L) |
| `TrackPtrCalls!ChainsAlwaysSafe` | while all lists are chains every tracker can be freed, and `track_set_ptr` returns (L) |
| `TrackPtrCalls!ChecksumsStaleByWrites` | while all lists are chains, a right checksum goes wrong only by a write to its bytes (L) |
| `TrackPtrCalls!LibraryImplementsTrackers` | `Spec => ImplementsTrackers`: the refinement (L, V) |
| `TagPtrProofs!TagsTyped` | `Spec => []TypeOK` for tagged allocations |
| `TagPtrProofs!TagsAlwaysIntact` | tags and room for the program's bytes survive |
| `TagPtrProofs!CallocAlwaysZeroes` | `ptag_calloc` hands out zeroes |
| `TagPtrProofs!ReallocAlwaysKeeps` | `ptag_realloc` keeps the bytes |

*Assumptions.* `NodeAssumption`: the set of nodes is finite and null is not one
of them. `LayoutAssumption`: blocks lie inside the address space, apart from its
ends and from each other by a byte, as `malloc`'s do. `ValueAssumption`: null, a
leftover pointer and structures are different things, a byte has a value.
`ClientAssumption`: the arguments have the types of the C prototypes.
`SizeAssumption` (TagPtr): sizes and counts are below `SizeSpace`. TLC evaluates all
five in the runs. Single theorems assume more. (L): `"link" \notin MayFail`, there is
memory for link nodes; without it `TrackersBacked` is false, as the code ignores that
failure. (M): no block has more than half of the address space and distances
fit a signed number of the width of an address; otherwise a sum could wrap into
the range. (V): null is not a view, which is about the encoding only. `MemcpyExact`
itself speaks only of lengths that do not wrap: `track_memcpy` compares the wrapped
sum (`trackptr.c:321`), and a length of nearly the whole space passes the test.

*Types.* `TypeOK` is inductive. `TrackListLemmas` shows that each list
operation yields a list under its `Can...` condition, and that a search stops at
a node or null; `TrackFuncsLemmas` that each internal function maps a heap and a
structure to a heap (or a set of heaps); `TrackPtrProofs` has one lemma per
call. The delicate part is arithmetic: a checksum is a sequence of bytes only
because `CanChecksum` was tested, and ends are addresses because of `Wrap`.

*Counts.* `CountsExact` is not inductive: it says nothing of types, nor of the
main list outside a session. `CountInv` is `TypeOK`, exactness of every block, and
exactness of the main list unless `track_destroy` is freeing its nodes (the
code does not lower `cnt` there). A removal lowers `cnt` by one and frees one
node, whichever branch `dht_list_remove_node` takes and however damaged the
pointers are, provided the node removed is in use. Between the removal and the
counter test a block may have no nodes and still be allocated;
`CheckFreeLinksExact` shows that the test restores exactness.

*Walks and chains.* What `FirstWith` and `Chain` say of a list is said through
`Walk`, a recursive function. Its first so many values are computed by an
induction over a bounded number of steps; as the induction theorems of the
library cannot be used, each such proof takes the least step at which the claim
fails (`LeastNat`) and contradicts it. `Lined` numbers the nodes of
a chain from head to tail. Adding at an end and removing the sole or an interior
node turn one numbering into another (`TrackListProofs` reads NodeSeq's sequence off it); so the
three properties of one list need only `TypeOK` and `CountExact`. A search on a
list that is no chain may miss nodes; `MissLost` says when: some nodes in use are *lost*,
closed off from the walk.

*Ownership.* That no list is damaged cannot be part of an invariant, because
lists are. `SafeInv` adds three things to `CountInv`. `Owned`: a structure that
names a block is named by a node of that block's list, so its walk has a node to
find and the block is allocated (`LinksAgree`). `Listed` and `SameNumber`:
`HandlesListed`. `Safe`: the range of a tracker lies in a block that the
tracker names, or that has a *spare* node, one that no removal will ever
need because its structure has left the block, is gone, or has another node there.
Whenever the code leaves a block without removing its node (`told` given, or a
walk that misses it), the node it leaves is spare, and a block with a spare
node never comes to count zero; so what the code gets wrong leaks memory and
does not free it early. Without a link node a tracker is neither, hence (L).

*Counting.* `CountedKeepsBlock` needs no memory for link nodes: a step removes a
node only for the structure that is its data (`NamesKept`), and a block that
keeps a node stays allocated by `CountInv`.

*Chains.* That a removal from a chain finds its node follows from `Owned`, as
long as what is followed is a name of a block. `TidyInv` adds to `SafeInv` what
that takes. `StrayLost`: an *empty* structure that still names a block (a `tset` whose
walk missed it, say) names one whose list has lost a node. A list that has lost
a node never becomes a chain again before its block is freed: additions do
not reach it, and a removal frees a node on the walk (`LostRemoves`). Hence, while all lists are chains, what
names a block has memory in it. `Leftovers`: a structure that names leftover bytes
was made without memory and is still at address 0, as every call that would
change its range, or hand on what it names, follows that pointer first. `Begun`:
inside `track_destroy` the counter of the main list is behind its nodes after
the first removal, so that the main list is a chain only before it, when every
handle is still whole. `TidyInv` needs no (L), so neither does `RemovalsAlwaysReturn`:
a tracker without a link is searched for, not found, and left alone. `SetPtrReturns` then follows `track_set_ptr` through both of
its halves; that its arguments are not entangled says that the block it joins
is not the one a removal may just have freed or broken.

*Checksums.* `Excused` relates two heaps: a right checksum in the first is right
in the second, or a byte it covers differs, or the tracker names no block.
`SteadyExcused` transports it over any step that keeps the tracker and its
memory: the range lies in one block (`BlockUnique`), which `Safe` keeps allocated.
Of `track_set_ptr`, `tset` and a `told` that joins a block have a fresh checksum
(`TakeOverMatches`), and a `told` that joins none names none. A tracker with a leftover block
pointer is still at address 0, where no memory is, so its checksum can be right
only over no bytes and stays right (`NothingAtZero`).

*Copies and hand-over.* By `SafeInv` the two ranges of `track_memcpy` lie in
allocated blocks; for a length that does not wrap the limit tests are about the true sums, and the
overlap test excludes a common byte. `SafeInvHandsOver` derives `SetPtrHandsOver` from
`SafeInv` alone, by following the fields of the structures through the calls.

*Failures.* `Outcome` describes any step from a state with the types: it changes
neither `errtrack` nor `ret` (a step of `track_destroy`, a store of the program, a
fault); or it returned 0 and left `errtrack`; or it is `track_last_error`; or it
answered 1; or it failed with a code of `Reason` that blames the call, having
changed nothing. A limit that a wrapped sum crosses is one that the true sum crosses,
since a sum inside the range does not wrap. That a half-made tracker is undone is
shown stage by stage: after each, the heap differs from the present one in the new
structure and its block only (`SameBut`), and `Abandon` gives back just these two
(`AbandonSame`). Both theorems follow from `StepOutcome`.

*Moves.* `WrapInside`: for a range of at most half of the address space and a
distance of at most half, the wrapped sum is in the range only if the sum is. That
ranges are that small is an invariant of its own, `Narrow`: the first, current and
last byte are in order and at most a block apart. A range that is handed on is the
rest of one and a range that is taken back is no longer than it was, so this holds whatever
became of the block, and needs neither `Safe` nor (L).

*Refinement.* The view of a structure depends on four of its fields (`Look`);
migration takes the rest of a view (`Rest`), leaving a block takes the tracker
back to its first byte (`Back`). `SetPtrSeen` follows the two paths of
`track_set_ptr` with every coincidence of its three arguments; with `tset`,
`tnew` and `told` one tracker, `told` is taken back to its first byte
before it is read, and Trackers says so too. That no memory in view is freed is
`TrackedMemoryStays`.

*Tags.* `TypeOK` and `TagsIntact` together are inductive, chunk by chunk; the action properties follow from one step each and the
lengths, where `(n + 1) % SizeSpace = n + 1` is all that must not wrap.

*Model-checked only.* `SumsStandForCrc`: a computation with bitwise operations
over bounded inputs, in modules the prover cannot read. `DestroyEnds`: liveness
under fairness. Every other property of a passing run is proved. The five
properties that do not hold have their counterexamples.

## 5. Not modelled

- `main.c`, which calls the library in one fixed order and prints; its sequences
  of calls are among the behaviours of TrackPtr.
- `get_list`, `get_offset` return constants; `track_calloc` and `track_error` are
  declared and never defined.
- `__track_check_overlay_border_addr`, `dht_list_func_node_cmp_proc`,
  `NPL_NODE_INIT`, `dht_list_for_each`, `__lmblock_init`: used by nothing.
- 248 of the 256 entries of the table of `crc32.c`: the model has the eight at powers
  of two and combines the others from them, as the table's do, so a wrong one among
  the others would not be seen;
- CRC-32 collisions of byte strings longer than those of run `checksum`; the
  wording of error texts; output by `printf`.
- the `NO_TRACKPTR` build, in which the library is empty.
- calls with a handle that was already freed (they read freed memory before the
  library can do anything), and flags that are not the documented ones.

## 6. Plan

Done: lists, internal functions, all calls, errors, checksums, tagged
allocations, the abstract specifications NodeSeq and Trackers, and the theorems of
section 4. Left, in this order:

1. *Runs without the hypotheses.* Runs that break (L) and (M) would show that
   each is needed.
2. *Checksums after a copy.* `tcore.h:74-76` says that calls which change memory
   recompute the checksum, and `track_memcpy` does not: a run that states it.
3. *Larger instances.* `sharing` with four trackers, `lifetime` with three, where
   time allows; the proofs already cover them.
