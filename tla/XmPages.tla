------------------------------ MODULE XmPages ------------------------------
(***************************************************************************)
(* libxm/src/alloc.c: the disk-backed allocator.  A page file is divided   *)
(* into pages, a bitmap records the pages in use, and a handle packs the   *)
(* offset and the length of a run of pages.  The mutex of the allocator is *)
(* held from the first search for pages to the answer, so one request is   *)
(* under way at a time; what happens to it takes several steps: search,    *)
(* extend the file and the bitmap, search again.                           *)
(*                                                                         *)
(* Sizes are counted in pages.  Left out: the RAM mode (malloc), MPI, and  *)
(* the data in the pages.                                                  *)
(***************************************************************************)
EXTENDS Naturals, FiniteSets, FiniteSetsExt

CONSTANTS
    GrowPages,  \* XM_GROW_SIZE, in pages
    ByteBits,   \* bits in a byte of the bitmap (8)
    OffLimit,   \* the page offsets a handle has room for (2^48 bytes)
    SizeLimit,  \* make_data_ptr refuses this many pages (65536)
    MaxLive,    \* bound of the model: pages the clients hold or ask for
    MaxFails    \* bound of the model: failures of ftruncate and realloc

ASSUME SizeAssumption ==
    {GrowPages, ByteBits, OffLimit, SizeLimit} \subseteq Nat \ {0}
ASSUME BoundAssumption == MaxLive \in Nat /\ MaxFails \in Nat

VARIABLES
    filePages,  \* file_bytes
    realPages,  \* the length ftruncate has given the file
    bytes,      \* length of the array `pages`
    used,       \* bits that are set in it
    want,       \* n_pages of the request that holds the mutex, 0 if none
    blocks,     \* handles that clients hold
    fails,      \* failures so far
    state       \* "up", "exited" (fatal), "crashed" (null bitmap), "gone"

allocator == <<filePages, realPages, bytes, used, want, blocks, fails, state>>

NoBitmap == 0  \* pages == NULL after a failed realloc

(* A handle: the length above the 48 bits of offset.  The code's | is a    *)
(* sum as long as the offset fits, which no line of it checks.             *)
make_data_ptr(offset, npages) == offset + npages * OffLimit
get_block_offset(ptr) == ptr % OffLimit
get_block_npages(ptr) == ptr \div OffLimit
OffsetsFit == filePages <= OffLimit

Run(start, n) == start..(start + n - 1)
PagesOf(ptr) == Run(get_block_offset(ptr), get_block_npages(ptr))

BytesFor(n) == (n \div ByteBits) + (IF n % ByteBits = 0 THEN 0 ELSE 1)
Bits(from, to) == (from * ByteBits)..(to * ByteBits - 1)

(* xm_allocator_create with a path. *)
AllocatorInit ==
    /\ filePages = 1 /\ realPages = 1
    /\ bytes = 1 /\ used = {}
    /\ want = 0 /\ blocks = {} /\ fails = 0
    /\ state = "up"

Idle == state = "up" /\ want = 0
Searching == state = "up" /\ want # 0 /\ bytes # NoBitmap

(* xm_allocator_allocate takes the mutex. *)
Request(n) ==
    /\ Idle
    /\ MapThenSumSet(get_block_npages, blocks) + n <= MaxLive
    /\ want' = n
    /\ UNCHANGED <<filePages, realPages, bytes, used, blocks, fails, state>>

(* The scan of find_pages over the bits `set`, which counts free pages and *)
(* starts again at each one in use: where n of them in a row are complete. *)
Ends(set, n) ==
    {i \in 0..(filePages - 1) : n <= i + 1 /\ Run(i + 1 - n, n) \cap set = {}}

(* What the scan can read: bits past the end of the array are arbitrary.   *)
Scanned == {used \cup junk : junk \in SUBSET ((bytes * ByteBits)..(filePages - 1))}

TooLarge(n) == n >= SizeLimit

(* find_pages sets the bits of the first run, then packs the handle. *)
Found == \E set \in Scanned :
    /\ Searching /\ Ends(set, want) # {}
    /\ LET start == Min(Ends(set, want)) + 1 - want
       IN  /\ used' = used \cup (Run(start, want) \cap Bits(0, bytes))
           /\ IF TooLarge(want)
              THEN state' = "exited" /\ UNCHANGED blocks
              ELSE blocks' = blocks \cup {make_data_ptr(start, want)} /\ UNCHANGED state
    /\ want' = 0
    /\ UNCHANGED <<filePages, realPages, bytes, fails>>

(* find_pages or deallocate dereferences a null bitmap. *)
Crash ==
    /\ state = "up" /\ bytes = NoBitmap
    /\ want # 0 \/ blocks # {}
    /\ state' = "crashed"
    /\ UNCHANGED <<filePages, realPages, bytes, used, want, blocks, fails>>

NeedsMore == Searching /\ \E set \in Scanned : Ends(set, want) = {}

BugGrowsOnce(n) == IF n > GrowPages THEN n ELSE n * 2
Grown(n) == IF n > GrowPages THEN n + GrowPages ELSE n * 2

(* The first byte that extend_file clears. *)
BugClearsTail(old, new) == IF old = new THEN old ELSE old + 1
ClearFrom(old, new) == old

(* extend_file: bytes that realloc adds hold anything until the memset,    *)
(* which starts at the size computed from the old file_bytes.              *)
Extend ==
    /\ NeedsMore
    /\ filePages' = Grown(filePages) /\ realPages' = Grown(filePages)
    /\ bytes' = BytesFor(Grown(filePages))
    /\ \E junk \in SUBSET Bits(bytes, ClearFrom(BytesFor(filePages), bytes')) :
          used' = used \cup junk
    /\ UNCHANGED <<want, blocks, fails, state>>

(* ftruncate or realloc fails: file_bytes has grown already, and a failed  *)
(* realloc leaves no bitmap.  The request is answered with XM_NULL_PTR.    *)
ExtendFails ==
    /\ NeedsMore
    /\ fails < MaxFails /\ fails' = fails + 1
    /\ filePages' = Grown(filePages)
    /\ \/ UNCHANGED <<realPages, bytes, used>>
       \/ realPages' = Grown(filePages) /\ bytes' = NoBitmap /\ used' = {}
    /\ want' = 0
    /\ UNCHANGED <<blocks, state>>

(* xm_allocator_deallocate. *)
Deallocate(ptr) ==
    /\ Idle /\ bytes # NoBitmap
    /\ used' = used \ PagesOf(ptr)
    /\ blocks' = blocks \ {ptr}
    /\ UNCHANGED <<filePages, realPages, bytes, want, fails, state>>

(* xm_allocator_destroy. *)
Destroy ==
    /\ Idle
    /\ state' = "gone"
    /\ bytes' = NoBitmap /\ used' = {} /\ blocks' = {}
    /\ UNCHANGED <<filePages, realPages, want, fails>>

Ended == state # "up" /\ UNCHANGED allocator

AllocatorNext ==
    \/ \E n \in 1..MaxLive : Request(n)
    \/ \E ptr \in blocks : Deallocate(ptr)
    \/ Found \/ Crash \/ Extend \/ ExtendFails \/ Destroy \/ Ended

AllocatorSpec == AllocatorInit /\ [][AllocatorNext]_allocator

(* A request that holds the mutex goes on until it is answered. *)
FairAllocatorSpec == AllocatorSpec /\ WF_allocator(Found \/ Crash \/ Extend \/ ExtendFails)

-----------------------------------------------------------------------------
AllocatorTypeOK ==
    /\ filePages \in Nat \ {0} /\ realPages \in Nat /\ bytes \in Nat
    /\ used \subseteq Bits(0, bytes)
    /\ want \in 0..MaxLive /\ fails \in 0..MaxFails
    /\ \A p \in blocks : get_block_npages(p) \in 1..(SizeLimit - 1)
    /\ state \in {"up", "exited", "crashed", "gone"}

(* No page belongs to two blocks, whatever was freed, extended and         *)
(* allocated again in between, as long as no extension has failed.         *)
BlocksDisjoint ==
    fails = 0 => \A p, q \in blocks : p # q => PagesOf(p) \cap PagesOf(q) = {}

(* The bitmap is exact: no page is lost (set, but in no block) and no page *)
(* of a block is free, also after the bitmap was reallocated to whole      *)
(* bytes for a file that is no multiple of a byte of pages long.           *)
BitmapExact ==
    state = "up" /\ fails = 0 => used = UNION {PagesOf(p) : p \in blocks}

(* The pages and the bits agree until an extension fails. *)
PagesExact == AllocatorTypeOK /\ BlocksDisjoint /\ BitmapExact

(* Every handle names storage that is there: its pages have a bit in the   *)
(* bitmap and lie in the file (alloc.h: "Allocate storage of the specified *)
(* size from this allocator").                                             *)
StorageBacked ==
    state = "up" => \A p \in blocks : \A i \in PagesOf(p) :
        i < realPages /\ (bytes # NoBitmap => i < bytes * ByteBits)

(* Every request is answered, with pages, XM_NULL_PTR or a fatal message,  *)
(* unless the process crashes: extending the file ends with a run that is  *)
(* large enough, also after an extension that failed.                      *)
Answered == want # 0 ~> want = 0 \/ state = "crashed"
=============================================================================
