------------------------------- MODULE Malloc -------------------------------
(***************************************************************************)
(* The kernel memory allocator, kern/malloc.c: one control block (MCB) per *)
(* page.  A page is free, the first or a later page of a block of whole    *)
(* pages, or cut into blocks of one size, whose use a bitmap records.      *)
(* malloc() and free() run with interrupts disabled: each is a step.       *)
(* Addresses count from malloc_firstaddr.                                  *)
(*                                                                         *)
(* The vm (external here, vm/vm_fault.c and emul/openbsd_aout) turns a     *)
(* page it got from malloc() into a page of an object by writing to its    *)
(* MCB, and gives it to free() like that.                                  *)
(*                                                                         *)
(* Left out: the totals of requested and allocated bytes, which only a     *)
(* debugging routine reads.                                                *)
(***************************************************************************)
EXTENDS Integers, FiniteSets, FiniteSetsExt

CONSTANTS PAGESIZE,
          SmallSizes,      \* block sizes below a page: halves of halves of it
          nr_of_mcbs,
          mcbpages,        \* pages the MCB array itself takes
          totpages,        \* pages of memory; the array may describe more
          SearchSizes,     \* the 2^n that have a search position
          Lengths,         \* lengths asked for
          MaxBlocks        \* bound: blocks in use at a time

ASSUME SizesOK ==
    /\ PAGESIZE \in Nat \ {0} /\ SmallSizes \subseteq 1..(PAGESIZE - 1)
    /\ \A s \in SmallSizes : PAGESIZE % s = 0
    /\ SmallSizes \cup {PAGESIZE} \subseteq SearchSizes
    /\ SearchSizes \subseteq Nat \ {0}
ASSUME PagesOK ==
    /\ mcbpages \in Nat \ {0} /\ totpages \in Nat /\ nr_of_mcbs \in Nat
    /\ mcbpages < totpages /\ totpages <= nr_of_mcbs
ASSUME RequestsOK == Lengths \subseteq Nat \ {0} /\ MaxBlocks \in Nat

MCB_FREE          == 0
MCB_CONTINUED     == -1
MCB_RESERVED      == -2
MCB_NOTAVAILABLE  == -3
MCB_VMOBJECT_PAGE == -4

Page == 0..(nr_of_mcbs - 1)

VARIABLES mcb_size, bitmap,         \* the fields of the MCBs
          malloc_mcbsearch_pos,
          malloc_totalfreememory,
          live                      \* not in the code: the blocks in use

vars == <<mcb_size, bitmap, malloc_mcbsearch_pos, malloc_totalfreememory, live>>

Init ==
    /\ mcb_size = [i \in Page |-> IF i < mcbpages THEN MCB_RESERVED
                                  ELSE IF i >= totpages THEN MCB_NOTAVAILABLE
                                  ELSE MCB_FREE]
    /\ bitmap = [i \in Page |-> {}]
    /\ malloc_mcbsearch_pos = [s \in SearchSizes |-> 0]
    /\ malloc_totalfreememory = PAGESIZE * (totpages - mcbpages)
    /\ live = {}

(***************************************************************************)
(* The size of the block for a length, and which search position it uses.  *)
(***************************************************************************)
RoundedUp(len) == PAGESIZE * ((len + PAGESIZE - 1) \div PAGESIZE)

BlockSize(len) ==
    IF len >= 2 * PAGESIZE THEN RoundedUp(len)
    ELSE Min({s \in SmallSizes \cup {PAGESIZE, 2 * PAGESIZE} : s >= len})

SearchSize(bsize) == Max({s \in SearchSizes : s <= bsize})

(***************************************************************************)
(* The scan for n free pages in a row begins at pos and gives up where it  *)
(* comes back to pos.  A run may not reach the last page, because there    *)
(* the scan starts afresh at page 0 before it looks at what it has found.  *)
(***************************************************************************)
BlockEndsInside(f, n) == f + n < nr_of_mcbs

FreeRuns(n) ==
    {f \in Page : /\ BlockEndsInside(f, n)
                  /\ \A i \in f..(f + n - 1) : mcb_size[i] = MCB_FREE}

RunsFound(n, pos) ==
    LET after  == {f \in FreeRuns(n) : f >= pos}
        before == {f \in FreeRuns(n) : f + n < pos}
    IN  IF after # {} THEN {Min(after)} ELSE IF before # {} THEN {Min(before)} ELSE {}

MarkContinued(f, n) ==
    [i \in Page |-> IF f < i /\ i < f + n THEN MCB_CONTINUED ELSE mcb_size[i]]

MallocPages(bsize) ==
    LET n == bsize \div PAGESIZE
        k == SearchSize(bsize)
    IN  \E f \in RunsFound(n, malloc_mcbsearch_pos[k]) :
           /\ mcb_size' = [MarkContinued(f, n) EXCEPT ![f] = bsize]
           /\ malloc_mcbsearch_pos' = [malloc_mcbsearch_pos EXCEPT ![k] = f + n]
           /\ live' = live \cup {[addr |-> PAGESIZE * f, size |-> bsize]}
           /\ UNCHANGED bitmap

(***************************************************************************)
(* The scan for a page that is free, or is cut into blocks of bsize and    *)
(* not full, in the order pos, pos + 1, .. around to pos - 1.  The last of *)
(* these is looked at in vain: having found it, the scan is back at pos,   *)
(* and gives up.                                                           *)
(***************************************************************************)
SlotsButLast(bsize) == 0..(PAGESIZE \div bsize - 2)       \* mutant

Slots(bsize) == 0..(PAGESIZE \div bsize - 1)

FreeSlotOrAny(i, bsize) == {0}                          \* mutant: no bitmap

FreeSlot(i, bsize) ==
    IF mcb_size[i] = MCB_FREE THEN {0}
    ELSE IF mcb_size[i] = bsize /\ Slots(bsize) \ bitmap[i] # {}
      THEN {Min(Slots(bsize) \ bitmap[i])} ELSE {}

Distance(pos, i) == (i - pos) % nr_of_mcbs

PagesFound(bsize, pos) ==
    LET good == {i \in Page : /\ mcb_size[i] \in {MCB_FREE, bsize}
                              /\ FreeSlot(i, bsize) # {}
                              /\ Distance(pos, i) < nr_of_mcbs - 1}
    IN  {i \in good : \A j \in good : Distance(pos, i) <= Distance(pos, j)}

MallocSlot(bsize) ==
    \E i \in PagesFound(bsize, malloc_mcbsearch_pos[bsize]) :
    \E bit \in FreeSlot(i, bsize) :
        /\ mcb_size' = [mcb_size EXCEPT ![i] = bsize]
        /\ bitmap' = [bitmap EXCEPT ![i] =
                         IF mcb_size[i] = MCB_FREE THEN {0} ELSE @ \cup {bit}]
        /\ malloc_mcbsearch_pos' = [malloc_mcbsearch_pos EXCEPT ![bsize] = i]
        /\ live' = live \cup {[addr |-> PAGESIZE * i + bsize * bit, size |-> bsize]}

malloc(len) ==
    LET bsize == BlockSize(len) IN
    /\ Cardinality(live) < MaxBlocks
    /\ IF bsize >= PAGESIZE THEN MallocPages(bsize) ELSE MallocSlot(bsize)
    /\ malloc_totalfreememory' = malloc_totalfreememory - bsize

\* NULL: "not enough room".
Refuses(len) ==
    LET bsize == BlockSize(len)
        pos == malloc_mcbsearch_pos[SearchSize(bsize)]
    IN  IF bsize >= PAGESIZE THEN RunsFound(bsize \div PAGESIZE, pos) = {}
                             ELSE PagesFound(bsize, pos) = {}

mallocFails(len) == Refuses(len) /\ UNCHANGED vars

(***************************************************************************)
(* vm_fault() and load_aout(): a page from malloc() becomes one of the vm. *)
(***************************************************************************)
MakeVmObjectPage(b) ==
    /\ b.size = PAGESIZE
    /\ mcb_size' = [mcb_size EXCEPT ![b.addr \div PAGESIZE] = MCB_VMOBJECT_PAGE]
    /\ bitmap' = [bitmap EXCEPT ![b.addr \div PAGESIZE] = {}]
    /\ UNCHANGED <<malloc_mcbsearch_pos, malloc_totalfreememory, live>>

(***************************************************************************)
(* free()                                                                  *)
(***************************************************************************)
SizeAsIs(i) == mcb_size[i]                              \* mutant

FreedSize(i) == IF mcb_size[i] = MCB_VMOBJECT_PAGE THEN PAGESIZE ELSE mcb_size[i]

SlotOf(addr, bsize) == (addr % PAGESIZE) \div bsize

\* None of the panics of free() strikes.
Freeable(addr) ==
    LET i == addr \div PAGESIZE
        bsize == FreedSize(i)
    IN  /\ i \in Page /\ bsize > 0
        /\ IF bsize >= PAGESIZE
             THEN \A j \in 1..(bsize \div PAGESIZE - 1) :
                     i + j \in Page /\ mcb_size[i + j] = MCB_CONTINUED
             ELSE SlotOf(addr, bsize) \in bitmap[i]

FreePages(i, n) ==
    /\ mcb_size' = [j \in Page |-> IF i <= j /\ j < i + n THEN MCB_FREE ELSE mcb_size[j]]
    /\ bitmap' = [bitmap EXCEPT ![i] = {}]

PageStays(i, bit) == FALSE                              \* mutant: freed at once

PageStaysInUse(i, bit) == bitmap[i] # {bit}

FreeBit(i, bit) ==
    /\ bitmap' = [bitmap EXCEPT ![i] = @ \ {bit}]
    /\ mcb_size' = [mcb_size EXCEPT ![i] = IF PageStaysInUse(i, bit) THEN @ ELSE MCB_FREE]

free(b) ==
    LET i == b.addr \div PAGESIZE
        bsize == FreedSize(i)
    IN  /\ Freeable(b.addr)
        /\ IF bsize >= PAGESIZE THEN FreePages(i, bsize \div PAGESIZE)
                                ELSE FreeBit(i, SlotOf(b.addr, bsize))
        /\ malloc_totalfreememory' = malloc_totalfreememory + bsize
        /\ live' = live \ {b}
        /\ UNCHANGED malloc_mcbsearch_pos

Next ==
    \/ \E len \in Lengths : malloc(len) \/ mallocFails(len)
    \/ \E b \in live : MakeVmObjectPage(b) \/ free(b)

Spec == Init /\ [][Next]_vars

-----------------------------------------------------------------------------
TypeOK ==
    /\ mcb_size \in [Page -> Int]
    /\ bitmap \in [Page -> SUBSET (0..(PAGESIZE - 1))]
    /\ malloc_mcbsearch_pos \in [SearchSizes -> Page]
    /\ malloc_totalfreememory \in 0..(PAGESIZE * (totpages - mcbpages))
    /\ \A b \in live : b.addr \in Nat /\ b.size \in Nat

\* malloc() hands out memory that nobody has, through wrapping scans, reuse of
\* freed pages for other sizes and pages that the vm has taken over; and
\* malloc_totalfreememory is what is left.
H == INSTANCE Heap WITH Memory <- (PAGESIZE * mcbpages)..(PAGESIZE * totpages - 1),
                        allocated <- live, left <- malloc_totalfreememory
ImplementsHeap == H!Spec

\* Every block in use can be freed: none of the consistency checks of free()
\* panics, however its neighbours have been allocated and freed meanwhile.
BlocksCanBeFreed ==
    /\ TypeOK
    /\ \A b \in live : Freeable(b.addr) /\ FreedSize(b.addr \div PAGESIZE) = b.size

\* All memory comes back: a page is free in the MCB array exactly if no block in
\* use lies on it.
NothingLeaks ==
    \A i \in mcbpages..(totpages - 1) :
        mcb_size[i] = MCB_FREE <=>
            \A b \in live : \A a \in H!Extent(b) : a \div PAGESIZE # i

\* malloc() says "not enough room" (malloc.c:477) for a small block only when at
\* most one page has room for it: the page the scan finds last, and comes back to
\* its start with, is the only one it can miss.
RefusesOnlyNearlyFull ==
    \A len \in Lengths :
        LET bsize == BlockSize(len)
            HasRoom(i) == \/ mcb_size[i] = MCB_FREE
                          \/ /\ mcb_size[i] = bsize
                             /\ Cardinality(bitmap[i]) < PAGESIZE \div bsize
        IN  bsize < PAGESIZE /\ Refuses(len) =>
                Cardinality({i \in Page : HasRoom(i)}) <= 1
=============================================================================
