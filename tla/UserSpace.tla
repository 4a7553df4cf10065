----------------------------- MODULE UserSpace -----------------------------
(***************************************************************************)
(* What the kernel works out about the memory of a process: which ranges a *)
(* system call may touch and how long a string in them is (vm/vm_prot.c),  *)
(* where mmap() finds room (vm_region_findfree()), and the stack that      *)
(* execve() builds for the arguments (modules/emul/openbsd_aout).          *)
(*                                                                         *)
(* The regions of a process are a sequence of records [from, to, access].  *)
(* Memory is a function from addresses to bytes, 0 where it does not say.  *)
(***************************************************************************)
EXTENDS Integers, Sequences, SequencesExt, FiniteSetsExt

CONSTANTS
    PAGESIZE,       \* bytes of a page, 4096 in the code
    AddrSpace,      \* addresses, 2^32 in the code
    StackTop,       \* the first user address after the stack
    StackSize       \* default_stack_size

ASSUME UserSpaceAssumption ==
  /\ PAGESIZE \in Nat /\ PAGESIZE > 0 /\ PAGESIZE % 4 = 0
  /\ StackTop % PAGESIZE = 0 /\ StackSize % PAGESIZE = 0
  /\ StackSize =< StackTop /\ StackTop < AddrSpace

Touching(regions, a) == {k \in DOMAIN regions : regions[k].from <= a /\ a <= regions[k].to}

\* The region that holds an address, the first one in the chain.
RegionOf(regions, a) ==
  regions[CHOOSE k \in Touching(regions, a) : \A j \in Touching(regions, a) : k <= j]

-----------------------------------------------------------------------------
\* The last address of a range, which wraps as size_t does.
LastOf(addr, len) == (addr + len + AddrSpace - 1) % AddrSpace

\* vm_prot_accessible(): region after region, until the range is covered.
Accessible(regions, addr, len, access) ==
  LET from[a \in 0..AddrSpace] ==
        /\ Touching(regions, a) # {}
        /\ access \in RegionOf(regions, a).access
        /\ \/ RegionOf(regions, a).to + 1 > LastOf(addr, len)
           \/ from[RegionOf(regions, a).to + 1]
  IN  from[addr]

\* vm_prot_maxmemrange(): up to the first address that cannot be accessed.
MaxMemRange(regions, addr, access) ==
  LET stop[a \in 0..AddrSpace] ==
        IF Touching(regions, a) # {} /\ access \in RegionOf(regions, a).access
        THEN stop[RegionOf(regions, a).to + 1]
        ELSE a
  IN  stop[addr] - addr

ByteAt(mem, a) == IF a \in DOMAIN mem THEN mem[a] ELSE 0

\* vm_prot_stringlen(): looks at most one byte past the buffer.
StringLen(mem, addr, buflen) ==
  LET ends == {k \in 0..buflen - 1 : ByteAt(mem, addr + k) = 0}
  IN  IF ends # {} THEN CHOOSE k \in ends : \A j \in ends : k <= j
      ELSE IF ByteAt(mem, addr + buflen) = 0 THEN 0 ELSE buflen

-----------------------------------------------------------------------------
RoundUp(len) == ((len + PAGESIZE - 1) \div PAGESIZE) * PAGESIZE

\* No region is in the range, ends in it or goes over it.
Unmapped(regions, low, high) ==
  \A k \in DOMAIN regions :
    \/ regions[k].from < low /\ regions[k].to < low
    \/ regions[k].from > high /\ regions[k].to > high

\* vm_region_findfree(): just below some region, as high as possible; 0 when
\* there is no such place.
FindFree(regions, length) ==
  LET len == IF length = 0 THEN PAGESIZE ELSE RoundUp(length)
      starts == {regions[k].from : k \in DOMAIN regions}
  IN  Max({0} \cup {s - len : s \in {s \in starts :
                                       s > len /\ Unmapped(regions, s - len, s - 1)}})

-----------------------------------------------------------------------------
Lengths(strings) == FoldLeft(LAMBDA n, s : n + Len(s) + 1, 0, strings)

\* The mutant does without the spare word at the top.
AeLengthExact(argv, envp) ==
  LET n == 4 + (4 * (Len(argv) + 1)) + (4 * (Len(envp) + 1)) + Lengths(argv) + Lengths(envp)
  IN  ((n + 3) \div 4) * 4

\* ae_length: argc, both tables, the strings and a spare word.
AeLength(argv, envp) ==
  LET n == 4 + (4 * (Len(argv) + 1)) + (4 * (Len(envp) + 1)) + Lengths(argv) + Lengths(envp) + 4
  IN  ((n + 3) \div 4) * 4

Word(n) == <<n % 256, n \div 256, 0, 0>>

\* openbsd_aout__copystr(): "str" is not moved on, so what goes to the next
\* page is the string from its first character again.
CopyStr(at, str) ==
  LET bytes == Append(str, 0)
      avail == PAGESIZE - (at % PAGESIZE)
  IN  [k \in DOMAIN bytes |-> IF k <= avail THEN bytes[k]
                              ELSE bytes[((k - avail - 1) % PAGESIZE) + 1]]

\* The pointers of a table, which ends with a null one.
Table(first, strings) ==
  FlattenSeq([k \in 1..Len(strings) + 1 |->
    Word(IF k > Len(strings) THEN 0 ELSE first + Lengths(SubSeq(strings, 1, k - 1)))])

\* openbsd_aout_setupargvenvp() and the stack pointer of
\* openbsd_aout_startproc(): the stack pages that exist, numbered within the
\* stack, and the bytes in them.  A page is added as soon as the last one is
\* full, whether or not there is more to write.  sys_execve() passes a null
\* pointer for an empty list, which is refused, and then panics.
SetUpArgs(argv, envp) ==
  LET size == AeLength(argv, envp)
      esp == StackTop - size
      strs == esp + 4 + (4 * (Len(argv) + 1)) + (4 * (Len(envp) + 1))
      head == Word(Len(argv)) \o Table(strs, argv) \o Table(strs + Lengths(argv), envp)
      all == FoldLeft(LAMBDA out, s : out \o CopyStr(esp + Len(out), s), head, argv \o envp)
      bottom == StackTop - StackSize
  IN  IF argv = <<>> \/ envp = <<>> THEN [res |-> "panic"]
      ELSE
      [res |-> "ok",
       esp |-> esp,
       pages |-> ((esp - bottom) \div PAGESIZE)..((esp + Len(all) - bottom) \div PAGESIZE),
       mem |-> [a \in esp..esp + Len(all) - 1 |-> all[a - esp + 1]]]
=============================================================================
