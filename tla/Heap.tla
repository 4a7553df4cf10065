-------------------------------- MODULE Heap --------------------------------
(***************************************************************************)
(* What kern/malloc.c promises: malloc() hands out a block of the memory   *)
(* it manages that overlaps no other block, or nothing; free() takes a     *)
(* block back; and both keep count of what is left.                        *)
(***************************************************************************)
EXTENDS Integers, FiniteSets

CONSTANT Memory           \* the addresses malloc() manages

VARIABLES allocated,      \* the blocks handed out: [addr, size]
          left            \* how much memory is in none of them

Extent(b) == b.addr .. b.addr + b.size - 1

Init == allocated = {} /\ left = Cardinality(Memory)

Malloc ==
    \E addr \in Memory, size \in 1..Cardinality(Memory) :
        LET b == [addr |-> addr, size |-> size] IN
        /\ Extent(b) \subseteq Memory
        /\ \A a \in allocated : Extent(a) \cap Extent(b) = {}
        /\ allocated' = allocated \cup {b}
        /\ left' = left - size

Free ==
    \E b \in allocated :
        allocated' = allocated \ {b} /\ left' = left + b.size

Next == Malloc \/ Free

Spec == Init /\ [][Next]_<<allocated, left>>
=============================================================================
