-------------------------------- MODULE MCVm --------------------------------
(* Vm.tla with two processes: a heap of one page, or a program with text and
   data of one page each. *)
EXTENDS Vm

Region(lo, hi, file, off, type, data) ==
    [lo |-> lo, hi |-> hi, file |-> file, off |-> off, type |-> type, data |-> data]

HeapLayout == <<Region(0, 0, FALSE, 0, "rw", TRUE)>>

ProgramLayout == <<Region(0, 0, TRUE, 0, "ro", FALSE), Region(1, 1, TRUE, 1, "cow", FALSE)>>

MCLayouts == {HeapLayout, ProgramLayout}

MCRanges == {<<1, 1>>}

MCFilePage == [n \in {0, 1} |-> 1]
=============================================================================
