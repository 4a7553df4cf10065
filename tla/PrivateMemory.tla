--------------------------- MODULE PrivateMemory ---------------------------
(***************************************************************************)
(* What virtual memory promises a process: a memory of its own.  A store   *)
(* changes one cell of the process that stores; fork() hands the child a   *)
(* copy; new memory is zero, or what the file holds; whatever else happens *)
(* only takes cells away from the process it happens to.                   *)
(***************************************************************************)
CONSTANTS Proc, Addr,
          None,         \* a cell that is not there
          Fresh(_)      \* what a new cell may hold

VARIABLE mem            \* mem[p][a]

Empty == [a \in Addr |-> None]

\* One step, from the memory m to the memory n.
Store(m, n, p) ==
    \E a \in Addr :
        /\ m[p][a] # None /\ n[p][a] # None
        /\ \A b \in Addr \ {a} : n[p][b] = m[p][b]

Fork(m, n, p) ==
    \E q \in Proc \ {p} : m[p] = Empty /\ n[p] = m[q]

\* mmap(), munmap(), break(), execve() and exit().
Renew(m, n, p) ==
    \A a \in Addr : n[p][a] \in {m[p][a], None} \cup Fresh(a)

Step(m, n) ==
    \E p \in Proc :
        /\ \A q \in Proc \ {p} : n[q] = m[q]
        /\ Store(m, n, p) \/ Fork(m, n, p) \/ Renew(m, n, p)

Init == \E p \in Proc : \A q \in Proc \ {p} : mem[q] = Empty

Spec == Init /\ [][Step(mem, mem')]_mem
=============================================================================
