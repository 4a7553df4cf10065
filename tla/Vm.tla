--------------------------------- MODULE Vm ---------------------------------
(***************************************************************************)
(* Virtual memory: the vm_objects of vm_object.c and their page chains,    *)
(* the vm_regions of each process (vm_region.c), the page tables (pmap.c), *)
(* the page fault handler (vm_fault.c), and the system calls that change   *)
(* an address space: fork (vm_fork.c), mmap, munmap and break              *)
(* (sys_mmap.c), execve and exit.                                          *)
(*                                                                         *)
(* The kernel runs all of these but fork with interrupts enabled, and a    *)
(* timer tick may switch processes at any point.  vm_fault() holds         *)
(* vm_fault_lock; vm_object_free() and vm_object_combine() do not take it, *)
(* only the locks of the objects.  So a fault is a step per object that is *)
(* searched, and freeing an object a step per lock and per decision; fork  *)
(* is one step.                                                            *)
(*                                                                         *)
(* Addresses are pages.  A frame is a page of physical memory and holds    *)
(* one value.  Left out: the TLB, page tables as memory of their own, and  *)
(* running out of frames (vm_fault() then panics or copies to address 0).  *)
(* Where the code goes on with something that has been freed, the model    *)
(* stops and "halt" says why.                                              *)
(***************************************************************************)
EXTENDS Integers, Sequences, FiniteSets, SequencesExt, FiniteSetsExt

CONSTANTS Proc, FirstProc,
          NObj, NFrame,         \* bounds: objects and frames there are
          LastAddr,             \* bound: pages of an address space
          MaxCalls,             \* bound: calls that change an address space
          Ranges,               \* bound: the <<lo, hi>> that are mapped and unmapped
          Value, Zero,          \* what processes store, what new memory holds
          FilePage,             \* FilePage[n]: page n of the one executable
          Layouts,              \* the regions execve() may set up, as attached
          None, Nobody

ASSUME VmAssumption ==
    /\ FirstProc \in Proc /\ IsFiniteSet(Proc) /\ Nobody \notin Proc
    /\ Zero \notin Value
    /\ NObj \in Nat \ {0} /\ NFrame \in Nat /\ LastAddr \in Nat
    /\ Ranges \subseteq Int \X Int

Obj   == 1..NObj                \* 0 is NULL
Frame == 1..NFrame
Addr  == 0..LastAddr
File  == 1                      \* the vm_object of the executable's vnode

VARIABLES object,       \* object[o]: type, next, refcount, shadow_refs, pages
          content,      \* content[f]: what a frame holds, None if free
          regions,      \* regions[p]: the chain p->vmregions, first first
          ptable,       \* ptable[p][a]: the frame mapped there, and writable
          fault_lock,   \* owner of vm_fault_lock
          olock,        \* olock[o]: owner of the lock of an object
          op,           \* op[p]: what p is doing in the kernel
          calls,        \* bound: how many of those calls there were
          halt          \* why nothing is modelled from here on

locks  == <<fault_lock, olock>>
memory == <<object, content, regions, ptable>>
vmvars == <<memory, locks, op, calls, halt>>

NoObject == [type |-> "free", next |-> 0, refcount |-> 0, ref1 |-> 0, ref2 |-> 0,
             pages |-> <<>>]
Unmapped == [frame |-> 0, w |-> FALSE]
NoTable  == [a \in Addr |-> Unmapped]

\* at: the step; todo: objects still to be given to vm_object_free(); held: those
\* its recursion has locked, innermost first; then, map: what follows.
User == [at |-> "user", addr |-> 0, write |-> FALSE, obj |-> 0, new |-> 0,
         todo |-> <<>>, held |-> <<>>, then |-> "user", map |-> <<>>]
Unused == [User EXCEPT !.at = "unused"]

Spare(objs)   == {o \in Obj : objs[o].type = "free"}
SpareFrames   == {f \in Frame : content[f] = None}

(***************************************************************************)
(* Regions.  A region covers the pages lo..hi and shows the pages of its   *)
(* source from "off" on.  A type is "ro", "rw" or "cow" (writable, copy on *)
(* write); "data" marks p->dataregion.                                     *)
(***************************************************************************)
Covers(r, a) == r.lo <= a /\ a <= r.hi
PageOf(r, a) == a - r.lo + r.off

RegionsAt(p, a) == {i \in DOMAIN regions[p] : Covers(regions[p][i], a)}
RegionAt(p, a) == regions[p][Min(RegionsAt(p, a))]

PageIn(objs, o, nr) == {i \in DOMAIN objs[o].pages : objs[o].pages[i].nr = nr}
FrameIn(objs, o, nr) == objs[o].pages[Min(PageIn(objs, o, nr))].frame

\* The objects of a source chain, from o down.
Chain(o) ==
    LET below[x \in 0..NObj] == IF x = 0 THEN {} ELSE {x} \cup below[object[x].next]
    IN  below[o]

Attached(objs, r) == [objs EXCEPT ![r.src].refcount = @ + 1]

\* loadexec() and setupstackandhwregisters(): regions over the file's object or
\* over new anonymous ones.
LoadRegion(st, r) ==
    LET o == IF r.file THEN File ELSE Min(Spare(st.objs))
        objs == IF r.file THEN st.objs
                ELSE [st.objs EXCEPT ![o] = [NoObject EXCEPT !.type = "anon"]]
        new == [lo |-> r.lo, hi |-> r.hi, src |-> o, off |-> r.off,
                type |-> r.type, data |-> r.data]
    IN  [objs |-> Attached(objs, new), chain |-> <<new>> \o st.chain]

Load(objs, layout) ==
    LET loaded[i \in 0..Len(layout)] ==
            IF i = 0 THEN [objs |-> objs, chain |-> <<>>]
            ELSE LoadRegion(loaded[i-1], layout[i])
    IN  loaded[Len(layout)]

AnonRegions(layout) == Cardinality({i \in DOMAIN layout : ~layout[i].file})

\* What execve() and mmap() set up, and the objects suffice for the first program.
Wanted == [lo : Int, hi : Int, file : BOOLEAN, off : Int,
           type : {"ro", "rw", "cow"}, data : BOOLEAN]

ASSUME LayoutsAssumption ==
    \A layout \in Layouts : layout \in Seq(Wanted) /\ AnonRegions(layout) < NObj

VmInit ==
    /\ \E layout \in Layouts :
         LET empty == [o \in Obj |-> IF o = File THEN [NoObject EXCEPT !.type = "file"]
                                     ELSE NoObject]
             st == Load(empty, layout)
         IN  /\ object = st.objs
             /\ regions = [p \in Proc |-> IF p = FirstProc THEN st.chain ELSE <<>>]
    /\ content = [f \in Frame |-> None]
    /\ ptable = [p \in Proc |-> NoTable]
    /\ fault_lock = Nobody /\ olock = [o \in Obj |-> Nobody]
    /\ op = [p \in Proc |-> IF p = FirstProc THEN User ELSE Unused]
    /\ calls = 0 /\ halt = ""

Called == calls < MaxCalls /\ calls' = calls + 1

Halt(why) == halt' = why /\ UNCHANGED <<memory, locks, op, calls>>

(***************************************************************************)
(* A store by p in user mode, and the faults: a page that is not mapped,   *)
(* or a store to one that is not mapped writable.                          *)
(***************************************************************************)
Write(p, a, v) ==
    LET e == ptable[p][a]
    IN  /\ op[p] = User /\ e.frame # 0 /\ e.w /\ content[e.frame] # v
        /\ content' = [content EXCEPT ![e.frame] = v]
        /\ UNCHANGED <<object, regions, ptable, locks, op, calls, halt>>

\* The step that searches object o; the last object has no next one, ever.
Searched(o, nr) ==
    IF PageIn(object, o, nr) # {} THEN "found"
    ELSE IF object[o].next = 0 THEN "pagein" ELSE "search"

Fault(p, a, write) ==
    LET e == ptable[p][a]
        r == RegionAt(p, a)
    IN  /\ op[p] = User /\ regions[p] # <<>>
        /\ e.frame = 0 \/ (write /\ ~e.w)
        /\ fault_lock = Nobody
        /\ IF RegionsAt(p, a) = {} \/ (write /\ r.type = "ro")
             THEN /\ op' = [op EXCEPT ![p].at = "segv"]
                  /\ UNCHANGED fault_lock
             ELSE /\ op' = [op EXCEPT ![p].at = Searched(r.src, PageOf(r, a)),
                                      ![p].addr = a, ![p].write = write,
                                      ![p].obj = r.src]
                  /\ fault_lock' = p
        /\ UNCHANGED <<memory, olock, calls, halt>>

\* SIGSEGV is posted with the lock given back, and the process switched away
\* from; if it goes on it unlocks again, whoever has the lock by then.
Segv(p) ==
    /\ op[p].at = "segv"
    /\ IF fault_lock = Nobody
         THEN op' = [op EXCEPT ![p] = User] /\ UNCHANGED <<memory, locks, calls, halt>>
         ELSE Halt("unlocked for another")

(***************************************************************************)
(* vm_fault(): the search goes on below op.obj, which has not the page; a  *)
(* page that is not there is paged in, one that is there copied or mapped. *)
(***************************************************************************)
Search(p) ==
    LET o == object[op[p].obj].next
    IN  /\ op[p].at = "search"
        /\ op' = [op EXCEPT ![p].obj = o,
                            ![p].at = Searched(o, PageOf(RegionAt(p, op[p].addr), op[p].addr))]
        /\ UNCHANGED <<memory, locks, calls, halt>>

Map(p, f, writable) ==
    ptable' = [ptable EXCEPT ![p][op[p].addr] = [frame |-> f, w |-> writable]]

FaultDone(p) ==
    /\ op' = [op EXCEPT ![p] = User]
    /\ fault_lock' = Nobody
    /\ UNCHANGED <<olock, regions, calls, halt>>

Entry(nr, f) == [nr |-> nr, frame |-> f]

\* Not found: the last object pages in.  A page of a file joins the chain of the
\* file, a zero page the chain nearest to the process.
Pagein(p) ==
    LET r == RegionAt(p, op[p].addr)
        nr == PageOf(r, op[p].addr)
        file == object[op[p].obj].type = "file"
        f == Min(SpareFrames)
    IN  /\ op[p].at = "pagein" /\ SpareFrames # {}
        /\ content' = [content EXCEPT ![f] = IF file THEN FilePage[nr] ELSE Zero]
        /\ object' = [object EXCEPT ![IF file THEN op[p].obj ELSE r.src].pages =
                                        <<Entry(nr, f)>> \o @]
        /\ Map(p, f, r.type = "rw")
        /\ FaultDone(p)

\* Found, a store, and copy on write: the copy joins the chain of the shadow
\* object the region begins with, which is made if there is none.
CopyNeeded(p) == op[p].write /\ RegionAt(p, op[p].addr).type = "cow"

CopyPage(p) ==
    LET i == Min(RegionsAt(p, op[p].addr))
        r == regions[p][i]
        nr == PageOf(r, op[p].addr)
        f == Min(SpareFrames)
        s == Min(Spare(object))
    IN  /\ op[p].at = "found" /\ CopyNeeded(p) /\ SpareFrames # {}
        /\ content' = [content EXCEPT ![f] = content[FrameIn(object, op[p].obj, nr)]]
        /\ IF object[r.src].type = "shadow"
             THEN /\ object' = [object EXCEPT ![r.src].pages = <<Entry(nr, f)>> \o @]
                  /\ UNCHANGED regions
             ELSE /\ Spare(object) # {}
                  /\ object' = [object EXCEPT ![s] =
                        [NoObject EXCEPT !.type = "shadow", !.next = r.src,
                                         !.refcount = 1, !.pages = <<Entry(nr, f)>>]]
                  /\ regions' = [regions EXCEPT ![p][i].src = s]
        /\ Map(p, f, TRUE)
        /\ op' = [op EXCEPT ![p] = User] /\ fault_lock' = Nobody
        /\ UNCHANGED <<olock, calls, halt>>

MapFound(p) ==
    LET r == RegionAt(p, op[p].addr)
    IN  /\ op[p].at = "found" /\ ~CopyNeeded(p)
        /\ IF ptable[p][op[p].addr].frame # 0
             THEN Halt("unknown page fault")
             ELSE /\ Map(p, FrameIn(object, op[p].obj, PageOf(r, op[p].addr)), r.type = "rw")
                  /\ FaultDone(p)
                  /\ UNCHANGED <<object, content>>

(***************************************************************************)
(* vm_fork(), with interrupts disabled: a region that is not writable is   *)
(* shared; of any other, parent and child each get a shadow object over    *)
(* the old source, and the pages of the parent become read-only.           *)
(***************************************************************************)
ShadowUnreferenced(o) == [NoObject EXCEPT !.type = "shadow", !.next = o]     \* mutant

Shadow(o) == [NoObject EXCEPT !.type = "shadow", !.next = o, !.refcount = 1]

ForkRegion(st, r) ==
    LET s1 == Min(Spare(st.objs))
        s2 == Min(Spare(st.objs) \ {s1})
        isShadow == st.objs[r.src].type = "shadow"
        split == [st.objs EXCEPT
                    ![s1] = Shadow(r.src), ![s2] = Shadow(r.src),
                    ![r.src].refcount = @ + 1,
                    ![r.src].ref1 = IF isShadow THEN s1 ELSE @,
                    ![r.src].ref2 = IF isShadow THEN s2 ELSE @]
    IN  IF r.type = "ro"
          THEN [objs   |-> Attached(st.objs, r),
                parent |-> Append(st.parent, r), child |-> <<r>> \o st.child]
          ELSE [objs   |-> split,
                parent |-> Append(st.parent, [r EXCEPT !.src = s1, !.type = "cow"]),
                child  |-> <<[r EXCEPT !.src = s2, !.type = "cow"]>> \o st.child]

Forked(chain) ==
    LET forked[i \in 0..Len(chain)] ==
            IF i = 0 THEN [objs |-> object, parent |-> <<>>, child |-> <<>>]
            ELSE ForkRegion(forked[i-1], chain[i])
    IN  forked[Len(chain)]

Writable(chain) == Cardinality({i \in DOMAIN chain : chain[i].type # "ro"})

KeepWritable(table, chain) == table                     \* mutant

MarkReadOnly(table, chain) ==
    [a \in Addr |-> [table[a] EXCEPT !.w =
        @ /\ ~\E i \in DOMAIN chain : chain[i].type # "ro" /\ Covers(chain[i], a)]]

Fork(p, c) ==
    LET st == Forked(regions[p])
    IN  /\ op[p] = User /\ op[c] = Unused /\ Called
        /\ Cardinality(Spare(object)) >= 2 * Writable(regions[p])
        /\ object' = st.objs
        /\ regions' = [regions EXCEPT ![p] = st.parent, ![c] = st.child]
        /\ ptable' = [ptable EXCEPT ![p] = MarkReadOnly(@, regions[p])]
        /\ op' = [op EXCEPT ![c] = User]
        /\ UNCHANGED <<content, locks, halt>>

\* No memory for the shadow objects of the region after the first n.  sys_fork()
\* then detaches what the child has, by address, from the parent.
ForkFails(p, c, n) ==
    LET done == SubSeq(regions[p], 1, n)
        st == Forked(done)
    IN  /\ op[p] = User /\ op[c] = Unused /\ Called
        /\ n < Len(regions[p]) /\ regions[p][n + 1].type # "ro"
        /\ Cardinality(Spare(object)) >= 2 * Writable(done)
        /\ object' = st.objs
        /\ regions' = [regions EXCEPT ![p] = SubSeq(@, n + 1, Len(@))]
        /\ halt' = "fork failed"
        /\ UNCHANGED <<content, ptable, locks, op>>

(***************************************************************************)
(* vm_object_free(), of the objects in op.todo one after the other:        *)
(*   enter   lock the object, count one reference less                     *)
(*   decide  no reference is left: what becomes of the object below?       *)
(*   lock_new, lock_sub, combine   the two locks of vm_object_combine()    *)
(*   leave   free the pages and the object, unlock                         *)
(***************************************************************************)
Freeing(p, todo, then, map) ==
    IF todo = <<>> /\ then = "exit" THEN Unused
    ELSE IF todo = <<>> /\ then = "user" THEN User
    ELSE IF todo = <<>> THEN [User EXCEPT !.at = "freed", !.map = map]
    ELSE [User EXCEPT !.at = "enter", !.obj = Head(todo), !.todo = Tail(todo),
                      !.then = then, !.map = map]

Returned(p, held) ==
    IF held # <<>> THEN [op[p] EXCEPT !.at = "leave", !.held = held]
    ELSE Freeing(p, op[p].todo, op[p].then, op[p].map)

Enter(p) ==
    LET o == op[p].obj
        left == object[o].refcount - 1
    IN  /\ op[p].at = "enter" /\ olock[o] = Nobody
        /\ object' = [object EXCEPT ![o].refcount = left]
        /\ IF left > 0
             THEN op' = [op EXCEPT ![p] = Returned(p, @.held)] /\ UNCHANGED olock
             ELSE /\ op' = [op EXCEPT ![p].at = "decide", ![p].held = <<o>> \o @]
                  /\ olock' = [olock EXCEPT ![o] = p]
        /\ UNCHANGED <<content, regions, ptable, fault_lock, calls, halt>>

\* One other reference is left to the shadow object below.
CombineBelow(o) ==
    object[object[o].next].type = "shadow" /\ object[object[o].next].refcount = 2

Other(o) ==
    LET below == object[object[o].next]
    IN  IF below.ref1 = o THEN below.ref2 ELSE below.ref1

Decide(p) ==
    LET o == Head(op[p].held)
        below == object[o].next
    IN  /\ op[p].at = "decide"
        /\ op' = [op EXCEPT ![p] =
             IF below = 0 THEN Returned(p, @.held)
             ELSE IF ~CombineBelow(o) THEN [@ EXCEPT !.at = "enter", !.obj = below]
             ELSE IF Other(o) = 0 THEN Returned(p, @.held)
             ELSE [@ EXCEPT !.at = "lock_new", !.obj = below, !.new = Other(o)]]
        /\ UNCHANGED <<memory, locks, calls, halt>>

LockNew(p) ==
    LET sub == op[p].obj  new == op[p].new
    IN  /\ op[p].at = "lock_new"
        /\ IF object[new].next # sub \/ object[new].type # "shadow"
             THEN Halt("chain is corrupt")
             ELSE /\ olock[new] = Nobody
                  /\ olock' = [olock EXCEPT ![new] = p]
                  /\ op' = [op EXCEPT ![p].at = "lock_sub"]
                  /\ UNCHANGED <<memory, fault_lock, calls, halt>>

\* The pages of sub that new lacks, in front of those of new, the last first.
Lacking(sub, new) ==
    SelectSeq(object[sub].pages, LAMBDA e : PageIn(object, new, e.nr) = {})

Surplus(sub, new) ==
    {e.frame : e \in {x \in ToSet(object[sub].pages) : PageIn(object, new, x.nr) # {}}}

\* A fault that has passed new, or is at sub, follows pointers that change now.
SearchCrosses(sub, new) ==
    \E q \in Proc : op[q].at \in {"search", "pagein", "found"} /\ op[q].obj \in {sub, new}

WithoutFrames(S) == [f \in Frame |-> IF f \in S THEN None ELSE content[f]]

KeepsOldPages(sub, new) == object[new].pages \o object[sub].pages       \* mutant

Combined(sub, new) == Reverse(Lacking(sub, new)) \o object[new].pages

NewStaysLocked(new) == olock                            \* mutant

Unlocked(new) == [olock EXCEPT ![new] = Nobody]

Combine(p) ==
    LET sub == op[p].obj  new == op[p].new  bottom == object[sub].next
    IN  /\ op[p].at = "lock_sub" /\ olock[sub] = Nobody
        /\ IF SearchCrosses(sub, new) THEN Halt("combined under a fault")
           ELSE /\ object' = [object EXCEPT
                      ![new].next = bottom,
                      ![new].pages = Combined(sub, new),
                      ![bottom].ref1 = IF @ = sub THEN new ELSE @,
                      ![bottom].ref2 = IF @ = sub THEN new ELSE @,
                      ![sub] = NoObject]
                /\ content' = WithoutFrames(Surplus(sub, new))
                /\ olock' = Unlocked(new)
                /\ op' = [op EXCEPT ![p] = Returned(p, @.held)]
                /\ UNCHANGED <<regions, ptable, fault_lock, calls, halt>>

\* An object of a file stays, with its pages: they are the buffer cache.
Leave(p) ==
    LET o == Head(op[p].held)
        keep == object[o].type = "file"
    IN  /\ op[p].at = "leave"
        /\ olock' = [olock EXCEPT ![o] = Nobody]
        /\ object' = IF keep THEN object ELSE [object EXCEPT ![o] = NoObject]
        /\ content' = IF keep THEN content
                      ELSE WithoutFrames({e.frame : e \in ToSet(object[o].pages)})
        /\ op' = [op EXCEPT ![p] = Returned(p, Tail(@.held))]
        /\ UNCHANGED <<regions, ptable, fault_lock, calls, halt>>

\* The objects are gone: attach what mmap() maps.
Attach(p) ==
    LET r == Head(op[p].map)
        st == LoadRegion([objs |-> object, chain |-> regions[p]], r)
    IN  /\ op[p].at = "freed"
        /\ r.file \/ Spare(object) # {}
        /\ object' = st.objs
        /\ regions' = [regions EXCEPT ![p] = st.chain]
        /\ op' = [op EXCEPT ![p] = User]
        /\ UNCHANGED <<content, ptable, locks, calls, halt>>

(***************************************************************************)
(* sys_munmap() of the pages lo..hi: a region is removed, shortened at     *)
(* either end, or split in two that both show the same source.             *)
(***************************************************************************)
UnmapRegion(st, r, lo, hi) ==
    LET upper == [r EXCEPT !.lo = hi + 1, !.off = @ + hi + 1 - r.lo, !.data = FALSE]
    IN  CASE r.lo >= lo /\ r.hi <= hi ->
               [st EXCEPT !.todo = Append(@, r.src), !.gone = @ \/ r.data]
          [] r.lo < lo /\ r.hi >= lo /\ r.hi <= hi ->
               [st EXCEPT !.chain = Append(@, [r EXCEPT !.hi = lo - 1])]
          [] r.lo >= lo /\ r.lo <= hi /\ r.hi > hi ->
               [st EXCEPT !.chain = Append(@, [upper EXCEPT !.data = r.data])]
          [] r.lo < lo /\ r.hi > hi ->
               [st EXCEPT !.chain = <<upper>> \o Append(@, [r EXCEPT !.hi = lo - 1]),
                          !.objs = Attached(@, r)]
          [] OTHER -> [st EXCEPT !.chain = Append(@, r)]

Unmap(p, lo, hi) ==
    LET chain == regions[p]
        unmapped[i \in 0..Len(chain)] ==
            IF i = 0 THEN [objs |-> object, chain |-> <<>>, todo |-> <<>>, gone |-> FALSE]
            ELSE UnmapRegion(unmapped[i-1], chain[i], lo, hi)
    IN  unmapped[Len(chain)]

Clear(table, lo, hi) == [a \in Addr |-> IF a \in lo..hi THEN Unmapped ELSE table[a]]

Munmap(p, lo, hi, then, map) ==
    LET st == Unmap(p, lo, hi)
    IN  /\ op[p] = User /\ regions[p] # <<>> /\ Called
        /\ object' = st.objs
        /\ regions' = [regions EXCEPT ![p] = st.chain]
        /\ ptable' = [ptable EXCEPT ![p] = Clear(@, lo, hi)]
        /\ op' = [op EXCEPT ![p] = Freeing(p, st.todo, then, map)]
        /\ UNCHANGED <<content, locks, halt>>

\* Private and writable; a file mapped to be read is shared like the text.
Mapping(lo, hi, file, off) ==
    [lo |-> lo, hi |-> hi, file |-> file, off |-> off, type |-> "cow", data |-> FALSE]

Mmap(p) ==
    \E range \in Ranges, file \in BOOLEAN :
        LET lo == range[1]  hi == range[2]
        IN  /\ file => hi - lo < Cardinality(DOMAIN FilePage)
            /\ Munmap(p, lo, hi, "map", <<Mapping(lo, hi, file, 0)>>)

(***************************************************************************)
(* sys_break(): the data region ends at page n from now on.                *)
(***************************************************************************)
DataRegion(p) == {i \in DOMAIN regions[p] : regions[p][i].data}

Break(p, n) ==
    \E i \in DataRegion(p) :
        LET r == regions[p][i]
            st == IF n < r.hi THEN Unmap(p, n + 1, r.hi) ELSE Unmap(p, r.hi + 1, n)
            old == {e.nr : e \in UNION {ToSet(object[o].pages) : o \in Chain(r.src)}}
        IN  /\ op[p] = User /\ n \in Addr /\ n # r.hi /\ n >= r.lo - 1
            /\ IF st.gone THEN Halt("break() wrote to a freed region")
               ELSE IF n > r.hi /\ \E a \in (r.hi + 1)..n : PageOf(r, a) \in old
               THEN Halt("break() shows old pages")
               ELSE /\ Called
                    /\ object' = st.objs
                    /\ regions' = [regions EXCEPT ![p] =
                         [j \in DOMAIN st.chain |->
                            IF st.chain[j].data THEN [st.chain[j] EXCEPT !.hi = n]
                            ELSE st.chain[j]]]
                    /\ ptable' = [ptable EXCEPT ![p] = Clear(@, Min({n, r.hi}) + 1,
                                                             Max({n, r.hi}))]
                    /\ op' = [op EXCEPT ![p] = Freeing(p, st.todo, "user", <<>>)]
                    /\ UNCHANGED <<content, locks, halt>>

(***************************************************************************)
(* sys_execve() of the executable, and proc_exit().                        *)
(***************************************************************************)
Sources(chain) == [i \in DOMAIN chain |-> chain[i].src]

Execve(p, layout) ==
    LET st == Load(object, layout)
    IN  /\ op[p] = User /\ Called
        /\ Cardinality(Spare(object)) >= AnonRegions(layout)
        /\ object' = st.objs
        /\ regions' = [regions EXCEPT ![p] = st.chain]
        /\ ptable' = [ptable EXCEPT ![p] = NoTable]
        /\ op' = [op EXCEPT ![p] = Freeing(p, Sources(regions[p]), "user", <<>>)]
        /\ UNCHANGED <<content, locks, halt>>

\* A program that cannot be loaded: the object of its file is given to free(), and
\* the vnode keeps pointing there.
ExecveFails(p) == op[p] = User /\ calls < MaxCalls /\ Halt("execve() freed a file's object")

Exit(p) ==
    /\ op[p] = User
    /\ regions' = [regions EXCEPT ![p] = <<>>]
    /\ ptable' = [ptable EXCEPT ![p] = NoTable]
    /\ op' = [op EXCEPT ![p] = Freeing(p, Sources(regions[p]), "exit", <<>>)]
    /\ UNCHANGED <<object, content, locks, calls, halt>>

VmNext ==
    /\ halt = ""
    /\ \E p \in Proc :
        \/ \E a \in Addr, v \in Value : Write(p, a, v)
        \/ \E a \in Addr, write \in BOOLEAN : Fault(p, a, write)
        \/ Segv(p) \/ Search(p) \/ Pagein(p) \/ CopyPage(p) \/ MapFound(p)
        \/ \E c \in Proc : Fork(p, c)
        \/ \E c \in Proc, n \in 1..NObj : ForkFails(p, c, n)
        \/ Enter(p) \/ Decide(p) \/ LockNew(p) \/ Combine(p) \/ Leave(p) \/ Attach(p)
        \/ \E range \in Ranges : Munmap(p, range[1], range[2], "user", <<>>)
        \/ Mmap(p) \/ \E n \in Addr : Break(p, n)
        \/ \E layout \in Layouts : Execve(p, layout)
        \/ ExecveFails(p) \/ Exit(p)

VmSpec == VmInit /\ [][VmNext]_vmvars

-----------------------------------------------------------------------------
(***************************************************************************)
(* Properties                                                              *)
(***************************************************************************)
\* What p finds at page a: in the frame mapped there, else in the first object of
\* the chain that has the page, else as the last object would page it in.
Found(o, nr) ==
    LET from[x \in 0..NObj] == IF x = 0 \/ PageIn(object, x, nr) # {} THEN x
                               ELSE from[object[x].next]
    IN  from[o]

Contents(p, a) ==
    LET r == RegionAt(p, a)
        nr == PageOf(r, a)
        o == Found(r.src, nr)
    IN  IF ptable[p][a].frame # 0 THEN content[ptable[p][a].frame]
        ELSE IF o # 0 THEN content[FrameIn(object, o, nr)]
        ELSE IF File \in Chain(r.src) THEN FilePage[nr] ELSE Zero

Image == [p \in Proc |-> [a \in Addr |-> IF RegionsAt(p, a) = {} THEN None ELSE Contents(p, a)]]

NewCell(a) == {Zero} \cup {FilePage[n] : n \in DOMAIN FilePage}

\* Every process has a memory of its own, whatever objects and frames it shares
\* with others and whoever of them faults, forks, unmaps or exits meanwhile.
Private == INSTANCE PrivateMemory WITH
    mem <- Image, Fresh <- NewCell

ImplementsPrivateMemory == Private!Spec

\* The reference count of an object is the number of regions that show it and of
\* shadow objects over it, those included that vm_object_free() is at; so nothing is
\* freed while in use, and nothing is kept that nobody uses (vm_object_free()).
Hits(s, o) == {i \in DOMAIN s : s[i] = o}

UsesOf(p, chain, t, o) ==
    {<<p, "region", i>> : i \in Hits(Sources(chain), o)}
      \cup {<<p, "todo", i>> : i \in Hits(t.todo, o)}
      \cup (IF t.at = "enter" /\ t.obj = o THEN {<<p, "now", 0>>} ELSE {})

Uses(p, o) == UsesOf(p, regions[p], op[p], o)

\* The objects p is freeing that have given back their reference to the one below.
Deciding    == {"decide", "lock_new", "lock_sub"}
GaveBack(t) == ToSet(IF t.at \in Deciding THEN Tail(t.held) ELSE t.held)
Gone        == UNION {GaveBack(op[p]) : p \in Proc}

Over(objs, gone, o) == {x \in Obj \ gone : objs[x].next = o}

References(o) ==
    Cardinality(Over(object, Gone, o)) + Cardinality(UNION {Uses(p, o) : p \in Proc})

CountsExact == halt = "" => \A o \in Obj : object[o].refcount = References(o)

\* The objects, regions and page tables are what their types say, and the faults
\* that vm_fault() and vm_object_combine() panic at do not happen.
VmTypeOK ==
    /\ object \in [Obj -> [type : {"free", "file", "anon", "shadow"}, next : 0..NObj,
                          refcount : Nat, ref1 : 0..NObj, ref2 : 0..NObj,
                          pages : Seq([nr : Nat, frame : Frame])]]
    /\ ptable \in [Proc -> [Addr -> [frame : 0..NFrame, w : BOOLEAN]]]
    /\ \A p \in Proc : \A i \in DOMAIN regions[p] :
           LET r == regions[p][i] IN r.lo <= r.hi /\ object[r.src].type # "free"
    /\ halt \in {"", "unlocked for another", "combined under a fault", "fork failed",
                 "break() wrote to a freed region", "break() shows old pages",
                 "execve() freed a file's object"}

\* No two pages in the chains are one frame, and a frame is in a chain or free
\* (vm_fault(), vm_object_combine(), vm_object_free()).
FramesAccounted ==
    /\ VmTypeOK
    /\ halt = "" => \A f \in Frame :
          Cardinality({at \in Obj \X (1..NFrame) :
                          /\ at[2] \in DOMAIN object[at[1]].pages
                          /\ object[at[1]].pages[at[2]].frame = f})
              = IF content[f] = None THEN 0 ELSE 1

\* The lock a process waits for.
NextOwner(p) ==
    CASE op[p].at = "enter"    -> olock[op[p].obj]
      [] op[p].at = "lock_new" -> olock[op[p].new]
      [] op[p].at = "lock_sub" -> olock[op[p].obj]
      [] OTHER                 -> Nobody

\* A lock that a process waits for comes free: its owner is in the kernel and does
\* not wait for the first in turn, but for two that share a shadow object, free
\* theirs at once and each want to combine it with the other's (vm_object_free()).
LocksComeFree ==
    halt = "" => \A p, q \in Proc :
        NextOwner(p) = q =>
            /\ op[q].at \notin {"user", "unused", "segv", "freed"}
            /\ NextOwner(q) \in {p, q} =>
                 op[p].at = "lock_new" /\ op[q].at = "lock_new" /\ op[p].obj = op[q].obj
=============================================================================
