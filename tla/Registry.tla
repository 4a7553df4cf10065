------------------------------ MODULE Registry ------------------------------
(***************************************************************************)
(* The kernel's registries of resources (src/src/sys/reg and               *)
(* vfs/vfs_init.c): the tree of modules, ranges of i/o ports, interrupt    *)
(* lines, DMA channels, devices, emulations and file systems.  They are    *)
(* lists and arrays that a driver changes with interrupts disabled; an     *)
(* entry holds a pointer to the short name of its owner.                   *)
(*                                                                         *)
(* A module is known by its place in the order of allocation, so that an   *)
(* owner that was freed is told from one that is registered.               *)
(***************************************************************************)
EXTENDS Integers, Sequences, FiniteSets, SequencesExt

CONSTANTS Irqs, DmaChannels, NoOwner

VARIABLES
  modules,      \* the tree below root_module: id -> [name, nr, parent]
  ranges,       \* portsranges, first to last
  irqs,         \* irq_handler_name[]: the owner, or NoOwner
  dmas,         \* dma_owner[]
  devices,      \* the list at first_device
  emulations,   \* the names in the list at first_emul
  filesystems   \* the names in the list at firstfilesystem

regvars == <<modules, ranges, irqs, dmas, devices, emulations, filesystems>>

Root == 0
Unnumbered == -1

\* What the boot leaves before any driver: the tree of module_init(),
\* syscall_init(), vfs_init() and machdep_res_init(), and two interrupt lines
\* the machine code takes under names that are no modules.
InitRegistry ==
  /\ modules = [m \in 0..6 |->
       CASE m = 0 -> [name |-> "root", nr |-> Unnumbered, parent |-> Root]
         [] m = 1 -> [name |-> "virtual", nr |-> Unnumbered, parent |-> Root]
         [] m = 2 -> [name |-> "mainbus", nr |-> 0, parent |-> Root]
         [] m = 3 -> [name |-> "emul", nr |-> Unnumbered, parent |-> 1]
         [] m = 4 -> [name |-> "vfs", nr |-> Unnumbered, parent |-> 1]
         [] m = 5 -> [name |-> "cpu", nr |-> 0, parent |-> 2]
         [] m = 6 -> [name |-> "bios", nr |-> 0, parent |-> 2]]
  /\ ranges = <<>>
  /\ irqs = [i \in Irqs |-> IF i \in {0, 7} THEN Root ELSE NoOwner]
  /\ dmas = [c \in DmaChannels |-> NoOwner]
  /\ devices = <<>>
  /\ emulations = <<>>
  /\ filesystems = <<>>

-----------------------------------------------------------------------------
\* module_register__Findmodulebyname(): the first module of that name.
Named(name, nr) ==
  {m \in DOMAIN modules : modules[m].name = name /\ modules[m].nr = nr}

\* MODULETYPE_NUMBERED: the lowest number whose name nobody has.
FreeNumber(name) ==
  CHOOSE n \in 0..Cardinality(DOMAIN modules) :
    /\ Named(name, n) = {}
    /\ \A k \in 0..n - 1 : Named(name, k) # {}

\* module_register(): a child of a module that is found by its name.
ModuleRegistered(id, name, numbered, parent) ==
  [m \in DOMAIN modules \union {id} |->
     IF m = id
     THEN [name |-> name, parent |-> parent,
           nr |-> IF numbered THEN FreeNumber(name) ELSE Unnumbered]
     ELSE modules[m]]

Childless(m) == \A c \in DOMAIN modules \ {Root} : modules[c].parent # m

\* module_unregister(): refuses the root and a module with children.
ModuleUnregistered(id) ==
  IF id = Root \/ ~Childless(id) THEN modules
  ELSE [m \in DOMAIN modules \ {id} |-> modules[m]]

-----------------------------------------------------------------------------
LastPort(r) == r.base + r.n - 1

\* The mutant forgets a range that starts before the request and ends after.
ConflictsAtTheEnds(r, base, n) ==
  \/ r.base \in base..base + n - 1
  \/ LastPort(r) \in base..base + n - 1

\* ports_register(): do the ranges share a port?
Conflicts(r, base, n) ==
  \/ r.base \in base..base + n - 1
  \/ LastPort(r) \in base..base + n - 1
  \/ r.base < base /\ LastPort(r) > base + n - 1

PortsFree(base, n) == \A i \in DOMAIN ranges : ~Conflicts(ranges[i], base, n)

PortsRegistered(base, n, owner) ==
  Append(ranges, [base |-> base, n |-> n, owner |-> owner])

\* The mutant takes the range that holds the port.
RangeAround(rs, base) ==
  SelectSeq(rs, LAMBDA r : ~(r.base <= base /\ base <= LastPort(r)))

\* ports_unregister(): the first range with that base, whoever owns it.
PortsUnregistered(rs, base) ==
  LET at == {i \in DOMAIN rs : rs[i].base = base}
  IN  IF at = {} THEN rs
      ELSE RemoveAt(rs, CHOOSE i \in at : \A j \in at : i <= j)

IrqFree(i) == i \in Irqs /\ irqs[i] = NoOwner

DmaFree(c) == dmas[c] = NoOwner

-----------------------------------------------------------------------------
DeviceNames == {devices[i].name : i \in DOMAIN devices}

\* The mutant takes the number of the device that is first in the list.
NumberOfTheFirst == 1 + (IF devices = <<>> THEN 0 ELSE Last(devices).vfs_dev)

\* The number of a new device: one more than the highest in use.
NextDev ==
  1 + (IF devices = <<>> THEN 0
       ELSE CHOOSE d \in {devices[i].vfs_dev : i \in DOMAIN devices} :
              \A i \in DOMAIN devices : devices[i].vfs_dev <= d)

\* device_register(): refuses a name in use, else adds the device first.
DeviceRegistered(name, owner) ==
  <<[name |-> name, vfs_dev |-> NextDev, owner |-> owner]>> \o devices

=============================================================================
