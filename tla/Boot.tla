-------------------------------- MODULE Boot --------------------------------
(***************************************************************************)
(* staticmodules_init() and the mounts of init_main(): the init function   *)
(* of each driver registers a module, then claims what its hardware needs, *)
(* and backs out of it when a claim is refused, each driver in its own way.*)
(*                                                                         *)
(* An init is a list of claims, in the order of the code; one step makes   *)
(* one claim.  What the machine has (serial ports of the BIOS table, cards *)
(* found, disks and their partition tables) is chosen when the init looks  *)
(* for it.  Every malloc() may fail, MaxFailures times in all.             *)
(***************************************************************************)
EXTENDS Registry

CONSTANTS
  ComPorts,     \* the values a BIOS table holds, 0 for no port
  ReadPorts,    \* where isapnp finds cards, 0 for nowhere
  EpPorts,      \* where an EtherLink card sits
  FdcPorts,     \* where a floppy controller answers, 0 for nowhere
  DiskSets,     \* the sets of disks that answer, 0..3
  Tables,       \* the partition tables of disk 0: what each entry holds, and
                \* the places a disklabel uses
  MaxFailures,  \* bound on the mallocs that fail
  CrtcPorts,    \* <<base, number>> of the video controller, color or not
  NrOfVcs       \* MAX_NR_OF_VCS, 12 in the code

ASSUME NrOfVcsAssumption == NrOfVcs \in Nat \ {0}

\* Interrupt lines and channels the drivers name are lines of the machine.
ASSUME LinesAssumption ==
  {3, 4} \subseteq Irqs /\ 2 \in DmaChannels /\ NoOwner \notin Nat

\* Ports are numbers.  A serial port decodes the three low bits itself, so it
\* is at a multiple of 8; isapnp tries every fourth port from 0x203 on; the
\* video controller is at one of two places.
ASSUME PortsAssumption ==
  /\ ComPorts \subseteq {p \in Nat : p % 8 = 0}
  /\ ReadPorts \ {0} \subseteq {p \in Nat : p % 4 = 3}
  /\ EpPorts \subseteq Nat /\ FdcPorts \subseteq Nat
  /\ CrtcPorts \subseteq {<<944, 12>>, <<976, 16>>}

ASSUME TablesAssumption ==
  \A t \in Tables : t \in Seq([typ : STRING, used : Seq(Nat)])

VARIABLES
  init,      \* the place in Inits of the init that runs, Mounting after all
  mine,      \* the module it registered, NoOwner before
  todo,      \* its claims still to make
  made,      \* those made: [claim, ok]
  born,      \* modules allocated so far
  failures,  \* mallocs that failed
  mounts,    \* the mount points, in the order of the chain
  halt       \* "" or what the kernel did that it cannot survive

bootvars == <<init, mine, todo, made, born, failures, mounts, halt>>
vars == <<regvars, bootvars>>

-----------------------------------------------------------------------------
\* The lines of CONFIG-ALL, isadma where isa_init() calls it, pccom for the
\* first two places of the BIOS table and ep once for each card it may find.
Inits == <<"net", "net_if", "isa", "isadma", "pccon", "pccom", "pccom",
           "isapnp", "ep", "ep", "pcppi", "wdc", "fdc", "null", "tty",
           "openbsd_aout", "devfs", "ffs", "procfs">>

Mounting == Len(Inits) + 1
ComNr == init - 6     \* the place in the BIOS table, while pccom runs
Current == Inits[init]

Parent(d) ==
  CASE d \in {"net", "null", "tty"} -> <<"virtual", Unnumbered>>
    [] d = "net_if" -> <<"net", Unnumbered>>
    [] d = "isa" -> <<"mainbus", 0>>
    [] d = "openbsd_aout" -> <<"emul", Unnumbered>>
    [] d \in {"devfs", "ffs", "procfs"} -> <<"vfs", Unnumbered>>
    [] OTHER -> <<"isa", 0>>

IsNumbered(d) == Parent(d) = <<"isa", 0>> \/ d = "isa"

\* "must": a refusal ends the init at once, is looked at by the next check,
\* or is ignored.
Claim(op, at, n, must) == [op |-> op, at |-> at, n |-> n, must |-> must]
Check == Claim("check", 0, 0, "now")
Found(yes) == Claim("found", IF yes THEN 1 ELSE 0, 0, "now")

-----------------------------------------------------------------------------
\* wdc_read_mbr() enters one partition of the table, found tells whether a
\* disklabel came before it.  The partitions a disklabel uses, in its order,
\* keep their letters if it is the first; all others are counted from 'i'.
Enter(sofar, e) ==
  LET Give(letters, n) ==
        [sofar EXCEPT !.given = @ \o letters, !.next = @ + n, !.found = @ \/ e.typ = "label"]
      Counted(n) == Give([j \in 1..n |-> sofar.next + j - 1], n)
  IN  CASE e.typ = "label" /\ ~sofar.found -> Give(e.used, 0)
        [] e.typ = "label" /\ sofar.found -> Counted(Len(e.used))
        [] e.typ = "dos" -> Counted(1)
        [] OTHER -> sofar

\* The letters of all partitions, as numbers from 0 for 'a'.
Letters(table) ==
  LET entered[k \in 0..Len(table)] ==
        IF k = 0 THEN [given |-> <<>>, next |-> 8, found |-> FALSE]
        ELSE Enter(entered[k - 1], table[k])
  IN  entered[Len(table)].given

\* wdc_regdevices(): every disk reads its table from disk 0, because
\* wdc_read() compares the digit in the name with numbers.
DiskClaims(disks, table, u) ==
  IF u \notin disks THEN <<>>
  ELSE <<Claim("device", <<"wd", u>>, u, "never")>>
       \o (IF 0 \notin disks THEN <<>>
           ELSE [i \in 1..Len(Letters(table)) |->
                   Claim("partition", <<"wd", u, Letters(table)[i]>>, u, "now")])

WdcClaims(disks, table) ==
  <<Claim("irq", 14, 1, "now"), Claim("ports", 496, 8, "now"),
    Claim("ports", 368, 8, "now")>>
  \o (IF disks \intersect {0, 1} = {} THEN <<Claim("drop", 496, 0, "now")>> ELSE <<>>)
  \o (IF disks \intersect {2, 3} = {} THEN <<Claim("drop", 368, 0, "now")>> ELSE <<>>)
  \o <<Found(disks # {})>>
  \o DiskClaims(disks, table, 0) \o DiskClaims(disks, table, 1)
  \o DiskClaims(disks, table, 2) \o DiskClaims(disks, table, 3)

\* isadma_init(): the registers of both controllers and their pages.
IsadmaClaims ==
  {<<Claim("ports", 0, 16, "later"), Claim("ports", 128, 16, "later"),
     Claim("ports", 192, 32, "later"), Check>>}

\* pccon_init(): the keyboard, its buffer, the video controller wherever it
\* is, and the consoles.
PcconClaims ==
  {<<Claim("ports", 96, 1, "later"), Claim("ports", 100, 1, "later"),
     Claim("irq", 1, 1, "later"), Check, Claim("memory", 0, 0, "now"),
     Claim("ports", crtc[1], crtc[2], "never")>>
   \o [i \in 1..NrOfVcs |-> Claim("device", <<"ttyC", i - 1>>, 0, "never")]
   \o <<Claim("device", <<"console">>, 0, "never")>> : crtc \in CrtcPorts}

PccomClaims ==
  {<<Claim("ports", p, 8, "now"), Claim("irq", 4 - ComNr, 1, "now")>> :
     p \in ComPorts \ {0}}

\* isapnp_findall() tries ports to read from until a card answers.
PnpClaims ==
  {IF p = 0 THEN <<Found(FALSE)>>
   ELSE <<Found(TRUE), Claim("ports", p, 1, "later"), Claim("ports", 633, 1, "later"),
          Claim("ports", 2681, 1, "later"), Check>> : p \in ReadPorts}

\* ep_init() goes on without its ports and without its interrupt.
EpClaims ==
  {<<Claim("ports", p, 16, "never"), Claim("irq", 10, 1, "never")>> : p \in EpPorts}

PcppiClaims == {<<Claim("ports", 97, 1, "now")>>}

\* fdc_init(): the controller answers at one of two bases, and the CMOS says
\* which drives there are.
FdcClaims ==
  {<<Claim("irq", 6, 1, "now"), Found(p # 0), Claim("ports", p, 8, "now"),
     Claim("dma", 2, 1, "now")>>
   \o [i \in DOMAIN fds |-> Claim("device", <<"fd", fds[i]>>, 0, "never")] :
     p \in FdcPorts, fds \in {<<>>, <<0, 1>>}}

\* The devices null and tty, one emulation and three file systems: a module
\* each and one entry of a list.
DeviceClaims(d) == {<<Claim("device", <<d>>, 0, "now")>>}
EmulationClaims(d) == {<<Claim("emulation", d, 0, "now")>>}
FilesystemClaims(d) == {<<Claim("filesystem", d, 0, "now")>>}

\* What an init will ask for, one list for each machine it may find.
Claims(d) ==
  CASE d = "isadma" -> IsadmaClaims
    [] d = "pccon" -> PcconClaims
    [] d = "pccom" -> PccomClaims
    [] d = "isapnp" -> PnpClaims
    [] d = "ep" -> EpClaims
    [] d = "pcppi" -> PcppiClaims
    [] d = "wdc" -> {WdcClaims(disks, t) : disks \in DiskSets, t \in Tables}
    [] d = "fdc" -> FdcClaims
    [] d \in {"null", "tty"} -> DeviceClaims(d)
    [] d = "openbsd_aout" -> EmulationClaims(d)
    [] d \in {"devfs", "ffs", "procfs"} -> FilesystemClaims(d)
    [] OTHER -> {<<>>}

-----------------------------------------------------------------------------
Running == halt = "" /\ init < Mounting
MayFail == failures < MaxFailures
MallocFails == MayFail /\ failures' = failures + 1

Init ==
  /\ InitRegistry
  /\ init = 1 /\ mine = NoOwner /\ todo = <<>> /\ made = <<>>
  /\ born = Cardinality(DOMAIN modules) /\ failures = 0
  /\ mounts = <<>> /\ halt = ""

\* The end of an init, and the start of the next one.
Return ==
  /\ init' = init + 1 /\ mine' = NoOwner /\ todo' = <<>> /\ made' = <<>>

Starting == Running /\ mine = NoOwner

\* module_register() at the parent, the first thing every init does; the
\* claims that follow depend on the machine.
StartInit ==
  /\ Starting
  /\ Named(Parent(Current)[1], Parent(Current)[2]) # {}
  /\ LET parent == CHOOSE m \in Named(Parent(Current)[1], Parent(Current)[2]) : TRUE
     IN  modules' = ModuleRegistered(born, Current, IsNumbered(Current), parent)
  /\ \E claims \in Claims(Current) : todo' = claims
  /\ mine' = born /\ born' = born + 1 /\ made' = <<>>
  /\ UNCHANGED <<ranges, irqs, dmas, devices, emulations, filesystems, init,
                 failures, mounts, halt>>

\* No memory, or no module of the parent's name.
StartRefused ==
  /\ Starting
  /\ \/ MallocFails
     \/ /\ Named(Parent(Current)[1], Parent(Current)[2]) = {}
        /\ UNCHANGED failures
  /\ Return
  /\ UNCHANGED <<regvars, born, mounts, halt>>

\* The BIOS table ends, or there is no (further) network card.
NothingThere ==
  /\ Starting
  /\ \/ /\ Current = "pccom" /\ 0 \in ComPorts
        /\ init' = CHOOSE i \in DOMAIN Inits : Inits[i] = "isapnp"
     \/ /\ Current = "ep"
        /\ init' = CHOOSE i \in DOMAIN Inits : Inits[i] = "pcppi"
  /\ mine' = NoOwner /\ todo' = <<>> /\ made' = <<>>
  /\ UNCHANGED <<regvars, born, failures, mounts, halt>>

-----------------------------------------------------------------------------
Claiming(op) == Running /\ mine # NoOwner /\ todo # <<>> /\ Head(todo).op = op
This == Head(todo)

Made(ok) == todo' = Tail(todo) /\ made' = Append(made, [claim |-> This, ok |-> ok])

\* Claims that touch only the lists named by a step leave these alone.
InitGoesOn == UNCHANGED <<modules, init, mine, born, mounts, halt>>

TakePorts ==
  /\ Claiming("ports") /\ PortsFree(This.at, This.n)
  /\ ranges' = PortsRegistered(This.at, This.n, mine)
  /\ Made(TRUE) /\ InitGoesOn
  /\ UNCHANGED <<irqs, dmas, devices, emulations, filesystems, failures>>

TakeIrq ==
  /\ Claiming("irq") /\ IrqFree(This.at)
  /\ irqs' = [irqs EXCEPT ![This.at] = mine]
  /\ Made(TRUE) /\ InitGoesOn
  /\ UNCHANGED <<ranges, dmas, devices, emulations, filesystems, failures>>

TakeDma ==
  /\ Claiming("dma") /\ DmaFree(This.at)
  /\ dmas' = [dmas EXCEPT ![This.at] = mine]
  /\ Made(TRUE) /\ InitGoesOn
  /\ UNCHANGED <<ranges, irqs, devices, emulations, filesystems, failures>>

AddDevice ==
  /\ Claiming("device") /\ This.at \notin DeviceNames
  /\ devices' = DeviceRegistered(This.at, mine)
  /\ Made(TRUE) /\ InitGoesOn
  /\ UNCHANGED <<ranges, irqs, dmas, emulations, filesystems, failures>>

\* emul_register() adds first, vfs_register() last.
AddFormat ==
  /\ \/ /\ Claiming("emulation")
        /\ emulations' = <<This.at>> \o emulations
        /\ UNCHANGED filesystems
     \/ /\ Claiming("filesystem")
        /\ filesystems' = Append(filesystems, This.at)
        /\ UNCHANGED emulations
  /\ Made(TRUE) /\ InitGoesOn
  /\ UNCHANGED <<ranges, irqs, dmas, devices, failures>>

\* Memory that is there, hardware that answers, claims that were all met.
CheckPasses ==
  /\ \/ Claiming("memory")
     \/ Claiming("found") /\ This.at = 1
     \/ Claiming("check") /\ \A i \in DOMAIN made : made[i].ok
  /\ Made(TRUE) /\ InitGoesOn
  /\ UNCHANGED <<ranges, irqs, dmas, devices, emulations, filesystems, failures>>

\* wdc_init() gives back the ports of a controller without disks; what is left
\* to give back later are claims that were met.
DropPorts ==
  /\ Claiming("drop")
  /\ ranges' = PortsUnregistered(ranges, This.at)
  /\ todo' = Tail(todo)
  /\ made' = [k \in DOMAIN made |->
               [made[k] EXCEPT !.ok = @ /\ ~(/\ made[k].claim.op = "ports"
                                            /\ made[k].claim.at = This.at)]]
  /\ InitGoesOn
  /\ UNCHANGED <<irqs, dmas, devices, emulations, filesystems, failures>>

\* wdc_register_partition(): registers the device and gives it its data.
AddPartition ==
  /\ Claiming("partition") /\ This.at \notin DeviceNames
  /\ devices' = DeviceRegistered(This.at, mine)
  /\ Made(TRUE) /\ InitGoesOn
  /\ UNCHANGED <<ranges, irqs, dmas, emulations, filesystems, failures>>

\* Whatever goes wrong in it, it writes through a pointer to nothing or to a
\* device it has freed, or frees that device a second time.
PartitionRefused ==
  /\ Claiming("partition")
  /\ \/ This.at \in DeviceNames /\ UNCHANGED failures
     \/ MallocFails
  /\ halt' = "wdc_register_partition() used a device it had freed"
  /\ UNCHANGED <<regvars, init, mine, todo, made, born, mounts>>

\* A disk whose raw device or table buffer gets no memory has no partitions.
DiskWithoutPartitions ==
  /\ Claiming("device") /\ Current = "wdc" /\ MallocFails
  /\ \/ This.at \notin DeviceNames /\ devices' = DeviceRegistered(This.at, mine)
     \/ UNCHANGED devices
  /\ \E next \in 2..Len(todo) + 1 :
       /\ \A i \in 2..next - 1 : todo[i].op = "partition"
       /\ next <= Len(todo) => todo[next].op # "partition"
       /\ todo' = SubSeq(todo, next, Len(todo))
  /\ UNCHANGED <<made, ranges, irqs, dmas, emulations, filesystems>>
  /\ InitGoesOn

-----------------------------------------------------------------------------
\* What a claim may be refused for.
Refusable ==
  \/ /\ \/ Claiming("ports") /\ ~PortsFree(This.at, This.n)
        \/ Claiming("irq") /\ ~IrqFree(This.at)
        \/ Claiming("dma") /\ ~DmaFree(This.at)
        \/ Claiming("found") /\ This.at = 0
        \/ Claiming("check") /\ \E i \in DOMAIN made : ~made[i].ok
     /\ UNCHANGED failures
  \/ /\ Running /\ mine # NoOwner /\ todo # <<>>
     /\ \/ This.op \in {"ports", "memory", "emulation", "filesystem"}
        \/ This.op = "device" /\ Current # "wdc"
     /\ MallocFails

\* The claim is left out: the init looks at it later or never.
GoOnWithout ==
  /\ Refusable /\ This.must # "now"
  /\ Made(FALSE) /\ InitGoesOn
  /\ UNCHANGED <<ranges, irqs, dmas, devices, emulations, filesystems>>

AsksBeforeItLooks(d) == d \in {"isadma", "pccon", "isapnp"}

\* The mutant forgets the interrupt.
GivesPortsBack(d, m) ==
  m.claim.op = "ports" /\ d # "pccom" /\ (m.ok \/ AsksBeforeItLooks(d))

\* The claims an init gives back when it fails.  Inits that look at several
\* results at once unregister all the bases they asked for; pccon keeps its
\* interrupt when it lacks a port; pccom gives back nothing.
GivesBack(d, m) ==
  CASE m.claim.op = "ports" -> d # "pccom" /\ (m.ok \/ AsksBeforeItLooks(d))
    [] m.claim.op = "irq" -> m.ok /\ d # "pccom" /\ ~(d = "pccon" /\ This.op = "check")
    [] OTHER -> FALSE

Back(op) == {k \in DOMAIN made : made[k].claim.op = op /\ GivesBack(Current, made[k])}

PortsGivenBack ==
  LET without[k \in 0..Len(made)] ==
        IF k = 0 THEN ranges
        ELSE IF k \in Back("ports")
        THEN PortsUnregistered(without[k - 1], made[k].claim.at)
        ELSE without[k - 1]
  IN  without[Len(made)]

IrqsGivenBack ==
  [i \in Irqs |-> IF \E k \in Back("irq") : made[k].claim.at = i THEN NoOwner ELSE irqs[i]]

\* The init gives up: what it took goes back, then its module.
GiveUp ==
  /\ Refusable /\ This.must = "now"
  /\ ranges' = PortsGivenBack /\ irqs' = IrqsGivenBack
  /\ modules' = ModuleUnregistered(mine)
  /\ Return
  /\ UNCHANGED <<dmas, devices, emulations, filesystems, born, mounts, halt>>

\* openbsd_aout_init() does not look at its second malloc().
FormatWithoutMemory ==
  /\ Running /\ mine # NoOwner /\ Current = "openbsd_aout" /\ todo = <<>>
  /\ MallocFails
  /\ halt' = "openbsd_aout_init() cleared memory at NULL"
  /\ UNCHANGED <<regvars, init, mine, todo, made, born, mounts>>

Finish ==
  /\ Running /\ mine # NoOwner /\ todo = <<>>
  /\ Return
  /\ UNCHANGED <<regvars, born, failures, mounts, halt>>

-----------------------------------------------------------------------------
\* The mounts of init_main(), whose results it does not look at.
Mounts == <<[at |-> "/", fs |-> "ffs", dev |-> <<"wd", 0, 3>>],
            [at |-> "/dev", fs |-> "devfs", dev |-> <<>>],
            [at |-> "/proc", fs |-> "procfs", dev |-> <<>>],
            [at |-> "/wd0a", fs |-> "ffs", dev |-> <<"wd", 0, 0>>]>>

NextMount == Mounts[init - Len(Inits)]
BootEnds == Mounting + Len(Mounts)

\* vfs_mount(): the file system and the device are looked up by name; the
\* mount point must be there only if something is mounted already.
Mount ==
  /\ halt = "" /\ init \in Mounting..BootEnds - 1
  /\ \/ /\ \E i \in DOMAIN filesystems : filesystems[i] = NextMount.fs
        /\ NextMount.dev = <<>> \/ NextMount.dev \in DeviceNames
        /\ mounts' = Append(mounts, NextMount.at)
     \/ mounts' = mounts   \* no mount point, no such name, a bad superblock
  /\ init' = init + 1
  /\ UNCHANGED <<regvars, mine, todo, made, born, failures, halt>>

Next ==
  \/ StartInit \/ StartRefused \/ NothingThere
  \/ TakePorts \/ TakeIrq \/ TakeDma \/ AddDevice \/ AddFormat
  \/ CheckPasses \/ DropPorts \/ AddPartition \/ PartitionRefused
  \/ DiskWithoutPartitions \/ GoOnWithout \/ GiveUp
  \/ FormatWithoutMemory \/ Finish \/ Mount

Spec == Init /\ [][Next]_vars

-----------------------------------------------------------------------------
\* No port belongs to two ranges: ports_register() compares each request
\* with every range, of drivers that came earlier and of cards that sit
\* where the machine put them.
PortsDisjoint ==
  \A i, j \in DOMAIN ranges :
    i # j => (ranges[i].base..LastPort(ranges[i]))
             \intersect (ranges[j].base..LastPort(ranges[j])) = {}

\* Whoever owns ports, a line, a channel or a device is a registered module:
\* an init that fails gives back what it took before it frees its module.
\* The one exception is pccon, which keeps irq 1 when it lacks a port.
OwnersRegistered ==
  /\ \A i \in DOMAIN ranges : ranges[i].owner \in DOMAIN modules
  /\ \A i \in Irqs \ {1} : irqs[i] \in DOMAIN modules \union {NoOwner}
  /\ \A c \in DmaChannels : dmas[c] \in DOMAIN modules \union {NoOwner}
  /\ \A i \in DOMAIN devices : devices[i].owner \in DOMAIN modules

\* An init never takes away what another module holds, although
\* ports_unregister() is told a base and not an owner, and is called by
\* inits that back out for ranges they did not get.
OthersKeepTheirs ==
  [][/\ \A r \in ToSet(ranges) : r.owner # mine => r \in ToSet(ranges')
     /\ \A i \in Irqs : irqs[i] \notin {mine, NoOwner} => irqs'[i] = irqs[i]
     /\ \A c \in DmaChannels : dmas[c] \notin {mine, NoOwner} => dmas'[c] = dmas[c]
     /\ \A d \in ToSet(devices) : d.owner # mine => d \in ToSet(devices')
     /\ DOMAIN modules \ {mine} \subseteq DOMAIN modules']_vars

\* Names of modules, names of devices and device numbers tell them apart,
\* with holes left by inits that failed; st_dev of a file is such a number.
NamesDistinct ==
  /\ Cardinality({<<modules[m].name, modules[m].nr>> : m \in DOMAIN modules})
       = Cardinality(DOMAIN modules)
  /\ Cardinality(DeviceNames) = Len(devices)
  /\ Cardinality({devices[i].vfs_dev : i \in DOMAIN devices}) = Len(devices)
=============================================================================
