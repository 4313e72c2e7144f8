---------------------------- MODULE TlbShootdown ----------------------------
(***************************************************************************)
(* Address spaces and their cached translations: which space each CPU has  *)
(* loaded (the CR3 register), which one its Cpu record says it has         *)
(* (Cpu.cr3, what smp::flush_tlb goes by), and the shootdown by inter-     *)
(* processor interrupt.  Each space has one user page; `tlb' holds, per    *)
(* CPU, the spaces whose page it caches a translation of.                  *)
(*                                                                         *)
(* The space that process.cpp's load_program builds is named after the     *)
(* thread that loads.  slept_loading is history: the threads that were     *)
(* switched back to while they had their image's space borrowed.           *)
(***************************************************************************)
EXTENDS Topology, Naturals

CONSTANTS
    SpaceOf,        \* thread -> the space of its process
    Loaders,        \* the threads that start programs
    KernelSpace,    \* paging::kernel_pml4()
    NoSpace         \* a null cr3

Spaces == {SpaceOf[t] : t \in Threads}

ASSUME SpacesAssumption ==
    /\ Loaders \subseteq Threads
    /\ Spaces \cap (Loaders \cup {KernelSpace, NoSpace}) = {}
    /\ {KernelSpace, NoSpace} \cap Loaders = {}
    /\ KernelSpace # NoSpace

VARIABLES
    cr3,            \* the register
    cpu_cr3,        \* Cpu.cr3
    borrowed_cr3,   \* Thread.borrowed_cr3
    mapped,         \* the spaces whose page is mapped
    tlb,
    tlb_pending,    \* smp.cpp's count of CPUs yet to flush
    ipi,            \* CPUs with TLB_VECTOR on the way
    slept_loading

pageVars == <<mapped, tlb_pending, ipi>>

tlbVars == <<cr3, cpu_cr3, borrowed_cr3, mapped, tlb, tlb_pending, ipi, slept_loading>>

TlbTypeOK ==
    /\ cr3 \in [Cpus -> Spaces \cup Loaders \cup {KernelSpace}]
    /\ cpu_cr3 \in [Cpus -> Spaces \cup Loaders \cup {KernelSpace}]
    /\ borrowed_cr3 \in [Threads -> Loaders \cup {NoSpace}]
    /\ mapped \subseteq Spaces
    /\ tlb \in [Cpus -> SUBSET Spaces]
    /\ tlb_pending \in Nat
    /\ ipi \subseteq Cpus
    /\ slept_loading \subseteq Loaders

TlbInit ==
    /\ cr3 = [c \in Cpus |-> KernelSpace]
    /\ cpu_cr3 = [c \in Cpus |-> KernelSpace]
    /\ borrowed_cr3 = [t \in Threads |-> NoSpace]
    /\ mapped = Spaces
    /\ tlb = [c \in Cpus |-> {}]
    /\ tlb_pending = 0
    /\ ipi = {}
    /\ slept_loading = {}

\* paging::switch_address_space: a load of CR3 empties the TLB, and loading
\* the space that is already there is skipped.
LoadCr3(c, s) ==
    /\ cr3' = [cr3 EXCEPT ![c] = s]
    /\ tlb' = IF cr3[c] = s THEN tlb ELSE [tlb EXCEPT ![c] = {}]

\* switch_thread, switch_kernel_task: the register and the record together.
SwitchSpace(c, s) ==
    /\ LoadCr3(c, s)
    /\ cpu_cr3' = [cpu_cr3 EXCEPT ![c] = s]
    /\ slept_loading' = slept_loading \cup ({s} \cap Loaders)
    /\ UNCHANGED <<borrowed_cr3, pageVars>>

\* The space a thread is resumed in.
ThreadSpace(t) == IF borrowed_cr3[t] # NoSpace THEN borrowed_cr3[t] ELSE SpaceOf[t]

\* The CPU walks the page table and keeps the translation.
CacheTranslation(c) ==
    /\ cr3[c] \in mapped
    /\ tlb' = [tlb EXCEPT ![c] = @ \cup {cr3[c]}]
    /\ UNCHANGED <<cr3, cpu_cr3, borrowed_cr3, pageVars, slept_loading>>

\* sf_allocate_pages: the page comes back, on another frame.
MapPage(c) ==
    /\ cr3[c] \in Spaces \ mapped
    /\ mapped' = mapped \cup {cr3[c]}
    /\ UNCHANGED <<cr3, cpu_cr3, borrowed_cr3, tlb, tlb_pending, ipi, slept_loading>>

\* A slip: no other CPU is told.
NoTargets(c) == {}

\* flush_tlb's targets: the other CPUs whose record names the space.
FlushTargets(c) == {d \in Cpus \ {c} : cpu_cr3[d] = cr3[c]}

\* release_range: the page is unmapped and invalidated here, its frame freed,
\* and flush_tlb(read_cr3()) sends the interrupts it then waits for.
UnmapAndFlush(c) ==
    /\ cr3[c] \in mapped
    /\ mapped' = mapped \ {cr3[c]}
    /\ tlb' = [tlb EXCEPT ![c] = @ \ {cr3[c]}]
    /\ tlb_pending' = Cardinality(FlushTargets(c))
    /\ ipi' = FlushTargets(c)
    /\ UNCHANGED <<cr3, cpu_cr3, borrowed_cr3, slept_loading>>

\* tlb_ipi_handler: reload CR3 and report.
FlushHere(d) ==
    /\ d \in ipi
    /\ tlb' = [tlb EXCEPT ![d] = {}]
    /\ tlb_pending' = tlb_pending - 1
    /\ ipi' = ipi \ {d}
    /\ UNCHANGED <<cr3, cpu_cr3, borrowed_cr3, mapped, slept_loading>>

\* load_program: the new space is loaded, and noted for switch_thread ...
BorrowSpace(c, t) ==
    /\ LoadCr3(c, t)
    /\ borrowed_cr3' = [borrowed_cr3 EXCEPT ![t] = t]
    /\ UNCHANGED <<cpu_cr3, pageVars, slept_loading>>

\* ... and the one from before (prev, the caller's) comes back.
ReturnSpace(c, t) ==
    /\ LoadCr3(c, SpaceOf[t])
    /\ borrowed_cr3' = [borrowed_cr3 EXCEPT ![t] = NoSpace]
    /\ UNCHANGED <<cpu_cr3, pageVars, slept_loading>>
=============================================================================
