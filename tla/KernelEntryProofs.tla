------------------------ MODULE KernelEntryProofs ------------------------
(***************************************************************************)
(* For any number of CPUs, threads and lines: the types of the kernel's    *)
(* entry paths, the counting of the big kernel lock, and from it that one  *)
(* CPU at a time runs kernel code and switches threads at depth one.  On   *)
(* that rests the second half: no CPU keeps a translation of a freed page  *)
(* beyond the flush_tlb of the CPU that freed it, unless a thread of that  *)
(* process slept inside load_program; no interrupt is lost or left over.   *)
(***************************************************************************)
EXTENDS KernelEntry, FiniteSetTheorems, TLAPS

\* flush_tlb waits for exactly the interrupts that are still on their way.
FlushCount == tlb_pending = Cardinality(ipi)

\* The inductive invariant of the lock.
LockInv == TypeOK /\ FlushCount /\ DepthIsNesting

\* Taking the lock from outside, or going one deeper, adds one to the nesting.
LEMMA TakeCounts ==
    ASSUME NEW c \in Cpus, BklTypeOK, Take(c)
    PROVE  /\ bkl_owner' = c
           /\ bkl_owner = c => bkl_depth'[c] = bkl_depth[c] + 1
           /\ bkl_owner # c => bkl_owner = Free /\ bkl_depth'[c] = 1
           /\ BklTypeOK'
BY FreeAssumption DEF Take, BklTypeOK

\* Leaving it, while inside it, takes one off and frees it at the last.
LEMMA LeaveCounts ==
    ASSUME NEW c \in Cpus, BklTypeOK, Leave(c), bkl_owner = c, bkl_depth[c] > 0
    PROVE  /\ bkl_depth[c] = 1 => bkl_owner' = Free
           /\ bkl_depth[c] # 1 => bkl_owner' = c
           /\ bkl_depth'[c] = bkl_depth[c] - 1
           /\ BklTypeOK'
BY FreeAssumption DEF Leave, BklTypeOK

\* A step that leaves the lock alone and does not change how many entries
\* any CPU is inside of keeps the count exact.
LEMMA NestingKept ==
    ASSUME DepthIsNesting, UNCHANGED bklVars,
           \A c \in Cpus : Held(c)' = Held(c)
    PROVE  DepthIsNesting'
BY Zenon DEF DepthIsNesting, bklVars

\* So does one that takes the lock, or leaves it, as an entry of one CPU
\* begins or ends.
LEMMA NestingAfterTake ==
    ASSUME LockInv, NEW c \in Cpus, Take(c), Held(c)' = Held(c) + 1,
           \A d \in Cpus \ {c} : Held(d)' = Held(d)
    PROVE  DepthIsNesting'
BY TakeCounts, FreeAssumption DEF LockInv, TypeOK, DepthIsNesting, Held

\* A CPU that leaves one level takes one from the depth.
LEMMA NestingAfterLeave ==
    ASSUME LockInv, NEW c \in Cpus, Leave(c), Held(c) > 0, Held(c)' = Held(c) - 1,
           \A d \in Cpus \ {c} : Held(d)' = Held(d)
    PROVE  DepthIsNesting'
BY LeaveCounts, FreeAssumption DEF LockInv, TypeOK, DepthIsNesting, Held

\* The targets of a shootdown can be counted, and an answer counts one off.
LEMMA FlushIsCounted ==
    ASSUME TypeOK, FlushCount
    PROVE  /\ \A c \in Cpus : Cardinality(FlushTargets(c)) \in Nat
           /\ \A d \in ipi : Cardinality(ipi \ {d}) = tlb_pending - 1 /\ tlb_pending - 1 \in Nat
<1>1. IsFiniteSet(ipi)
  BY TopologyAssumption, FS_Subset, Zenon DEF TypeOK, TlbTypeOK
<1>2. \A c \in Cpus : IsFiniteSet(FlushTargets(c))
  BY TopologyAssumption, FS_Subset, Zenon DEF FlushTargets
<1>3. \A d \in ipi : Cardinality(ipi \ {d}) = Cardinality(ipi) - 1
  BY <1>1, FS_RemoveElement, Zenon
<1>4. \A d \in ipi : Cardinality(ipi) # 0
  BY <1>1, FS_EmptySet, Zenon
<1>5. Cardinality(ipi) \in Nat
  BY <1>1, FS_CardinalityType, Zenon
<1> QED
  BY <1>2, <1>3, <1>4, <1>5, FS_CardinalityType DEF FlushCount
-----------------------------------------------------------------------------
(* The types of the lines and of the spaces, action by action.             *)

\* No step of a line leaves the types of the lines.
LEMMA LinesTypes ==
    ASSUME LinesTypeOK, NEW c \in Cpus, NEW l \in Lines \cup {CpuTick},
           \/ Raise(l) \/ Accept(l) \/ DeferLine(l) \/ AbsorbTick(c, l)
           \/ ExchangeDeferred(c) \/ RunDeferred(c) \/ RunOwn(l) \/ UNCHANGED lineVars
    PROVE  LinesTypeOK'
BY LinesAssumption, ZenonT(60)
   DEF LinesTypeOK, Raise, Accept, DeferLine, AbsorbTick, ExchangeDeferred, RunDeferred,
       RunOwn, Served, lineVars, Timer

\* No step of an address space leaves the types of the spaces.
LEMMA SpaceTypes ==
    ASSUME TypeOK, FlushCount, NEW c \in Cpus, NEW t \in Threads,
           \/ SwitchSpace(c, ThreadSpace(t)) \/ SwitchSpace(c, KernelSpace)
           \/ CacheTranslation(c) \/ MapPage(c) \/ UnmapAndFlush(c) \/ FlushHere(c)
           \/ (t \in Loaders /\ BorrowSpace(c, t)) \/ ReturnSpace(c, t)
           \/ UNCHANGED tlbVars
    PROVE  TlbTypeOK' /\ FlushCount'
<1> USE DEF TypeOK, TlbTypeOK
<1>s. SpaceOf[t] \in Spaces /\ ThreadSpace(t) \in Spaces \cup Loaders
  BY Zenon DEF Spaces, ThreadSpace
<1>1. CASE SwitchSpace(c, ThreadSpace(t)) \/ SwitchSpace(c, KernelSpace)
  BY <1>1, <1>s DEF SwitchSpace, LoadCr3, FlushCount, pageVars
<1>2. CASE CacheTranslation(c) \/ MapPage(c)
  BY <1>2 DEF CacheTranslation, MapPage, FlushCount, pageVars
<1>3. CASE UnmapAndFlush(c)
  BY <1>3, FlushIsCounted, Zenon DEF UnmapAndFlush, FlushCount, FlushTargets
<1>4. CASE FlushHere(c)
  BY <1>4, FlushIsCounted, Zenon DEF FlushHere, FlushCount
<1>5. CASE t \in Loaders /\ BorrowSpace(c, t)
  BY <1>5, Zenon DEF BorrowSpace, LoadCr3, FlushCount, pageVars
<1>6. CASE ReturnSpace(c, t)
  BY <1>6, <1>s, Zenon DEF ReturnSpace, LoadCr3, FlushCount, pageVars
<1>7. CASE UNCHANGED tlbVars
  BY <1>7, Zenon DEF tlbVars, FlushCount
<1> QED
  BY <1>1, <1>2, <1>3, <1>4, <1>5, <1>6, <1>7, Zenon
-----------------------------------------------------------------------------
(* The inductive step.                                                     *)

CpuTypeOK ==
    /\ mode \in [Cpus -> Modes]
    /\ irq \in [Cpus -> Stages]
    /\ line \in [Cpus -> Lines \cup {CpuTick}]
    /\ thread \in [Cpus -> Threads \cup {Idle}]
    /\ saved \in [Threads -> {"call", "irq"}]

\* Steps that only move the interrupted code of a CPU along, outside the lock.
LEMMA OutsideSteps ==
    ASSUME LockInv, NEW c \in Cpus, Trap(c) \/ Sti(c) \/ Resume(c)
    PROVE  LockInv'
<1>1. CpuTypeOK'
  BY Zenon DEF Trap, Sti, Resume, SetMode, Modes, CpuTypeOK, LockInv, TypeOK
<1>2. \A d \in Cpus : Held(d)' = Held(d)
  BY Zenon DEF Trap, Sti, Resume, At, SetMode, Held, InKernel, InHandler, LockInv, TypeOK
<1>3. UNCHANGED <<bklVars, lineVars, tlbVars>>
  BY Zenon DEF Trap, Sti, Resume
<1> QED
  BY <1>1, <1>2, <1>3, NestingKept, Zenon
     DEF LockInv, TypeOK, CpuTypeOK, BklTypeOK, LinesTypeOK, TlbTypeOK, FlushCount,
         bklVars, lineVars, tlbVars

\* Steps that take or leave the lock.
LEMMA LockSteps ==
    ASSUME LockInv, NEW c \in Cpus, Enter(c) \/ Exit(c) \/ IrqEnter(c) \/ IrqLeave(c)
    PROVE  LockInv'
<1>1. CASE Enter(c)
  <2>1. CpuTypeOK' /\ BklTypeOK'
    BY <1>1, TakeCounts, Zenon DEF Enter, SetMode, Modes, CpuTypeOK, LockInv, TypeOK
  <2>2. Held(c)' = Held(c) + 1 /\ \A d \in Cpus \ {c} : Held(d)' = Held(d)
    BY <1>1 DEF Enter, At, SetMode, Held, InKernel, InHandler, LockInv, TypeOK
  <2> QED
    BY <1>1, <2>1, <2>2, NestingAfterTake, Zenon
       DEF Enter, LockInv, TypeOK, CpuTypeOK, LinesTypeOK, TlbTypeOK, FlushCount,
           lineVars, tlbVars
<1>2. CASE Exit(c)
  <2>1. Held(c) = 1 /\ Held(c)' = 0 /\ \A d \in Cpus \ {c} : Held(d)' = Held(d)
    BY <1>2, SMTT(60) DEF Exit, At, SetMode, Held, InKernel, InHandler, LockInv, TypeOK
  <2>2. CpuTypeOK' /\ BklTypeOK'
    BY <1>2, <2>1, LeaveCounts
       DEF Exit, SetMode, Modes, CpuTypeOK, LockInv, TypeOK, DepthIsNesting
  <2> QED
    BY <1>2, <2>1, <2>2, NestingAfterLeave
       DEF Exit, LockInv, TypeOK, CpuTypeOK, LinesTypeOK, TlbTypeOK, FlushCount,
           lineVars, tlbVars
<1>3. CASE IrqEnter(c)
  <2>1. CpuTypeOK' /\ BklTypeOK'
    BY <1>3, TakeCounts, Zenon DEF IrqEnter, SetStage, Stages, CpuTypeOK, LockInv, TypeOK
  <2>2. Held(c)' = Held(c) + 1 /\ \A d \in Cpus \ {c} : Held(d)' = Held(d)
    BY <1>3 DEF IrqEnter, SetStage, Held, InKernel, InHandler, LockInv, TypeOK
  <2>3. LinesTypeOK'
    BY <1>3, LinesTypes, Zenon DEF IrqEnter, LockInv, TypeOK
  <2> QED
    BY <1>3, <2>1, <2>2, <2>3, NestingAfterTake, Zenon
       DEF IrqEnter, LockInv, TypeOK, CpuTypeOK, TlbTypeOK, FlushCount, tlbVars
<1>4. CASE IrqLeave(c)
  <2>1. /\ Held(c) > 0 /\ Held(c)' = Held(c) - 1
        /\ \A d \in Cpus \ {c} : Held(d)' = Held(d)
    BY <1>4, SMTT(60) DEF IrqLeave, Return, Held, InKernel, InHandler, LockInv, TypeOK
  <2>2. CpuTypeOK' /\ BklTypeOK'
    BY <1>4, <2>1, LeaveCounts
       DEF IrqLeave, Return, Modes, Stages, CpuTypeOK, LockInv, TypeOK, DepthIsNesting
  <2> QED
    BY <1>4, <2>1, <2>2, NestingAfterLeave, Zenon
       DEF IrqLeave, LockInv, TypeOK, CpuTypeOK, LinesTypeOK, TlbTypeOK, FlushCount,
           lineVars, tlbVars
<1> QED
  BY <1>1, <1>2, <1>3, <1>4, Zenon

\* The other steps of an interrupt.
LEMMA InterruptSteps ==
    ASSUME LockInv, NEW c \in Cpus, NEW l \in Lines \cup {CpuTick},
           Interrupt(c, l) \/ IrqBusy(c) \/ IrqExchange(c) \/ IrqDeferred(c) \/ IrqOwn(c)
    PROVE  LockInv'
<1>1. CpuTypeOK'
  BY LinesAssumption, Zenon
     DEF Interrupt, IrqBusy, IrqExchange, IrqDeferred, IrqOwn, SetStage, Return, Modes,
         Stages, CpuTypeOK, LockInv, TypeOK
<1>2. \A d \in Cpus : Held(d)' = Held(d)
  BY SMTT(60) DEF Interrupt, IrqBusy, IrqExchange, IrqDeferred, IrqOwn, SetStage, Return, IfOn,
         Held, InKernel, InHandler, LockInv, TypeOK
<1>3. UNCHANGED <<bklVars, tlbVars>>
  BY Zenon DEF Interrupt, IrqBusy, TryFails, IrqExchange, IrqDeferred, IrqOwn
<1>4. LinesTypeOK'
  <2>1. CASE Interrupt(c, l)
    BY <2>1, LinesTypes, Zenon DEF Interrupt, LockInv, TypeOK
  <2>2. CASE IrqBusy(c) \/ IrqOwn(c)
    BY <2>2, LinesTypes, Zenon DEF IrqBusy, IrqOwn, LockInv, TypeOK
  <2>3. CASE IrqExchange(c) \/ IrqDeferred(c)
    BY <2>3, LinesTypes, Zenon DEF IrqExchange, IrqDeferred, LockInv, TypeOK
  <2> QED
    BY <2>1, <2>2, <2>3, Zenon
<1> QED
  BY <1>1, <1>2, <1>3, <1>4, NestingKept, Zenon
     DEF LockInv, TypeOK, CpuTypeOK, BklTypeOK, TlbTypeOK, FlushCount, bklVars, tlbVars

\* The steps that change an address space or go over to another thread.
LEMMA SpaceSteps ==
    ASSUME LockInv, NEW c \in Cpus,
           \/ Touch(c) \/ AllocatePages(c) \/ FreePages(c) \/ Flushed(c) \/ TlbIpi(c)
           \/ LoadBegin(c) \/ LoadEnd(c)
    PROVE  LockInv'
<1>1. CpuTypeOK'
  BY ZenonT(60) DEF Touch, AllocatePages, FreePages, Flushed, TlbIpi, LoadBegin, LoadEnd, SetMode,
         Return, Modes, Stages, cpuVars, CpuTypeOK, LockInv, TypeOK
<1>2. \A d \in Cpus : Held(d)' = Held(d)
  BY SMTT(60) DEF Touch, AllocatePages, FreePages, Flushed, TlbIpi, LoadBegin, LoadEnd, SetMode,
         Return, At, InCall, IfOn, cpuVars, Held, InKernel, InHandler, LockInv, TypeOK
<1>3. UNCHANGED <<bklVars, lineVars>>
  BY Zenon DEF Touch, AllocatePages, FreePages, Flushed, TlbIpi, LoadBegin, LoadEnd
<1>4. TlbTypeOK' /\ FlushCount'
  <2>1. CASE LoadBegin(c) \/ LoadEnd(c) \/ AllocatePages(c) \/ FreePages(c)
    <3>1. thread[c] \in Threads
      BY <2>1, Zenon DEF LoadBegin, LoadEnd, AllocatePages, FreePages, InCall, LockInv, TypeOK
    <3> QED
      BY <2>1, <3>1, SpaceTypes, Zenon DEF LoadBegin, LoadEnd, AllocatePages, FreePages, LockInv
  <2>2. CASE Touch(c)
    BY <2>2, Zenon DEF Touch, CacheTranslation, pageVars, FlushCount, LockInv, TypeOK, TlbTypeOK
  <2>3. CASE Flushed(c)
    BY <2>3, Zenon DEF Flushed, tlbVars, FlushCount, LockInv, TypeOK, TlbTypeOK
  <2>4. CASE TlbIpi(c)
    BY <2>4, FlushIsCounted, ZenonT(60)
       DEF TlbIpi, FlushHere, FlushCount, LockInv, TypeOK, TlbTypeOK
  <2> QED
    BY <2>1, <2>2, <2>3, <2>4, Zenon
<1> QED
  BY <1>1, <1>2, <1>3, <1>4, NestingKept, Zenon
     DEF LockInv, TypeOK, CpuTypeOK, BklTypeOK, LinesTypeOK, bklVars, lineVars

\* A context switch keeps the lock's invariant, and is made at depth one.
LEMMA SwitchStep ==
    ASSUME LockInv, NEW c \in Cpus, NEW t \in Threads \cup {Idle}, Switch(c, t)
    PROVE  LockInv' /\ HeldOnce(c)
<1>1. CpuTypeOK'
  BY SMTT(60) DEF Switch, Modes, Stages, CpuTypeOK, LockInv, TypeOK
<1>2. Held(c) = 1
  BY DEF Switch, SwitchPoint, At, Held, InKernel, InHandler
<1>3. \A d \in Cpus : Held(d)' = Held(d)
  BY <1>2, SMTT(60) DEF Switch, Held, InKernel, InHandler, LockInv, TypeOK
<1>4. TlbTypeOK' /\ FlushCount'
  BY SpacesAssumption, SMTT(60)
     DEF Switch, SwitchSpace, LoadCr3, ThreadSpace, Spaces, pageVars, FlushCount, LockInv,
         TypeOK, TlbTypeOK
<1>5. UNCHANGED <<bklVars, lineVars>>
  BY Zenon DEF Switch
<1>6. LockInv'
  BY <1>1, <1>3, <1>4, <1>5, NestingKept, Zenon
     DEF LockInv, TypeOK, CpuTypeOK, BklTypeOK, LinesTypeOK, bklVars, lineVars
<1>7. HeldOnce(c)
  BY <1>2 DEF HeldOnce, LockInv, DepthIsNesting
<1> QED
  BY <1>6, <1>7, Zenon

\* The kernel starts with the lock free ...
LEMMA LockInvInit == Init => LockInv
<1> SUFFICES ASSUME Init PROVE LockInv
  BY Zenon
<1>1. TypeOK
  BY SpacesAssumption, Zenon
     DEF Init, BklInit, LinesInit, TlbInit, TypeOK, BklTypeOK, LinesTypeOK, TlbTypeOK,
         Modes, Stages
<1>2. FlushCount
  BY FS_EmptySet, Zenon DEF Init, TlbInit, FlushCount
<1>3. DepthIsNesting
  BY FreeAssumption DEF Init, BklInit, DepthIsNesting, Held, InKernel, InHandler
<1> QED
  BY <1>1, <1>2, <1>3, Zenon DEF LockInv

\* ... and every step keeps its count and its nesting.
LEMMA LockInvStep == LockInv /\ [Next]_vars => LockInv'
<1> SUFFICES ASSUME LockInv, [Next]_vars PROVE LockInv'
  BY Zenon
<1>1. ASSUME NEW c \in Cpus, CpuStep(c) PROVE LockInv'
  BY <1>1, OutsideSteps, LockSteps, InterruptSteps, SpaceSteps, SwitchStep,
     LinesAssumption, Zenon DEF CpuStep
<1>2. ASSUME NEW l \in Lines, Raised(l) PROVE LockInv'
  <2>1. LinesTypeOK'
    BY <1>2, LinesAssumption, Zenon DEF Raised, Raise, LinesTypeOK, LockInv, TypeOK
  <2>2. \A d \in Cpus : Held(d)' = Held(d)
    BY <1>2, Zenon DEF Raised, cpuVars, Held, InKernel, InHandler
  <2> QED
    BY <1>2, <2>1, <2>2, NestingKept, Zenon
       DEF Raised, LockInv, TypeOK, BklTypeOK, TlbTypeOK, FlushCount, bklVars, tlbVars, cpuVars
<1>3. CASE UNCHANGED vars
  <2>1. \A d \in Cpus : Held(d)' = Held(d)
    BY <1>3, Zenon DEF vars, cpuVars, Held, InKernel, InHandler
  <2> QED
    BY <1>3, <2>1, NestingKept, Zenon
       DEF LockInv, TypeOK, BklTypeOK, LinesTypeOK, TlbTypeOK, FlushCount, vars, bklVars,
           lineVars, tlbVars, cpuVars
<1> QED
  BY <1>1, <1>2, <1>3, Zenon DEF Next

\* The lock is counted exactly in every reachable state, on any machine.
THEOREM LockIsCounted == Spec => []LockInv
BY LockInvInit, LockInvStep, PTL DEF Spec

\* The model's types hold on any machine.
THEOREM TypesHold == Spec => []TypeOK
<1>1. LockInv => TypeOK
  BY Zenon DEF LockInv
<1> QED
  BY <1>1, LockIsCounted, PTL

\* bkl::leave frees the lock at the right entry on any machine.
THEOREM NestingIsExact == Spec => []DepthIsNesting
<1>1. LockInv => DepthIsNesting
  BY Zenon DEF LockInv
<1> QED
  BY <1>1, LockIsCounted, PTL

\* "Only one CPU at a time runs kernel code", on any machine.
THEOREM KernelIsExclusive == Spec => []OneCpuInKernel
<1>1. LockInv => OneCpuInKernel
  BY DEF LockInv, DepthIsNesting, OneCpuInKernel, Held
<1> QED
  BY <1>1, LockIsCounted, PTL

\* No thread switch at another depth than one, on any machine.
THEOREM SwitchesAtDepthOne == Spec => SwitchAtDepthOne
<1>1. LockInv /\ [Next]_vars => [\A c \in Cpus : thread'[c] # thread[c] => HeldOnce(c)]_vars
  <2> SUFFICES ASSUME LockInv, Next, NEW c \in Cpus, thread'[c] # thread[c]
               PROVE  HeldOnce(c)
    BY Zenon
  <2>1. PICK d \in Cpus : CpuStep(d)
    BY Zenon DEF Next, Raised, cpuVars
  <2>2. PICK t \in Threads \cup {Idle} : Switch(d, t)
    BY <2>1, Zenon DEF CpuStep, Trap, Sti, Enter, Exit, Resume, Interrupt, IrqBusy, IrqEnter,
                IrqExchange, IrqDeferred, IrqOwn, IrqLeave, Touch, AllocatePages, FreePages,
                Flushed, TlbIpi, LoadBegin, LoadEnd, SetMode, SetStage, Return, cpuVars
  <2>3. c = d
    BY <2>2, Zenon DEF Switch, LockInv, TypeOK
  <2> QED
    BY <2>2, <2>3, SwitchStep, Zenon
<1> QED
  BY <1>1, LockIsCounted, PTL DEF Spec, SwitchAtDepthOne
-----------------------------------------------------------------------------
(* The translations the CPUs hold, and the interrupts to flush them.       *)

\* What Cpu.thread says about the CR3 register.
LoadedIsThreads(c) ==
    IF thread[c] = Idle THEN cr3[c] = KernelSpace ELSE cr3[c] = ThreadSpace(thread[c])

\* Cpu.cr3 names the space of the running thread's process - also inside
\* load_program, until the load sleeps.
RecordIsRight(c) ==
    IF thread[c] = Idle THEN cpu_cr3[c] = KernelSpace
    ELSE thread[c] \in slept_loading \/ cpu_cr3[c] = SpaceOf[thread[c]]

\* Only the threads that load have borrowed a space: their image's.
BorrowedIsOwn(t) ==
    borrowed_cr3[t] # NoSpace => t \in Loaders /\ borrowed_cr3[t] = t

\* A CPU caches translations of the loaded space only; a stale one is about
\* to be dropped, and somebody in flush_tlb waits for that.
StaleIsAwaited(s, d) ==
    s \in tlb[d] => /\ cr3[d] = s
                    /\ \/ s \in mapped
                       \/ \E t \in slept_loading : SpaceOf[t] = s
                       \/ d \in ipi /\ \E c \in Cpus : mode[c] = "flush" /\ cr3[c] = s

SpaceInv ==
    /\ \A c \in Cpus : LoadedIsThreads(c) /\ RecordIsRight(c)
    /\ \A t \in Threads : BorrowedIsOwn(t)
    /\ \A d \in Cpus, s \in Spaces : StaleIsAwaited(s, d)

\* The steps that leave the spaces, and who waits in flush_tlb, alone.
LEMMA SpacesUntouched ==
    ASSUME SpaceInv, UNCHANGED <<tlbVars, thread>>,
           \A c \in Cpus : mode[c] = "flush" => mode'[c] = "flush"
    PROVE  SpaceInv'
BY DEF SpaceInv, LoadedIsThreads, RecordIsRight, BorrowedIsOwn, StaleIsAwaited, ThreadSpace,
       tlbVars

\* A context switch loads the space of the thread it goes to.
LEMMA SwitchKeepsSpaces ==
    ASSUME LockInv, SpaceInv, NEW c \in Cpus, NEW t \in Threads \cup {Idle}, Switch(c, t)
    PROVE  SpaceInv'
<1> DEFINE s == IF t = Idle THEN KernelSpace ELSE ThreadSpace(t)
<1>0. /\ cr3' = [cr3 EXCEPT ![c] = s] /\ cpu_cr3' = [cpu_cr3 EXCEPT ![c] = s]
      /\ tlb' = (IF cr3[c] = s THEN tlb ELSE [tlb EXCEPT ![c] = {}])
      /\ thread' = [thread EXCEPT ![c] = t]
      /\ slept_loading' = slept_loading \cup ({s} \cap Loaders)
      /\ UNCHANGED <<borrowed_cr3, mapped, tlb_pending, ipi>>
  BY Zenon DEF Switch, SwitchSpace, LoadCr3, pageVars
<1>1. \A d \in Cpus : mode[d] = "flush" => d # c /\ mode'[d] = "flush"
  BY Zenon DEF Switch, SwitchPoint, At, LockInv, TypeOK
<1>2. \A d \in Cpus : LoadedIsThreads(d)' /\ RecordIsRight(d)'
  BY <1>0, IdleAssumption, ZenonT(60)
     DEF LoadedIsThreads, RecordIsRight, BorrowedIsOwn, ThreadSpace, SpaceInv, LockInv, TypeOK,
         TlbTypeOK
<1>3. \A x \in Threads : BorrowedIsOwn(x)'
  BY <1>0, Zenon DEF BorrowedIsOwn, SpaceInv
<1>4. \A d \in Cpus, r \in Spaces : StaleIsAwaited(r, d)'
  <2> SUFFICES ASSUME NEW d \in Cpus, NEW r \in Spaces, r \in tlb'[d]
               PROVE  StaleIsAwaited(r, d)'
    BY Zenon DEF StaleIsAwaited
  <2>1. r \in tlb[d] /\ cr3'[d] = r
    BY <1>0, ZenonT(60) DEF SpaceInv, StaleIsAwaited, LockInv, TypeOK, TlbTypeOK
  <2>2. StaleIsAwaited(r, d)
    BY Zenon DEF SpaceInv
  <2>3. \A x \in Cpus : mode[x] = "flush" /\ cr3[x] = r => mode'[x] = "flush" /\ cr3'[x] = r
    BY <1>0, <1>1, Zenon DEF LockInv, TypeOK, TlbTypeOK
  <2> QED
    BY <1>0, <2>1, <2>2, <2>3, Zenon DEF StaleIsAwaited
<1> QED
  BY <1>2, <1>3, <1>4, Zenon DEF SpaceInv

\* Freed pages are unmapped, flushed here, and owed by the others.
LEMMA FreeKeepsSpaces ==
    ASSUME LockInv, SpaceInv, NEW c \in Cpus, FreePages(c)
    PROVE  SpaceInv'
<1> DEFINE s == cr3[c]
<1>0. /\ mapped' = mapped \ {s}
      /\ tlb' = [tlb EXCEPT ![c] = @ \ {s}]
      /\ ipi' = FlushTargets(c)
      /\ mode' = [mode EXCEPT ![c] = "flush"]
      /\ UNCHANGED <<cr3, cpu_cr3, borrowed_cr3, slept_loading, thread>>
  BY Zenon DEF FreePages, UnmapAndFlush, SetMode
<1>1. \A d \in Cpus : mode[d] # "flush"
  BY DEF FreePages, InCall, At, LockInv, DepthIsNesting, Held, InKernel
<1>2. \A d \in Cpus : LoadedIsThreads(d)' /\ RecordIsRight(d)'
  BY <1>0, Zenon DEF LoadedIsThreads, RecordIsRight, ThreadSpace, SpaceInv
<1>3. \A x \in Threads : BorrowedIsOwn(x)'
  BY <1>0, Zenon DEF BorrowedIsOwn, SpaceInv
<1>4. \A d \in Cpus, r \in Spaces : StaleIsAwaited(r, d)'
  <2> SUFFICES ASSUME NEW d \in Cpus, NEW r \in Spaces, r \in tlb'[d]
               PROVE  StaleIsAwaited(r, d)'
    BY Zenon DEF StaleIsAwaited
  <2>1. r \in tlb[d] /\ cr3[d] = r
    BY <1>0, Zenon DEF SpaceInv, StaleIsAwaited, LockInv, TypeOK, TlbTypeOK
  <2>2. r \in mapped \/ \E t \in slept_loading : SpaceOf[t] = r
    BY <1>1, <2>1, Zenon DEF SpaceInv, StaleIsAwaited
  <2>3. CASE r # s \/ \E t \in slept_loading : SpaceOf[t] = r
    BY <1>0, <2>1, <2>2, <2>3, Zenon DEF StaleIsAwaited
  <2>4. CASE r = s /\ ~ \E t \in slept_loading : SpaceOf[t] = r
    <3>1. d # c
      BY <1>0, <2>4, Zenon DEF LockInv, TypeOK, TlbTypeOK
    <3>2. thread[d] # Idle /\ thread[d] \in Threads /\ cr3[d] = ThreadSpace(thread[d])
      BY <2>1, SpacesAssumption, Zenon DEF SpaceInv, LoadedIsThreads, LockInv, TypeOK
    <3>3. borrowed_cr3[thread[d]] = NoSpace /\ SpaceOf[thread[d]] = r
      BY <2>1, <3>2, SpacesAssumption, Zenon DEF ThreadSpace, SpaceInv, BorrowedIsOwn
    <3>4. cpu_cr3[d] = s
      BY <2>1, <2>4, <3>2, <3>3, Zenon DEF SpaceInv, RecordIsRight
    <3> QED
      BY <1>0, <2>1, <2>4, <3>1, <3>4, Zenon DEF StaleIsAwaited, FlushTargets, LockInv, TypeOK
  <2> QED
    BY <2>3, <2>4, Zenon
<1> QED
  BY <1>2, <1>3, <1>4, Zenon DEF SpaceInv

\* A flush ends when nothing is on its way any more, so nothing is stale.
LEMMA FlushedKeepsSpaces ==
    ASSUME LockInv, SpaceInv, NEW c \in Cpus, Flushed(c)
    PROVE  SpaceInv'
<1>1. ipi = {}
  <2>1. IsFiniteSet(ipi)
    BY TopologyAssumption, FS_Subset, Zenon DEF LockInv, TypeOK, TlbTypeOK
  <2> QED
    BY <2>1, FS_EmptySet, ZenonT(60) DEF Flushed, LockInv, FlushCount
<1>2. UNCHANGED <<tlbVars, thread>>
  BY Zenon DEF Flushed, SetMode
<1> QED
  BY <1>1, <1>2, Zenon
     DEF SpaceInv, LoadedIsThreads, RecordIsRight, BorrowedIsOwn, StaleIsAwaited, ThreadSpace,
         tlbVars

\* A TLB interrupt leaves no translation behind on its CPU.
LEMMA TlbIpiKeepsSpaces ==
    ASSUME LockInv, SpaceInv, NEW c \in Cpus, TlbIpi(c)
    PROVE  SpaceInv'
<1>1. /\ tlb' = [tlb EXCEPT ![c] = {}]
      /\ ipi' = ipi \ {c}
      /\ UNCHANGED <<cr3, cpu_cr3, borrowed_cr3, mapped, slept_loading, thread>>
      /\ \A d \in Cpus : mode[d] = "flush" => mode'[d] = "flush"
  BY Zenon DEF TlbIpi, FlushHere, Return, LockInv, TypeOK
<1> QED
  BY <1>1
     DEF SpaceInv, LoadedIsThreads, RecordIsRight, BorrowedIsOwn, StaleIsAwaited, ThreadSpace,
         LockInv, TypeOK, TlbTypeOK

\* Pages that are used or allocated make no stale translation.
LEMMA PagesKeepSpaces ==
    ASSUME LockInv, SpaceInv, NEW c \in Cpus, Touch(c) \/ AllocatePages(c)
    PROVE  SpaceInv'
<1>1. /\ UNCHANGED <<cr3, cpu_cr3, borrowed_cr3, slept_loading, ipi, thread, mode>>
      /\ mapped \subseteq mapped'
      /\ \A d \in Cpus : tlb'[d] \subseteq tlb[d] \cup ({cr3[d]} \cap mapped)
  BY DEF Touch, CacheTranslation, AllocatePages, MapPage, pageVars, cpuVars, LockInv, TypeOK,
         TlbTypeOK
<1> QED
  BY <1>1
     DEF SpaceInv, LoadedIsThreads, RecordIsRight, BorrowedIsOwn, StaleIsAwaited, ThreadSpace

\* A load that does not sleep gives back the space Cpu.cr3 still names.
LEMMA LoadKeepsSpaces ==
    ASSUME LockInv, SpaceInv, NEW c \in Cpus, LoadBegin(c) \/ LoadEnd(c),
           \A d \in Cpus \ {c} : thread[d] # thread[c]
    PROVE  SpaceInv'
<1> DEFINE t == thread[c]
<1>0. t \in Threads /\ t # Idle
  BY IdleAssumption, Zenon DEF LoadBegin, LoadEnd, InCall, LockInv, TypeOK
<1>1. PICK s \in {t, SpaceOf[t]} :
        /\ cr3' = [cr3 EXCEPT ![c] = s]
        /\ tlb' = (IF cr3[c] = s THEN tlb ELSE [tlb EXCEPT ![c] = {}])
        /\ s = t => t \in Loaders /\ borrowed_cr3' = [borrowed_cr3 EXCEPT ![t] = t]
        /\ s # t => borrowed_cr3' = [borrowed_cr3 EXCEPT ![t] = NoSpace]
        /\ s = t => borrowed_cr3[t] = NoSpace
        /\ UNCHANGED <<cpu_cr3, mapped, ipi, slept_loading, thread, mode>>
  <2>1. CASE LoadBegin(c)
    <3> WITNESS t \in {t, SpaceOf[t]}
    <3> QED
      BY <2>1, Zenon DEF LoadBegin, InCall, BorrowSpace, LoadCr3, pageVars, cpuVars
  <2>2. CASE LoadEnd(c)
    <3>1. SpaceOf[t] # t
      BY <2>2, <1>0, SpacesAssumption, Zenon DEF LoadEnd, SpaceInv, BorrowedIsOwn, Spaces
    <3> QED
      BY <2>2, <3>1, Zenon DEF LoadEnd, ReturnSpace, LoadCr3, pageVars, cpuVars
  <2> QED
    BY <2>1, <2>2, Zenon
<1>2. t \in Loaders => t # NoSpace /\ t \notin Spaces
  BY SpacesAssumption, ZenonT(60)
<1>3. \A d \in Cpus : LoadedIsThreads(d)'
  BY <1>0, <1>1, <1>2 DEF SpaceInv, LoadedIsThreads, ThreadSpace, LockInv, TypeOK, TlbTypeOK
<1>4. \A d \in Cpus : RecordIsRight(d)'
  <2>1. ASSUME NEW d \in Cpus \ {c} PROVE RecordIsRight(d)'
    BY <1>0, <1>1, <2>1, Zenon DEF SpaceInv, RecordIsRight, LockInv, TypeOK, TlbTypeOK
  <2>2. RecordIsRight(c)'
    BY <1>0, <1>1, <1>2, Zenon
       DEF SpaceInv, RecordIsRight, LoadedIsThreads, BorrowedIsOwn, ThreadSpace, LockInv,
           TypeOK, TlbTypeOK
  <2> QED
    BY <2>1, <2>2, Zenon
<1>5. \A x \in Threads : BorrowedIsOwn(x)'
  BY <1>0, <1>1, <1>2, ZenonT(60) DEF SpaceInv, BorrowedIsOwn, LockInv, TypeOK, TlbTypeOK
<1>6. \A d \in Cpus, r \in Spaces : StaleIsAwaited(r, d)'
  <2>1. mode[c] # "flush"
    BY Zenon DEF LoadBegin, LoadEnd, InCall, At
  <2> QED
    BY <1>1, <2>1 DEF SpaceInv, StaleIsAwaited, LockInv, TypeOK, TlbTypeOK
<1> QED
  BY <1>3, <1>4, <1>5, <1>6, Zenon DEF SpaceInv

\* A thread runs on its own CPU only.
AtHome == \A c \in Cpus : thread[c] # Idle => HomeCpu[thread[c]] = c

ShootdownInv == LockInv /\ SpaceInv /\ AtHome

\* Threads stay on their own CPU.
LEMMA AtHomeStep == LockInv /\ AtHome /\ [Next]_vars => AtHome'
<1> SUFFICES ASSUME LockInv, AtHome, [Next]_vars PROVE AtHome'
  BY Zenon
<1>1. ASSUME NEW c \in Cpus, NEW t \in Threads \cup {Idle}, Switch(c, t) PROVE AtHome'
  BY <1>1, Zenon DEF Switch, AtHome, LockInv, TypeOK
<1>2. CASE UNCHANGED thread
  BY <1>2, Zenon DEF AtHome
<1>3. ASSUME NEW c \in Cpus, CpuStep(c), ~ UNCHANGED thread
      PROVE  \E t \in Threads \cup {Idle} : Switch(c, t)
  BY <1>3, Zenon DEF CpuStep, Trap, Sti, Enter, Exit, Resume, Interrupt, IrqBusy, IrqEnter,
              IrqExchange, IrqDeferred, IrqOwn, IrqLeave, Touch, AllocatePages, FreePages,
              Flushed, TlbIpi, LoadBegin, LoadEnd, SetMode, SetStage, Return, cpuVars
<1>4. \A l \in Lines : Raised(l) => UNCHANGED thread
  BY Zenon DEF Raised, cpuVars
<1>5. CASE UNCHANGED vars
  BY <1>2, <1>5, Zenon DEF vars, cpuVars
<1> QED
  BY <1>1, <1>2, <1>3, <1>4, <1>5, Zenon DEF Next

\* Every step keeps what the CPUs have loaded, recorded and cached.
LEMMA ShootdownStep == ShootdownInv /\ [Next]_vars => ShootdownInv'
<1> SUFFICES ASSUME ShootdownInv, [Next]_vars PROVE ShootdownInv'
  BY Zenon
<1> USE DEF ShootdownInv
<1>1. ASSUME NEW c \in Cpus, CpuStep(c) PROVE SpaceInv'
  <2>1. CASE Trap(c) \/ Sti(c) \/ Enter(c) \/ Exit(c) \/ Resume(c)
    BY <2>1, SpacesUntouched, Zenon
       DEF Trap, Sti, Enter, Exit, Resume, At, SetMode, LockInv, TypeOK
  <2>2. CASE \/ IrqBusy(c) \/ IrqEnter(c) \/ IrqExchange(c) \/ IrqDeferred(c) \/ IrqOwn(c)
             \/ IrqLeave(c) \/ \E l \in Lines \cup {CpuTick} : Interrupt(c, l)
    BY <2>2, SpacesUntouched, Zenon
       DEF IrqBusy, IrqEnter, IrqExchange, IrqDeferred, IrqOwn, IrqLeave, Interrupt,
           SetStage, Return, LockInv, TypeOK
  <2>3. CASE LoadBegin(c) \/ LoadEnd(c)
    <3>1. thread[c] # Idle
      BY <2>3, Zenon DEF LoadBegin, LoadEnd, InCall
    <3> QED
      BY <2>3, <3>1, LoadKeepsSpaces, Zenon DEF AtHome
  <2> QED
    BY <1>1, <2>1, <2>2, <2>3, SwitchKeepsSpaces, FreeKeepsSpaces, FlushedKeepsSpaces,
       TlbIpiKeepsSpaces, PagesKeepSpaces, Zenon DEF CpuStep
<1>2. ASSUME NEW l \in Lines, Raised(l) PROVE SpaceInv'
  BY <1>2, SpacesUntouched, Zenon DEF Raised, cpuVars
<1>3. ASSUME UNCHANGED vars PROVE SpaceInv'
  <2>1. UNCHANGED <<tlbVars, thread>>
    BY <1>3, Zenon DEF vars, cpuVars
  <2>2. \A c \in Cpus : mode[c] = "flush" => mode'[c] = "flush"
    BY <1>3, Zenon DEF vars, cpuVars
  <2> QED
    BY <2>1, <2>2, SpacesUntouched, Zenon
<1>4. SpaceInv'
  BY <1>1, <1>2, <1>3, Zenon DEF Next
<1> QED
  BY <1>4, LockInvStep, AtHomeStep, Zenon

\* At the start every CPU is in the kernel's space, with nothing cached.
LEMMA ShootdownInit == Init => ShootdownInv
<1> SUFFICES ASSUME Init PROVE SpaceInv /\ AtHome
  BY LockInvInit, Zenon DEF ShootdownInv
<1> QED
  BY Zenon DEF Init, TlbInit, SpaceInv, AtHome, LoadedIsThreads, RecordIsRight, BorrowedIsOwn,
         StaleIsAwaited

\* Freed pages are in no TLB once the flush_tlb that followed has returned,
\* on any machine, as long as no thread of the process slept in load_program.
THEOREM FreedPagesLeaveTheTlbs == Spec => []NoStaleTranslationUnlessLoadSlept
<1>1. ShootdownInv => NoStaleTranslationUnlessLoadSlept
  BY Zenon DEF ShootdownInv, SpaceInv, StaleIsAwaited, NoStaleTranslationUnlessLoadSlept, Coherent
<1> QED
  BY <1>1, ShootdownInit, ShootdownStep, PTL DEF Spec
-----------------------------------------------------------------------------
(* The deferred lines.                                                     *)

\* How far a handler is with what it found deferred: `owed' is in the word,
\* then in the local copy, and in the end only its own line's turn is left.
OwedIsHeld(c) ==
    CASE irq[c] = "locked"   -> owed[c] \subseteq deferred_lines \cup {line[c]}
      [] irq[c] = "deferred" -> owed[c] \subseteq pending[c] \cup {line[c]}
      [] irq[c] = "own"      -> owed[c] \subseteq {line[c]}
      [] OTHER               -> owed[c] = {}

LinesInv ==
    /\ NoInterruptLost
    /\ \A c \in Cpus : /\ irq[c] \in {"none", "out"} => line[c] = CpuTick
                       /\ irq[c] # "deferred" => pending[c] = {}
                       /\ OwedIsHeld(c)

\* At the start no line is raised.
LEMMA LinesInvInit == Init => LinesInv
BY Zenon DEF Init, LinesInit, LinesInv, NoInterruptLost, OwedIsHeld

\* The steps that leave the lines and the interrupts' stages alone.
LEMMA LinesUntouched ==
    ASSUME LinesInv, UNCHANGED <<lineVars, irq, line>>
    PROVE  LinesInv'
BY Zenon DEF LinesInv, NoInterruptLost, OwedIsHeld, lineVars

\* Every step keeps a deferred line where its handler will find it.
LEMMA LinesInvStep == LockInv /\ LinesInv /\ [Next]_vars => LinesInv'
<1> SUFFICES ASSUME LockInv, LinesInv, [Next]_vars PROVE LinesInv'
  BY Zenon
<1> USE DEF LinesInv
<1>t. LinesTypeOK /\ irq \in [Cpus -> Stages] /\ line \in [Cpus -> Lines \cup {CpuTick}]
  BY Zenon DEF LockInv, TypeOK
<1>1. ASSUME NEW c \in Cpus, NEW l \in Lines \cup {CpuTick}, Interrupt(c, l) PROVE LinesInv'
  <2>1. NoInterruptLost'
    BY <1>1, <1>t, LinesAssumption
       DEF Interrupt, Accept, IfOn, NoInterruptLost, LinesTypeOK
  <2>2. \A d \in Cpus : OwedIsHeld(d)'
    BY <1>1, <1>t, Zenon DEF Interrupt, Accept, IfOn, OwedIsHeld
  <2> QED
    BY <1>1, <1>t, <2>1, <2>2, Zenon DEF Interrupt, Accept, IfOn
<1>2. ASSUME NEW c \in Cpus, IrqBusy(c) PROVE LinesInv'
  <2>1. NoInterruptLost'
    BY <1>2, <1>t, LinesAssumption, Zenon DEF IrqBusy, DeferLine, Return, NoInterruptLost, LinesTypeOK
  <2>2. \A d \in Cpus : OwedIsHeld(d)'
    BY <1>2, <1>t, Zenon DEF IrqBusy, DeferLine, Return, OwedIsHeld
  <2> QED
    BY <1>2, <1>t, <2>1, <2>2, Zenon DEF IrqBusy, DeferLine, Return
<1>3. ASSUME NEW c \in Cpus, IrqEnter(c) PROVE LinesInv'
  BY <1>3, <1>t
     DEF IrqEnter, AbsorbTick, SetStage, NoInterruptLost, OwedIsHeld, LinesTypeOK, LockInv,
         DepthIsNesting, Held, InHandler, Take
<1>4. ASSUME NEW c \in Cpus, IrqExchange(c) PROVE LinesInv'
  BY <1>4, <1>t
     DEF IrqExchange, ExchangeDeferred, SetStage, NoInterruptLost, OwedIsHeld, LinesTypeOK,
         LockInv, DepthIsNesting, Held, InHandler
<1>5. ASSUME NEW c \in Cpus, IrqDeferred(c) PROVE LinesInv'
  BY <1>5, <1>t, ZenonT(60)
     DEF IrqDeferred, RunDeferred, Served, SetStage, NoInterruptLost, OwedIsHeld, LinesTypeOK
<1>6. ASSUME NEW c \in Cpus, IrqOwn(c) PROVE LinesInv'
  <2>1. NoInterruptLost'
    BY <1>6, <1>t, Zenon DEF IrqOwn, RunOwn, Served, NoInterruptLost
  <2>2. \A d \in Cpus : OwedIsHeld(d)'
    BY <1>6, <1>t, Zenon DEF IrqOwn, RunOwn, Served, OwedIsHeld
  <2> QED
    BY <1>6, <1>t, <2>1, <2>2, Zenon DEF IrqOwn, RunOwn
<1>7. ASSUME NEW c \in Cpus, IrqLeave(c) PROVE LinesInv'
  BY <1>7, <1>t, Zenon DEF IrqLeave, Return, NoInterruptLost, OwedIsHeld, lineVars
<1>8. ASSUME NEW c \in Cpus, NEW t \in Threads \cup {Idle}, Switch(c, t) PROVE LinesInv'
  BY <1>8, <1>t, Zenon DEF Switch, SwitchPoint, At, NoInterruptLost, OwedIsHeld, lineVars
<1>9. ASSUME NEW c \in Cpus, TlbIpi(c) PROVE LinesInv'
  BY <1>9, <1>t, ZenonT(60) DEF TlbIpi, IfOn, Return, NoInterruptLost, OwedIsHeld, lineVars
<1>10. ASSUME NEW l \in Lines, Raised(l) PROVE LinesInv'
  BY <1>10, <1>t, Zenon DEF Raised, Raise, NoInterruptLost, OwedIsHeld, cpuVars
<1>11. ASSUME NEW c \in Cpus,
              \/ Trap(c) \/ Sti(c) \/ Enter(c) \/ Exit(c) \/ Resume(c) \/ Touch(c)
              \/ AllocatePages(c) \/ FreePages(c) \/ Flushed(c) \/ LoadBegin(c) \/ LoadEnd(c)
       PROVE  LinesInv'
  BY <1>11, LinesUntouched, ZenonT(60)
     DEF Trap, Sti, Enter, Exit, Resume, Touch, AllocatePages, FreePages, Flushed, LoadBegin,
         LoadEnd, SetMode, cpuVars
<1>12. CASE UNCHANGED vars
  BY <1>12, LinesUntouched, ZenonT(60) DEF vars, cpuVars
<1>13. ASSUME NEW c \in Cpus, CpuStep(c) PROVE LinesInv'
  BY <1>1, <1>2, <1>3, <1>4, <1>5, <1>6, <1>7, <1>8, <1>9, <1>11, <1>13, ZenonT(60) DEF CpuStep
<1> QED
  BY <1>10, <1>12, <1>13, Zenon DEF Next

\* The work of an interrupt is never lost, on any machine.
THEOREM InterruptsAreKept == Spec => []NoInterruptLost
<1>1. LinesInv => NoInterruptLost
  BY Zenon DEF LinesInv
<1> QED
  BY <1>1, LinesInvInit, LinesInvStep, LockIsCounted, PTL DEF Spec

\* The handler that gets the lock next leaves no deferred line behind.
THEOREM DeferredLinesAreServed == Spec => []DeferredServedNext
<1>1. LinesInv => DeferredServedNext
  BY Zenon DEF LinesInv, OwedIsHeld, DeferredServedNext
<1> QED
  BY <1>1, LinesInvInit, LinesInvStep, LockIsCounted, PTL DEF Spec
=============================================================================
