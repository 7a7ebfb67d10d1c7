----------------------------- MODULE VcpuProofs -----------------------------
(***************************************************************************)
(* The vCPU loop, for every set of lines, every state in which the firmware *)
(* leaves the 8259 and every guest: its types, the places where interrupts  *)
(* are closed, the order of handlers and masks, and the flush of the TLB;   *)
(* then the delivery of interrupts and the refinement of VirqChannel.       *)
(***************************************************************************)
EXTENDS Vcpu, IoioProofs

-----------------------------------------------------------------------------
(* Type correctness.                                                       *)

\* What the processor and YmirC's interrupt code work on.
HostTypeOK ==
    /\ PicTypeOK
    /\ KernelTypeOK
    /\ pc \in BootPlaces \cup VcpuPlaces \cup {"end_of_life", "halted"}

\* What belongs to the vCPU.
VcpuTypeOK ==
    /\ pending_irq \in SUBSET AllLines
    /\ last_injected_irq \in AllLines
    /\ ioio \in SvmIoioGuestState
    /\ v_irq \in BOOLEAN
    /\ v_intr_vector \in Byte
    /\ ief \in BOOLEAN
    /\ shadow \in BOOLEAN
    /\ tlb_control \in {0, 3}
    /\ exit \in Exits
    /\ stale \in BOOLEAN
    /\ owed \in SUBSET AllLines
    /\ served \in {0, 1}

\* The steps of kernel_main keep the types.
LEMMA BootHostType ==
    ASSUME HostTypeOK, BootStep
    PROVE  HostTypeOK'
<1> USE LinesAssumption DEF HostTypeOK, PicTypeOK, KernelTypeOK, Goto, BootPlaces
<1>1. CASE ArchInit
  BY <1>1 DEF ArchInit
<1>2. CASE InitializePic
  BY <1>2 DEF InitializePic, pic_init
<1>3. ASSUME NEW irq \in {irq_timer, irq_serial1}, register_handler(irq)
      PROVE  PicTypeOK' /\ KernelTypeOK'
  BY <1>3 DEF register_handler
<1>4. ASSUME NEW irq \in {irq_timer, irq_serial1}, Unmask(irq)
      PROVE  PicTypeOK' /\ KernelTypeOK'
  BY <1>4 DEF Unmask, unset_mask
<1>5. CASE EnableTimer
  BY <1>3, <1>4, <1>5 DEF EnableTimer
<1>6. CASE EnableSerial
  BY <1>3, <1>4, <1>6 DEF EnableSerial
<1>7. CASE VmNew
  BY <1>7 DEF VmNew, picVars, kernelVars
<1>8. CASE VmSetup
  BY <1>8 DEF VmSetup, picVars, kernelVars
<1>9. CASE VmLoop
  BY <1>9 DEF VmLoop, picVars
<1>10. CASE Subscribe
  BY <1>10 DEF Subscribe, picVars, VcpuPlaces
<1> QED
  BY <1>1, <1>2, <1>5, <1>6, <1>7, <1>8, <1>9, <1>10 DEF BootStep

\* So does taking an interrupt.
LEMMA AcceptHostType ==
    ASSUME HostTypeOK, NEW i \in Lines, Accept(i)
    PROVE  HostTypeOK'
<1>1. PrimaryInput(i) \in AllLines /\ i \in AllLines
  BY LinesAssumption DEF PrimaryInput, AllLines, irq_secondary
<1>2. pc' \in BootPlaces \cup VcpuPlaces \cup {"end_of_life", "halted"}
  BY DEF Accept, HostTypeOK, VcpuPlaces
<1> QED
  BY <1>1, <1>2 DEF Accept, Acknowledge, HostTypeOK, PicTypeOK, KernelTypeOK

\* So does the handler.
LEMMA HandlerHostType ==
    ASSUME HostTypeOK, RunHandler
    PROVE  HostTypeOK'
<1>1. CASE notify_eoi(inflight) /\ inflight' = NoIrq /\ hostIF' = TRUE
           /\ UNCHANGED <<pc, gif, handlers, subscribed>>
  <2>1. isr' \subseteq isr
    BY <1>1 DEF notify_eoi, SpecificEoi
  <2> QED BY <1>1, <2>1 DEF notify_eoi, HostTypeOK, PicTypeOK, KernelTypeOK
<1>2. CASE pc' = "halted" /\ UNCHANGED <<picVars, kernelVars>>
  BY <1>2 DEF picVars, kernelVars, HostTypeOK, PicTypeOK, KernelTypeOK
<1> QED BY <1>1, <1>2 DEF RunHandler

\* inject_ext_intr posts a line of the two chips.
LEMMA InjectType ==
    ASSUME VcpuTypeOK, inject_ext_intr
    PROVE  /\ pending_irq' \in SUBSET AllLines
           /\ last_injected_irq' \in AllLines
           /\ v_irq' \in BOOLEAN
           /\ v_intr_vector' \in Byte
<1>1. ASSUME NEW i \in Candidates, Post(i)
      PROVE  /\ pending_irq' \in SUBSET AllLines
             /\ last_injected_irq' \in AllLines
             /\ v_irq' \in BOOLEAN
             /\ v_intr_vector' \in Byte
  <2>1. i \in AllLines
    BY DEF Candidates, VcpuTypeOK
  <2>2. \A c \in Chips : ioio.pic[c].base \in Byte
    BY DEF VcpuTypeOK, SvmIoioGuestState, Chip
  <2>3. delta(i) \in Int
    BY <2>1 DEF delta, AllLines
  <2>4. GuestVector(i) \in Byte
    <3> DEFINE base == ioio.pic[IF is_primary(i) THEN "primary" ELSE "secondary"].base
    <3>1. base \in Byte
      BY <2>2 DEF Chips
    <3>2. GuestVector(i) = (delta(i) + base) % 256
      BY DEF GuestVector
    <3> HIDE DEF base
    <3> QED BY <2>3, <3>1, <3>2 DEF Byte
  <2> QED BY <1>1, <2>1, <2>4 DEF Post, VcpuTypeOK
<1>2. CASE UNCHANGED intrVars
  BY <1>2 DEF intrVars, VcpuTypeOK
<1> QED BY <1>1, <1>2 DEF inject_ext_intr

\* An exit that the guest provokes is one that VMRUN reports.
LEMMA ExitType ==
    ASSUME NEW code \in {"none", "INTR", "HLT", "CPUID", "MSR", "VMMCALL", "IOIO",
                         "OTHER"}
    PROVE  Exit(code) \in Exits
BY DEF Exits

\* The fields of an exit on a port of an emulated chip.
LEMMA ExitFields ==
    ASSUME NEW e \in Exits
    PROVE  /\ e.port \in {"none", "in", "command", "data"}
           /\ e.port # "none" => e.chip \in Chips
           /\ e.byte \in Byte
<1>1. CASE \E c \in {"none", "INTR", "HLT", "CPUID", "MSR", "VMMCALL", "IOIO",
                     "OTHER"} : e = Exit(c)
  BY <1>1 DEF Exit, Byte
<1>2. CASE \E c \in GuestChips : e = PicAccess(c, "in", 0)
  BY <1>2, VcpuAssumption DEF PicAccess, Byte
<1>3. CASE \E c \in GuestChips, q \in {"command", "data"}, b \in GuestBytes :
                e = PicAccess(c, q, b)
  BY <1>3, VcpuAssumption DEF PicAccess
<1> QED BY <1>1, <1>2, <1>3 DEF Exits

\* handle_svm_ioio_exit keeps the types of the chips.
LEMMA IoioType ==
    ASSUME TypeOK, HandleIoio
    PROVE  ioio' \in SvmIoioGuestState
<1> DEFINE c == exit.chip
           chip == ioio.pic[c]
<1>1. /\ exit.port \in {"none", "in", "command", "data"}
      /\ exit.port # "none" => c \in Chips
      /\ exit.byte \in Byte
  BY ExitFields DEF TypeOK
<1>2. exit.port # "none" => chip \in Chip
  BY <1>1 DEF TypeOK, SvmIoioGuestState
<1>3. CASE ioio' = ioio
  BY <1>3 DEF TypeOK
<1>4. CASE exit.port = "command"
           /\ ioio' = [ioio EXCEPT !.pic[c] = PicCommand(chip, exit.byte)]
  <2>1. PicCommand(chip, exit.byte) \in Chip
    BY <1>1, <1>2, <1>4, PicCommandType
  <2> HIDE DEF c, chip
  <2>2. c \in Chips
    BY <1>1, <1>4
  <2> QED BY <1>4, <2>1, <2>2, ChipsType DEF TypeOK
<1>5. CASE exit.port = "data"
           /\ ioio' = [ioio EXCEPT !.pic[c] = PicData(chip, exit.byte)]
  <2>1. PicData(chip, exit.byte) \in Chip
    BY <1>1, <1>2, <1>5, PicDataType
  <2> HIDE DEF c, chip
  <2>2. c \in Chips
    BY <1>1, <1>5
  <2> QED BY <1>5, <2>1, <2>2, ChipsType DEF TypeOK
<1>6. \/ ioio' = ioio
      \/ /\ exit.port = "command"
         /\ ioio' = [ioio EXCEPT !.pic[c] = PicCommand(chip, exit.byte)]
      \/ /\ exit.port = "data"
         /\ ioio' = [ioio EXCEPT !.pic[c] = PicData(chip, exit.byte)]
  BY <1>1 DEF HandleIoio, Resume, svm_vcpu_abort
<1> QED BY <1>3, <1>4, <1>5, <1>6

\* TypeOK, in its two parts.
LEMMA TypeParts == TypeOK <=> HostTypeOK /\ VcpuTypeOK
BY DEF TypeOK, HostTypeOK, VcpuTypeOK

\* kernel_main, the devices and the interrupts keep all types.
LEMMA HostStepType ==
    ASSUME TypeOK,
           \/ Boot \/ itr_dispatch \/ Halt
           \/ \E i \in Lines : Device(i) \/ InterruptArrives(i)
    PROVE  TypeOK'
<1> USE TypeParts
<1>1. ASSUME UNCHANGED vcpuVars
      PROVE  VcpuTypeOK'
  BY <1>1 DEF vcpuVars, intrVars, guestVars, tlbVars, historyVars, VcpuTypeOK
<1>2. CASE Boot
  <2>1. HostTypeOK'
    BY <1>2, BootHostType DEF Boot
  <2> QED BY <1>1, <1>2, <2>1 DEF Boot, TypeOK, HostTypeOK, VcpuTypeOK
<1>3. CASE itr_dispatch
  <2>1. HostTypeOK'
    BY <1>3, HandlerHostType DEF itr_dispatch
  <2>2. inflight \in AllLines
    BY <1>3, LinesAssumption DEF itr_dispatch, TypeOK, PicTypeOK
  <2>3. intr_subscriber_callback(VectorOf(inflight)) \subseteq AllLines
    BY <2>2 DEF intr_subscriber_callback, VectorOf, primary_vector_offset, AllLines
  <2>4. VcpuTypeOK'
    BY <1>3, <2>3 DEF itr_dispatch, VcpuTypeOK, guestVars, tlbVars
  <2> QED BY <2>1, <2>4 DEF TypeOK, HostTypeOK, VcpuTypeOK
<1>4. CASE Halt
  <2>1. HostTypeOK'
    BY <1>4 DEF Halt, EndlessHalt, picVars, kernelVars, HostTypeOK, PicTypeOK, KernelTypeOK
  <2> QED BY <1>1, <1>4, <2>1 DEF Halt, TypeOK, HostTypeOK, VcpuTypeOK
<1>5. ASSUME NEW i \in Lines, Device(i)
      PROVE  TypeOK'
  <2>1. HostTypeOK'
    BY <1>5 DEF Device, DeviceRaises, Raise, kernelVars, HostTypeOK, PicTypeOK, KernelTypeOK
  <2> QED BY <1>1, <1>5, <2>1 DEF Device, TypeOK, HostTypeOK, VcpuTypeOK
<1>6. ASSUME NEW i \in Lines, InterruptArrives(i)
      PROVE  TypeOK'
  <2>1. HostTypeOK'
    BY <1>6, AcceptHostType DEF InterruptArrives
  <2> QED BY <1>1, <1>6, <2>1 DEF InterruptArrives, TypeOK, HostTypeOK, VcpuTypeOK
<1> QED BY <1>2, <1>3, <1>4, <1>5, <1>6

\* The guest and the processor that runs it keep all types.
LEMMA GuestStepType ==
    ASSUME TypeOK, VmRun \/ TakeVirq \/ Guest \/ GuestInterrupted
    PROVE  TypeOK'
<1> USE DEF TypeOK, PicTypeOK, KernelTypeOK, picVars, kernelVars, intrVars, guestVars,
            tlbVars, historyVars
<1>1. CASE VmRun
  BY <1>1 DEF VmRun, VcpuPlaces
<1>2. CASE TakeVirq
  <2>1. served' \in {0, 1} /\ owed' \in SUBSET AllLines
    BY <1>2 DEF TakeVirq
  <2> QED BY <1>2, <2>1 DEF TakeVirq
<1>3. ASSUME NEW insn, NEW flag \in BOOLEAN, NEW shade \in BOOLEAN,
             GuestFlags(insn, flag, shade)
      PROVE  TypeOK'
  BY <1>3 DEF GuestFlags
<1>4. ASSUME NEW e \in Exits, VmExit(e)
      PROVE  TypeOK'
  BY <1>4 DEF VmExit, VcpuPlaces
<1>5. CASE GuestSti \/ GuestCli \/ GuestIret \/ GuestNop
  <2>1. ief \in BOOLEAN
    OBVIOUS
  <2> QED BY ONLY <1>3, <1>5, <2>1 DEF GuestSti, GuestCli, GuestIret, GuestNop
<1>6. CASE GuestHlt \/ GuestIo \/ GuestExits \/ GuestInterrupted
  <2>1. Exit("HLT") \in Exits /\ Exit("INTR") \in Exits
    BY ExitType
  <2>2. \A code \in GuestCodes : Exit(code) \in Exits
    BY ExitType, VcpuAssumption
  <2> QED BY ONLY <1>4, <1>6, <2>1, <2>2
        DEF GuestHlt, GuestIo, GuestExits, GuestInterrupted
<1> QED BY <1>1, <1>2, <1>5, <1>6 DEF Guest

\* handle_exit keeps all types.
LEMMA ExitStepType ==
    ASSUME TypeOK, handle_exit
    PROVE  TypeOK'
<1> USE DEF TypeOK, PicTypeOK, KernelTypeOK, picVars, kernelVars, intrVars, guestVars,
            tlbVars, historyVars, VcpuPlaces
<1>1. Exit("none") \in Exits
  BY ExitType
<1>2. VcpuTypeOK
  BY DEF VcpuTypeOK
<1>3. CASE HandleIntr
  BY <1>3 DEF HandleIntr, SetBack
<1>4. CASE HandleIntrClose
  BY <1>1, <1>2, <1>4, InjectType DEF HandleIntrClose, CloseGif
<1>5. CASE HandleHlt
  BY <1>1, <1>2, <1>5, InjectType DEF HandleHlt
<1>6. CASE HltSleep \/ HltClose
  <2>1. CASE HltSleep
    BY <2>1 DEF HltSleep, vcpuVars
  <2>2. CASE HltClose
    BY <2>2 DEF HltClose, CloseGif, vcpuVars
  <2> QED BY <1>6, <2>1, <2>2
<1>7. ASSUME svm_vcpu_abort
      PROVE  TypeOK'
  BY <1>1, <1>7 DEF svm_vcpu_abort
<1>8. ASSUME NEW s \in SvmIoioGuestState, Resume(s), tlb_control' \in {0, 3},
             stale' \in BOOLEAN
      PROVE  TypeOK'
  BY <1>1, <1>8 DEF Resume
<1>9. CASE HandleIoio
  <2>1. ioio' \in SvmIoioGuestState
    BY <1>9, IoioType
  <2>2. svm_vcpu_abort \/ (Resume(ioio') /\ tlb_control' = 0 /\ UNCHANGED stale)
    BY <1>9 DEF HandleIoio, Resume
  <2> QED BY <1>7, <1>8, <2>1, <2>2
<1>10. CASE HandleMsr \/ HandleCpuid \/ HandleVmmcall \/ HandleOther
  BY <1>7, <1>8, <1>10
     DEF HandleMsr, HandleCpuid, HandleVmmcall, HandleOther, FlushRequest
<1> QED BY <1>3, <1>4, <1>5, <1>6, <1>9, <1>10 DEF handle_exit

\* Types are kept by every step.
LEMMA TypeStep == TypeOK /\ [Next]_vars => TypeOK'
<1>1. TypeOK /\ UNCHANGED vars => TypeOK'
  BY DEF TypeOK, PicTypeOK, KernelTypeOK, vars, picVars, kernelVars, vcpuVars, intrVars,
         guestVars, tlbVars, historyVars
<1> QED BY <1>1, HostStepType, GuestStepType, ExitStepType DEF Next

\* Types hold initially.
LEMMA TypeInit == Init => TypeOK
<1> SUFFICES ASSUME Init PROVE TypeOK
  OBVIOUS
<1>1. PicTypeOK
  BY FirmwareAssumption DEF Init, KernelInit, PicTypeOK
<1>2. KernelTypeOK
  BY DEF Init, KernelInit, KernelTypeOK
<1>3. svm_ioio_guest_state_new \in SvmIoioGuestState
  BY DEF svm_ioio_guest_state_new, SvmIoioGuestState, Chip, Phases, Byte
<1>4. exit \in Exits
  BY ExitType DEF Init
<1>5. 0 \in AllLines /\ 0 \in Byte
  BY DEF AllLines, Byte
<1>6. pc \in BootPlaces
  BY DEF Init, KernelInit, BootPlaces
<1> QED BY <1>1, <1>2, <1>3, <1>4, <1>5, <1>6 DEF Init, TypeOK

\* Every variable of the vCPU loop keeps its type, for every set of lines, firmware
\* masks and guest instructions; in particular what the emulated 8259 stores and
\* the wrapped vector stay bytes (svm_vcpu.c:253-256, svm_ioio.c:238-345).
THEOREM TypeCorrect == Spec => []TypeOK
BY TypeInit, TypeStep, PTL DEF Spec

-----------------------------------------------------------------------------
(* Where interrupts are open.                                              *)

\* GIF is clear wherever the vCPU loop works on pending_irq, and no service
\* routine is running there; nor is one in the guest, which an interrupt leaves
\* before it is taken, or before itr_init.
Windows ==
    /\ pc \in {"subscribe", "vmrun", "exit"} => ~gif
    /\ pc \in {"arch_init", "subscribe", "vmrun", "exit", "guest"} => inflight = NoIrq
    /\ pc = "arch_init" => ~hostIF

\* The first state is in kernel_main with interrupts off.
LEMMA WindowsInit == Init => Windows
BY DEF Init, KernelInit, Windows

\* Every step keeps interrupts out of these places.
LEMMA WindowsStep ==
    ASSUME TypeOK, Windows, [Next]_vars
    PROVE  Windows'
<1> USE DEF Windows, picVars, kernelVars, Goto
<1>1. CASE Boot
  <2>1. CASE ArchInit \/ InitializePic \/ EnableTimer \/ EnableSerial
    BY <2>1 DEF ArchInit, InitializePic, EnableTimer, EnableSerial
  <2>2. CASE VmNew \/ VmSetup \/ VmLoop \/ Subscribe
    BY <2>2 DEF VmNew, VmSetup, VmLoop, Subscribe
  <2> QED BY <1>1, <2>1, <2>2 DEF Boot, BootStep
<1>2. ASSUME NEW i \in Lines, Device(i)
      PROVE  Windows'
  BY <1>2 DEF Device, DeviceRaises, Raise
<1>3. ASSUME NEW i \in Lines, InterruptArrives(i)
      PROVE  Windows'
  BY <1>3 DEF InterruptArrives, Accept, InterruptsOpen
<1>4. CASE itr_dispatch
  BY <1>4 DEF itr_dispatch, RunHandler
<1>5. CASE VmRun \/ TakeVirq \/ Halt
  BY <1>5 DEF VmRun, TakeVirq, Halt, EndlessHalt
<1>6. ASSUME NEW insn, NEW flag, NEW shade, GuestFlags(insn, flag, shade)
      PROVE  Windows'
  BY <1>6 DEF GuestFlags
<1>7. ASSUME pc = "guest", NEW e, VmExit(e)
      PROVE  Windows'
  BY <1>7 DEF VmExit
<1>8. CASE Guest \/ GuestInterrupted
  BY <1>6, <1>7, <1>8
     DEF Guest, GuestSti, GuestCli, GuestIret, GuestNop, GuestHlt, GuestIo, GuestExits,
         GuestInterrupted, Executes
<1>9. CASE HandleIntr \/ HandleIntrClose
  BY <1>9 DEF HandleIntr, Handling, HandleIntrClose, CloseGif, Quiet
<1>10. CASE HandleHlt \/ HltSleep \/ HltClose
  BY <1>10 DEF HandleHlt, Handling, HltSleep, HltClose, CloseGif, Quiet
<1>11. ASSUME pc = "exit", svm_vcpu_abort \/ \E s : Resume(s)
       PROVE  Windows'
  BY <1>11 DEF svm_vcpu_abort, Resume
<1>12. CASE HandleIoio \/ HandleMsr \/ HandleCpuid \/ HandleVmmcall \/ HandleOther
  BY <1>11, <1>12
     DEF HandleIoio, HandleMsr, HandleCpuid, HandleVmmcall, HandleOther, Handling
<1>13. CASE UNCHANGED vars
  BY <1>13 DEF vars
<1> QED
  BY <1>1, <1>2, <1>3, <1>4, <1>5, <1>8, <1>9, <1>10, <1>12, <1>13
     DEF Next, handle_exit

\* Types and windows together, in every reachable state.
LEMMA WindowsCorrect == Spec => [](TypeOK /\ Windows)
<1>1. TypeOK /\ Windows /\ [Next]_vars => (TypeOK /\ Windows)'
  BY TypeStep, WindowsStep
<1> QED BY <1>1, TypeInit, WindowsInit, PTL DEF Spec

\* The callback never runs between a read and a write of pending_irq by the vCPU
\* loop: GIF is clear and no service routine is active wherever the loop injects or
\* takes back (svm_vcpu.c:339-349, 356-360), for every set of lines and every guest.
THEOREM InjectionNotInterruptedCorrect == Spec => []InjectionNotInterrupted
<1>1. Windows => InjectionNotInterrupted
  BY DEF Windows, InjectionNotInterrupted
<1> QED BY <1>1, WindowsCorrect, PTL

-----------------------------------------------------------------------------
(* Handlers before masks.                                                  *)

\* The vector of a line leads to blob_irq_handler.
HasHandler(irq) == handlers[VectorOf(irq)] = "blob_irq_handler"

\* Once the chips are programmed a line that is open, or being serviced, has its
\* handler; each unmasking comes after its registration.
HandlersReady ==
    /\ pc \notin {"arch_init", "pic_init", "halted"} =>
         \A i \in AllLines : i \notin imr \/ i = inflight => HasHandler(i)
    /\ pc = "unmask_timer" => HasHandler(irq_timer)
    /\ pc = "unmask_serial" => HasHandler(irq_serial1)

\* No line is promised a handler in the first state.
LEMMA HandlersInit == Init => HandlersReady
BY DEF Init, KernelInit, HandlersReady

\* A step that leaves masks and handlers alone, and neither takes an interrupt nor
\* gets to one of the places of kernel_main, keeps HandlersReady.
LEMMA HandlersUntouched ==
    ASSUME HandlersReady, UNCHANGED <<imr, handlers, inflight>>,
           \/ pc' = pc \/ pc' = "halted"
           \/ pc \notin {"arch_init", "pic_init", "halted"}
              /\ pc' \notin {"unmask_timer", "unmask_serial"}
    PROVE  HandlersReady'
BY DEF HandlersReady, HasHandler

\* The boot sequence registers before it unmasks.
LEMMA HandlersBoot ==
    ASSUME TypeOK, HandlersReady, Boot
    PROVE  HandlersReady'
<1> USE DEF HandlersReady, HasHandler, picVars, kernelVars, Goto
<1>1. irq_timer \in AllLines /\ irq_serial1 \in AllLines
  BY DEF irq_timer, irq_serial1, AllLines
<1>2. \A i \in AllLines : VectorOf(i) \in PicVectors
  BY DEF PicVectors
<1>3. inflight = NoIrq /\ inflight' = NoIrq
  BY DEF Boot, BootStep, ArchInit, InitializePic, EnableTimer, EnableSerial, VmNew, VmSetup,
         VmLoop, Subscribe, register_handler, Unmask
<1>4. \A i \in AllLines : i # inflight
  BY <1>3, LinesAssumption
<1>5. CASE ArchInit \/ InitializePic
  BY <1>3, <1>4, <1>5, LinesAssumption DEF ArchInit, InitializePic, pic_init
<1>6. ASSUME NEW irq \in AllLines, register_handler(irq)
      PROVE  HasHandler(irq)' /\ \A i \in AllLines : HasHandler(i) => HasHandler(i)'
  BY <1>2, <1>6 DEF register_handler, TypeOK, KernelTypeOK
<1>7. ASSUME NEW irq \in AllLines, Unmask(irq)
      PROVE  imr' = imr \ {irq} /\ handlers' = handlers
  BY <1>7 DEF Unmask, unset_mask
<1>8. CASE EnableTimer
  <2>1. CASE Goto("register_timer", "unmask_timer") /\ register_handler(irq_timer)
    BY <1>1, <1>3, <1>4, <1>6, <2>1 DEF register_handler
  <2>2. CASE Goto("unmask_timer", "register_serial") /\ Unmask(irq_timer)
    BY <1>1, <1>3, <1>4, <1>7, <2>2
  <2> QED BY <1>8, <2>1, <2>2 DEF EnableTimer
<1>9. CASE EnableSerial
  <2>1. CASE Goto("register_serial", "unmask_serial") /\ register_handler(irq_serial1)
    BY <1>1, <1>3, <1>4, <1>6, <2>1 DEF register_handler
  <2>2. CASE Goto("unmask_serial", "vm_new") /\ Unmask(irq_serial1)
    BY <1>1, <1>3, <1>4, <1>7, <2>2
  <2> QED BY <1>9, <2>1, <2>2 DEF EnableSerial
<1>10. CASE VmNew \/ VmSetup \/ VmLoop \/ Subscribe
  BY <1>10, HandlersUntouched DEF VmNew, VmSetup, VmLoop, Subscribe
<1> QED BY <1>5, <1>8, <1>9, <1>10 DEF Boot, BootStep

\* Every other step keeps it: a line is taken only when it is unmasked.
LEMMA HandlersStep ==
    ASSUME TypeOK, HandlersReady, [Next]_vars
    PROVE  HandlersReady'
<1> USE DEF picVars, kernelVars
<1>1. CASE Boot
  BY <1>1, HandlersBoot
<1>2. ASSUME NEW i \in Lines, Device(i)
      PROVE  HandlersReady'
  BY <1>2, HandlersUntouched DEF Device, DeviceRaises, Raise
<1>3. ASSUME NEW i \in Lines, InterruptArrives(i)
      PROVE  HandlersReady'
  <2>1. /\ i \notin imr /\ inflight' = i
        /\ UNCHANGED <<imr, handlers>>
        /\ pc' = pc \/ (pc = "hlt_sleep" /\ pc' = "hlt_woken")
    BY <1>3 DEF InterruptArrives, Accept, Acknowledge, Deliverable, Requesting
  <2> QED BY <2>1 DEF HandlersReady, HasHandler
<1>4. CASE itr_dispatch
  <2>1. CASE inflight' = NoIrq /\ UNCHANGED <<pc, imr, handlers>>
    BY <2>1, LinesAssumption DEF HandlersReady, HasHandler
  <2>2. CASE pc' = "halted" /\ UNCHANGED <<picVars, kernelVars>>
    BY <2>2, HandlersUntouched
  <2> QED BY <1>4, <2>1, <2>2 DEF itr_dispatch, RunHandler, notify_eoi
<1>5. CASE VmRun \/ TakeVirq \/ Halt
  BY <1>5, HandlersUntouched DEF VmRun, TakeVirq, Halt, EndlessHalt
<1>6. ASSUME NEW insn, NEW flag, NEW shade, GuestFlags(insn, flag, shade)
      PROVE  HandlersReady'
  BY <1>6, HandlersUntouched DEF GuestFlags
<1>7. ASSUME pc = "guest", NEW e, VmExit(e)
      PROVE  HandlersReady'
  BY <1>7, HandlersUntouched DEF VmExit
<1>8. CASE Guest \/ GuestInterrupted
  BY <1>6, <1>7, <1>8
     DEF Guest, GuestSti, GuestCli, GuestIret, GuestNop, GuestHlt, GuestIo, GuestExits,
         GuestInterrupted, Executes
<1>9. CASE HandleIntr \/ HandleIntrClose
  BY <1>9, HandlersUntouched DEF HandleIntr, Handling, HandleIntrClose
<1>10. CASE HandleHlt \/ HltSleep \/ HltClose
  BY <1>10, HandlersUntouched DEF HandleHlt, Handling, HltSleep, HltClose
<1>11. ASSUME pc = "exit", svm_vcpu_abort \/ \E s : Resume(s)
       PROVE  HandlersReady'
  BY <1>11, HandlersUntouched DEF svm_vcpu_abort, Resume
<1>12. CASE HandleIoio \/ HandleMsr \/ HandleCpuid \/ HandleVmmcall \/ HandleOther
  BY <1>11, <1>12
     DEF HandleIoio, HandleMsr, HandleCpuid, HandleVmmcall, HandleOther, Handling
<1>13. CASE UNCHANGED vars
  BY <1>13, HandlersUntouched DEF vars
<1> QED
  BY <1>1, <1>2, <1>3, <1>4, <1>5, <1>8, <1>9, <1>10, <1>12, <1>13
     DEF Next, handle_exit

\* The kernel never ends in unhandled_handler after pic_init: an interrupt that the
\* processor takes has its handler, whatever devices there are, whatever masks the
\* firmware left and whatever the guest does (main.c:81-91).
THEOREM NoUnhandledLineCorrect == Spec => []NoUnhandledLine
<1>1. TypeOK /\ Windows /\ HandlersReady => NoUnhandledLine
  <2>1. TypeOK /\ inflight # NoIrq => inflight \in AllLines
    BY LinesAssumption DEF TypeOK, PicTypeOK
  <2> QED BY <2>1 DEF Windows, HandlersReady, HasHandler, NoUnhandledLine
<1>2. TypeOK /\ HandlersReady /\ [Next]_vars => HandlersReady'
  BY HandlersStep
<1> QED BY <1>1, <1>2, WindowsCorrect, HandlersInit, PTL DEF Spec

-----------------------------------------------------------------------------
(* The flush of the guest's TLB.                                           *)

\* Old translations exist between an EFER write and the next VMRUN only, and that
\* VMRUN is asked to flush them.
FlushAsked == stale => pc = "vmrun" /\ tlb_control = 3

\* Nothing is old in the first state.
LEMMA FlushInit == Init => FlushAsked
BY DEF Init, FlushAsked

\* Nothing comes between the request and VMRUN: no interrupt is taken there.
LEMMA FlushStep ==
    ASSUME Windows, FlushAsked, [Next]_vars
    PROVE  FlushAsked'
<1> USE DEF FlushAsked, tlbVars
<1>1. CASE Boot
  <2>1. pc # "vmrun"
    BY <1>1 DEF Boot, BootStep, ArchInit, InitializePic, EnableTimer, EnableSerial, VmNew,
                VmSetup, VmLoop, Subscribe, Goto
  <2> QED BY <1>1, <2>1 DEF Boot, vcpuVars
<1>2. ASSUME NEW i \in Lines, Device(i) \/ InterruptArrives(i)
      PROVE  FlushAsked'
  BY <1>2 DEF Device, DeviceRaises, InterruptArrives, Accept, vcpuVars
<1>3. CASE itr_dispatch
  BY <1>3 DEF itr_dispatch, Windows
<1>4. CASE VmRun \/ TakeVirq \/ Halt
  BY <1>4 DEF VmRun, TakeVirq, Halt, EndlessHalt, vcpuVars
<1>5. CASE Guest \/ GuestInterrupted
  BY <1>5 DEF Guest, GuestSti, GuestCli, GuestIret, GuestNop, GuestFlags, GuestHlt, GuestIo,
              GuestExits, GuestInterrupted, Executes, VmExit
<1>6. CASE HandleIntr \/ HandleIntrClose \/ HandleHlt
  BY <1>6 DEF HandleIntr, HandleIntrClose, HandleHlt, Handling
<1>7. CASE HltSleep \/ HltClose
  BY <1>7 DEF HltSleep, HltClose, vcpuVars
<1>8. CASE HandleIoio \/ HandleMsr \/ HandleCpuid \/ HandleVmmcall \/ HandleOther
  BY <1>8
     DEF HandleIoio, HandleMsr, HandleCpuid, HandleVmmcall, HandleOther, Handling, Resume,
         svm_vcpu_abort, FlushRequest
<1>9. CASE UNCHANGED vars
  BY <1>9 DEF vars, vcpuVars
<1> QED
  BY <1>1, <1>2, <1>3, <1>4, <1>5, <1>6, <1>7, <1>8, <1>9 DEF Next, handle_exit

\* The guest never runs on translations that predate an EFER change which asked for
\* a flush, whatever exits and interrupts there are (svm_msr.c:65-72,
\* svm_vcpu.c:330).
THEOREM NoStaleTranslationCorrect == Spec => []NoStaleTranslation
<1>1. FlushAsked => NoStaleTranslation
  BY DEF FlushAsked, NoStaleTranslation
<1>2. Windows /\ FlushAsked /\ [Next]_vars => FlushAsked'
  BY FlushStep
<1> QED BY <1>1, <1>2, WindowsCorrect, FlushInit, PTL DEF Spec

-----------------------------------------------------------------------------
(* Delivery: every interrupt that YmirC takes on behalf of the guest reaches *)
(* the guest, once, for a guest that does not execute CLI, HLT or a port     *)
(* access in the shadow of an STI.  For the others the statements are false. *)

\* Nothing that the guest executes in the shadow of an STI can turn off a virtual
\* interrupt which waits for the shadow to end.
ShadowHarmless == ShadowInsns \cap {"cli", "hlt", "io"} = {}

\* inject_ext_intr would choose the line, were it pending.
OpenFor(irq) ==
    /\ ioio.pic["primary"].phase = "INITED"
    /\ ief
    /\ ~(SecondaryMasked /\ ~is_primary(irq))
    /\ ~Masked(irq)

\* A posted line stays open until the guest takes it.
PostedOpen == v_irq => OpenFor(last_injected_irq)

\* Nothing is posted before the loop runs, nor at an exit that a guest with a
\* posted interrupt cannot provoke.
NothingPosted ==
    /\ pc \in BootPlaces \cup {"end_of_life"} => ~v_irq
    /\ pc \in {"hlt_open", "hlt_sleep", "hlt_woken"} => exit.code = "HLT"
    /\ pc \in {"exit", "hlt_open", "hlt_sleep", "hlt_woken"}
         /\ exit.code \in {"HLT", "IOIO"} => ~v_irq

\* A posted line is pending too inside the window of an INTR exit, where the next
\* injection takes it out again, and nowhere else.
PostedOrPending ==
    /\ pc \in {"vmrun", "guest", "exit"} => Posted \cap pending_irq = {}
    /\ pc = "intr_open" => Posted \subseteq pending_irq

\* What is owed to the guest is what YmirC knows of.
OwedKnown == owed = pending_irq \cup Posted

\* The invariant of the delivery of interrupts.
Delivery == PostedOpen /\ NothingPosted /\ PostedOrPending /\ OwedKnown

\* Nothing is owed, pending or posted at first.
LEMMA DeliveryInit == Init => Delivery
BY DEF Init, KernelInit, Delivery, PostedOpen, NothingPosted, PostedOrPending, OwedKnown,
       Posted

\* What an injection does to the lines, when what is posted is pending as well: it
\* posts a line that the guest is open for, or there is nothing to inject and nothing
\* posted.
LEMMA InjectPosts ==
    ASSUME PostedOpen, Posted \subseteq pending_irq, inject_ext_intr
    PROVE  \/ /\ v_irq'
              /\ last_injected_irq' \in pending_irq
              /\ pending_irq' = pending_irq \ {last_injected_irq'}
              /\ OpenFor(last_injected_irq')
           \/ ~v_irq /\ ~v_irq' /\ pending_irq' = pending_irq
<1>1. CASE Injectable
  <2>1. PICK i \in Candidates : Post(i)
    BY <1>1 DEF inject_ext_intr
  <2> QED BY <1>1, <2>1 DEF Post, Candidates, Injectable, OpenFor
<1>2. CASE ~Injectable
  <2>1. ~v_irq
    BY <1>2 DEF PostedOpen, Posted, OpenFor, Injectable, Candidates
  <2> QED BY <1>2, <2>1 DEF inject_ext_intr, intrVars
<1> QED BY <1>1, <1>2

\* A step that leaves the lines, the chips and the guest's flag alone keeps what
\* does not depend on the place.
LEMMA LinesUntouched ==
    ASSUME PostedOpen, OwedKnown, UNCHANGED <<intrVars, ioio, ief, owed>>
    PROVE  PostedOpen' /\ OwedKnown' /\ Posted' = Posted
BY DEF intrVars, PostedOpen, OwedKnown, Posted, OpenFor, SecondaryMasked, Masked

\* kernel_main, the devices and the arrival of an interrupt touch no line of the
\* guest.
LEMMA DeliveryHost ==
    ASSUME TypeOK, Windows, Delivery,
           Boot \/ Halt \/ \E i \in Lines : Device(i) \/ InterruptArrives(i)
    PROVE  Delivery'
<1> USE DEF Delivery
<1>1. UNCHANGED vcpuVars
  BY DEF Boot, Halt, Device, InterruptArrives
<1>2. UNCHANGED <<intrVars, ioio, ief, owed, exit, v_irq, pending_irq>>
  BY <1>1 DEF vcpuVars, intrVars, guestVars, historyVars
<1>3. PostedOpen' /\ OwedKnown' /\ Posted' = Posted
  BY <1>2, LinesUntouched
<1>4. CASE Boot
  <2>1. pc \in BootPlaces /\ (pc' \in BootPlaces \cup {"end_of_life", "halted", "vmrun"})
    BY <1>4 DEF Boot, BootStep, ArchInit, InitializePic, EnableTimer, EnableSerial, VmNew,
                VmSetup, VmLoop, Subscribe, Goto, BootPlaces
  <2>2. ~v_irq
    BY <2>1 DEF NothingPosted
  <2> QED BY <1>2, <1>3, <2>1, <2>2 DEF NothingPosted, PostedOrPending, Posted, BootPlaces
<1>5. CASE pc' = pc \/ (pc = "hlt_sleep" /\ pc' = "hlt_woken")
  BY <1>2, <1>3, <1>5 DEF NothingPosted, PostedOrPending, BootPlaces
<1> QED
  BY <1>4, <1>5 DEF Halt, EndlessHalt, Device, DeviceRaises, InterruptArrives, Accept

\* The callback notes a line, and both the machine and the guest's account have it.
LEMMA DeliveryDispatch ==
    ASSUME TypeOK, Windows, Delivery, itr_dispatch
    PROVE  Delivery'
<1> USE DEF Delivery
<1>1. UNCHANGED <<last_injected_irq, v_irq, ioio, ief, exit>>
  BY DEF itr_dispatch, guestVars
<1>2. PICK noted : pending_irq' = pending_irq \cup noted /\ owed' = owed \cup noted
  BY DEF itr_dispatch
<1>3. PostedOpen' /\ OwedKnown'
  BY <1>1, <1>2
     DEF PostedOpen, OwedKnown, Posted, OpenFor, SecondaryMasked, Masked
<1>4. pc \notin {"vmrun", "guest", "exit"} /\ (pc' = pc \/ pc' = "halted")
  BY DEF itr_dispatch, Windows, RunHandler
<1>5. PostedOrPending'
  BY <1>1, <1>2, <1>4 DEF PostedOrPending, Posted
<1>6. NothingPosted'
  BY <1>1, <1>4 DEF NothingPosted, BootPlaces
<1> QED BY <1>3, <1>5, <1>6

\* The guest takes what is posted, and cannot close itself to it before.
LEMMA DeliveryGuest ==
    ASSUME ShadowHarmless, TypeOK, Windows, Delivery,
           VmRun \/ TakeVirq \/ Guest \/ GuestInterrupted
    PROVE  Delivery'
<1> USE DEF Delivery
<1>1. CASE TakeVirq
  <2>1. Posted = {last_injected_irq} /\ Posted' = {}
    BY <1>1 DEF TakeVirq, VirqDue, Posted
  <2>2. last_injected_irq \notin pending_irq
    BY <1>1, <2>1 DEF TakeVirq, PostedOrPending
  <2>3. OwedKnown'
    BY <1>1, <2>1, <2>2 DEF TakeVirq, OwedKnown
  <2> QED BY <1>1, <2>1, <2>3
          DEF TakeVirq, PostedOpen, NothingPosted, PostedOrPending, BootPlaces
<1>2. \A insn \in {"cli", "hlt", "io"} : Executes(insn) => ~v_irq
  BY DEF Executes, VirqDue, ShadowHarmless, PostedOpen, OpenFor
<1>3. ASSUME NEW insn, NEW flag, NEW shade, GuestFlags(insn, flag, shade),
             v_irq => flag = ief
      PROVE  Delivery'
  <2>1. UNCHANGED <<intrVars, ioio, owed, exit, pc, v_irq, pending_irq>>
    BY <1>3 DEF GuestFlags, historyVars, intrVars
  <2>2. Posted' = Posted
    BY <2>1 DEF Posted, intrVars
  <2>3. PostedOpen'
    BY <1>3, <2>1 DEF GuestFlags, intrVars, PostedOpen, OpenFor, SecondaryMasked, Masked
  <2> QED BY <2>1, <2>2, <2>3 DEF NothingPosted, PostedOrPending, OwedKnown
<1>4. CASE GuestSti \/ GuestCli \/ GuestIret \/ GuestNop
  <2>1. ~ief => ~v_irq
    BY DEF PostedOpen, OpenFor
  <2>2. CASE GuestSti \/ GuestIret
    BY <1>3, <2>1, <2>2 DEF GuestSti, GuestIret
  <2>3. CASE GuestCli
    <3>1. ~v_irq
      BY <1>2, <2>3 DEF GuestCli, GuestFlags
    <3> QED BY <1>3, <2>3, <3>1 DEF GuestCli
  <2>4. CASE GuestNop
    BY <1>3, <2>4 DEF GuestNop
  <2> QED BY <1>4, <2>2, <2>3, <2>4
<1>5. ASSUME NEW e, pc = "guest", VmExit(e), e.code \in {"HLT", "IOIO"} => ~v_irq
      PROVE  Delivery'
  <2>1. UNCHANGED <<intrVars, ioio, ief, owed, v_irq, pending_irq>> /\ exit' = e /\ pc' = "exit"
    BY <1>5 DEF VmExit, historyVars, intrVars, guestVars
  <2>2. PostedOpen' /\ OwedKnown' /\ Posted' = Posted
    BY <2>1, LinesUntouched
  <2> QED BY <1>5, <2>1, <2>2 DEF NothingPosted, PostedOrPending, BootPlaces
<1>6. \A code : Exit(code).code = code
  BY DEF Exit
<1>7. CASE GuestHlt
  BY <1>2, <1>5, <1>7 DEF GuestHlt, Executes
<1>8. CASE GuestIo
  BY <1>2, <1>5, <1>8 DEF GuestIo, Executes
<1>9. CASE GuestExits
  <2>1. GuestCodes \cap {"HLT", "IOIO"} = {}
    BY VcpuAssumption
  <2> QED BY <1>5, <1>6, <1>9, <2>1 DEF GuestExits, Executes
<1>10. CASE GuestInterrupted
  BY <1>5, <1>6, <1>10 DEF GuestInterrupted
<1>11. CASE VmRun
  <2>1. UNCHANGED <<intrVars, ioio, ief, owed, v_irq, pending_irq>> /\ pc = "vmrun" /\ pc' = "guest"
    BY <1>11 DEF VmRun, historyVars, intrVars, guestVars
  <2>2. PostedOpen' /\ OwedKnown' /\ Posted' = Posted
    BY <2>1, LinesUntouched
  <2> QED BY <2>1, <2>2 DEF NothingPosted, PostedOrPending, BootPlaces
<1> QED BY <1>1, <1>4, <1>7, <1>8, <1>9, <1>10, <1>11 DEF Guest

\* handle_exit takes a line back only to post it, or another one, before VMRUN.
LEMMA DeliveryExit ==
    ASSUME TypeOK, Windows, Delivery, handle_exit
    PROVE  Delivery'
<1> USE DEF Delivery
<1>1. CASE HandleIntr
  <2>1. /\ UNCHANGED <<last_injected_irq, v_irq, ioio, ief, owed, exit>>
        /\ pc = "exit" /\ pc' = "intr_open"
        /\ pending_irq' = pending_irq \cup Posted
    BY <1>1 DEF HandleIntr, Handling, SetBack, Posted, guestVars, historyVars
  <2>2. Posted' = Posted
    BY <2>1 DEF Posted
  <2>3. PostedOpen'
    BY <2>1 DEF PostedOpen, OpenFor, SecondaryMasked, Masked
  <2> QED BY <2>1, <2>2, <2>3 DEF NothingPosted, PostedOrPending, OwedKnown, BootPlaces
<1>2. ASSUME Posted \subseteq pending_irq, inject_ext_intr, UNCHANGED <<ioio, ief, owed>>
      PROVE  PostedOpen' /\ OwedKnown' /\ Posted' \cap pending_irq' = {}
  <2>1. CASE /\ v_irq' /\ last_injected_irq' \in pending_irq
             /\ pending_irq' = pending_irq \ {last_injected_irq'}
             /\ OpenFor(last_injected_irq')
    <3>1. Posted' = {last_injected_irq'}
      BY <2>1 DEF Posted
    <3>2. OpenFor(last_injected_irq)'
      BY <1>2, <2>1 DEF OpenFor, SecondaryMasked, Masked
    <3> QED BY <1>2, <2>1, <3>1, <3>2 DEF PostedOpen, OwedKnown
  <2>2. CASE ~v_irq /\ ~v_irq' /\ pending_irq' = pending_irq
    BY <1>2, <2>2 DEF PostedOpen, OwedKnown, Posted
  <2> QED BY <1>2, <2>1, <2>2, InjectPosts
<1>3. CASE HandleIntrClose
  <2>1. /\ Posted \subseteq pending_irq /\ inject_ext_intr
        /\ UNCHANGED <<ioio, ief, owed>> /\ pc' = "vmrun"
    BY <1>3 DEF HandleIntrClose, PostedOrPending, guestVars, historyVars
  <2>2. PostedOpen' /\ OwedKnown' /\ Posted' \cap pending_irq' = {}
    BY <1>2, <2>1
  <2> QED BY <2>1, <2>2 DEF NothingPosted, PostedOrPending, BootPlaces
<1>4. CASE HandleHlt
  <2>1. /\ ~v_irq /\ inject_ext_intr /\ UNCHANGED <<ioio, ief, owed>>
        /\ \/ pc' = "vmrun"
           \/ ~Injectable /\ pc' = "hlt_open" /\ exit' = exit /\ exit.code = "HLT"
    BY <1>4 DEF HandleHlt, Handling, NothingPosted, guestVars, historyVars
  <2>2. PostedOpen' /\ OwedKnown' /\ Posted' \cap pending_irq' = {}
    BY <1>2, <2>1 DEF Posted
  <2>3. ~Injectable => ~v_irq'
    BY <2>1 DEF inject_ext_intr, intrVars
  <2> QED BY <2>1, <2>2, <2>3 DEF NothingPosted, PostedOrPending, BootPlaces
<1>5. CASE HltSleep \/ HltClose
  <2>1. /\ UNCHANGED <<intrVars, ioio, ief, owed, exit, v_irq, pending_irq>>
        /\ pc \in {"hlt_open", "hlt_woken"} /\ pc' \in {"hlt_sleep", "exit"}
    BY <1>5 DEF HltSleep, HltClose, vcpuVars, intrVars, guestVars, historyVars
  <2>2. PostedOpen' /\ OwedKnown' /\ Posted' = Posted
    BY <2>1, LinesUntouched
  <2>3. exit.code = "HLT" /\ ~v_irq
    BY <2>1 DEF NothingPosted
  <2> QED BY <2>1, <2>2, <2>3 DEF NothingPosted, PostedOrPending, Posted, BootPlaces
<1>6. ASSUME NEW s, pc = "exit", Resume(s), v_irq => s = ioio
      PROVE  Delivery'
  <2>1. /\ UNCHANGED <<intrVars, v_irq, last_injected_irq, pending_irq, ief, owed>>
        /\ pc' = "vmrun" /\ ioio' = s
    BY <1>6 DEF Resume, intrVars, guestVars, historyVars
  <2>2. PostedOpen'
    BY <1>6, <2>1 DEF PostedOpen, OpenFor, SecondaryMasked, Masked
  <2>3. Posted' = Posted
    BY <2>1 DEF Posted
  <2> QED BY <1>6, <2>1, <2>2, <2>3
          DEF NothingPosted, PostedOrPending, OwedKnown, BootPlaces
<1>7. ASSUME svm_vcpu_abort
      PROVE  Delivery'
  <2>1. UNCHANGED <<intrVars, ioio, ief, owed>> /\ pc' = "halted"
    BY <1>7 DEF svm_vcpu_abort, guestVars, historyVars
  <2>2. PostedOpen' /\ OwedKnown' /\ Posted' = Posted
    BY <2>1, LinesUntouched
  <2> QED BY <2>1, <2>2 DEF NothingPosted, PostedOrPending, BootPlaces
<1>8. CASE HandleIoio
  <2>1. pc = "exit" /\ ~v_irq
    BY <1>8 DEF HandleIoio, Handling, NothingPosted
  <2>2. svm_vcpu_abort \/ Resume(ioio')
    BY <1>8 DEF HandleIoio, Resume
  <2> QED BY <1>6, <1>7, <2>1, <2>2
<1>9. CASE HandleMsr \/ HandleCpuid \/ HandleVmmcall \/ HandleOther
  BY <1>6, <1>7, <1>9
     DEF HandleMsr, HandleCpuid, HandleVmmcall, HandleOther, Handling
<1> QED BY <1>1, <1>3, <1>4, <1>5, <1>8, <1>9 DEF handle_exit

\* Every step keeps the account.
LEMMA DeliveryStep ==
    ASSUME ShadowHarmless, TypeOK, Windows, Delivery, [Next]_vars
    PROVE  Delivery'
<1>1. CASE UNCHANGED vars
  <2>1. UNCHANGED <<intrVars, ioio, ief, owed, exit, pc, v_irq, pending_irq>>
    BY <1>1 DEF vars, vcpuVars, intrVars, guestVars, historyVars
  <2>2. PostedOpen' /\ OwedKnown' /\ Posted' = Posted
    BY <2>1, LinesUntouched DEF Delivery
  <2> QED BY <2>1, <2>2 DEF Delivery, NothingPosted, PostedOrPending
<1> QED BY <1>1, DeliveryHost, DeliveryDispatch, DeliveryGuest, DeliveryExit DEF Next

\* The account holds in every reachable state.
LEMMA DeliveryCorrect ==
    ASSUME ShadowHarmless
    PROVE  Spec => []Delivery
<1>1. TypeOK /\ Windows /\ Delivery /\ [Next]_vars => Delivery'
  BY DeliveryStep
<1> QED BY <1>1, WindowsCorrect, DeliveryInit, PTL DEF Spec

\* No interrupt that YmirC took on behalf of the guest is dropped before the guest
\* has taken it, for every set of lines and every guest that is harmless in its
\* shadows, with any programming of its 8259 chips (svm_vcpu.c:253-261, 337-341).
THEOREM NoIrqLostCorrect ==
    ASSUME ShadowHarmless
    PROVE  Spec => []NoIrqLost
<1>1. Delivery => NoIrqLost
  BY DEF Delivery, OwedKnown, NoIrqLost
<1> QED BY <1>1, DeliveryCorrect, PTL

\* No interrupt is given to such a guest again that it has taken
\* (svm_vcpu.c:253-261, 337-341).
THEOREM NoIrqDuplicatedCorrect ==
    ASSUME ShadowHarmless
    PROVE  Spec => []NoIrqDuplicated
<1>1. Delivery => NoIrqDuplicated
  BY DEF Delivery, OwedKnown, PostedOrPending, NoIrqDuplicated
<1> QED BY <1>1, DeliveryCorrect, PTL

-----------------------------------------------------------------------------
(* The loop implements VirqChannel.                                        *)

\* The abstract channel's owed lines, as the machine holds them.
Known == pending_irq \cup Posted

\* The callback notes the line in flight, or nobody has subscribed yet.
LEMMA DispatchNotes ==
    ASSUME TypeOK, itr_dispatch
    PROVE  \/ \E irq \in AllLines : Channel!Note(irq)
           \/ UNCHANGED <<Known, served>>
<1>1. inflight \in AllLines
  BY LinesAssumption DEF itr_dispatch, TypeOK, PicTypeOK
<1>2. intr_subscriber_callback(VectorOf(inflight)) = {inflight}
  BY <1>1 DEF intr_subscriber_callback, VectorOf, primary_vector_offset, AllLines
<1>3. Posted' = Posted /\ served' = served
  BY DEF itr_dispatch, Posted
<1>4. CASE subscribed
  <2>1. pending_irq' = pending_irq \cup {inflight}
    BY <1>2, <1>4 DEF itr_dispatch
  <2>2. Channel!Note(inflight)
    BY <1>3, <2>1 DEF Channel!Note
  <2> QED BY <1>1, <2>2
<1>5. CASE ~subscribed
  BY <1>3, <1>5 DEF itr_dispatch, Known
<1> QED BY <1>4, <1>5

\* The guest takes a virtual interrupt: the posted line is delivered.
LEMMA TakeDelivers ==
    ASSUME TypeOK, Delivery, TakeVirq
    PROVE  \E irq \in AllLines : Channel!Deliver(irq)
<1>1. last_injected_irq \in AllLines
  BY DEF TypeOK
<1>2. Posted = {last_injected_irq} /\ Posted' = {}
  BY DEF TakeVirq, VirqDue, Posted
<1>3. last_injected_irq \notin pending_irq /\ pending_irq' = pending_irq
  BY <1>2 DEF TakeVirq, Delivery, PostedOrPending
<1>4. served' = 1 - served
  BY DEF TakeVirq
<1>5. Channel!Deliver(last_injected_irq)
  BY <1>2, <1>3, <1>4 DEF Channel!Deliver
<1> QED BY <1>1, <1>5

\* No other step changes what YmirC knows to be owed.
LEMMA OtherStepsKeepKnown ==
    ASSUME TypeOK, Delivery, Delivery',
           \/ Boot \/ VmRun \/ Guest \/ GuestInterrupted \/ handle_exit \/ Halt
           \/ \E i \in Lines : Device(i) \/ InterruptArrives(i)
           \/ UNCHANGED vars
    PROVE  UNCHANGED <<Known, served>>
<1>1. UNCHANGED <<owed, served>>
  <2> USE DEF historyVars, vcpuVars
  <2>1. CASE Boot \/ Halt \/ VmRun \/ UNCHANGED vars
             \/ \E i \in Lines : Device(i) \/ InterruptArrives(i)
    BY <2>1 DEF Boot, Halt, VmRun, vars, Device, InterruptArrives
  <2>2. CASE Guest \/ GuestInterrupted
    BY <2>2 DEF Guest, GuestSti, GuestCli, GuestIret, GuestNop, GuestFlags, GuestHlt,
                GuestIo, GuestExits, GuestInterrupted, VmExit
  <2>3. CASE handle_exit
    BY <2>3 DEF handle_exit, HandleIntr, HandleIntrClose, HandleHlt, HltSleep, HltClose,
                HandleIoio, HandleMsr, HandleCpuid, HandleVmmcall, HandleOther, Resume,
                svm_vcpu_abort
  <2> QED BY <2>1, <2>2, <2>3
<1>2. owed = Known /\ owed' = Known'
  BY DEF Delivery, OwedKnown, Known
<1> QED BY <1>1, <1>2

\* The vCPU loop implements VirqChannel: each of its steps notes one line, delivers
\* one line that is owed, or leaves the lines that are pending or posted alone, for
\* every set of lines and every guest that is harmless in its shadows
\* (svm_vcpu.c:220-266, 335-363, 386-394).
THEOREM ImplementsChannelCorrect ==
    ASSUME ShadowHarmless
    PROVE  Spec => ImplementsChannel
<1>1. Init => Channel!Init
  BY DEF Init, Channel!Init, Posted
<1>2. ASSUME TypeOK, Delivery, Delivery', [Next]_vars
      PROVE  [Channel!Next]_<<pending_irq \cup Posted, served>>
  <2>1. ASSUME UNCHANGED <<Known, served>>
        PROVE  UNCHANGED <<pending_irq \cup Posted, served>>
    BY <2>1 DEF Known
  <2>2. CASE itr_dispatch
    BY <1>2, <2>1, <2>2, DispatchNotes DEF Channel!Next
  <2>3. CASE TakeVirq
    BY <1>2, <2>3, TakeDelivers DEF Channel!Next
  <2>4. CASE ~itr_dispatch /\ ~TakeVirq
    BY <1>2, <2>1, <2>4, OtherStepsKeepKnown DEF Next
  <2> QED BY <2>2, <2>3, <2>4
<1> QED
  BY <1>1, <1>2, WindowsCorrect, DeliveryCorrect, PTL
     DEF Spec, ImplementsChannel, Channel!Spec

=============================================================================
