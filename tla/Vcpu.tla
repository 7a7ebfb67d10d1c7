-------------------------------- MODULE Vcpu --------------------------------
(***************************************************************************)
(* The vCPU loop of ymirc/arch/x86/svm_vcpu.c: VMRUN, the guest, #VMEXIT    *)
(* and handle_exit, and how a hardware interrupt reaches the guest.        *)
(*                                                                         *)
(* YmirC takes every hardware interrupt itself, with GIF set for a short    *)
(* window inside handle_exit.  The callback it subscribed notes the line in *)
(* pending_irq, YmirC's handler sends the EOI, and inject_ext_intr later    *)
(* posts one pending line to the guest as a virtual interrupt (v_irq),      *)
(* which the guest takes when its interrupt flag and interrupt shadow let   *)
(* it.                                                                     *)
(*                                                                         *)
(* The guest and the SVM hardware are external.  The guest is arbitrary     *)
(* code, reduced to what its instructions do to its interrupt flag, to its  *)
(* interrupt shadow and to the emulated 8259 chips.                        *)
(***************************************************************************)
EXTENDS Kernel, IoioState

CONSTANTS
    GuestChips,     \* the emulated chips that the guest programs
    GuestBytes,     \* the bytes that it writes to them
    GuestCodes,     \* the exits that it provokes besides port accesses and hlt
    ShadowInsns     \* what the guest executes in the shadow of an STI

Insns == {"nop", "sti", "cli", "hlt", "io", "other"}

ASSUME VcpuAssumption == /\ GuestChips \subseteq Chips
                         /\ GuestBytes \subseteq Byte
                         /\ GuestCodes \subseteq {"CPUID", "MSR", "VMMCALL", "OTHER"}
                         /\ ShadowInsns \subseteq Insns

VARIABLES
    pending_irq,        \* vcpu->pending_irq, as a set of lines
    last_injected_irq,  \* vcpu->last_injected_irq
    ioio,               \* vcpu->guest_ioio_state
    v_irq,              \* vmcb->v_irq
    v_intr_vector,      \* vmcb->v_intr_vector
    ief,                \* the IF bit of vmcb->rflags
    shadow,             \* vmcb->interrupt_shadow
    tlb_control,        \* vmcb->tlb_control
    exit,               \* vmcb->exitcode and exitinfo1, while handle_exit runs
    stale,              \* the guest's TLB predates an EFER change (history)
    owed,               \* lines noted for the guest, not delivered (history)
    served              \* flips with every delivery (history)

intrVars == <<pending_irq, last_injected_irq, v_irq, v_intr_vector>>
guestVars == <<ief, shadow>>
tlbVars == <<tlb_control, stale>>
historyVars == <<owed, served>>
vcpuVars == <<intrVars, ioio, guestVars, tlbVars, exit, historyVars>>
vars == <<picVars, pc, kernelVars, vcpuVars>>

Exit(code) == [code |-> code, chip |-> "none", port |-> "none", byte |-> 0]
PicAccess(c, port, b) == [code |-> "IOIO", chip |-> c, port |-> port, byte |-> b]

Exits == {Exit(c) : c \in {"none", "INTR", "HLT", "CPUID", "MSR", "VMMCALL",
                           "IOIO", "OTHER"}}
         \cup {PicAccess(c, "in", 0) : c \in GuestChips}
         \cup {PicAccess(c, p, b) : c \in GuestChips,
                                    p \in {"command", "data"}, b \in GuestBytes}

\* "exit" is the entry of handle_exit; "intr_open" lies between its STGI and
\* CLGI; the "hlt_" places are the loop of the HLT case.
VcpuPlaces == {"vmrun", "guest", "exit", "intr_open", "hlt_open", "hlt_sleep",
               "hlt_woken"}

TypeOK ==
    /\ PicTypeOK
    /\ KernelTypeOK
    /\ pc \in BootPlaces \cup VcpuPlaces \cup {"end_of_life", "halted"}
    /\ pending_irq \in SUBSET AllLines
    /\ last_injected_irq \in AllLines
    /\ ioio \in SvmIoioGuestState
    /\ v_irq \in BOOLEAN
    /\ v_intr_vector \in Byte
    /\ ief \in BOOLEAN
    /\ shadow \in BOOLEAN
    /\ tlb_control \in {0, 3}
    /\ exit \in Exits
    /\ stale \in BOOLEAN
    /\ owed \in SUBSET AllLines
    /\ served \in {0, 1}

-----------------------------------------------------------------------------
(* inject_ext_intr                                                         *)

Masked(irq) ==
    LET chip == IF is_primary(irq) THEN "primary" ELSE "secondary"
    IN  isset_8(ioio.pic[chip].mask, delta(irq))

SecondaryMasked == isset_16(ioio.pic["primary"].mask, irq_secondary)

\* The lines at which the loop would stop.
Candidates ==
    {i \in pending_irq : ~(SecondaryMasked /\ ~is_primary(i)) /\ ~Masked(i)}

\* Faulty variant: both chips must be set up.
Faulty_Injectable ==
    /\ \A c \in Chips : ioio.pic[c].phase = "INITED"
    /\ ief
    /\ Candidates # {}

Injectable ==
    /\ ioio.pic["primary"].phase = "INITED"
    /\ ief
    /\ Candidates # {}

\* uint8_t: the vector wraps.
GuestVector(irq) ==
    (delta(irq) + ioio.pic[IF is_primary(irq) THEN "primary" ELSE "secondary"].base)
        % 256

\* Faulty variant: the pending bit is not cleared.
Faulty_Post(irq) ==
    /\ v_irq' = TRUE
    /\ v_intr_vector' = GuestVector(irq)
    /\ last_injected_irq' = irq
    /\ UNCHANGED pending_irq

\* Faulty variant: the vector is noted instead of the line; setting it back would
\* set another bit of pending_irq, or none.
Faulty_Post_Vector(irq) ==
    /\ v_irq' = TRUE
    /\ v_intr_vector' = GuestVector(irq)
    /\ pending_irq' = pending_irq \ {irq}
    /\ last_injected_irq' = GuestVector(irq)

Post(irq) ==
    /\ v_irq' = TRUE
    /\ v_intr_vector' = GuestVector(irq)
    /\ pending_irq' = pending_irq \ {irq}
    /\ last_injected_irq' = irq

\* The loop runs upwards, so the lowest candidate is posted; when there is
\* none the virtual interrupt is left as it is.
inject_ext_intr ==
    \/ /\ Injectable
       /\ \E i \in Candidates : (\A j \in Candidates : i <= j) /\ Post(i)
    \/ /\ ~Injectable
       /\ UNCHANGED intrVars

\* The callback that svm_vcpu_loop subscribes.
intr_subscriber_callback(vector) ==
    IF primary_vector_offset <= vector /\ vector < primary_vector_offset + 16
    THEN {vector - primary_vector_offset} ELSE {}

-----------------------------------------------------------------------------
(* Interrupts, as they concern the vCPU.                                   *)

InterruptArrives(irq) ==
    /\ Accept(irq)
    /\ UNCHANGED vcpuVars

\* itr_dispatch: the callback, then the handler.
itr_dispatch ==
    /\ inflight # NoIrq
    /\ pc # "halted"
    /\ LET noted == IF subscribed THEN intr_subscriber_callback(VectorOf(inflight))
                                  ELSE {}
       IN  /\ pending_irq' = pending_irq \cup noted
           /\ owed' = owed \cup noted
    /\ RunHandler
    /\ UNCHANGED <<last_injected_irq, v_irq, v_intr_vector, ioio, guestVars,
                   tlbVars, exit, served>>

-----------------------------------------------------------------------------
(* The guest and the processor that runs it.                               *)

\* VMRUN sets GIF, flushes the TLB if asked to and enters the guest.
VmRun ==
    /\ pc = "vmrun"
    /\ pc' = "guest"
    /\ gif' = TRUE
    /\ stale' = (stale /\ tlb_control # 3)
    /\ UNCHANGED <<picVars, hostIF, handlers, subscribed, intrVars, ioio,
                   guestVars, tlb_control, exit, historyVars>>

\* The guest takes the virtual interrupt through an interrupt gate.
VirqDue == v_irq /\ ief /\ ~shadow

TakeVirq ==
    /\ pc = "guest"
    /\ VirqDue
    /\ v_irq' = FALSE
    /\ ief' = FALSE
    /\ owed' = owed \ {last_injected_irq}
    /\ served' = 1 - served
    /\ UNCHANGED <<picVars, pc, kernelVars, pending_irq, last_injected_irq,
                   v_intr_vector, ioio, shadow, tlbVars, exit>>

\* The guest can execute an instruction of this kind now.
Executes(insn) ==
    /\ pc = "guest"
    /\ ~VirqDue
    /\ shadow => insn \in ShadowInsns

\* Instructions that stay in the guest: STI (whose shadow covers the next
\* instruction), CLI, IRET or POPF with the flag set, and any other.
GuestFlags(insn, flag, shade) ==
    /\ Executes(insn)
    /\ ief' = flag
    /\ shadow' = shade
    /\ UNCHANGED <<picVars, pc, kernelVars, intrVars, ioio, tlbVars, exit,
                   historyVars>>

GuestSti == ~ief /\ GuestFlags("sti", TRUE, TRUE)
GuestCli == ief /\ GuestFlags("cli", FALSE, FALSE)
GuestIret == ~ief /\ GuestFlags("other", TRUE, FALSE)
GuestNop == shadow /\ GuestFlags("nop", ief, FALSE)

\* #VMEXIT clears GIF and leaves the shadow in the VMCB.
VmExit(e) ==
    /\ pc' = "exit"
    /\ exit' = e
    /\ gif' = FALSE
    /\ UNCHANGED <<picVars, hostIF, handlers, subscribed, intrVars, ioio,
                   guestVars, tlbVars, historyVars>>

\* A hardware interrupt is not held back by the guest's flag (v_intr_masking)
\* nor by its shadow, and stays requested while GIF is clear.
GuestInterrupted ==
    /\ pc = "guest"
    /\ hostIF
    /\ IntrAsserted
    /\ VmExit(Exit("INTR"))

GuestHlt == Executes("hlt") /\ VmExit(Exit("HLT"))

GuestIo ==
    /\ Executes("io")
    /\ \E e \in {x \in Exits : x.code = "IOIO"} : VmExit(e)

\* "OTHER" stands for every exit code that handle_exit does not know, a nested
\* page fault for one.
GuestExits ==
    /\ Executes("other")
    /\ \E code \in GuestCodes : VmExit(Exit(code))

-----------------------------------------------------------------------------
(* handle_exit                                                             *)

\* The exit being handled; its handler begins by resetting tlb_control.
Handling(code) == pc = "exit" /\ exit.code = code

svm_vcpu_abort ==
    /\ pc' = "halted"
    /\ hostIF' = FALSE
    /\ tlb_control' = 0
    /\ exit' = Exit("none")
    /\ UNCHANGED <<picVars, gif, handlers, subscribed, intrVars, ioio, guestVars,
                   stale, historyVars>>

\* step_next_inst, and back to VMRUN with the chips as given.
Resume(chips) ==
    /\ pc' = "vmrun"
    /\ ioio' = chips
    /\ exit' = Exit("none")
    /\ UNCHANGED <<picVars, kernelVars, intrVars, guestVars, historyVars>>

\* Faulty variant: the virtual interrupt that the guest has not taken is
\* forgotten.
Faulty_SetBack == pending_irq

\* If the guest has not taken the virtual interrupt, its line is pending again.
SetBack == IF v_irq THEN pending_irq \cup {last_injected_irq} ELSE pending_irq

HandleIntr ==
    /\ Handling("INTR")
    /\ pending_irq' = SetBack
    /\ gif' = TRUE
    /\ pc' = "intr_open"
    /\ tlb_control' = 0
    /\ UNCHANGED <<picVars, hostIF, handlers, subscribed, last_injected_irq,
                   v_irq, v_intr_vector, ioio, guestVars, stale, exit,
                   historyVars>>

\* Faulty variant: GIF is left set.
Faulty_CloseGif == UNCHANGED gif

\* CLGI.
CloseGif == gif' = FALSE

\* The CLGI that follows the STGI executes once no interrupt is due.
HandleIntrClose ==
    /\ pc = "intr_open"
    /\ Quiet
    /\ CloseGif
    /\ inject_ext_intr
    /\ pc' = "vmrun"
    /\ exit' = Exit("none")
    /\ UNCHANGED <<picVars, hostIF, handlers, subscribed, ioio, guestVars,
                   tlbVars, historyVars>>

\* The condition of the loop in the HLT case, and what follows either outcome:
\* the instruction is over and its shadow is gone, or the host goes to sleep.
HandleHlt ==
    /\ Handling("HLT")
    /\ tlb_control' = 0
    /\ inject_ext_intr
    /\ \/ /\ Injectable
          /\ pc' = "vmrun"
          /\ shadow' = FALSE
          /\ exit' = Exit("none")
          /\ UNCHANGED gif
       \/ /\ ~Injectable
          /\ pc' = "hlt_open"
          /\ gif' = TRUE
          /\ UNCHANGED <<shadow, exit>>
    /\ UNCHANGED <<picVars, hostIF, handlers, subscribed, ioio, ief, stale,
                   historyVars>>

\* STGI has no shadow: an interrupt that is due comes before the hlt.
HltSleep ==
    /\ pc = "hlt_open"
    /\ Quiet
    /\ pc' = "hlt_sleep"
    /\ UNCHANGED <<picVars, kernelVars, vcpuVars>>

\* Faulty variant: the host goes back to sleep without looking again.
Faulty_HltClose ==
    /\ pc = "hlt_woken"
    /\ Quiet
    /\ pc' = "hlt_open"
    /\ UNCHANGED <<picVars, kernelVars, vcpuVars>>

\* CLGI after the hlt, and back to the condition of the loop.
HltClose ==
    /\ pc = "hlt_woken"
    /\ Quiet
    /\ CloseGif
    /\ pc' = "exit"
    /\ UNCHANGED <<picVars, hostIF, handlers, subscribed, vcpuVars>>

\* handle_svm_ioio_exit: what it means for the emulated chips; any other port
\* either changes nothing here or aborts (module SvmIoio).
HandleIoio ==
    LET c == exit.chip
        chip == ioio.pic[c]
        ok == CASE exit.port = "in" -> PicReadOk(chip)
                [] exit.port = "command" -> PicCommandOk(exit.byte)
                [] exit.port = "data" -> PicDataOk(c, chip, exit.byte)
                [] OTHER -> TRUE
        done == CASE exit.port = "command" ->
                       [ioio EXCEPT !.pic[c] = PicCommand(chip, exit.byte)]
                  [] exit.port = "data" ->
                       [ioio EXCEPT !.pic[c] = PicData(chip, exit.byte)]
                  [] OTHER -> ioio
    IN  /\ Handling("IOIO")
        /\ \/ ok /\ Resume(done) /\ tlb_control' = 0 /\ UNCHANGED stale
           \/ (~ok \/ exit.port = "none") /\ svm_vcpu_abort

\* Faulty variant: the flush request is reset like at any other exit.
Faulty_FlushRequest == 0

\* handle_wrmsr, EFER with LME or NXE set: all TLB entries are to be flushed.
FlushRequest == 3

\* handle_svm_msr_exit: an EFER write that needs a flush, any other register
\* that it knows, or an abort.
HandleMsr ==
    /\ Handling("MSR")
    /\ \/ Resume(ioio) /\ tlb_control' = FlushRequest /\ stale' = TRUE
       \/ Resume(ioio) /\ tlb_control' = 0 /\ UNCHANGED stale
       \/ svm_vcpu_abort

HandleCpuid ==
    /\ Handling("CPUID")
    /\ \/ Resume(ioio) /\ tlb_control' = 0 /\ UNCHANGED stale
       \/ svm_vcpu_abort

HandleVmmcall ==
    /\ Handling("VMMCALL")
    /\ Resume(ioio) /\ tlb_control' = 0 /\ UNCHANGED stale

HandleOther == Handling("OTHER") /\ svm_vcpu_abort

-----------------------------------------------------------------------------

Init ==
    /\ KernelInit
    /\ pending_irq = {}
    /\ last_injected_irq = 0
    /\ ioio = svm_ioio_guest_state_new
    /\ v_irq = FALSE
    /\ v_intr_vector = 0
    /\ ief = FALSE
    /\ shadow = FALSE
    /\ tlb_control = 0
    /\ exit = Exit("none")
    /\ stale = FALSE
    /\ owed = {}
    /\ served = 0

Boot == BootStep /\ UNCHANGED vcpuVars

Device(irq) == DeviceRaises(irq) /\ UNCHANGED vcpuVars

Halt == EndlessHalt /\ UNCHANGED vcpuVars

Guest ==
    \/ GuestSti \/ GuestCli \/ GuestIret \/ GuestNop
    \/ GuestHlt \/ GuestIo \/ GuestExits

handle_exit ==
    \/ HandleIntr \/ HandleIntrClose
    \/ HandleHlt \/ HltSleep \/ HltClose
    \/ HandleIoio \/ HandleMsr \/ HandleCpuid \/ HandleVmmcall \/ HandleOther

Next ==
    \/ Boot
    \/ \E i \in Lines : Device(i) \/ InterruptArrives(i)
    \/ itr_dispatch
    \/ VmRun
    \/ TakeVirq
    \/ Guest
    \/ GuestInterrupted
    \/ handle_exit
    \/ Halt

Spec == Init /\ [][Next]_vars

-----------------------------------------------------------------------------
(* Safety.                                                                 *)

\* The line of the virtual interrupt that is posted to the guest.
Posted == IF v_irq THEN {last_injected_irq} ELSE {}

\* No interrupt that YmirC took on behalf of the guest is dropped before the
\* guest has taken it, whatever the order of exits, interrupt windows and
\* injections: it is pending or it is posted (svm_vcpu.c:337-341).
NoIrqLost == owed \subseteq pending_irq \cup Posted

\* The guest is never given an interrupt that it has taken already: what is
\* pending or posted is owed to it, and a line that is posted while the guest
\* runs is not pending too (svm_vcpu.c:253-261, 337-341).
NoIrqDuplicated ==
    /\ pending_irq \cup Posted \subseteq owed
    /\ pc = "guest" => Posted \cap pending_irq = {}

\* inject_ext_intr and the update of pending_irq before the window read and
\* write what the callback writes; no interrupt can come between
\* (svm_vcpu.c:339-349, 356-360).
InjectionNotInterrupted ==
    pc \in {"exit", "vmrun"} => ~gif /\ inflight = NoIrq

\* From pic_init on, a line that the processor has taken has a handler
\* (main.c:81-91): the kernel never ends in unhandled_handler.
NoUnhandledLine ==
    inflight # NoIrq /\ pc \notin {"pic_init", "halted"}
        => handlers[VectorOf(inflight)] = "blob_irq_handler"

\* The guest never runs on translations that predate an EFER change which
\* asked for a flush (svm_msr.c:65-72, svm_vcpu.c:330).
NoStaleTranslation == pc = "guest" => ~stale

-----------------------------------------------------------------------------
(* The loop implements the abstract channel.                               *)

Channel == INSTANCE VirqChannel
             WITH Line <- AllLines, owed <- pending_irq \cup Posted

\* Every step of the machine notes one line, delivers one line that is owed, or
\* leaves the lines that are pending or posted alone (svm_vcpu.c:220-266,
\* 335-363, 386-394).
ImplementsChannel == Channel!Spec

-----------------------------------------------------------------------------
(* Liveness.  The processor executes YmirC, takes an interrupt that is     *)
(* requested, and runs the guest; the timer keeps ticking. Interrupts are  *)
(* served faster than they come (LoadBounded): blob_irq_handler is two     *)
(* port writes, and the devices are a timer and a serial line. For the     *)
(* same reason a window closes, and the guest gets past an STI and takes   *)
(* a virtual interrupt, although interrupts keep arriving (strong          *)
(* fairness). A guest that runs again and again with an interrupt          *)
(* requested is interrupted (strong fairness): the processor looks at its  *)
(* interrupt pin at every instruction boundary.                            *)

LoadBounded == []<>Quiet

Fairness ==
    /\ WF_vars(Device(irq_timer))
    /\ \A i \in Lines : WF_vars(InterruptArrives(i))
    /\ WF_vars(itr_dispatch)
    /\ WF_vars(VmRun)
    /\ SF_vars(TakeVirq)
    /\ SF_vars(GuestNop)
    /\ SF_vars(GuestInterrupted)
    /\ WF_vars(HandleIntr)
    /\ SF_vars(HandleIntrClose)
    /\ WF_vars(HandleHlt)
    /\ SF_vars(HltSleep)
    /\ SF_vars(HltClose)
    /\ WF_vars(HandleIoio \/ HandleMsr \/ HandleCpuid \/ HandleVmmcall
                \/ HandleOther)

LiveSpec == Spec /\ Fairness /\ LoadBounded

\* A guest that is asleep with an interrupt it can take is woken up, although
\* an interrupt noted between the STGI and the hlt does not itself end the
\* hlt (svm_vcpu.c:356-360).
HaltedGuestWakes ==
    (pc = "hlt_sleep" /\ Injectable) ~> (pc = "guest")

\* The guest's 8259 and flag let the timer through.
GuestOpen ==
    /\ ioio.pic["primary"].phase = "INITED"
    /\ ~Masked(irq_timer)
    /\ ief

\* A timer interrupt that is owed to a guest which stays open to it is
\* delivered, although YmirC injects only when the next interrupt or hlt takes
\* the guest out (svm_vcpu.c:349, 356).
OwedTimerDelivered ==
    (irq_timer \in owed) ~> (irq_timer \notin owed \/ ~GuestOpen \/ pc = "halted")

\* However the guest runs, a tick is taken by YmirC and noted, unless the guest
\* gets itself stopped (svm_vcpu.c:336-349, pic.c:85-93).
TickNoted ==
    (irq_timer \in irr /\ pc = "guest") ~> (irq_timer \in owed \/ pc = "halted")

=============================================================================
