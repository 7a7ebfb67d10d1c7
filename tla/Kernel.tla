------------------------------- MODULE Kernel -------------------------------
(***************************************************************************)
(* The host side of the interrupt path: kernel_main up to the launch of    *)
(* the guest (ymirc/main.c), and the dispatch of a hardware interrupt by    *)
(* ymirc/arch/x86/interrupt.c.  One processor runs all of it, so pc is the  *)
(* place in kernel_main or in the vCPU loop that the processor has reached; *)
(* an interrupt suspends that place (inflight # NoIrq) until its service    *)
(* routine returns.                                                        *)
(*                                                                         *)
(* The vCPU loop itself, to which pc = "vmrun" belongs, is module Vcpu.     *)
(***************************************************************************)
EXTENDS HostPic

CONSTANT FirmwareMasks   \* the masks that the firmware may leave behind

ASSUME FirmwareAssumption == FirmwareMasks \subseteq SUBSET AllLines

VARIABLES
    pc,           \* the place the processor has reached
    hostIF,       \* the interrupt flag of the host
    gif,          \* the global interrupt flag (STGI / CLGI)
    handlers,     \* interrupt.c handlers[], for the vectors of the two chips
    subscribed    \* svm_vcpu_loop has put its callback into subscribers[]

kernelVars == <<hostIF, gif, handlers, subscribed>>

BootPlaces == {"arch_init", "pic_init", "register_timer", "unmask_timer",
               "register_serial", "unmask_serial", "vm_new", "vm_setup",
               "vm_loop", "subscribe"}

primary_vector_offset == 32

\* pic_init gives the secondary chip the vectors that follow the primary's.
VectorOf(irq) == primary_vector_offset + irq
PicVectors == {VectorOf(i) : i \in AllLines}

KernelTypeOK ==
    /\ hostIF \in BOOLEAN
    /\ gif \in BOOLEAN
    /\ handlers \in [PicVectors -> {"unhandled_handler", "blob_irq_handler"}]
    /\ subscribed \in BOOLEAN

-----------------------------------------------------------------------------
(* kernel_main, one step per call that the interrupt path can tell apart.  *)

Goto(from, to) == inflight = NoIrq /\ pc = from /\ pc' = to

\* itr_init: every gate is open, no vector has a handler, interrupts are on.
ArchInit ==
    /\ Goto("arch_init", "pic_init")
    /\ handlers' = [v \in PicVectors |-> "unhandled_handler"]
    /\ hostIF' = TRUE
    /\ UNCHANGED <<irr, isr, imr, inflight, gif, subscribed>>

\* pic_init runs between disable_intr and enable_intr.
InitializePic ==
    /\ Goto("pic_init", "register_timer")
    /\ pic_init
    /\ hostIF' = TRUE
    /\ UNCHANGED <<inflight, gif, handlers, subscribed>>

register_handler(irq) ==
    /\ handlers' = [handlers EXCEPT ![VectorOf(irq)] = "blob_irq_handler"]
    /\ UNCHANGED <<irr, isr, imr, inflight, hostIF, gif, subscribed>>

Unmask(irq) ==
    /\ unset_mask(irq)
    /\ UNCHANGED <<inflight, hostIF, gif, handlers, subscribed>>

\* Faulty variant: the timer is unmasked before its handler is registered.
Faulty_EnableTimer ==
    \/ Goto("register_timer", "unmask_timer") /\ Unmask(irq_timer)
    \/ Goto("unmask_timer", "register_serial") /\ register_handler(irq_timer)

EnableTimer ==
    \/ Goto("register_timer", "unmask_timer") /\ register_handler(irq_timer)
    \/ Goto("unmask_timer", "register_serial") /\ Unmask(irq_timer)

EnableSerial ==
    \/ Goto("register_serial", "unmask_serial") /\ register_handler(irq_serial1)
    \/ Goto("unmask_serial", "vm_new") /\ Unmask(irq_serial1)

\* The processor may not support SVM; kernel_main then ends in a hlt loop that
\* still serves interrupts.
VmNew ==
    /\ Goto("vm_new", "vm_setup") \/ Goto("vm_new", "end_of_life")
    /\ UNCHANGED <<picVars, kernelVars>>

\* vm_init and setup_guest_memory touch nothing of the interrupt path; each of
\* them panics when an allocation or a size check fails.
VmSetup ==
    \/ /\ Goto("vm_setup", "vm_loop")
       /\ UNCHANGED <<picVars, kernelVars>>
    \/ /\ Goto("vm_setup", "halted")
       /\ hostIF' = FALSE
       /\ UNCHANGED <<picVars, gif, handlers, subscribed>>

\* vm_loop executes CLGI first.
VmLoop ==
    /\ Goto("vm_loop", "subscribe")
    /\ gif' = FALSE
    /\ UNCHANGED <<picVars, hostIF, handlers, subscribed>>

\* svm_vcpu_loop is the only subscriber, so a free slot is always found.
Subscribe ==
    /\ Goto("subscribe", "vmrun")
    /\ subscribed' = TRUE
    /\ UNCHANGED <<picVars, hostIF, gif, handlers>>

BootStep ==
    \/ ArchInit \/ InitializePic \/ EnableTimer \/ EnableSerial
    \/ VmNew \/ VmSetup \/ VmLoop \/ Subscribe

-----------------------------------------------------------------------------
(* Interrupts.                                                             *)

\* The processor is in the host and would take an interrupt now.
InterruptsOpen == hostIF /\ gif /\ inflight = NoIrq /\ pc # "guest"

\* Nothing that the processor would have to take first.
Quiet == inflight = NoIrq /\ ~(InterruptsOpen /\ IntrAsserted)

\* The processor takes the interrupt: acknowledge cycle, interrupt gate (which
\* clears the flag), and out of a hlt.
Accept(irq) ==
    /\ InterruptsOpen
    /\ Acknowledge(irq)
    /\ hostIF' = FALSE
    /\ pc' = IF pc = "hlt_sleep" THEN "hlt_woken" ELSE pc
    /\ UNCHANGED <<gif, handlers, subscribed>>

\* itr_dispatch for the interrupt in flight, after the callbacks: the handler
\* and the return from the interrupt.  unhandled_handler never returns, so the
\* interrupt stays in flight.
RunHandler ==
    \/ /\ handlers[VectorOf(inflight)] = "blob_irq_handler"
       /\ notify_eoi(inflight)
       /\ inflight' = NoIrq
       /\ hostIF' = TRUE
       /\ UNCHANGED <<pc, gif, handlers, subscribed>>
    \/ /\ handlers[VectorOf(inflight)] = "unhandled_handler"
       /\ pc' = "halted"
       /\ UNCHANGED <<picVars, kernelVars>>

DeviceRaises(irq) ==
    /\ Raise(irq)
    /\ UNCHANGED <<pc, kernelVars>>

\* endless_halt: a hlt loop with interrupts off.
EndlessHalt ==
    /\ pc = "halted"
    /\ UNCHANGED <<picVars, pc, kernelVars>>

KernelInit ==
    /\ irr = {} /\ isr = {} /\ imr \in FirmwareMasks /\ inflight = NoIrq
    /\ pc = "arch_init"
    /\ hostIF = FALSE /\ gif = TRUE
    /\ handlers = [v \in PicVectors |-> "unhandled_handler"]
    /\ subscribed = FALSE

=============================================================================
