------------------------------ MODULE HostPic ------------------------------
(***************************************************************************)
(* ymirc/arch/x86/pic.c and the pair of 8259 chips it programs.            *)
(*                                                                         *)
(* Line 0..7 belong to the primary chip, 8..15 to the secondary one, which *)
(* is wired to input 2 of the primary (pic.h IrqLine).  The chips are       *)
(* hardware: their request, in-service and mask registers are the sets     *)
(* irr, isr and imr of lines, and what a chip does is modelled from how     *)
(* pic.c programs it: edge triggered (ICW1 without LEVEL), fully nested     *)
(* (ICW4 without SFNM) and without automatic EOI (ICW4 without AUTO), so    *)
(* that a line stays in service until a specific EOI names it.             *)
(***************************************************************************)
EXTENDS Integers

CONSTANTS
    Lines,        \* the lines to which a device is attached
    NoIrq         \* "no interrupt is being serviced"

AllLines == 0 .. 15
irq_timer == 0
irq_secondary == 2
irq_serial1 == 4

\* No device is attached to the cascade input.
ASSUME LinesAssumption == /\ Lines \subseteq AllLines \ {irq_secondary}
                          /\ NoIrq \notin AllLines

VARIABLES
    irr,          \* lines with a latched request
    isr,          \* lines in service
    imr,          \* masked lines
    inflight      \* the line whose service routine the CPU is running

picVars == <<irr, isr, imr, inflight>>

PicTypeOK ==
    /\ irr \in SUBSET Lines
    /\ isr \in SUBSET AllLines
    /\ imr \in SUBSET AllLines
    /\ inflight \in Lines \cup {NoIrq}

is_primary(irq) == irq < 8

\* Position of the line on its own chip.
delta(irq) == IF is_primary(irq) THEN irq ELSE irq - 8

\* The lines of the chip that serves irq.
ChipOf(irq) == {i \in AllLines : is_primary(i) <=> is_primary(irq)}

-----------------------------------------------------------------------------
(* The hardware.                                                           *)

\* The input of the primary chip through which the line requests service.
PrimaryInput(irq) == IF is_primary(irq) THEN irq ELSE irq_secondary

\* Fully nested mode: an input is served only if it outranks, on every chip it
\* passes through, whatever is in service there.
Requesting(irq) ==
    /\ irq \in irr \ imr
    /\ \A s \in isr : is_primary(s) => PrimaryInput(irq) < s
    /\ ~is_primary(irq) => /\ irq_secondary \notin imr
                           /\ \A s \in isr : ~is_primary(s) => irq < s

\* i is served before j.
Outranks(i, j) ==
    \/ PrimaryInput(i) < PrimaryInput(j)
    \/ PrimaryInput(i) = PrimaryInput(j) /\ i <= j

\* The line that the next interrupt-acknowledge cycle would report.
Deliverable(irq) ==
    /\ Requesting(irq)
    /\ \A j \in Lines : Requesting(j) => Outranks(irq, j)

\* The INTR pin of the CPU.
IntrAsserted == \E i \in Lines : Deliverable(i)

\* A device raises its line; the request is latched.
Raise(irq) ==
    /\ irq \notin irr
    /\ irr' = irr \cup {irq}
    /\ UNCHANGED <<isr, imr, inflight>>

\* The interrupt-acknowledge cycle: the request is cleared, the line (and the
\* cascade input, for a line of the secondary chip) is in service, and the CPU
\* enters the service routine.
Acknowledge(irq) ==
    /\ inflight = NoIrq
    /\ Deliverable(irq)
    /\ irr' = irr \ {irq}
    /\ isr' = isr \cup {irq, PrimaryInput(irq)}
    /\ inflight' = irq
    /\ UNCHANGED imr

\* A specific EOI with level lvl, written to the command port of irq's chip.
SpecificEoi(in_service, irq, lvl) ==
    {i \in in_service : ~(i \in ChipOf(irq) /\ delta(i) = lvl)}

-----------------------------------------------------------------------------
(* pic.c                                                                   *)

pic_init ==
    /\ irr' = {}
    /\ isr' = {}
    /\ imr' = AllLines

set_mask(irq) ==
    /\ imr' = imr \cup {irq}
    /\ UNCHANGED <<irr, isr>>

unset_mask(irq) ==
    /\ imr' = imr \ {irq}
    /\ UNCHANGED <<irr, isr>>

\* Faulty variant: a non-specific slip, the level names the next input.
Faulty_notify_eoi(irq) ==
    /\ isr' = SpecificEoi(isr, irq, delta(irq) + 1)
    /\ UNCHANGED <<irr, imr>>

\* The second EOI of a secondary line also goes to command_port(irq), the
\* command port of the secondary chip.
notify_eoi(irq) ==
    /\ isr' = LET own == SpecificEoi(isr, irq, delta(irq))
              IN  IF is_primary(irq) THEN own
                  ELSE SpecificEoi(own, irq, irq_secondary)
    /\ UNCHANGED <<irr, imr>>

-----------------------------------------------------------------------------
(* The interface of pic.c under an arbitrary caller: any line may be masked *)
(* or unmasked at any time, and every service routine ends with            *)
(* notify_eoi.  The kernel's own use of it is module Kernel.               *)

CallPicInit ==
    /\ inflight = NoIrq
    /\ pic_init
    /\ UNCHANGED inflight

CallSetMask(irq) ==
    /\ irq \notin imr
    /\ set_mask(irq)
    /\ UNCHANGED inflight

CallUnsetMask(irq) ==
    /\ irq \in imr
    /\ unset_mask(irq)
    /\ UNCHANGED inflight

ServiceDone ==
    /\ inflight # NoIrq
    /\ notify_eoi(inflight)
    /\ inflight' = NoIrq

PicInit ==
    /\ irr = {}
    /\ isr = {}
    /\ imr = AllLines
    /\ inflight = NoIrq

PicNext ==
    \/ CallPicInit
    \/ \E i \in Lines \cup {irq_secondary} : CallSetMask(i) \/ CallUnsetMask(i)
    \/ \E i \in Lines : Raise(i) \/ Acknowledge(i)
    \/ ServiceDone

\* The CPU leaves a service routine, and it takes an interrupt that stays
\* deliverable.
PicFairness ==
    /\ WF_picVars(ServiceDone)
    /\ \A i \in Lines : WF_picVars(Acknowledge(i))

PicSpec == PicInit /\ [][PicNext]_picVars

PicLiveSpec == PicSpec /\ PicFairness

-----------------------------------------------------------------------------

\* notify_eoi retires exactly what the acknowledge cycle put in service: when
\* no service routine runs, no line is left in service on either chip, so no
\* line is shut out for good (pic.c:85-93).
NothingLeftInService == inflight = NoIrq => isr = {}

\* A request that the caller leaves unmasked, and that nothing of a higher
\* priority competes with, is eventually served (pic.c:85-93): an in-service bit
\* that is never retired would block it for ever.
HighestRequestServed ==
    \A i \in Lines :
        []<>(\/ i \notin irr \/ i \in imr
             \/ ~is_primary(i) /\ irq_secondary \in imr
             \/ \E j \in Lines \ {i} : j \in irr \ imr /\ Outranks(j, i))

=============================================================================
