----------------------------- MODULE VirqChannel -----------------------------
(***************************************************************************)
(* What YmirC promises about the interrupts that it takes on behalf of the  *)
(* guest (the comment above intr_subscriber_callback calls it "sharing"     *)
(* them): the lines it has taken are owed to the guest, requests on a line  *)
(* that is owed already coalesce as they would in an 8259, and the only way *)
(* to settle a line is to deliver it, once.  served flips with every        *)
(* delivery, so that a delivery cannot be confused with a loss.             *)
(***************************************************************************)
EXTENDS Integers

CONSTANT Line

VARIABLES owed, served

TypeOK == owed \in SUBSET Line /\ served \in {0, 1}

Note(irq) ==
    /\ owed' = owed \cup {irq}
    /\ UNCHANGED served

Deliver(irq) ==
    /\ irq \in owed
    /\ owed' = owed \ {irq}
    /\ served' = 1 - served

Init == owed = {} /\ served = 0

Next == \E irq \in Line : Note(irq) \/ Deliver(irq)

Spec == Init /\ [][Next]_<<owed, served>>

=============================================================================
