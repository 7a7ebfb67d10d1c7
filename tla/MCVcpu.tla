------------------------------- MODULE MCVcpu -------------------------------
(* Instances of Vcpu for TLC.                                              *)
EXTENDS Vcpu

\* The firmware has masked everything, or has left the timer on.
MCFirmwareMasks == {AllLines, AllLines \ {irq_timer}}

\* The 8259 as every firmware that hands over with interrupts off leaves it.
MCAllMasked == {AllLines}

=============================================================================
