----------------------------- MODULE IoioState -----------------------------
(***************************************************************************)
(* The I/O state that YmirC keeps for the guest (svm_ioio_guest_state.h)   *)
(* and what the handlers of svm_ioio.c make of it.                         *)
(*                                                                         *)
(* The two emulated 8259 chips differ in nothing but the identity that     *)
(* ICW3 must carry, so the state holds one record per chip where the C     *)
(* structure has primary_mask, secondary_mask and so on.                   *)
(***************************************************************************)
EXTENDS Bits

Chips == {"primary", "secondary"}

Phases == {"UNINITIALIZED", "PHASE1", "PHASE2", "PHASE3", "INITED"}

Chip == [mask : Byte, phase : Phases, base : Byte]

SvmIoioGuestState == [ier : Byte, mcr : Byte, pic : [Chips -> Chip]]

svm_ioio_guest_state_new ==
    [ier |-> 0, mcr |-> 0,
     pic |-> [c \in Chips |->
                [mask |-> 255, phase |-> "UNINITIALIZED", base |-> 0]]]

-----------------------------------------------------------------------------
(* handle_pic_in and handle_pic_out, one chip at a time.                   *)

ICW1 == 17                                  \* 0x11
SpecificEoiCommand == 96 .. 103             \* 0x60 ... 0x67

\* What ICW3 must be: the cascade input of the primary chip as a bit, the
\* cascade identity of the secondary chip.
CascadeId(c) == IF c = "primary" THEN 4 ELSE 2

\* A write to the command port that the handler knows.
PicCommandOk(dx) == dx = ICW1 \/ dx \in SpecificEoiCommand

\* Faulty variant: only a chip that was never set up accepts ICW1.
Faulty_PicCommand(chip, dx) ==
    IF dx = ICW1 /\ chip.phase = "UNINITIALIZED"
    THEN [chip EXCEPT !.phase = "PHASE1"] ELSE chip

\* ICW1 starts the initialization over, from any phase, and leaves mask and
\* vector base as they are.  The guest's EOI is dropped: YmirC sends it.
PicCommand(chip, dx) ==
    IF dx = ICW1 THEN [chip EXCEPT !.phase = "PHASE1"] ELSE chip

\* A write to the data port that the handler accepts in the chip's phase.
PicDataOk(c, chip, dx) == chip.phase = "PHASE2" => dx = CascadeId(c)

\* Faulty variant: the phase is counted up with every byte after ICW1, a mask
\* included, and so past the last one of the enumeration.
Faulty_PicData(chip, dx) ==
    CASE chip.phase = "PHASE1" -> [chip EXCEPT !.base = dx, !.phase = "PHASE2"]
      [] chip.phase = "PHASE2" -> [chip EXCEPT !.phase = "PHASE3"]
      [] chip.phase = "PHASE3" -> [chip EXCEPT !.phase = "INITED"]
      [] chip.phase = "INITED" -> [chip EXCEPT !.mask = dx, !.phase = "INITED + 1"]
      [] OTHER -> [chip EXCEPT !.mask = dx]

\* The same port carries ICW2, ICW3, ICW4 and, outside the sequence, OCW1.
PicData(chip, dx) ==
    CASE chip.phase = "PHASE1" -> [chip EXCEPT !.base = dx, !.phase = "PHASE2"]
      [] chip.phase = "PHASE2" -> [chip EXCEPT !.phase = "PHASE3"]
      [] chip.phase = "PHASE3" -> [chip EXCEPT !.phase = "INITED"]
      [] OTHER -> [chip EXCEPT !.mask = dx]

\* The data port can be read outside the sequence only.
PicReadOk(chip) == chip.phase \in {"UNINITIALIZED", "INITED"}

=============================================================================
