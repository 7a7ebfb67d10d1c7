----------------------------- MODULE IoioProofs -----------------------------
(***************************************************************************)
(* The operators of IoioState keep the widths of the registers that they    *)
(* write: lemmas for the proofs about SvmIoio and Vcpu.                     *)
(***************************************************************************)
EXTENDS IoioState, TLAPS

\* A write to the command port leaves a chip.
LEMMA PicCommandType ==
    ASSUME NEW chip \in Chip, NEW dx \in Byte
    PROVE  PicCommand(chip, dx) \in Chip
BY DEF PicCommand, Chip, Phases

\* So does one to the data port, in any phase.
LEMMA PicDataType ==
    ASSUME NEW chip \in Chip, NEW dx \in Byte
    PROVE  PicData(chip, dx) \in Chip
<1>1. CASE chip.phase = "PHASE1"
  <2>1. PicData(chip, dx) = [chip EXCEPT !.base = dx, !.phase = "PHASE2"]
    BY <1>1 DEF PicData
  <2> QED BY <2>1 DEF Chip, Phases
<1>2. CASE chip.phase = "PHASE2"
  BY <1>2 DEF PicData, Chip, Phases
<1>3. CASE chip.phase = "PHASE3"
  BY <1>3 DEF PicData, Chip, Phases
<1>4. CASE chip.phase \notin {"PHASE1", "PHASE2", "PHASE3"}
  BY <1>4 DEF PicData, Chip, Phases
<1> QED BY <1>1, <1>2, <1>3, <1>4

\* The state with one chip replaced is a state.
LEMMA ChipsType ==
    ASSUME NEW s \in SvmIoioGuestState, NEW c \in Chips, NEW chip \in Chip
    PROVE  [s EXCEPT !.pic[c] = chip] \in SvmIoioGuestState
BY DEF SvmIoioGuestState

=============================================================================
