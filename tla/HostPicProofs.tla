---------------------------- MODULE HostPicProofs ----------------------------
(***************************************************************************)
(* For lines of the primary chip notify_eoi is right, however many there     *)
(* are and whoever masks and unmasks them: proof of NothingLeftInService of *)
(* HostPic.  For lines of the secondary chip it does not hold.             *)
(***************************************************************************)
EXTENDS HostPic, TLAPS

\* The devices are attached to the primary chip.
OnPrimary == Lines \subseteq 0 .. 7

\* A line is in service while its own routine runs, and no other is.
InService ==
    /\ PicTypeOK
    /\ isr = IF inflight = NoIrq THEN {} ELSE {inflight}

\* The specific EOI of a line of the primary chip retires this line.
LEMMA EoiRetires ==
    ASSUME NEW irq \in 0 .. 7
    PROVE  SpecificEoi({irq}, irq, delta(irq)) = {}
<1>1. irq \in ChipOf(irq)
  BY DEF ChipOf, AllLines
<1> QED BY <1>1 DEF SpecificEoi

\* The chips start with nothing in service.
LEMMA InServiceInit == PicInit => InService
BY DEF PicInit, InService, PicTypeOK

\* Every step keeps the invariant, if the devices are on the primary chip.
LEMMA InServiceStep ==
    ASSUME OnPrimary, InService, [PicNext]_picVars
    PROVE  InService'
<1> USE LinesAssumption
<1>1. CASE CallPicInit
  BY <1>1 DEF CallPicInit, pic_init, InService, PicTypeOK
<1>2. ASSUME NEW i \in Lines \cup {irq_secondary}, CallSetMask(i) \/ CallUnsetMask(i)
      PROVE  InService'
  <2>1. i \in AllLines
    BY DEF AllLines, irq_secondary
  <2> QED
    BY <1>2, <2>1 DEF CallSetMask, CallUnsetMask, set_mask, unset_mask, InService, PicTypeOK
<1>3. ASSUME NEW i \in Lines, Raise(i)
      PROVE  InService'
  BY <1>3 DEF Raise, InService, PicTypeOK
<1>4. ASSUME NEW i \in Lines, Acknowledge(i)
      PROVE  InService'
  <2>1. i \in AllLines /\ i # NoIrq
    OBVIOUS
  <2>2. PrimaryInput(i) = i
    BY DEF OnPrimary, PrimaryInput, is_primary
  <2>3. isr' = {i} /\ inflight' = i
    BY <1>4, <2>2 DEF Acknowledge, InService
  <2> QED BY <1>4, <2>1, <2>3 DEF Acknowledge, InService, PicTypeOK
<1>5. CASE ServiceDone
  <2>1. inflight \in 0 .. 7 /\ is_primary(inflight) /\ isr = {inflight}
    BY <1>5 DEF ServiceDone, InService, PicTypeOK, OnPrimary, is_primary
  <2>2. isr' = {}
    BY <1>5, <2>1, EoiRetires DEF ServiceDone, notify_eoi
  <2> QED BY <1>5, <2>2 DEF ServiceDone, notify_eoi, InService, PicTypeOK
<1>6. CASE UNCHANGED picVars
  BY <1>6 DEF picVars, InService, PicTypeOK
<1> QED BY <1>1, <1>2, <1>3, <1>4, <1>5, <1>6 DEF PicNext

\* With devices on the primary chip only, no line stays in service when no
\* service routine runs, for every such set of lines and every use of the masks
\* (pic.c:85-93).
THEOREM NothingLeftCorrect ==
    ASSUME OnPrimary
    PROVE  PicSpec => []NothingLeftInService
<1>1. InService => NothingLeftInService
  BY DEF InService, NothingLeftInService
<1>2. InService /\ [PicNext]_picVars => InService'
  BY InServiceStep
<1> QED BY <1>1, <1>2, InServiceInit, PTL DEF PicSpec

=============================================================================
