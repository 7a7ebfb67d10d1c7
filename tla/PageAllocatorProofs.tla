------------------------- MODULE PageAllocatorProofs -------------------------
(***************************************************************************)
(* The page allocator is correct for every memory map, every size of        *)
(* memory and every sequence of calls: proofs of the safety properties of   *)
(* PageAllocator.                                                          *)
(***************************************************************************)
EXTENDS PageAllocator, NaturalsInduction, WellFoundedInduction, TLAPS

-----------------------------------------------------------------------------
(* Facts about one turn of the loop of page_allocator_init.                *)

\* The descriptor that the loop is at.
LEMMA DescriptorType ==
    ASSUME TypeOK, next <= Len(map)
    PROVE  /\ map[next] \in Descriptor
           /\ map[next].start \in Nat
           /\ map[next].pages \in Nat \ {0}
           /\ next \in DOMAIN map
<1>1. map \in Seq(Descriptor)
  BY AllocatorAssumption DEF TypeOK, WellFormedMap
<1>2. next \in DOMAIN map
  BY <1>1 DEF TypeOK
<1>3. map[next] \in Descriptor
  BY <1>1, <1>2
<1> QED
  BY <1>2, <1>3 DEF Descriptor

\* What one turn of the loop reserves is a list of at most two regions.
LEMMA ReservesType ==
    ASSUME TypeOK, InitBelowLimit, pc = "init",
           NEW d, d.start \in Nat, d.pages \in Nat \ {0}
    PROVE  Reserves(d) \in Seq(Block)
<1>2. phys_end \in Nat /\ FrameCount \in Nat /\ phys_end < FrameCount
  BY AllocatorAssumption DEF TypeOK, InitBelowLimit
<1>3. Hole(d) \in Seq(Block)
  <2>1. phys_end < d.start =>
          [frame |-> phys_end, num |-> d.start - phys_end] \in Block
    BY <1>2 DEF Block
  <2> QED
    BY <2>1 DEF Hole
<1>4. Whole(d) \in Block
  BY DEF Whole, Block
<1>5. CutOff(phys_end) \in Block
  BY <1>2 DEF CutOff, Block
<1>6. ~BeyondMemory(d) => CutOff(d.start) \in Block
  BY <1>2 DEF CutOff, Block, BeyondMemory
<1>7. CASE BeyondMemory(d)
  BY <1>5, <1>7 DEF Reserves
<1>8. CASE ~BeyondMemory(d)
  <2>1. Hole(d) \o <<CutOff(d.start)>> \in Seq(Block)
    BY <1>8, <1>3, <1>6
  <2>2. Hole(d) \o <<Whole(d)>> \in Seq(Block)
    BY <1>3, <1>4
  <2> QED
    BY <1>8, <2>1, <2>2, <1>3 DEF Reserves
<1> QED
  BY <1>7, <1>8

\* The frames of regions are numbers.
LEMMA FramesOfType ==
    ASSUME NEW regions \in Seq(Block)
    PROVE  FramesOf(regions) \subseteq Nat
<1>1. SUFFICES ASSUME NEW k \in DOMAIN regions
               PROVE  Frames(regions[k].frame, regions[k].num) \subseteq Nat
  BY DEF FramesOf
<1>2. regions[k] \in Block
  OBVIOUS
<1>3. regions[k].frame \in Nat /\ regions[k].num \in Nat
  BY <1>2 DEF Block
<1> QED
  BY <1>3 DEF Frames

-----------------------------------------------------------------------------
(* Type correctness.                                                       *)

\* The allocator starts with variables of their types.
LEMMA TypeInit == Init => TypeOK /\ InitBelowLimit
BY AllocatorAssumption DEF Init, TypeOK, InitBelowLimit, NULL, Block

\* Every step keeps them.
LEMMA TypeStep ==
    ASSUME TypeOK, InitBelowLimit, [Next]_vars
    PROVE  TypeOK' /\ InitBelowLimit'
<1> USE AllocatorAssumption
<1>1. CASE InitDescriptor
  <2>1. next <= Len(map) /\ pc = "init"
    BY <1>1 DEF InitDescriptor
  <2>2. PICK d : d = map[next]
    OBVIOUS
  <2>3. d.start \in Nat /\ d.pages \in Nat \ {0}
    BY <2>1, <2>2, DescriptorType
  <2>4. Reserves(d) \in Seq(Block)
    BY <2>1, <2>3, ReservesType
  <2>5. reserved' \in Seq(Block)
    BY <1>1, <2>2, <2>4 DEF InitDescriptor, mark_uefi_reserved, TypeOK
  <2>6. used' \in SUBSET Nat
    BY <1>1, <2>2, <2>4, FramesOfType
       DEF InitDescriptor, mark_uefi_reserved, TypeOK
  <2>7. /\ phys_end' \in Nat /\ avail_end' \in Nat /\ next' \in Nat \ {0}
        /\ frame_end' \in Nat /\ pc' \in {"init", "idle"}
        /\ InitBelowLimit'
    BY <1>1, <2>1, <2>2, <2>3
       DEF InitDescriptor, TypeOK, InitBelowLimit, ReachesEnd
  <2> QED
    BY <1>1, <2>5, <2>6, <2>7 DEF InitDescriptor, TypeOK, searchVars
<1>2. CASE InitPanics
  BY <1>2 DEF InitPanics, TypeOK, InitBelowLimit, initVars, searchVars
<1>3. CASE InitDone
  BY <1>3 DEF InitDone, TypeOK, InitBelowLimit, searchVars
<1>4. ASSUME NEW num \in Requests, CallAlloc(num)
      PROVE  TypeOK' /\ InitBelowLimit'
  BY <1>4 DEF CallAlloc, Search, TypeOK, InitBelowLimit, initVars, frame_begin,
              NULL
<1>5. ASSUME NEW num \in Requests, NEW align \in Alignments,
             CallAllocAligned(num, align)
      PROVE  TypeOK' /\ InitBelowLimit'
  BY <1>5 DEF CallAllocAligned, Search, TypeOK, InitBelowLimit, initVars, NULL
<1>6. CASE CallMisaligned
  BY <1>6 DEF CallMisaligned, TypeOK, InitBelowLimit, initVars, searchVars, NULL
<1>7. CASE SearchFails
  BY <1>7 DEF SearchFails, Return, TypeOK, InitBelowLimit, initVars, searchVars,
              NULL
<1>8. CASE SearchAdvances
  BY <1>8 DEF SearchAdvances, Searching, TypeOK, InitBelowLimit, initVars
<1>9. CASE AllocSkips
  BY <1>9 DEF AllocSkips, AllocNext, TypeOK, InitBelowLimit, initVars
<1>10. CASE AlignedSkips
  BY <1>10 DEF AlignedSkips, AlignedNext, Return, TypeOK, InitBelowLimit,
               initVars, NULL
<1>11. CASE SearchSucceeds
  <2>1. used' \in SUBSET Nat
    BY <1>11 DEF SearchSucceeds, TypeOK, mark_allocated, Frames
  <2>2. live' \in SUBSET Block
    BY <1>11 DEF SearchSucceeds, TypeOK, Block
  <2> QED
    BY <1>11, <2>1, <2>2
       DEF SearchSucceeds, Return, TypeOK, InitBelowLimit, initVars, searchVars
<1>12. ASSUME NEW b \in live, Free(b)
       PROVE  TypeOK' /\ InitBelowLimit'
  BY <1>12 DEF Free, mark_not_used, TypeOK, InitBelowLimit, initVars, searchVars,
               NULL
<1>13. ASSUME NEW b \in live, FreePanics(b)
       PROVE  TypeOK' /\ InitBelowLimit'
  BY <1>13 DEF FreePanics, TypeOK, InitBelowLimit, initVars, searchVars
<1>14. CASE UNCHANGED vars
  BY <1>14 DEF vars, TypeOK, InitBelowLimit
<1> QED
  BY <1>1, <1>2, <1>3, <1>4, <1>5, <1>6, <1>7, <1>8, <1>9, <1>10, <1>11, <1>12,
     <1>13, <1>14 DEF Next, Call, Step

\* Every variable of the allocator keeps its type, whatever the memory map; in
\* particular no region that page_allocator_init reserves has a negative size
\* (page_allocator.c:127-161).
THEOREM TypeCorrect == Spec => [](TypeOK /\ InitBelowLimit)
<1>1. TypeOK /\ InitBelowLimit /\ [Next]_vars => TypeOK' /\ InitBelowLimit'
  BY TypeStep
<1> QED
  BY TypeInit, <1>1, PTL DEF Spec

-----------------------------------------------------------------------------
(* page_allocator_init leaves no frame unaccounted for.                    *)

\* A frame of one of the regions is a frame of the regions.
LEMMA InFramesOf ==
    ASSUME NEW regions, NEW k \in DOMAIN regions,
           NEW f \in Frames(regions[k].frame, regions[k].num)
    PROVE  f \in FramesOf(regions)
BY DEF FramesOf

\* A turn that does not end the loop reserves the hole before the descriptor.
LEMMA HoleReserved ==
    ASSUME TypeOK, NEW d, d.start \in Nat, d.pages \in Nat \ {0},
           ~BeyondMemory(d), ~ReachesEnd(d),
           NEW f \in Nat, phys_end <= f, f < d.start
    PROVE  f \in FramesOf(Reserves(d))
<1> DEFINE hole == [frame |-> phys_end, num |-> d.start - phys_end]
<1>1. phys_end \in Nat
  BY DEF TypeOK
<1>2. Hole(d) = <<hole>>
  BY <1>1 DEF Hole
<1>3. Reserves(d) = <<hole>> \/ Reserves(d) = <<hole>> \o <<Whole(d)>>
  BY <1>2 DEF Reserves
<1>4. 1 \in DOMAIN Reserves(d) /\ Reserves(d)[1] = hole
  <2> HIDE DEF hole
  <2> QED
    BY <1>3
<1>5. f \in Frames(hole.frame, hole.num)
  BY <1>1 DEF Frames
<1> QED
  BY <1>4, <1>5, InFramesOf

\* A turn that does not end the loop reserves the whole of a descriptor that
\* the kernel may not use.
LEMMA WholeReserved ==
    ASSUME TypeOK, NEW d, d.start \in Nat, d.pages \in Nat \ {0},
           ~BeyondMemory(d), ~ReachesEnd(d), ~is_usable_memory(d),
           NEW f \in Frames(d.start, d.pages)
    PROVE  f \in FramesOf(Reserves(d))
<1>1. Reserves(d) = Hole(d) \o <<Whole(d)>>
  BY DEF Reserves
<1>2. Hole(d) = <<>>
      \/ Hole(d) = <<[frame |-> phys_end, num |-> d.start - phys_end]>>
  BY DEF Hole
<1>3. PICK k \in DOMAIN Reserves(d) : Reserves(d)[k] = Whole(d)
  <2>1. CASE Hole(d) = <<>>
    <3>1. 1 \in DOMAIN Reserves(d) /\ Reserves(d)[1] = Whole(d)
      BY <1>1, <2>1
    <3> QED
      BY <3>1
  <2>2. CASE Hole(d) = <<[frame |-> phys_end, num |-> d.start - phys_end]>>
    <3>1. 2 \in DOMAIN Reserves(d) /\ Reserves(d)[2] = Whole(d)
      BY <1>1, <2>2
    <3> QED
      BY <3>1
  <2> QED
    BY <1>2, <2>1, <2>2
<1>4. f \in Frames(Reserves(d)[k].frame, Reserves(d)[k].num)
  BY <1>3 DEF Whole
<1> QED
  BY <1>4, InFramesOf

\* What a descriptor makes free is usable memory.
LEMMA FreesUsable ==
    ASSUME TypeOK, next <= Len(map)
    PROVE  /\ Frees(map[next]) \subseteq UsableFrames
           /\ is_usable_memory(map[next])
                => Frames(map[next].start, map[next].pages) \subseteq UsableFrames
<1>1. next \in DOMAIN map
  BY DescriptorType
<1> QED
  BY <1>1 DEF Frees, UsableFrames

\* A turn of page_allocator_init leaves no frame below its mark unaccounted for.
LEMMA InitCovers ==
    ASSUME TypeOK, InitBelowLimit, BelowMarksCovered, InitDescriptor
    PROVE  BelowMarksCovered'
<1>1. next <= Len(map) /\ pc = "init" /\ map' = map
  BY DEF InitDescriptor
<1>2. PICK d : d = map[next]
  OBVIOUS
<1>3. d.start \in Nat /\ d.pages \in Nat \ {0}
  BY <1>1, <1>2, DescriptorType
<1>4. UsableFrames' = UsableFrames
  BY <1>1 DEF UsableFrames
<1>5. used' = (used \cup FramesOf(Reserves(d))) \ Frees(d)
  BY <1>2 DEF InitDescriptor, mark_uefi_reserved
<1>6. Frees(d) \subseteq UsableFrames
  BY <1>1, <1>2, FreesUsable
<1>7. used \cup UsableFrames \subseteq (used \cup UsableFrames)'
  BY <1>4, <1>5, <1>6
<1>8. CASE BeyondMemory(d) \/ ReachesEnd(d)
  <2>1. phys_end' = phys_end /\ avail_end' = avail_end /\ frame_end' = avail_end
    BY <1>2, <1>8 DEF InitDescriptor
  <2> QED
    BY <1>7, <2>1 DEF BelowMarksCovered
<1>9. CASE ~BeyondMemory(d) /\ ~ReachesEnd(d)
  <2>1. /\ phys_end' = d.start + d.pages
        /\ avail_end' \in {avail_end, phys_end'}
        /\ frame_end' = frame_end
    BY <1>2, <1>9 DEF InitDescriptor
  <2>2. ASSUME NEW f \in 0 .. phys_end' - 1
        PROVE  f \in (used \cup UsableFrames)'
    <3>1. f \in Nat /\ phys_end \in Nat
      BY <1>3, <2>1, <2>2 DEF TypeOK
    <3>2. CASE f < phys_end
      BY <3>1, <3>2, <1>7 DEF BelowMarksCovered
    <3>3. CASE phys_end <= f /\ f < d.start
      <4>1. f \in FramesOf(Reserves(d))
        BY <3>1, <3>3, <1>3, <1>9, HoleReserved
      <4> QED
        BY <4>1, <1>4, <1>5, <1>6
    <3>4. CASE d.start <= f
      <4>1. f \in Frames(d.start, d.pages)
        BY <3>1, <3>4, <2>1, <2>2, <1>3 DEF Frames
      <4>2. CASE is_usable_memory(d)
        BY <4>1, <4>2, <1>1, <1>2, <1>4, FreesUsable
      <4>3. CASE ~is_usable_memory(d)
        <5>1. f \in FramesOf(Reserves(d))
          BY <4>1, <4>3, <1>3, <1>9, WholeReserved
        <5> QED
          BY <5>1, <1>4, <1>5, <1>6
      <4> QED
        BY <4>2, <4>3
    <3> QED
      BY <3>1, <3>2, <3>3, <3>4, <1>3
  <2>3. (0 .. avail_end' - 1) \subseteq (used \cup UsableFrames)'
    BY <2>1, <2>2, <1>7 DEF BelowMarksCovered
  <2>4. (0 .. frame_end' - 1) \subseteq (used \cup UsableFrames)'
    BY <2>1, <1>7 DEF BelowMarksCovered
  <2> QED
    BY <2>2, <2>3, <2>4 DEF BelowMarksCovered
<1> QED
  BY <1>8, <1>9

-----------------------------------------------------------------------------
(* The searches and free.                                                  *)

\* A block that lies in the managed memory and is free was given to the kernel
\* by the firmware.
LEMMA FreeIsUsable ==
    ASSUME TypeOK, BelowMarksCovered, NEW f \in Nat, f < frame_end, f \notin used
    PROVE  f \in UsableFrames
<1>1. f \in 0 .. frame_end - 1
  BY DEF TypeOK
<1> QED
  BY <1>1 DEF BelowMarksCovered

\* A step that leaves the bitmap, the blocks and the managed memory alone keeps
\* what is said about the blocks.
LEMMA BlocksKept ==
    ASSUME UNCHANGED <<map, phys_end, avail_end, frame_end, used, live>>,
           BelowMarksCovered, LiveMarked, LiveBlocksDisjoint,
           OnlyUsableHandedOut
    PROVE  /\ BelowMarksCovered' /\ LiveMarked' /\ LiveBlocksDisjoint'
           /\ OnlyUsableHandedOut'
<1>1. UsableFrames' = UsableFrames
  BY DEF UsableFrames
<1> QED
  BY <1>1 DEF BelowMarksCovered, LiveMarked, LiveBlocksDisjoint,
              OnlyUsableHandedOut

\* During page_allocator_init nobody holds a block.
LEMMA NoBlocks ==
    ASSUME live = {}
    PROVE  LiveMarked /\ LiveBlocksDisjoint /\ OnlyUsableHandedOut
BY DEF LiveMarked, LiveBlocksDisjoint, OnlyUsableHandedOut

\* A search that succeeds hands out free, managed frames and marks them.
LEMMA SuccessSafe ==
    ASSUME AllocatorInvariant, SearchSucceeds
    PROVE  /\ BelowMarksCovered' /\ LiveMarked' /\ LiveBlocksDisjoint'
           /\ OnlyUsableHandedOut'
<1> USE DEF AllocatorInvariant
<1> DEFINE new == [frame |-> start_frame, num |-> num_frames]
<1>1. /\ Searching /\ i = num_frames
      /\ live' = live \cup {new}
      /\ used' = used \cup BlockFrames(new)
      /\ UNCHANGED <<map, phys_end, avail_end, frame_end>>
  BY DEF SearchSucceeds, mark_allocated, initVars, BlockFrames
<1>2. UsableFrames' = UsableFrames
  BY <1>1 DEF UsableFrames
<1>3. ASSUME NEW f \in BlockFrames(new)
      PROVE  f \in Nat \ {0} /\ f < frame_end /\ f \notin used
  BY <1>1, <1>3 DEF BlockFrames, Frames, PassedFramesFree, TypeOK
<1> HIDE DEF new
<1>4. BlockFrames(new) \subseteq UsableFrames \ {0}
  BY <1>3, FreeIsUsable
<1>5. ASSUME NEW b \in live
      PROVE  BlockFrames(b) \cap BlockFrames(new) = {}
  BY <1>3, <1>5 DEF LiveMarked
<1>6. BelowMarksCovered'
  BY <1>1, <1>2 DEF BelowMarksCovered
<1>7. LiveMarked'
  BY <1>1 DEF LiveMarked
<1>8. LiveBlocksDisjoint'
  BY <1>1, <1>5 DEF LiveBlocksDisjoint
<1>9. OnlyUsableHandedOut'
  BY <1>1, <1>2, <1>4 DEF OnlyUsableHandedOut
<1> QED
  BY <1>6, <1>7, <1>8, <1>9

\* Giving back a block touches no other block.
LEMMA FreeSafe ==
    ASSUME AllocatorInvariant, NEW b \in live, Free(b)
    PROVE  /\ BelowMarksCovered' /\ LiveMarked' /\ LiveBlocksDisjoint'
           /\ OnlyUsableHandedOut'
<1> USE DEF AllocatorInvariant
<1>1. /\ live' = live \ {b}
      /\ used' = used \ BlockFrames(b)
      /\ UNCHANGED <<map, phys_end, avail_end, frame_end>>
  BY DEF Free, mark_not_used, initVars, BlockFrames
<1>2. UsableFrames' = UsableFrames
  BY <1>1 DEF UsableFrames
<1>3. BelowMarksCovered'
  BY <1>1, <1>2 DEF BelowMarksCovered, OnlyUsableHandedOut
<1>4. LiveMarked'
  BY <1>1 DEF LiveMarked, LiveBlocksDisjoint
<1>5. LiveBlocksDisjoint'
  BY <1>1 DEF LiveBlocksDisjoint
<1>6. OnlyUsableHandedOut'
  BY <1>1, <1>2 DEF OnlyUsableHandedOut
<1> QED
  BY <1>3, <1>4, <1>5, <1>6

\* A step of page_allocator_init says nothing of searches.
LEMMA InitSearchKept ==
    ASSUME AllocatorInvariant, InitDescriptor \/ InitPanics \/ InitDone
    PROVE  NothingLiveInInit' /\ PassedFramesFree' /\ PassedPlacesBad'
           /\ AllocComplete'
<1>1. pc' \in {"init", "idle", "panic_init"} /\ live' = {} /\ kind' = "init"
  BY DEF AllocatorInvariant, NothingLiveInInit, InitDescriptor, InitPanics,
         InitDone
<1> QED
  BY <1>1 DEF NothingLiveInInit, PassedFramesFree, PassedPlacesBad,
              AllocComplete, Searching, Refused

\* A search begins with nothing passed.
LEMMA CallSearch ==
    ASSUME AllocatorInvariant, NEW fn \in {"alloc", "alloc_aligned_pages"},
           NEW num \in Nat, NEW align \in Nat \ {0}, NEW start \in Nat \ {0},
           fn = "alloc" => start = 1,
           Search(fn, num, align, start)
    PROVE  NothingLiveInInit' /\ PassedFramesFree' /\ PassedPlacesBad'
           /\ AllocComplete'
<1>1. /\ pc' = fn /\ kind' = fn /\ start_frame' = start /\ i' = 0
      /\ num_frames' = num
  BY DEF Search
<1>2. Frames(start, 0) = {}
  BY DEF Frames
<1>3. PassedFramesFree'
  BY <1>1, <1>2 DEF PassedFramesFree
<1>4. PassedPlacesBad'
  BY <1>1 DEF PassedPlacesBad
<1> QED
  BY <1>1, <1>3, <1>4 DEF NothingLiveInInit, AllocComplete, Refused

\* When alloc runs off the managed memory, no place was good: not the ones it
\* passed, and every later one ends beyond the memory too.
LEMMA FailureComplete ==
    ASSUME AllocatorInvariant, SearchFails
    PROVE  AllocComplete'
<1> USE DEF AllocatorInvariant
<1>1. /\ pc' = "idle" /\ kind' = kind /\ kind = pc /\ i < num_frames
      /\ start_frame + i >= frame_end
      /\ UNCHANGED <<used, frame_end, num_frames>>
  BY DEF SearchFails, PassedFramesFree, Return, initVars, searchVars, Probe
<1>2. SUFFICES ASSUME pc = "alloc", NEW s \in 1 .. frame_end, Fits(s, num_frames)
               PROVE  FALSE
  BY <1>1 DEF AllocComplete, Refused, Fits
<1>3. start_frame \in Nat /\ i \in Nat /\ num_frames \in Nat /\ frame_end \in Nat
  BY DEF TypeOK
<1>4. s + num_frames <= frame_end /\ Frames(s, num_frames) \cap used = {}
  BY <1>2 DEF Fits
<1>5. s < start_frame
  BY <1>1, <1>3, <1>4
<1>6. PICK f \in Frames(s, num_frames) : f \in used \/ f >= frame_end
  BY <1>2, <1>3, <1>5 DEF PassedPlacesBad
<1>7. f < frame_end
  BY <1>3, <1>4, <1>6 DEF Frames
<1> QED
  BY <1>3, <1>4, <1>6, <1>7 DEF Frames

\* alloc passes only places that contain the used frame it met.
LEMMA SkipBad ==
    ASSUME AllocatorInvariant, AllocSkips
    PROVE  PassedFramesFree' /\ PassedPlacesBad'
<1> USE DEF AllocatorInvariant
<1>1. /\ pc = "alloc" /\ pc' = "alloc" /\ kind' = kind /\ i < num_frames
      /\ start_frame + i \in used
      /\ start_frame' = start_frame + i + 1 /\ i' = 0
      /\ UNCHANGED <<used, frame_end, num_frames>>
  BY DEF AllocSkips, AllocNext, Blocked, initVars, Probe
<1>2. start_frame \in Nat /\ i \in Nat /\ num_frames \in Nat /\ frame_end \in Nat
  BY DEF TypeOK
<1>3. PassedFramesFree'
  BY <1>1, <1>2 DEF PassedFramesFree, Searching, Frames
<1>4. ASSUME NEW s \in 1 .. start_frame + i
      PROVE  \E f \in Frames(s, num_frames) : f \in used \/ f >= frame_end
  <2>1. CASE s < start_frame
    BY <1>1, <1>2, <2>1 DEF PassedPlacesBad
  <2>2. CASE s >= start_frame
    <3>1. start_frame + i \in Frames(s, num_frames)
      BY <1>1, <1>2, <2>2 DEF Frames
    <3> QED
      BY <1>1, <3>1
  <2> QED
    BY <1>2, <2>1, <2>2
<1>5. PassedPlacesBad'
  BY <1>1, <1>2, <1>4 DEF PassedPlacesBad
<1> QED
  BY <1>3, <1>5

-----------------------------------------------------------------------------
(* The allocator's invariant.                                              *)

\* The invariant holds before page_allocator_init.
LEMMA InvariantInit == Init => AllocatorInvariant
<1> SUFFICES ASSUME Init PROVE AllocatorInvariant
  OBVIOUS
<1>1. TypeOK /\ InitBelowLimit
  BY TypeInit
<1>2. live = {} /\ pc = "init" /\ kind = "init"
  BY DEF Init
<1>3. BelowMarksCovered
  BY DEF Init, BelowMarksCovered
<1> QED
  BY <1>1, <1>2, <1>3, NoBlocks
     DEF AllocatorInvariant, NothingLiveInInit, PassedFramesFree,
         PassedPlacesBad, AllocComplete, Searching, Refused

\* Every step of every operation keeps the invariant.
LEMMA InvariantStep ==
    ASSUME AllocatorInvariant, [Next]_vars
    PROVE  AllocatorInvariant'
<1> USE AllocatorAssumption
<1>0. /\ TypeOK /\ InitBelowLimit /\ BelowMarksCovered /\ LiveMarked
      /\ NothingLiveInInit /\ PassedFramesFree /\ PassedPlacesBad
      /\ LiveBlocksDisjoint /\ OnlyUsableHandedOut /\ AllocComplete
  BY DEF AllocatorInvariant
<1>t. TypeOK' /\ InitBelowLimit'
  BY <1>0, TypeStep
<1> DEFINE BlocksOK == /\ BelowMarksCovered /\ LiveMarked
                       /\ LiveBlocksDisjoint /\ OnlyUsableHandedOut
           SearchOK == /\ NothingLiveInInit /\ PassedFramesFree
                       /\ PassedPlacesBad /\ AllocComplete
<1>1. CASE InitDescriptor
  <2>1. BelowMarksCovered'
    BY <1>0, <1>1, InitCovers
  <2>2. live' = {}
    BY <1>0, <1>1 DEF InitDescriptor, NothingLiveInInit
  <2>3. (LiveMarked /\ LiveBlocksDisjoint /\ OnlyUsableHandedOut)'
    BY <2>2 DEF LiveMarked, LiveBlocksDisjoint, OnlyUsableHandedOut
  <2> QED
    BY <1>1, <2>1, <2>3, <1>t, InitSearchKept DEF AllocatorInvariant
<1>2. CASE InitPanics
  <2>1. BlocksOK'
    BY <1>0, <1>2, BlocksKept DEF InitPanics, initVars
  <2> QED
    BY <1>2, <2>1, <1>t, InitSearchKept DEF AllocatorInvariant
<1>3. CASE InitDone
  <2>1. frame_end' = avail_end /\ UNCHANGED <<map, phys_end, avail_end, used, live>>
    BY <1>3 DEF InitDone
  <2>2. UsableFrames' = UsableFrames
    BY <2>1 DEF UsableFrames
  <2>3. BlocksOK'
    BY <1>0, <2>1, <2>2 DEF BelowMarksCovered, LiveMarked, LiveBlocksDisjoint,
                            OnlyUsableHandedOut
  <2> QED
    BY <1>3, <2>3, <1>t, InitSearchKept DEF AllocatorInvariant
<1>4. ASSUME NEW num \in Requests, CallAlloc(num)
      PROVE  AllocatorInvariant'
  <2>1. BlocksOK'
    BY <1>0, <1>4, BlocksKept DEF CallAlloc, Search, initVars
  <2>2. SearchOK'
    BY <1>4, CallSearch DEF CallAlloc, frame_begin
  <2> QED
    BY <2>1, <2>2, <1>t DEF AllocatorInvariant
<1>5. ASSUME NEW num \in Requests, NEW align \in Alignments,
             CallAllocAligned(num, align)
      PROVE  AllocatorInvariant'
  <2>1. BlocksOK'
    BY <1>0, <1>5, BlocksKept DEF CallAllocAligned, Search, initVars
  <2>2. SearchOK'
    BY <1>5, CallSearch DEF CallAllocAligned
  <2> QED
    BY <2>1, <2>2, <1>t DEF AllocatorInvariant
<1>6. CASE CallMisaligned
  <2>1. BlocksOK'
    BY <1>0, <1>6, BlocksKept DEF CallMisaligned, initVars
  <2>2. SearchOK'
    BY <1>6 DEF CallMisaligned, NothingLiveInInit, PassedFramesFree,
                PassedPlacesBad, AllocComplete, Searching, Refused
  <2> QED
    BY <2>1, <2>2, <1>t DEF AllocatorInvariant
<1>7. CASE SearchFails
  <2>1. BlocksOK'
    BY <1>0, <1>7, BlocksKept DEF SearchFails, initVars
  <2>2. (NothingLiveInInit /\ PassedFramesFree /\ PassedPlacesBad)'
    BY <1>7 DEF SearchFails, Return, NothingLiveInInit, PassedFramesFree,
                PassedPlacesBad, Searching
  <2> QED
    BY <1>7, <2>1, <2>2, <1>t, FailureComplete DEF AllocatorInvariant
<1>8. CASE SearchAdvances
  <2>1. BlocksOK'
    BY <1>0, <1>8, BlocksKept DEF SearchAdvances, initVars
  <2>2. /\ Searching /\ i < num_frames /\ i' = i + 1
        /\ start_frame + i < frame_end /\ start_frame + i \notin used
        /\ UNCHANGED <<used, frame_end, pc, kind, num_frames, start_frame>>
    BY <1>8 DEF SearchAdvances, Probe, initVars
  <2>3. start_frame \in Nat /\ i \in Nat /\ num_frames \in Nat
    BY <1>0 DEF TypeOK
  <2>4. PassedFramesFree'
    BY <1>0, <2>2, <2>3 DEF PassedFramesFree, Searching, Frames
  <2>5. (NothingLiveInInit /\ PassedPlacesBad /\ AllocComplete)'
    BY <1>0, <2>2 DEF NothingLiveInInit, PassedPlacesBad, AllocComplete,
                      Searching, Refused
  <2> QED
    BY <2>1, <2>4, <2>5, <1>t DEF AllocatorInvariant
<1>9. CASE AllocSkips
  <2>1. BlocksOK'
    BY <1>0, <1>9, BlocksKept DEF AllocSkips, initVars
  <2>2. (NothingLiveInInit /\ AllocComplete)'
    BY <1>9 DEF AllocSkips, NothingLiveInInit, AllocComplete, Refused
  <2> QED
    BY <1>9, <2>1, <2>2, <1>t, SkipBad DEF AllocatorInvariant
<1>10. CASE AlignedSkips
  <2>1. BlocksOK'
    BY <1>0, <1>10, BlocksKept DEF AlignedSkips, initVars
  <2>2. /\ pc = "alloc_aligned_pages" /\ kind' = kind /\ kind = pc
        /\ start_frame' = start_frame + align_frame
        /\ num_frames' = num_frames
        /\ pc' = "idle" \/ (pc' = pc /\ i' = 0)
    BY <1>0, <1>10 DEF AlignedSkips, AlignedNext, Return, PassedFramesFree,
                       Searching
  <2>3. /\ start_frame \in Nat /\ start_frame >= 1 /\ align_frame \in Nat
        /\ num_frames \in Nat
    BY <1>0, <2>2 DEF TypeOK, PassedFramesFree, Searching
  <2>4. PassedFramesFree'
    BY <2>2, <2>3 DEF PassedFramesFree, Searching, Frames
  <2>5. (NothingLiveInInit /\ PassedPlacesBad /\ AllocComplete)'
    BY <2>2 DEF NothingLiveInInit, PassedPlacesBad, AllocComplete, Refused
  <2> QED
    BY <2>1, <2>4, <2>5, <1>t DEF AllocatorInvariant
<1>11. CASE SearchSucceeds
  <2>1. BlocksOK'
    BY <1>11, SuccessSafe
  <2>2. start_frame \in Nat /\ start_frame >= 1
    BY <1>0, <1>11 DEF SearchSucceeds, TypeOK, PassedFramesFree
  <2>3. pc' = "idle" /\ result' # NULL
    BY <1>11, <2>2 DEF SearchSucceeds, Return, NULL
  <2>4. SearchOK'
    BY <2>3 DEF NothingLiveInInit, PassedFramesFree, PassedPlacesBad,
                AllocComplete, Searching, Refused
  <2> QED
    BY <2>1, <2>4, <1>t DEF AllocatorInvariant
<1>12. ASSUME NEW b \in live, Free(b)
       PROVE  AllocatorInvariant'
  <2>1. BlocksOK'
    BY <1>12, FreeSafe
  <2>2. SearchOK'
    BY <1>12 DEF Free, NothingLiveInInit, PassedFramesFree, PassedPlacesBad,
                 AllocComplete, Searching, Refused
  <2> QED
    BY <2>1, <2>2, <1>t DEF AllocatorInvariant
<1>13. ASSUME NEW b \in live, FreePanics(b)
       PROVE  AllocatorInvariant'
  <2>1. BlocksOK'
    BY <1>0, <1>13, BlocksKept DEF FreePanics, initVars
  <2>2. SearchOK'
    BY <1>13 DEF FreePanics, NothingLiveInInit, PassedFramesFree,
                 PassedPlacesBad, AllocComplete, Searching, Refused
  <2> QED
    BY <2>1, <2>2, <1>t DEF AllocatorInvariant
<1>14. CASE UNCHANGED vars
  <2>1. BlocksOK'
    BY <1>0, <1>14, BlocksKept DEF vars
  <2>2. SearchOK'
    BY <1>0, <1>14 DEF vars, NothingLiveInInit, PassedFramesFree, PassedPlacesBad,
                       AllocComplete, Searching, Refused, Fits
  <2> QED
    BY <2>1, <2>2, <1>t DEF AllocatorInvariant
<1> QED
  BY <1>1, <1>2, <1>3, <1>4, <1>5, <1>6, <1>7, <1>8, <1>9, <1>10, <1>11, <1>12,
     <1>13, <1>14 DEF Next, Call, Step

\* The allocator's invariant holds in every state, for every memory map (in any
\* order), every size of memory and every sequence of calls.
THEOREM InvariantCorrect == Spec => []AllocatorInvariant
<1>1. AllocatorInvariant /\ [Next]_vars => AllocatorInvariant'
  BY InvariantStep
<1> QED
  BY InvariantInit, <1>1, PTL DEF Spec

\* No two callers of alloc and alloc_aligned_pages ever hold the same frame
\* (page_allocator.c:163-214).
THEOREM BlocksDisjointCorrect == Spec => []LiveBlocksDisjoint
<1>1. AllocatorInvariant => LiveBlocksDisjoint
  BY DEF AllocatorInvariant
<1> QED
  BY InvariantCorrect, <1>1, PTL

\* Only memory that the firmware gave to the kernel is handed out, and never
\* frame 0 (page_allocator.c:127-161).
THEOREM UsableCorrect == Spec => []OnlyUsableHandedOut
<1>1. AllocatorInvariant => OnlyUsableHandedOut
  BY DEF AllocatorInvariant
<1> QED
  BY InvariantCorrect, <1>1, PTL

\* alloc returns NULL only when no run of free frames is long enough
\* (page_allocator.c:166-177).
THEOREM AllocCompleteCorrect == Spec => []AllocComplete
<1>1. AllocatorInvariant => AllocComplete
  BY DEF AllocatorInvariant
<1> QED
  BY InvariantCorrect, <1>1, PTL

-----------------------------------------------------------------------------
(* The aligned search.                                                     *)

\* A search runs with arguments that were asked for.
RequestGiven ==
    Searching => num_frames \in Requests /\ align_frame \in Alignments \cup {1}

\* The aligned search is at a multiple of the alignment, and no multiple behind
\* it was good.
AlignedPassedBad ==
    pc = "alloc_aligned_pages" =>
        /\ start_frame % align_frame = 0
        /\ \A s \in 1 .. start_frame - 1 : s % align_frame = 0 =>
              \E f \in Frames(s, num_frames) : f \in used \/ f >= frame_end

\* The invariant of the aligned search.
AlignedInvariant == RequestGiven /\ AlignedPassedBad /\ AlignedNearlyComplete

\* Between two neighbouring multiples of the alignment there is none.
LEMMA NoMultipleBetween ==
    ASSUME NEW n \in Nat \ {0}, NEW s \in Nat, NEW t \in Nat,
           s % n = 0, t % n = 0, s <= t, t < s + n
    PROVE  t = s
<1>1. PICK p \in Nat : s = p * n
  <2>1. s \div n \in Nat /\ s = (s \div n) * n
    OBVIOUS
  <2> QED BY <2>1
<1>2. PICK q \in Nat : t = q * n
  <2>1. t \div n \in Nat /\ t = (t \div n) * n
    OBVIOUS
  <2> QED BY <2>1
<1>3. p * n \in Nat /\ q * n \in Nat /\ (p + 1) * n = p * n + n /\ (q + 1) * n = q * n + n
  OBVIOUS
<1>4. q * n < (p + 1) * n /\ p * n < (q + 1) * n
  BY <1>1, <1>2, <1>3
<1>5. q < p + 1 /\ p < q + 1
  <2>1. ASSUME NEW x \in Nat, NEW y \in Nat, x * n < y * n
        PROVE  x < y
    BY <2>1
  <2> QED BY <1>4, <2>1
<1>6. p = q
  BY <1>5
<1> QED BY <1>1, <1>2, <1>6

\* The next multiple is a multiple.
LEMMA NextMultiple ==
    ASSUME NEW n \in Nat \ {0}, NEW s \in Nat, s % n = 0
    PROVE  (s + n) % n = 0
<1>1. (s + n) \div n = s \div n + 1
  OBVIOUS
<1> QED BY <1>1

\* alloc_aligned_pages passes only one multiple at a time, and that one contains
\* the used frame it met; where it stops, every later one would end too late.
LEMMA AlignedSkipBad ==
    ASSUME AllocatorInvariant, AlignedInvariant, AlignedSkips
    PROVE  AlignedInvariant'
<1>1. /\ pc = "alloc_aligned_pages" /\ kind' = kind /\ kind = pc
      /\ i < num_frames /\ start_frame + i \in used
      /\ start_frame' = start_frame + align_frame
      /\ UNCHANGED <<used, frame_end, num_frames, align_frame>>
      /\ \/ pc' = "idle" /\ start_frame + align_frame + num_frames >= frame_end
         \/ pc' = pc
  BY DEF AlignedSkips, AlignedNext, Blocked, Probe, Return, initVars, AllocatorInvariant,
         PassedFramesFree, Searching
<1>2. /\ start_frame \in Nat /\ start_frame >= 1 /\ i \in Nat /\ num_frames \in Nat
      /\ frame_end \in Nat /\ align_frame \in Nat \ {0} /\ start_frame % align_frame = 0
      /\ num_frames \in Requests /\ align_frame \in Alignments \cup {1}
  BY <1>1, AllocatorAssumption DEF AllocatorInvariant, TypeOK, PassedFramesFree, Searching,
     AlignedInvariant, RequestGiven, AlignedPassedBad
<1>3. (start_frame + align_frame) % align_frame = 0
  BY <1>2, NextMultiple
<1>4. ASSUME NEW s \in 1 .. start_frame + align_frame - 1, s % align_frame = 0
      PROVE  \E f \in Frames(s, num_frames) : f \in used \/ f >= frame_end
  <2>1. CASE s < start_frame
    <3>1. s \in 1 .. start_frame - 1
      BY <1>2, <2>1
    <3> QED BY <1>1, <1>4, <3>1 DEF AlignedInvariant, AlignedPassedBad
  <2>2. CASE s >= start_frame
    <3>0. s \in Nat /\ start_frame <= s /\ s < start_frame + align_frame
      BY <1>2, <2>2
    <3>1. s = start_frame
      BY ONLY <1>2, <1>4, <3>0, NoMultipleBetween
    <3>2. start_frame + i \in Frames(s, num_frames)
      BY <1>1, <1>2, <3>1 DEF Frames
    <3> QED BY <1>1, <3>2
  <2> QED BY <1>2, <2>1, <2>2
<1>5. RequestGiven'
  BY <1>1, <1>2 DEF RequestGiven
<1>6. AlignedPassedBad'
  <2> SUFFICES ASSUME pc' = "alloc_aligned_pages"
               PROVE  /\ start_frame' % align_frame = 0
                      /\ \A s \in 1 .. start_frame' - 1 : s % align_frame = 0 =>
                            \E f \in Frames(s, num_frames) : f \in used \/ f >= frame_end
    BY <1>1 DEF AlignedPassedBad
  <2>1. start_frame' = start_frame + align_frame
    BY <1>1
  <2>2. start_frame' % align_frame = 0
    BY ONLY <1>3, <2>1
  <2>3. ASSUME NEW s \in 1 .. start_frame' - 1, s % align_frame = 0
        PROVE  \E f \in Frames(s, num_frames) : f \in used \/ f >= frame_end
    <3>1. s \in 1 .. start_frame + align_frame - 1
      BY <1>2, <2>1
    <3> QED BY ONLY <1>4, <2>3, <3>1
  <2> QED BY <2>2, <2>3
<1>7. ASSUME pc' = "idle", NEW s \in 1 .. frame_end, s % align_frame = 0,
             s + num_frames < frame_end
      PROVE  ~Fits(s, num_frames)
  <2>1. start_frame + align_frame + num_frames >= frame_end
    BY <1>1, <1>7
  <2>2. s \in 1 .. start_frame + align_frame - 1
    BY <1>2, <1>7, <2>1
  <2>3. PICK f \in Frames(s, num_frames) : f \in used \/ f >= frame_end
    BY <1>4, <1>7, <2>2
  <2>4. f < frame_end
    BY <1>2, <1>7, <2>3 DEF Frames
  <2> QED BY <1>2, <2>3, <2>4 DEF Fits, Frames
<1>8. AlignedNearlyComplete'
  BY <1>1, <1>7 DEF AlignedNearlyComplete, Refused, Fits
<1> QED BY <1>5, <1>6, <1>8 DEF AlignedInvariant

\* Where alloc_aligned_pages runs off the managed memory every later multiple
\* would too.
LEMMA AlignedFailure ==
    ASSUME AllocatorInvariant, AlignedInvariant, SearchFails
    PROVE  AlignedInvariant'
<1>1. /\ pc' = "idle" /\ kind' = kind /\ kind = pc /\ i < num_frames
      /\ start_frame + i >= frame_end
      /\ UNCHANGED <<used, frame_end, num_frames, align_frame>>
  BY DEF SearchFails, AllocatorInvariant, PassedFramesFree, Return, initVars, searchVars, Probe
<1>2. start_frame \in Nat /\ i \in Nat /\ num_frames \in Nat /\ frame_end \in Nat
  BY DEF AllocatorInvariant, TypeOK
<1>3. ASSUME pc = "alloc_aligned_pages", NEW s \in 1 .. frame_end, s % align_frame = 0,
             s + num_frames < frame_end, Fits(s, num_frames)
      PROVE  FALSE
  <2>1. s \in 1 .. start_frame - 1
    BY <1>1, <1>2, <1>3
  <2>2. PICK f \in Frames(s, num_frames) : f \in used \/ f >= frame_end
    BY <1>3, <2>1 DEF AlignedInvariant, AlignedPassedBad
  <2>3. f < frame_end
    BY <1>2, <1>3, <2>2 DEF Frames
  <2> QED BY <1>2, <1>3, <2>2, <2>3 DEF Fits, Frames
<1>4. AlignedNearlyComplete'
  BY <1>1, <1>3 DEF AlignedNearlyComplete, Refused, Fits
<1> QED BY <1>1, <1>4 DEF AlignedInvariant, RequestGiven, AlignedPassedBad, Searching

\* A search begins at the first multiple.
LEMMA AlignedCall ==
    ASSUME AlignedInvariant, NEW fn \in {"alloc", "alloc_aligned_pages"},
           NEW num \in Requests, NEW align \in Alignments \cup {1}, NEW start,
           fn = "alloc_aligned_pages" => start = align /\ align \in Nat \ {0},
           Search(fn, num, align, start)
    PROVE  AlignedInvariant'
<1>1. /\ pc' = fn /\ start_frame' = start /\ num_frames' = num /\ align_frame' = align
  BY DEF Search
<1>2. RequestGiven'
  BY <1>1 DEF RequestGiven
<1>3. fn = "alloc_aligned_pages" => align % align = 0
  <2>1. ASSUME NEW n \in Nat \ {0} PROVE n % n = 0
    OBVIOUS
  <2> QED BY <2>1
<1>4. ASSUME fn = "alloc_aligned_pages", NEW s \in 1 .. align - 1
      PROVE  s % align # 0
  <2>1. align \in Nat \ {0}
    BY <1>4
  <2> QED BY <1>4, <2>1
<1>5. AlignedPassedBad'
  BY <1>1, <1>3, <1>4 DEF AlignedPassedBad
<1> QED BY <1>1, <1>2, <1>5 DEF AlignedInvariant, AlignedNearlyComplete, Refused

\* Every step keeps the invariant of the aligned search.
LEMMA AlignedStep ==
    ASSUME AllocatorInvariant, AlignedInvariant, [Next]_vars
    PROVE  AlignedInvariant'
<1>1. CASE InitDescriptor \/ InitPanics \/ InitDone
  <2>1. pc' \in {"init", "idle", "panic_init"} /\ kind' = "init"
    BY <1>1 DEF AllocatorInvariant, NothingLiveInInit, InitDescriptor, InitPanics, InitDone
  <2> QED BY <2>1 DEF AlignedInvariant, RequestGiven, AlignedPassedBad, AlignedNearlyComplete,
                      Searching, Refused
<1>2. ASSUME NEW num \in Requests, CallAlloc(num)
      PROVE  AlignedInvariant'
  BY <1>2, AlignedCall DEF CallAlloc
<1>3. ASSUME NEW num \in Requests, NEW align \in Alignments, CallAllocAligned(num, align)
      PROVE  AlignedInvariant'
  BY <1>3, AlignedCall, AllocatorAssumption DEF CallAllocAligned
<1>4. CASE CallMisaligned
  BY <1>4 DEF CallMisaligned, AlignedInvariant, RequestGiven, AlignedPassedBad,
              AlignedNearlyComplete, Searching, Refused
<1>5. CASE SearchAdvances
  BY <1>5 DEF SearchAdvances, initVars, AlignedInvariant, RequestGiven, AlignedPassedBad,
              AlignedNearlyComplete, Searching, Refused
<1>6. CASE AllocSkips
  BY <1>6 DEF AllocSkips, AlignedInvariant, RequestGiven, AlignedPassedBad,
              AlignedNearlyComplete, Searching, Refused
<1>7. CASE SearchSucceeds
  <2>1. pc' = "idle" /\ result' # NULL
    BY <1>7 DEF SearchSucceeds, Return, NULL, AllocatorInvariant, PassedFramesFree, TypeOK
  <2> QED BY <2>1 DEF AlignedInvariant, RequestGiven, AlignedPassedBad, AlignedNearlyComplete,
                      Searching, Refused
<1>8. ASSUME NEW b \in live, Free(b)
      PROVE  AlignedInvariant'
  BY <1>8 DEF Free, AlignedInvariant, RequestGiven, AlignedPassedBad, AlignedNearlyComplete,
              Searching, Refused
<1>9. ASSUME NEW b \in live, FreePanics(b)
      PROVE  AlignedInvariant'
  BY <1>9 DEF FreePanics, AlignedInvariant, RequestGiven, AlignedPassedBad,
              AlignedNearlyComplete, Searching, Refused
<1>10. CASE UNCHANGED vars
  BY <1>10 DEF vars, AlignedInvariant, RequestGiven, AlignedPassedBad, AlignedNearlyComplete,
               Searching, Refused, Fits
<1> QED
  BY <1>1, <1>2, <1>3, <1>4, <1>5, <1>6, <1>7, <1>8, <1>9, <1>10, AlignedFailure,
     AlignedSkipBad DEF Next, Call, Step

\* The invariant of the aligned search holds in every state.
LEMMA AlignedInvariantCorrect == Spec => []AlignedInvariant
<1>1. Init => AlignedInvariant
  BY DEF Init, AlignedInvariant, RequestGiven, AlignedPassedBad, AlignedNearlyComplete,
         Searching, Refused
<1>2. AllocatorInvariant /\ AlignedInvariant /\ [Next]_vars => AlignedInvariant'
  BY AlignedStep
<1> QED
  BY <1>1, <1>2, InvariantCorrect, PTL DEF Spec

\* alloc_aligned_pages returns NULL only when no aligned run of free frames is
\* long enough, except for one that ends with the last managed frame, for every
\* alignment (page_allocator.c:201-213).
THEOREM AlignedCompleteCorrect == Spec => []AlignedNearlyComplete
<1>1. AlignedInvariant => AlignedNearlyComplete
  BY DEF AlignedInvariant
<1> QED
  BY <1>1, AlignedInvariantCorrect, PTL

-----------------------------------------------------------------------------
(* Reserved regions and memory that is handed out.                         *)

\* page_allocator_init is through.
Ready == pc \notin {"init", "panic_init"}

\* Then memory is managed up to the end of the last usable descriptor.
ManagedEnd == /\ Ready => frame_end = avail_end
              /\ ~Ready => live = {}

\* With an ascending map the loop is behind all the descriptors it has seen.
LoopBehind ==
    pc = "init" /\ Ascending =>
        /\ avail_end <= phys_end
        /\ next = 1 => phys_end = 0
        /\ next \in 2 .. Len(map) + 1 => phys_end = map[next - 1].start + map[next - 1].pages
        /\ \A j \in DOMAIN map : j < next => map[j].start + map[j].pages <= phys_end

\* No reserved region is empty; with an ascending map none covers a usable frame
\* below the end of the managed memory, and as long as the loop runs none covers
\* a usable frame at all.
RegionsApart ==
    \A k \in DOMAIN reserved :
        /\ reserved[k].num > 0
        /\ Ascending =>
              \A f \in Frames(reserved[k].frame, reserved[k].num) :
                  f \in UsableFrames => f >= avail_end /\ pc # "init"

\* A block that is held is not empty and lies in the managed memory.
LiveManaged == \A b \in live : b.num > 0 /\ \A f \in BlockFrames(b) : f < frame_end

\* The invariant of free.
FreeInvariant == ManagedEnd /\ LoopBehind /\ RegionsApart /\ LiveManaged /\ FreeNeverPanics

\* A set of numbers has a smallest one.
LEMMA Smallest ==
    ASSUME NEW T \in SUBSET Nat, T # {}
    PROVE  \E x \in T : \A y \in T : x <= y
<1>1. PICK x \in T : \A y \in T : ~(<<y, x>> \in OpToRel(<, Nat))
  BY WFMin, NatLessThanWellFounded
<1>2. ASSUME NEW y \in T
      PROVE  x <= y
  <2>1. x \in Nat /\ y \in Nat /\ <<y, x>> \in Nat \X Nat
    OBVIOUS
  <2>2. ~(y < x)
    BY <1>1, <2>1, Zenon DEF OpToRel
  <2> QED BY <2>1, <2>2
<1> QED BY <1>2

\* The descriptors of the map.
LEMMA MapFacts ==
    ASSUME TypeOK
    PROVE  /\ Len(map) \in Nat /\ DOMAIN map = 1 .. Len(map)
           /\ \A k \in DOMAIN map : map[k].start \in Nat /\ map[k].pages \in Nat \ {0}
           /\ \A j, k \in DOMAIN map : j # k =>
                Frames(map[j].start, map[j].pages) \cap Frames(map[k].start, map[k].pages) = {}
<1>1. map \in Seq(Descriptor)
  BY AllocatorAssumption DEF TypeOK, WellFormedMap
<1>2. \A j, k \in DOMAIN map : j # k =>
        Frames(map[j].start, map[j].pages) \cap Frames(map[k].start, map[k].pages) = {}
  BY AllocatorAssumption DEF TypeOK, WellFormedMap
<1>3. Len(map) \in Nat /\ DOMAIN map = 1 .. Len(map)
  BY <1>1
<1>4. ASSUME NEW k \in DOMAIN map
      PROVE  map[k].start \in Nat /\ map[k].pages \in Nat \ {0}
  <2>1. map[k] \in Descriptor
    BY <1>1
  <2> QED BY <2>1 DEF Descriptor
<1> QED BY <1>2, <1>3, <1>4

\* An ascending map is in order from end to end: by the first descriptor that
\* would not be above a given one.
LEMMA AscendingAll ==
    ASSUME TypeOK, Ascending, NEW k \in DOMAIN map, NEW l \in DOMAIN map, k < l
    PROVE  map[k].start < map[l].start
<1> DEFINE T == {j \in Nat : j \in DOMAIN map /\ k < j /\ ~(map[k].start < map[j].start)}
<1>1. /\ Len(map) \in Nat /\ DOMAIN map = 1 .. Len(map)
      /\ \A j \in DOMAIN map : map[j].start \in Nat
  BY MapFacts
<1>2. ASSUME T # {}
      PROVE  FALSE
  <2>1. PICK x \in T : \A y \in T : x <= y
    <3>1. T \in SUBSET Nat
      OBVIOUS
    <3> HIDE DEF T
    <3> QED BY <1>2, <3>1, Smallest
  <2>2. x \in Nat /\ x \in DOMAIN map /\ k < x /\ ~(map[k].start < map[x].start)
    OBVIOUS
  <2>3. x - 1 \in Nat /\ x - 1 \in DOMAIN map /\ x - 1 \in 1 .. Len(map) - 1 /\ k <= x - 1
    BY <1>1, <2>2
  <2>4. map[x - 1].start < map[x].start
    <3>1. (x - 1) + 1 = x
      BY <2>2
    <3> QED BY <2>3, <3>1 DEF Ascending
  <2>5. CASE k = x - 1
    BY <2>2, <2>4, <2>5
  <2>6. CASE k # x - 1
    <3>1. k < x - 1
      BY <1>1, <2>3, <2>6
    <3>2. x - 1 \notin T
      BY <2>1, <2>2
    <3>3. map[k].start < map[x - 1].start
      BY <2>3, <3>1, <3>2
    <3> QED BY <1>1, <2>2, <2>3, <2>4, <3>3
  <2> QED BY <2>5, <2>6
<1>3. l \in Nat
  BY <1>1
<1> QED BY <1>2, <1>3

\* In an ascending map a descriptor ends before the later ones.
LEMMA EndsBefore ==
    ASSUME TypeOK, Ascending, NEW k \in DOMAIN map, NEW l \in DOMAIN map, k < l
    PROVE  map[k].start + map[k].pages <= map[l].start
<1>1. map[k].start < map[l].start
  BY AscendingAll
<1>2. /\ map[k].start \in Nat /\ map[k].pages \in Nat \ {0}
      /\ map[l].start \in Nat /\ map[l].pages \in Nat \ {0}
      /\ k \in Nat /\ l \in Nat /\ k # l
  BY MapFacts
<1>3. Frames(map[k].start, map[k].pages) \cap Frames(map[l].start, map[l].pages) = {}
  BY <1>2, MapFacts
<1>4. map[l].start \in Frames(map[l].start, map[l].pages)
  BY <1>2 DEF Frames
<1>5. map[l].start \notin Frames(map[k].start, map[k].pages)
  BY <1>3, <1>4
<1> QED BY <1>1, <1>2, <1>5 DEF Frames

\* Where the loop is, with an ascending map: nothing before the descriptor
\* reaches over phys_end, and the descriptor does not begin before it.
LEMMA LoopFacts ==
    ASSUME TypeOK, LoopBehind, Ascending, pc = "init", next <= Len(map)
    PROVE  /\ phys_end <= map[next].start
           /\ avail_end <= phys_end
           /\ \A j \in DOMAIN map : j # next =>
                \/ map[j].start + map[j].pages <= phys_end
                \/ map[next].start + map[next].pages <= map[j].start
<1>1. /\ next \in DOMAIN map /\ next \in Nat \ {0} /\ Len(map) \in Nat
      /\ DOMAIN map = 1 .. Len(map) /\ map[next].start \in Nat
  BY MapFacts DEF TypeOK
<1>2. phys_end <= map[next].start
  <2>1. CASE next = 1
    BY <1>1, <2>1 DEF LoopBehind
  <2>2. CASE next # 1
    <3>1. next - 1 \in DOMAIN map /\ next - 1 < next /\ next \in 2 .. Len(map) + 1
      BY <1>1, <2>2
    <3>2. map[next - 1].start + map[next - 1].pages <= map[next].start
      BY <1>1, <3>1, EndsBefore
    <3>3. phys_end = map[next - 1].start + map[next - 1].pages
      BY <3>1 DEF LoopBehind
    <3> QED BY <3>2, <3>3
  <2> QED BY <2>1, <2>2
<1>3. ASSUME NEW j \in DOMAIN map, j # next
      PROVE  \/ map[j].start + map[j].pages <= phys_end
             \/ map[next].start + map[next].pages <= map[j].start
  <2>1. CASE j < next
    BY <2>1 DEF LoopBehind
  <2>2. CASE next < j
    BY <1>1, <2>2, EndsBefore
  <2> QED BY <1>1, <1>3, <2>1, <2>2
<1> QED BY <1>2, <1>3 DEF LoopBehind

\* What one turn of the loop reserves, region by region.
LEMMA ReservesRegions ==
    ASSUME NEW d, NEW r \in 1 .. Len(Reserves(d))
    PROVE  \/ /\ BeyondMemory(d) /\ Reserves(d)[r] = CutOff(phys_end)
           \/ /\ ~BeyondMemory(d) /\ phys_end < d.start
              /\ Reserves(d)[r] = [frame |-> phys_end, num |-> d.start - phys_end]
           \/ /\ ~BeyondMemory(d) /\ ReachesEnd(d) /\ Reserves(d)[r] = CutOff(d.start)
           \/ /\ ~BeyondMemory(d) /\ ~ReachesEnd(d) /\ ~is_usable_memory(d)
              /\ Reserves(d)[r] = Whole(d)
<1>1. CASE BeyondMemory(d)
  <2>1. Reserves(d) = <<CutOff(phys_end)>>
    BY <1>1 DEF Reserves
  <2>2. r = 1
    BY <2>1
  <2> QED BY <1>1, <2>1, <2>2
<1>2. CASE ~BeyondMemory(d) /\ phys_end < d.start
  <2> DEFINE hole == [frame |-> phys_end, num |-> d.start - phys_end]
  <2>1. Hole(d) = <<hole>>
    BY <1>2 DEF Hole
  <2> HIDE DEF hole
  <2>2. ASSUME NEW a, NEW b, NEW k \in 1 .. Len(<<a>> \o <<b>>)
        PROVE  (<<a>> \o <<b>>)[k] \in {a, b}
    OBVIOUS
  <2>3. Reserves(d)[r] = hole \/ (ReachesEnd(d) /\ Reserves(d)[r] = CutOff(d.start))
        \/ (~ReachesEnd(d) /\ ~is_usable_memory(d) /\ Reserves(d)[r] = Whole(d))
    <3>1. CASE ReachesEnd(d)
      <4>1. Reserves(d) = <<hole>> \o <<CutOff(d.start)>>
        BY <1>2, <2>1, <3>1 DEF Reserves
      <4> QED BY <2>2, <3>1, <4>1
    <3>2. CASE ~ReachesEnd(d) /\ is_usable_memory(d)
      <4>1. Reserves(d) = <<hole>>
        BY <1>2, <2>1, <3>2 DEF Reserves
      <4> QED BY <4>1
    <3>3. CASE ~ReachesEnd(d) /\ ~is_usable_memory(d)
      <4>1. Reserves(d) = <<hole>> \o <<Whole(d)>>
        BY <1>2, <2>1, <3>3 DEF Reserves
      <4> QED BY <2>2, <3>3, <4>1
    <3> QED BY <3>1, <3>2, <3>3
  <2> QED BY <1>2, <2>3 DEF hole
<1>3. CASE ~BeyondMemory(d) /\ ~(phys_end < d.start)
  <2>1. Hole(d) = << >>
    BY <1>3 DEF Hole
  <2>2. \/ ReachesEnd(d) /\ Reserves(d) = <<CutOff(d.start)>>
        \/ ~ReachesEnd(d) /\ is_usable_memory(d) /\ Reserves(d) = << >>
        \/ ~ReachesEnd(d) /\ ~is_usable_memory(d) /\ Reserves(d) = <<Whole(d)>>
    BY <1>3, <2>1 DEF Reserves
  <2> QED BY <1>3, <2>2
<1> QED BY <1>1, <1>2, <1>3

\* A usable frame is a frame of a usable descriptor.
LEMMA UsableOf ==
    ASSUME NEW f \in UsableFrames
    PROVE  \E j \in DOMAIN map : is_usable_memory(map[j]) /\ f \in Frames(map[j].start, map[j].pages)
BY DEF UsableFrames

\* One turn reserves regions that are not empty, and keeps clear of the usable
\* memory below the end of the managed memory.
LEMMA TurnApart ==
    ASSUME TypeOK, InitBelowLimit, LoopBehind, pc = "init", next <= Len(map),
           NEW r \in 1 .. Len(Reserves(map[next]))
    PROVE  LET region == Reserves(map[next])[r]
               ends == BeyondMemory(map[next]) \/ ReachesEnd(map[next])
           IN  /\ region.num > 0
               /\ Ascending => \A f \in Frames(region.frame, region.num) :
                                   f \in UsableFrames => ends /\ f >= avail_end
<1> DEFINE d == map[next]
           region == Reserves(d)[r]
           ends == BeyondMemory(d) \/ ReachesEnd(d)
<1>1. /\ d.start \in Nat /\ d.pages \in Nat \ {0} /\ next \in DOMAIN map
      /\ phys_end \in Nat /\ avail_end \in Nat /\ FrameCount \in Nat /\ phys_end < FrameCount
  BY DescriptorType, AllocatorAssumption DEF TypeOK, InitBelowLimit
<1>2. Ascending =>
        /\ phys_end <= d.start /\ avail_end <= phys_end
        /\ \A j \in DOMAIN map : j # next =>
             map[j].start + map[j].pages <= phys_end \/ d.start + d.pages <= map[j].start
  BY LoopFacts
<1>3. \A j \in DOMAIN map : map[j].start \in Nat /\ map[j].pages \in Nat \ {0}
  BY MapFacts
<1> SUFFICES /\ region.num > 0
             /\ Ascending => \A f \in Frames(region.frame, region.num) :
                                 f \in UsableFrames => ends /\ f >= avail_end
  OBVIOUS
<1>4. CASE BeyondMemory(d) /\ region = CutOff(phys_end)
  <2>1. region.frame = phys_end /\ region.num = FrameCount - phys_end
    BY <1>4 DEF CutOff
  <2> HIDE DEF region, d
  <2> QED BY <1>1, <1>2, <1>4, <2>1 DEF Frames
<1>5. CASE ~BeyondMemory(d) /\ ReachesEnd(d) /\ region = CutOff(d.start)
  <2>1. region.frame = d.start /\ region.num = FrameCount - d.start
    BY <1>5 DEF CutOff
  <2>2. d.start < FrameCount
    BY <1>1, <1>5 DEF BeyondMemory
  <2> HIDE DEF region, d
  <2> QED BY <1>1, <1>2, <1>5, <2>1, <2>2 DEF Frames
<1>6. CASE /\ phys_end < d.start
           /\ region = [frame |-> phys_end, num |-> d.start - phys_end]
  <2>1. region.frame = phys_end /\ region.num = d.start - phys_end
    BY <1>6
  <2>2. ASSUME Ascending, NEW f \in Frames(region.frame, region.num), f \in UsableFrames
        PROVE  FALSE
    <3>1. f \in Int /\ phys_end <= f /\ f < d.start
      <4> HIDE DEF region, d
      <4> QED BY <1>1, <2>1, <2>2 DEF Frames
    <3>2. PICK j \in DOMAIN map : f \in Frames(map[j].start, map[j].pages)
      BY <2>2, UsableOf
    <3>3. map[j].start <= f /\ f < map[j].start + map[j].pages
      BY <1>3, <3>1, <3>2 DEF Frames
    <3>4. j # next
      BY <3>1, <3>3, <1>1
    <3>5. map[j].start + map[j].pages <= phys_end \/ d.start + d.pages <= map[j].start
      BY <1>2, <2>2, <3>4
    <3> HIDE DEF d
    <3> QED BY <1>1, <1>3, <3>1, <3>3, <3>5
  <2> HIDE DEF region, d
  <2> QED BY <1>1, <1>6, <2>1, <2>2
<1>7. CASE ~is_usable_memory(d) /\ region = Whole(d)
  <2>1. region.frame = d.start /\ region.num = d.pages
    BY <1>7 DEF Whole
  <2>2. ASSUME NEW f \in Frames(region.frame, region.num), f \in UsableFrames
        PROVE  FALSE
    <3>1. PICK j \in DOMAIN map : is_usable_memory(map[j])
                                  /\ f \in Frames(map[j].start, map[j].pages)
      BY <2>2, UsableOf
    <3>2. j # next
      BY <1>7, <3>1
    <3>3. Frames(map[j].start, map[j].pages) \cap Frames(d.start, d.pages) = {}
      BY <1>1, <3>1, <3>2, MapFacts
    <3> QED BY <2>1, <2>2, <3>1, <3>3
  <2> HIDE DEF region, d
  <2> QED BY <1>1, <2>1, <2>2
<1> HIDE DEF ends
<1> QED BY <1>4, <1>5, <1>6, <1>7, ReservesRegions

\* A turn of page_allocator_init keeps the invariant.
LEMMA TurnKept ==
    ASSUME AllocatorInvariant, FreeInvariant, InitDescriptor
    PROVE  FreeInvariant'
<1> DEFINE d == map[next]
           ends == BeyondMemory(d) \/ ReachesEnd(d)
<1>0. /\ TypeOK /\ InitBelowLimit /\ NothingLiveInInit /\ LoopBehind /\ RegionsApart
  BY DEF AllocatorInvariant, FreeInvariant
<1>1. /\ pc = "init" /\ next <= Len(map) /\ map' = map /\ live' = live /\ live = {}
      /\ reserved' = reserved \o Reserves(d)
      /\ \/ ends /\ frame_end' = avail_end /\ avail_end' = avail_end /\ pc' = "idle"
         \/ /\ ~ends /\ pc' = "init" /\ next' = next + 1
            /\ phys_end' = d.start + d.pages
            /\ avail_end' \in {avail_end, d.start + d.pages}
  BY <1>0 DEF InitDescriptor, mark_uefi_reserved, NothingLiveInInit
<1>2. /\ d.start \in Nat /\ d.pages \in Nat \ {0} /\ next \in DOMAIN map
      /\ next \in Nat \ {0} /\ avail_end \in Nat /\ phys_end \in Nat
      /\ Len(map) \in Nat /\ DOMAIN map = 1 .. Len(map)
      /\ \A j \in DOMAIN map : map[j].start \in Nat /\ map[j].pages \in Nat \ {0}
  BY <1>0, <1>1, DescriptorType, MapFacts DEF TypeOK
<1>3. UsableFrames' = UsableFrames /\ Ascending' = Ascending
  BY <1>1 DEF UsableFrames, Ascending
<1>4. ManagedEnd' /\ LiveManaged' /\ FreeNeverPanics'
  BY <1>1 DEF ManagedEnd, Ready, LiveManaged, FreeNeverPanics
<1>5. LoopBehind'
  <2> SUFFICES ASSUME pc' = "init", Ascending
               PROVE  /\ avail_end' <= phys_end'
                      /\ next' = 1 => phys_end' = 0
                      /\ next' \in 2 .. Len(map) + 1 =>
                            phys_end' = map[next' - 1].start + map[next' - 1].pages
                      /\ \A j \in DOMAIN map :
                            j < next' => map[j].start + map[j].pages <= phys_end'
    BY <1>1, <1>3 DEF LoopBehind
  <2>1. /\ next' = next + 1 /\ phys_end' = d.start + d.pages
        /\ avail_end' \in {avail_end, d.start + d.pages}
    BY <1>1
  <2>2. phys_end <= d.start /\ avail_end <= phys_end
    BY <1>0, <1>1, LoopFacts
  <2>3. next' - 1 = next /\ next' # 1
    BY <1>2, <2>1
  <2>4. ASSUME NEW j \in DOMAIN map, j < next'
        PROVE  map[j].start + map[j].pages <= phys_end'
    <3>1. CASE j = next
      BY <1>2, <2>1, <3>1
    <3>2. CASE j # next
      <4>1. j < next
        BY <1>2, <2>1, <2>4, <3>2
      <4>2. map[j].start + map[j].pages <= phys_end
        BY <1>0, <1>1, <4>1 DEF LoopBehind
      <4> QED BY <1>2, <2>1, <2>2, <4>2
    <3> QED BY <3>1, <3>2
  <2>5. avail_end' <= phys_end'
    <3> HIDE DEF d
    <3> QED BY <1>2, <2>1, <2>2
  <2> QED BY <2>1, <2>3, <2>4, <2>5
<1>6. RegionsApart'
  <2> DEFINE regions == Reserves(d)
  <2>1. reserved \in Seq(Block) /\ regions \in Seq(Block) /\ reserved' = reserved \o regions
    BY <1>0, <1>1, <1>2, ReservesType DEF TypeOK
  <2>2. SUFFICES ASSUME NEW k \in DOMAIN reserved'
                 PROVE  /\ reserved'[k].num > 0
                        /\ Ascending =>
                             \A f \in Frames(reserved'[k].frame, reserved'[k].num) :
                                 f \in UsableFrames => f >= avail_end' /\ pc' # "init"
    BY <1>3 DEF RegionsApart
  <2>3. CASE k \in DOMAIN reserved
    <3>1. reserved'[k] = reserved[k]
      <4> HIDE DEF regions
      <4> QED BY <2>1, <2>3
    <3> QED BY <1>0, <1>1, <2>3, <3>1 DEF RegionsApart
  <2>4. CASE k \notin DOMAIN reserved
    <3>1. PICK r \in 1 .. Len(regions) : reserved'[k] = regions[r]
      <4> HIDE DEF regions
      <4>1. k \in 1 .. Len(reserved) + Len(regions) /\ k > Len(reserved)
        BY <2>1, <2>2, <2>4
      <4>2. k - Len(reserved) \in 1 .. Len(regions) /\ reserved'[k] = regions[k - Len(reserved)]
        BY <2>1, <4>1
      <4> QED BY <4>2
    <3>2. /\ regions[r].num > 0
          /\ Ascending => \A f \in Frames(regions[r].frame, regions[r].num) :
                              f \in UsableFrames => ends /\ f >= avail_end
      BY <1>0, <1>1, TurnApart
    <3>3. ends => avail_end' = avail_end /\ pc' # "init"
      BY <1>1
    <3> HIDE DEF regions, ends
    <3> QED BY <3>1, <3>2, <3>3
  <2> QED BY <2>3, <2>4
<1> QED BY <1>4, <1>5, <1>6 DEF FreeInvariant

\* Where the loop has ended, a step that leaves the map, the marks and the table
\* of regions alone need only account for the blocks.
LEMMA AfterInit ==
    ASSUME FreeInvariant, Ready, UNCHANGED initVars, pc' \notin {"init", "panic_init"},
           LiveManaged', FreeNeverPanics'
    PROVE  FreeInvariant'
<1>1. UNCHANGED <<map, avail_end, reserved, frame_end>>
  BY DEF initVars
<1>2. UsableFrames' = UsableFrames /\ Ascending' = Ascending
  BY <1>1 DEF UsableFrames, Ascending
<1>3. ManagedEnd' /\ LoopBehind'
  BY <1>1 DEF FreeInvariant, ManagedEnd, LoopBehind, Ready
<1>4. RegionsApart'
  BY <1>1, <1>2 DEF FreeInvariant, RegionsApart
<1> QED BY <1>3, <1>4 DEF FreeInvariant

\* With an ascending map a block that is held overlaps no reserved region.
LEMMA NoOverlap ==
    ASSUME AllocatorInvariant, FreeInvariant, Ascending, NEW b \in live
    PROVE  ~overlaps_reserved(b.frame, b.num)
<1> SUFFICES ASSUME NEW k \in DOMAIN reserved,
                    b.frame < reserved[k].frame + reserved[k].num,
                    b.frame + b.num > reserved[k].frame
             PROVE  FALSE
  BY DEF overlaps_reserved
<1>1. /\ b.frame \in Nat /\ b.num \in Nat
      /\ reserved[k].frame \in Nat /\ reserved[k].num \in Nat
  <2>1. b \in Block /\ reserved \in Seq(Block)
    BY DEF AllocatorInvariant, TypeOK
  <2>2. reserved[k] \in Block
    BY <2>1
  <2> QED BY <2>1, <2>2 DEF Block
<1>2. b.num > 0 /\ reserved[k].num > 0
  BY DEF FreeInvariant, LiveManaged, RegionsApart
<1>3. \E f \in Nat : /\ f \in Frames(b.frame, b.num)
                     /\ f \in Frames(reserved[k].frame, reserved[k].num)
  <2>1. CASE b.frame <= reserved[k].frame
    <3>1. /\ reserved[k].frame \in Frames(b.frame, b.num)
          /\ reserved[k].frame \in Frames(reserved[k].frame, reserved[k].num)
      BY <1>1, <1>2, <2>1 DEF Frames
    <3> QED BY <1>1, <3>1
  <2>2. CASE b.frame > reserved[k].frame
    <3>1. /\ b.frame \in Frames(b.frame, b.num)
          /\ b.frame \in Frames(reserved[k].frame, reserved[k].num)
      BY <1>1, <1>2, <2>2 DEF Frames
    <3> QED BY <1>1, <3>1
  <2> QED BY <1>1, <2>1, <2>2
<1>4. PICK f \in Nat : /\ f \in BlockFrames(b)
                       /\ f \in Frames(reserved[k].frame, reserved[k].num)
  BY <1>3 DEF BlockFrames
<1>5. f \in UsableFrames /\ f < frame_end
  BY <1>4 DEF AllocatorInvariant, OnlyUsableHandedOut, FreeInvariant, LiveManaged
<1>6. f >= avail_end
  BY <1>4, <1>5 DEF FreeInvariant, RegionsApart
<1>7. frame_end = avail_end /\ frame_end \in Nat
  BY DEF FreeInvariant, ManagedEnd, AllocatorInvariant, TypeOK
<1> QED BY <1>4, <1>5, <1>6, <1>7

\* Every step keeps the invariant of free.
LEMMA FreeStep ==
    ASSUME AllocatorInvariant, AlignedInvariant, FreeInvariant, [Next]_vars
    PROVE  FreeInvariant'
<1> USE DEF Ready
<1>0. LiveManaged /\ FreeNeverPanics
  BY DEF FreeInvariant
<1>1. CASE InitDescriptor
  BY <1>1, TurnKept
<1>2. CASE InitPanics \/ InitDone
  <2>1. /\ pc = "init" /\ live = {} /\ live' = {} /\ pc' \in {"panic_init", "idle"}
        /\ UNCHANGED <<map, avail_end, reserved>>
        /\ pc' = "idle" => frame_end' = avail_end
    BY <1>2 DEF InitPanics, InitDone, initVars, AllocatorInvariant, NothingLiveInInit
  <2>2. UsableFrames' = UsableFrames /\ Ascending' = Ascending
    BY <2>1 DEF UsableFrames, Ascending
  <2>3. RegionsApart'
    BY <2>1, <2>2 DEF FreeInvariant, RegionsApart
  <2>4. ManagedEnd' /\ LoopBehind' /\ LiveManaged' /\ FreeNeverPanics'
    BY <2>1 DEF ManagedEnd, LoopBehind, LiveManaged, FreeNeverPanics
  <2> QED BY <2>3, <2>4 DEF FreeInvariant
<1>3. CASE Call \/ SearchFails \/ SearchAdvances \/ AllocSkips \/ AlignedSkips
  <2>1. /\ pc \in {"idle", "alloc", "alloc_aligned_pages"}
        /\ pc' \in {"idle", "alloc", "alloc_aligned_pages"}
        /\ UNCHANGED initVars /\ live' = live
    BY <1>3 DEF Call, CallAlloc, CallAllocAligned, CallMisaligned, Search, SearchFails,
                SearchAdvances, AllocSkips, AlignedSkips, Blocked, Searching, Return
  <2>2. LiveManaged' /\ FreeNeverPanics'
    BY <1>0, <2>1 DEF LiveManaged, FreeNeverPanics, initVars
  <2> QED BY <2>1, <2>2, AfterInit
<1>4. CASE SearchSucceeds
  <2> DEFINE new == [frame |-> start_frame, num |-> num_frames]
  <2>1. /\ Searching /\ i = num_frames /\ pc' = "idle" /\ UNCHANGED initVars
        /\ live' = live \cup {new}
    BY <1>4 DEF SearchSucceeds, Return
  <2>2. new.num > 0 /\ \A f \in BlockFrames(new) : f < frame_end
    <3>1. num_frames \in Nat \ {0}
      BY <2>1, AllocatorAssumption DEF AlignedInvariant, RequestGiven
    <3>2. \A f \in Frames(start_frame, num_frames) : f < frame_end
      BY <2>1 DEF AllocatorInvariant, PassedFramesFree
    <3> QED BY <3>1, <3>2 DEF BlockFrames
  <2>3. LiveManaged'
    <3> HIDE DEF new
    <3> QED BY <1>0, <2>1, <2>2 DEF LiveManaged, initVars
  <2> QED BY <2>1, <2>3, AfterInit DEF Searching, FreeNeverPanics
<1>5. ASSUME NEW b \in live, Free(b)
      PROVE  FreeInvariant'
  <2>1. pc = "idle" /\ pc' = "idle" /\ UNCHANGED initVars /\ live' \subseteq live
    BY <1>5 DEF Free
  <2>2. LiveManaged'
    BY <1>0, <2>1 DEF LiveManaged, initVars
  <2> QED BY <2>1, <2>2, AfterInit DEF FreeNeverPanics
<1>6. ASSUME NEW b \in live, FreePanics(b)
      PROVE  FreeInvariant'
  <2>1. pc = "idle" /\ pc' = "panic_free" /\ UNCHANGED initVars /\ live' = live
    BY <1>6 DEF FreePanics
  <2>2. ~Ascending
    BY <1>6, NoOverlap DEF FreePanics
  <2>3. LiveManaged' /\ FreeNeverPanics'
    BY <1>0, <2>1, <2>2 DEF LiveManaged, FreeNeverPanics, Ascending, initVars
  <2> QED BY <2>1, <2>3, AfterInit
<1>7. CASE UNCHANGED vars
  <2>1. UsableFrames' = UsableFrames /\ Ascending' = Ascending
    BY <1>7 DEF vars, UsableFrames, Ascending
  <2> QED BY <1>7, <2>1 DEF vars, FreeInvariant, ManagedEnd, LoopBehind, RegionsApart,
                            LiveManaged, FreeNeverPanics
<1> QED
  BY <1>1, <1>2, <1>3, <1>4, <1>5, <1>6, <1>7 DEF Next, Step

\* With a memory map in ascending order, giving back a block is never mistaken
\* for an attempt to free firmware memory, for every such map and every sequence
\* of calls (page_allocator.c:185-188).
THEOREM FreeCorrect == Spec => []FreeNeverPanics
<1>1. Init => FreeInvariant
  <2> SUFFICES ASSUME Init PROVE FreeInvariant
    OBVIOUS
  <2>1. Len(map) \in Nat /\ DOMAIN map = 1 .. Len(map)
    BY TypeInit, MapFacts
  <2> QED BY <2>1 DEF Init, FreeInvariant, ManagedEnd, Ready, LoopBehind, RegionsApart,
                      LiveManaged, FreeNeverPanics
<1>2. AllocatorInvariant /\ AlignedInvariant /\ FreeInvariant /\ [Next]_vars => FreeInvariant'
  BY FreeStep
<1>3. FreeInvariant => FreeNeverPanics
  BY DEF FreeInvariant
<1> QED
  BY <1>1, <1>2, <1>3, InvariantCorrect, AlignedInvariantCorrect, PTL DEF Spec

-----------------------------------------------------------------------------
(* A search ends: the part of SearchEnds that needs no fairness.           *)

\* A step after which the search still goes on has found one more of the frames it
\* needs, or has given up a place below frame_end for a later one.  The pair
\* (frame_end - start_frame, num_frames - i) gets smaller with each such step, in
\* lexicographic order, and its second part is never negative.
SearchComesCloser ==
    Searching /\ Searching' =>
        /\ frame_end' = frame_end /\ num_frames' = num_frames
        /\ \/ start_frame' = start_frame /\ i' = i + 1 /\ i' <= num_frames
           \/ start_frame < start_frame' /\ start_frame < frame_end

\* alloc and alloc_aligned_pages try no place twice and look at no frame of a place
\* twice, whatever the bitmap, so that a search takes a bounded number of steps
\* (page_allocator.c:166-177, 201-213).
THEOREM SearchCloserCorrect == Spec => [][SearchComesCloser]_vars
<1>1. ASSUME AllocatorInvariant, AlignedInvariant, [Next]_vars, vars' # vars
      PROVE  SearchComesCloser
  <2> SUFFICES ASSUME Searching, Searching'
               PROVE  /\ frame_end' = frame_end /\ num_frames' = num_frames
                      /\ \/ start_frame' = start_frame /\ i' = i + 1 /\ i' <= num_frames
                         \/ start_frame < start_frame' /\ start_frame < frame_end
    BY DEF SearchComesCloser
  <2>1. /\ pc \in {"alloc", "alloc_aligned_pages"} /\ pc' # "idle"
        /\ num_frames \in Nat /\ i \in Nat /\ start_frame \in Nat /\ frame_end \in Nat
        /\ pc = "alloc_aligned_pages" => align_frame \in Nat \ {0}
    BY <1>1, AllocatorAssumption DEF Searching, AllocatorInvariant, TypeOK,
                                     AlignedInvariant, RequestGiven
  <2>2. SearchAdvances \/ AllocSkips \/ AlignedSkips
    BY <1>1, <2>1 DEF Next, Step, Call, InitDescriptor, InitPanics, InitDone, CallAlloc,
                      CallAllocAligned, Search, CallMisaligned, SearchFails, SearchSucceeds,
                      Return, Free, FreePanics
  <2>3. CASE SearchAdvances
    BY <2>1, <2>3 DEF SearchAdvances, initVars
  <2>4. CASE AllocSkips
    BY <2>1, <2>4 DEF AllocSkips, Blocked, Probe, AllocNext, initVars
  <2>5. CASE AlignedSkips
    BY <2>1, <2>5 DEF AlignedSkips, Blocked, Probe, AlignedNext, Return, initVars
  <2> QED BY <2>2, <2>3, <2>4, <2>5
<1>2. AllocatorInvariant /\ AlignedInvariant /\ [Next]_vars => [SearchComesCloser]_vars
  BY <1>1
<1> QED BY <1>2, InvariantCorrect, AlignedInvariantCorrect, PTL DEF Spec

=============================================================================
