---------------------------- MODULE PageAllocator ----------------------------
(***************************************************************************)
(* ymirc/page_allocator.c: the bitmap of page frames, filled from the UEFI  *)
(* memory map, and the first-fit searches of alloc and alloc_aligned_pages. *)
(*                                                                         *)
(* Memory is counted in frames: the firmware describes whole pages, and     *)
(* alloc and free round the size they are given up to whole pages.  The     *)
(* bitmap is the set used of frames whose bit is set.  The loop over the    *)
(* memory map takes one step per descriptor, the searches one step per      *)
(* frame that they look at.                                                *)
(***************************************************************************)
EXTENDS Integers, Sequences

CONSTANTS
    FrameCount,     \* FRAME_COUNT
    MaxReserved,    \* MAX_UEFI_RESERVED_RESIONS
    MemoryMaps,     \* the memory maps that the firmware may hand over
    Requests,       \* the sizes that are asked for, in frames
    Alignments      \* the alignments that are asked for, in frames

Descriptor == [type : {"Conventional", "BootServicesCode", "Other"},
               start : Nat, pages : Nat \ {0}]

Frames(start, num) == start .. start + num - 1

\* The firmware describes no frame twice; the order is its own.
WellFormedMap(m) ==
    /\ m \in Seq(Descriptor)
    /\ \A j, k \in DOMAIN m : j # k =>
         Frames(m[j].start, m[j].pages) \cap Frames(m[k].start, m[k].pages) = {}

\* No caller asks for 0 bytes or for the alignment 0.
ASSUME AllocatorAssumption ==
    /\ FrameCount \in Nat \ {0}
    /\ MaxReserved \in Nat
    /\ \A m \in MemoryMaps : WellFormedMap(m)
    /\ Requests \subseteq Nat \ {0}
    /\ Alignments \subseteq Nat \ {0}

VARIABLES
    map,            \* the memory map
    next,           \* the descriptor that page_allocator_init is at
    phys_end,       \* end of the last descriptor, as a frame
    avail_end,      \* end of the last usable descriptor, as a frame
    used,           \* bitmap
    reserved,       \* reserved_regions, up to reserved_region_count
    frame_end,      \* first frame that is not managed
    pc,             \* the function that runs
    kind,           \* the function that ran last (history)
    num_frames,     \* its argument, in frames
    align_frame,    \* its argument, in frames
    start_frame,    \* where the search tries
    i,              \* how many frames fit there so far
    result,         \* the frame that the last search returned, or NULL
    live            \* blocks handed out and not freed (history)

vars == <<map, next, phys_end, avail_end, used, reserved, frame_end, pc, kind,
          num_frames, align_frame, start_frame, i, result, live>>

initVars == <<map, next, phys_end, avail_end, reserved, frame_end>>
searchVars == <<num_frames, align_frame, start_frame, i>>

NULL == 0           \* frame 0 is never handed out
frame_begin == 1

Block == [frame : Nat, num : Nat]

TypeOK ==
    /\ map \in MemoryMaps
    /\ next \in Nat \ {0}
    /\ phys_end \in Nat
    /\ avail_end \in Nat
    /\ used \in SUBSET Nat
    /\ reserved \in Seq(Block)
    /\ frame_end \in Nat
    /\ pc \in {"init", "idle", "alloc", "alloc_aligned_pages", "panic_init",
               "panic_free"}
    /\ kind \in {"init", "alloc", "alloc_aligned_pages", "misaligned", "free"}
    /\ num_frames \in Nat
    /\ align_frame \in Nat
    /\ start_frame \in Nat
    /\ i \in Nat
    /\ result \in Nat
    /\ live \in SUBSET Block

-----------------------------------------------------------------------------
(* page_allocator_init                                                     *)

is_usable_memory(desc) == desc.type \in {"Conventional", "BootServicesCode"}

\* Faulty variant: memory between two descriptors is taken for free memory.
Faulty_Hole(desc) == <<>>

\* The hole before the descriptor, if the last one ended before it.
Hole(desc) ==
    IF phys_end < desc.start
    THEN <<[frame |-> phys_end, num |-> desc.start - phys_end]>> ELSE <<>>

Whole(desc) == [frame |-> desc.start, num |-> desc.pages]

\* What lies beyond the managed memory is cut off, and the loop ends.
CutOff(start) == [frame |-> start, num |-> FrameCount - start]

\* mark_uefi_reserved for each region: the bits are set, the region is added to
\* the table, which must have room.
FramesOf(regions) == UNION {Frames(regions[k].frame, regions[k].num) :
                              k \in DOMAIN regions}

mark_uefi_reserved(regions, unused) ==
    /\ Len(reserved) + Len(regions) <= MaxReserved
    /\ used' = (used \cup FramesOf(regions)) \ unused
    /\ reserved' = reserved \o regions

\* Faulty variant: only the end of a descriptor is compared with the limit.
Faulty_BeyondMemory(desc) == FALSE

\* One turn of the loop.  Each of the four outcomes lists the regions that it
\* reserves and the frames that it marks as not used.
BeyondMemory(desc) == phys_end < desc.start /\ desc.start >= FrameCount
ReachesEnd(desc) == desc.start + desc.pages >= FrameCount

Reserves(desc) ==
    IF BeyondMemory(desc) THEN <<CutOff(phys_end)>>
    ELSE IF ReachesEnd(desc) THEN Hole(desc) \o <<CutOff(desc.start)>>
    ELSE IF is_usable_memory(desc) THEN Hole(desc)
    ELSE Hole(desc) \o <<Whole(desc)>>

Frees(desc) ==
    IF ~BeyondMemory(desc) /\ ~ReachesEnd(desc) /\ is_usable_memory(desc)
    THEN Frames(desc.start, desc.pages) ELSE {}

InitDescriptor ==
    /\ pc = "init"
    /\ next <= Len(map)
    /\ LET desc == map[next]
       IN  /\ mark_uefi_reserved(Reserves(desc), Frees(desc))
           /\ \/ /\ BeyondMemory(desc) \/ ReachesEnd(desc)
                 /\ frame_end' = avail_end
                 /\ pc' = "idle"
                 /\ UNCHANGED <<next, phys_end, avail_end>>
              \/ /\ ~BeyondMemory(desc) /\ ~ReachesEnd(desc)
                 /\ phys_end' = desc.start + desc.pages
                 /\ avail_end' = IF is_usable_memory(desc)
                                 THEN desc.start + desc.pages ELSE avail_end
                 /\ next' = next + 1
                 /\ UNCHANGED <<frame_end, pc>>
    /\ UNCHANGED <<map, kind, searchVars, result, live>>

\* add_reserved_region finds the table full.
InitPanics ==
    /\ pc = "init"
    /\ next <= Len(map)
    /\ Len(reserved) + Len(Reserves(map[next])) > MaxReserved
    /\ pc' = "panic_init"
    /\ UNCHANGED <<initVars, used, kind, searchVars, result, live>>

InitDone ==
    /\ pc = "init"
    /\ next > Len(map)
    /\ frame_end' = avail_end
    /\ pc' = "idle"
    /\ UNCHANGED <<map, next, phys_end, avail_end, reserved, used, kind,
                   searchVars, result, live>>

-----------------------------------------------------------------------------
(* The searches.                                                           *)

Search(fn, num, align, start) ==
    /\ pc = "idle"
    /\ pc' = fn
    /\ kind' = fn
    /\ num_frames' = num
    /\ align_frame' = align
    /\ start_frame' = start
    /\ i' = 0
    /\ result' = NULL
    /\ UNCHANGED <<initVars, used, live>>

CallAlloc(num) == Search("alloc", num, 1, frame_begin)

CallAllocAligned(num, align) ==
    Search("alloc_aligned_pages", num, align, align)

\* An alignment that is not a multiple of the page size is refused.
CallMisaligned ==
    /\ pc = "idle"
    /\ kind' = "misaligned"
    /\ result' = NULL
    /\ UNCHANGED <<initVars, used, pc, searchVars, live>>

Searching == pc \in {"alloc", "alloc_aligned_pages"}

Return(frame) ==
    /\ pc' = "idle"
    /\ result' = frame

\* The frame that the inner loop looks at.
Probe == start_frame + i

\* Both searches end without a block when they run off the managed memory.
SearchFails ==
    /\ Searching
    /\ i < num_frames
    /\ Probe >= frame_end
    /\ Return(NULL)
    /\ UNCHANGED <<initVars, used, kind, searchVars, live>>

SearchAdvances ==
    /\ Searching
    /\ i < num_frames
    /\ Probe < frame_end
    /\ Probe \notin used
    /\ i' = i + 1
    /\ UNCHANGED <<initVars, used, pc, kind, num_frames, align_frame, start_frame,
                   result, live>>

\* A used frame at which the search gives up the place it tried.
Blocked ==
    /\ Searching
    /\ i < num_frames
    /\ Probe < frame_end
    /\ Probe \in used

\* Faulty variant: alloc skips one frame too many.
Faulty_AllocNext == start_frame + i + 2

\* Faulty variant: alloc tries the used frame again.
Faulty_AllocNext_Same == start_frame + i

\* alloc goes on behind the used frame.
AllocNext == start_frame + i + 1

AllocSkips ==
    /\ pc = "alloc"
    /\ Blocked
    /\ start_frame' = AllocNext
    /\ i' = 0
    /\ UNCHANGED <<initVars, used, pc, kind, num_frames, align_frame, result, live>>

\* Faulty variant: the search steps over every other multiple.
Faulty_AlignedNext == start_frame + 2 * align_frame

\* alloc_aligned_pages goes on at the next multiple of the alignment.
AlignedNext == start_frame + align_frame

\* It stops there when the block would reach frame_end.
AlignedSkips ==
    /\ pc = "alloc_aligned_pages"
    /\ Blocked
    /\ start_frame' = AlignedNext
    /\ \/ AlignedNext + num_frames >= frame_end /\ Return(NULL) /\ UNCHANGED i
       \/ /\ AlignedNext + num_frames < frame_end
          /\ i' = 0
          /\ UNCHANGED <<pc, result>>
    /\ UNCHANGED <<initVars, used, kind, num_frames, align_frame, live>>

mark_allocated(frame, num) == used \cup Frames(frame, num)

SearchSucceeds ==
    /\ Searching
    /\ i = num_frames
    /\ used' = mark_allocated(start_frame, num_frames)
    /\ live' = live \cup {[frame |-> start_frame, num |-> num_frames]}
    /\ Return(start_frame)
    /\ UNCHANGED <<initVars, kind, searchVars>>

-----------------------------------------------------------------------------
(* free                                                                    *)

\* Faulty variant: a block that ends where a region begins overlaps it.
Faulty_overlaps_reserved(frame, num) ==
    \E k \in DOMAIN reserved :
        /\ frame <= reserved[k].frame + reserved[k].num
        /\ frame + num >= reserved[k].frame

overlaps_reserved(frame, num) ==
    \E k \in DOMAIN reserved :
        /\ frame < reserved[k].frame + reserved[k].num
        /\ frame + num > reserved[k].frame

\* Faulty variant: the frame behind the block is released with it.
Faulty_mark_not_used(frame, num) == used \ Frames(frame, num + 1)

mark_not_used(frame, num) == used \ Frames(frame, num)

\* The caller gives back a block that it got, with the size it asked for.
Free(b) ==
    /\ pc = "idle"
    /\ ~overlaps_reserved(b.frame, b.num)
    /\ used' = mark_not_used(b.frame, b.num)
    /\ live' = live \ {b}
    /\ kind' = "free"
    /\ result' = NULL
    /\ UNCHANGED <<initVars, pc, searchVars>>

FreePanics(b) ==
    /\ pc = "idle"
    /\ overlaps_reserved(b.frame, b.num)
    /\ pc' = "panic_free"
    /\ UNCHANGED <<initVars, used, kind, searchVars, result, live>>

-----------------------------------------------------------------------------

Init ==
    /\ map \in MemoryMaps
    /\ next = 1
    /\ phys_end = 0
    /\ avail_end = 0
    /\ used = {}
    /\ reserved = <<>>
    /\ frame_end = 0
    /\ pc = "init"
    /\ kind = "init"
    /\ num_frames = 0
    /\ align_frame = 1
    /\ start_frame = 1
    /\ i = 0
    /\ result = NULL
    /\ live = {}

Call ==
    \/ \E num \in Requests : CallAlloc(num)
    \/ \E num \in Requests, align \in Alignments : CallAllocAligned(num, align)
    \/ CallMisaligned

Step ==
    \/ SearchFails \/ SearchAdvances \/ AllocSkips \/ AlignedSkips
    \/ SearchSucceeds

Next ==
    \/ InitDescriptor \/ InitPanics \/ InitDone
    \/ Call
    \/ Step
    \/ \E b \in live : Free(b) \/ FreePanics(b)

Spec == Init /\ [][Next]_vars

\* The functions run to their end.
FairSpec == Spec /\ WF_vars(Step)

-----------------------------------------------------------------------------

\* The frames that the firmware gave to the kernel.
UsableFrames ==
    UNION {Frames(map[k].start, map[k].pages) :
             k \in {l \in DOMAIN map : is_usable_memory(map[l])}}

BlockFrames(b) == Frames(b.frame, b.num)

\* No two blocks that callers hold share a frame (page_allocator.c:163-214).
LiveBlocksDisjoint ==
    \A a, b \in live : a # b => BlockFrames(a) \cap BlockFrames(b) = {}

\* A caller never gets frame 0, memory that the firmware keeps, a hole of the
\* memory map, or memory beyond the managed range, in whatever order the map
\* lists its descriptors (page_allocator.c:127-161).
OnlyUsableHandedOut ==
    \A b \in live : BlockFrames(b) \subseteq UsableFrames \ {0}

Ascending ==
    \A j \in 1 .. Len(map) - 1 : map[j].start < map[j + 1].start

\* With a memory map in ascending order, giving back a block that came from
\* the allocator is never mistaken for an attempt to free firmware memory
\* (page_allocator.c:185-188).
FreeNeverPanics == Ascending => pc # "panic_free"

\* A place that a search could have taken.
Fits(start, num) ==
    /\ start >= frame_begin
    /\ start + num <= frame_end
    /\ Frames(start, num) \cap used = {}

\* The search named has just come back empty-handed.
Refused(fn) == pc = "idle" /\ kind = fn /\ result = NULL

\* alloc returns NULL only when no run of free frames is long enough
\* (page_allocator.c:166-177).
AllocComplete ==
    Refused("alloc") => \A s \in 1 .. frame_end : ~Fits(s, num_frames)

\* alloc_aligned_pages returns NULL only when no aligned run of free frames is
\* long enough, except for one that ends with the last managed frame
\* (page_allocator.c:201-213).
AlignedNearlyComplete ==
    Refused("alloc_aligned_pages") =>
        \A s \in 1 .. frame_end :
            s % align_frame = 0 /\ s + num_frames < frame_end
                => ~Fits(s, num_frames)

\* Every search comes to an end (page_allocator.c:166, 201).
SearchEnds == Searching ~> pc = "idle"

-----------------------------------------------------------------------------
(* What the invariants above rest on; PageAllocatorProofs shows that they   *)
(* are inductive together.                                                 *)

\* page_allocator_init leaves its loop as soon as a descriptor reaches the
\* limit, so that FrameCount - phys_end is never negative.
InitBelowLimit == pc = "init" => phys_end < FrameCount

\* Whatever lies below one of the three marks is in use or was given to the
\* kernel by the firmware.
BelowMarksCovered ==
    (0 .. phys_end - 1) \cup (0 .. avail_end - 1) \cup (0 .. frame_end - 1)
        \subseteq used \cup UsableFrames

\* A block that is held is marked in the bitmap.
LiveMarked == \A b \in live : BlockFrames(b) \subseteq used

NothingLiveInInit == pc = "init" => live = {} /\ kind = "init"

\* The frames that the search has passed are free and managed.
PassedFramesFree ==
    Searching =>
        /\ start_frame >= 1
        /\ i <= num_frames
        /\ kind = pc
        /\ \A f \in Frames(start_frame, i) : f < frame_end /\ f \notin used

\* No place behind the search was good.
PassedPlacesBad ==
    pc = "alloc" =>
        \A s \in 1 .. start_frame - 1 :
            \E f \in Frames(s, num_frames) : f \in used \/ f >= frame_end

AllocatorInvariant ==
    /\ TypeOK
    /\ InitBelowLimit
    /\ BelowMarksCovered
    /\ LiveMarked
    /\ NothingLiveInInit
    /\ PassedFramesFree
    /\ PassedPlacesBad
    /\ LiveBlocksDisjoint
    /\ OnlyUsableHandedOut
    /\ AllocComplete

=============================================================================
