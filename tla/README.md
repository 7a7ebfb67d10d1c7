# YmirC in TLA+

YmirC is a small type-1 hypervisor for AMD SVM.  SurtrC, a UEFI application,
loads it; YmirC sets up its own page tables, allocators and interrupt
controller, loads one Linux guest and runs it on one vCPU.  This directory
specifies the parts of it in which order, interruption and boundary cases decide
whether it works, checks them with TLC on small instances, and proves with TLAPS, for
all instances, the safety of the page allocator and of the general allocator, of the boot
from the firmware to a guest that is ready, of the host's and the guest's page tables, of the guest's exits
(ports, CPUID, MSRs), of the vCPU loop with its delivery of interrupts, and the
end-of-interrupt of the primary 8259.

Paths below are relative to the repository (`src/`); `x86/` is
`ymirc/arch/x86/`.

## 1. The system

| Component | State | Operations | Interacts with |
|---|---|---|---|
| Host 8259 driver, `x86/pic.c` | none of its own; the request, in-service and mask registers of two chips | `pic_init`, `set_mask`, `unset_mask`, `notify_eoi` | called by `main.c` and by the interrupt handler |
| Interrupt dispatch, `x86/interrupt.c`, `x86/isr.c` | `handlers[]`, `subscribers[]` | `itr_init`, `register_handler`, `subscribe2interrupt`, `itr_dispatch` | calls the vCPU's callback, then YmirC's handler |
| Kernel start, `ymirc/main.c` | none | `kernel_main`, `blob_irq_handler` | everything, once and in order |
| vCPU loop, `x86/svm_vcpu.c` | `pending_irq`, `last_injected_irq`, the VMCB | `svm_vcpu_loop`, `handle_exit`, `inject_ext_intr`, `intr_subscriber_callback` | runs the guest; shares `pending_irq` with interrupt context |
| Guest I/O, `x86/svm_ioio.c` | `guest_ioio_state`: two emulated 8259 chips, two serial registers | `handle_svm_ioio_exit` and its handlers | its masks, vector bases and phases steer the injection |
| MSR, CPUID, VMMCALL, `x86/svm_msr.c`, `svm_cpuid.c`, `svm_vmmc.c` | the VMCB's save area | one handler each | an EFER write asks for a TLB flush at the next VMRUN; what CPUID shows, WRMSR must take |
| Page allocator, `ymirc/page_allocator.c` | bitmap, reserved regions, `frame_end` | `page_allocator_init`, `alloc`, `alloc_aligned_pages`, `free` | used by the page tables, the VMCB, the guest's memory and the general allocator |
| General allocator, `ymirc/bin_allocator.c` | seven free lists | `bin_alloc`, `bin_free` | page allocator |
| Host page tables, `x86/page.c` | the tables | `reconstruct` | page allocator, `mem.c` |
| Nested page tables, `x86/svm_npt.c` | the tables | `init_npt`, `map2m` | page allocator |
| Guest loader, `x86/vm.c`, `ymirc/linux.h` | the guest's memory | `setup_guest_memory`, `load_kernel` | page allocator, nested page tables |
| SurtrC, `surtrc/` | UEFI's tables and memory | `efi_main`, `map_4k_to`, `change_map_4k` | hands the memory map and the images to YmirC |

What is hard about it:

* **Interruption.**  One processor runs everything, and three things may break in:
  the guest (through #VMEXIT), a hardware interrupt (when the host's flag and GIF
  are set) and the device that raises the next request.  `pending_irq` is written
  in interrupt context and in `handle_exit`.
* **A protocol with the guest.**  A virtual interrupt that is posted is taken when
  the guest's flag and interrupt shadow allow, possibly after several exits that
  rewrite the same fields.
* **A protocol with a chip.**  Both the real and the emulated 8259 interpret a byte
  by what came before it.
* **Waiting.**  The HLT path sleeps in the host; injection happens only at two
  kinds of exit.
* **Boundaries.**  The allocator's searches, its memory map with holes, and the end
  of the managed memory; page tables at the edges of their
  entries.
* **Two copies of one truth.**  CR3 and `mapping_reconstructed`, a chunk's link and the
  data of its owner, the memory map that SurtrC has read and the one that the firmware
  goes on changing, the types of that map and the memory that is in use, two CPUID
  leaves with the same features.
* **A retry.**  ExitBootServices fails when the map has changed, and is tried again once.

The list `hazards` of `PROJECT.json` names each of these at its line.

## 2. Modules

| Module | Models | Depends on |
|---|---|---|
| `HostPic` | `pic.c` and the pair of chips it programs | |
| `HostPicProofs` | a theorem about `HostPic` | `HostPic` |
| `Kernel` | `kernel_main`, registration, dispatch, the processor's interrupt flags | `HostPic` |
| `Bits` | the bit tests of `bits.h` | |
| `IoioState` | `svm_ioio_guest_state.h` and what a byte does to an emulated chip | `Bits` |
| `IoioProofs` | what one byte does to an emulated chip, for the two modules below that need it | `IoioState` |
| `SvmIoio` | `svm_ioio.c` and the permission map of `setup_vmcb_ioio` | `IoioState` |
| `GuestExits` | the composition: `SvmIoio`, `svm_cpuid.c` and `svm_msr.c`, under an arbitrary guest | `SvmIoio` |
| `GuestExitsProofs` | theorems about `GuestExits` and `SvmIoio` | `GuestExits`, `IoioProofs` |
| `Vcpu` | the composition: `Kernel`, the vCPU loop, the emulated chips, the SVM hardware and an arbitrary guest | `Kernel`, `IoioState`, `VirqChannel` |
| `VcpuProofs` | theorems about `Vcpu`: under any guest, then delivery and the refinement of `VirqChannel` | `Vcpu`, `IoioProofs` |
| `VirqChannel` | abstract: the interrupts owed to the guest | |
| `PageAllocator` | `page_allocator.c` | |
| `PageAllocatorProofs` | theorems about `PageAllocator` | `PageAllocator` |
| `PageTables` | tables of entries in memory and the walk of the processor | |
| `NestedPaging` | the steps of `init_npt` in `svm_npt.c` | `PageTables` |
| `HostPaging` | the composition: `surtrc/arch/x86/page.c`, `x86/page.c`, `mem.c`, then the call of `init_npt` | `NestedPaging` |
| `HostPagingProofs` | theorems about `HostPaging` and `NestedPaging` | `HostPaging` |
| `BinAllocator` | `bin_allocator.c`, over an abstract page allocator | |
| `BinAllocatorProofs` | theorems about `BinAllocator` | `BinAllocator` |
| `SurtrBoot` | `efi_main` of `surtrc/boot.c`, and the firmware it calls | |
| `GuestLoad` | the composition: `SurtrBoot`, what `kernel_main` does to memory, and the guest loader of `vm.c` and `linux.h` | `SurtrBoot` |
| `GuestLoadProofs` | theorems about `GuestLoad` and `SurtrBoot` | `GuestLoad` |
| `MCVcpu`, `MCGuestExits`, `MCPageAllocator`, `MCHostPaging`, `MCBinAllocator`, `MCGuestLoad` | instances for TLC | |

Definitions whose name begins with `Faulty_` are variants of the definition below
them with a plausible mistake; they show that a property notices it and are used
by no specification.

### HostPic

A line 0..15 is in the sets `irr`, `isr` and `imr` of the two chips together.
`pic_init`, `set_mask`, `unset_mask` and `notify_eoi` are the functions of
`pic.c`.  The chips are hardware and follow from how `pic.c` programs them: edge
triggered, fully nested, no automatic EOI.  Note that `notify_eoi` sends both EOI
commands of a secondary line to the secondary chip, as the code does.

### Kernel

`pc` is the place that the processor has reached, `inflight` the line whose
service routine suspends that place.  `Accept` is the acknowledge cycle and the
interrupt gate; `RunHandler` is `blob_irq_handler` or `unhandled_handler` and the
return.  The steps of `kernel_main` are those that the interrupt path can tell
apart; the calls between `arch_init` and `pic_init` (page allocator, page
tables, general allocator) are the place `"pic_init"`, during which interrupts
are on.

### Vcpu

| Code | Action |
|---|---|
| VMRUN in `asm_vmrun` | `VmRun` |
| `handle_exit`, case INTR, up to the STGI / from the CLGI on | `HandleIntr` / `HandleIntrClose` |
| case HLT: condition of the loop, `hlt`, `clgi` | `HandleHlt`, `HltSleep`, `HltClose` |
| cases IOIO, MSR, CPUID, VMMCALL, default | `HandleIoio`, `HandleMsr`, `HandleCpuid`, `HandleVmmcall`, `HandleOther` |
| `inject_ext_intr` | `inject_ext_intr`, `Injectable`, `Candidates`, `Post` |
| `itr_dispatch` with `intr_subscriber_callback` | `itr_dispatch` |

Between STGI and CLGI, and around the `hlt`, the processor takes every interrupt
that is due (`InterruptArrives`, `itr_dispatch`) before the next instruction:
`Quiet` guards those steps.  With GIF clear no interrupt is taken, so that the
rest of `handle_exit` is one step.

The guest (`GuestSti`, `GuestCli`, `GuestIret`, `GuestNop`, `GuestHlt`, `GuestIo`,
`GuestExits`) is any code, reduced to what it does to its interrupt flag, its
interrupt shadow and the emulated chips.  `TakeVirq`, `VmExit` and
`GuestInterrupted` are the processor.  `ShadowInsns` says what the guest does in
the instruction after an STI.

`owed` and `served` are history: the lines noted for the guest and not yet taken
by it, and a bit that flips with every delivery.

### SvmIoio and GuestExits

Every access that leaves the guest runs the handler of its port; `log` is the
history of the bytes that each emulated chip got, and `ChipAfter` is a reference
reading of such a history that knows nothing of phases.

`GuestExits` adds the other two exits with which a guest explores its machine.  A
register of the guest is a pair of halves, because the handlers select by all of
`rcx` and `rax` while `concat_64` takes the lower halves only.  A word of feature bits
is a set of names; `host` is what the processor itself says in edx of leaf
0x80000001, which shows through.  `save` is what WRMSR stores, in the VMCB or
(`MSR_TSC_AUX`) in the processor.  `told`, `read` and `written` are history.

A program (constant `Programs`) says which ports, values, leaves and registers a guest
uses; within that it may do anything in any order.

### PageAllocator

Memory is counted in frames and the bitmap is a set.  One step is one turn of the
scan of the memory map, or one frame that a search looks at.  `live` is history:
the blocks that callers hold.  A caller frees a block with the size it asked for.
The memory map is a constant set of maps, of which the firmware picks one; the only
assumption is that no frame is described twice.  Requests for 0 bytes and the alignment 0,
which no caller in the repository uses, are left out.

### PageTables, NestedPaging and HostPaging

A table is a function from indices to entries, an entry a set of flags and what it
points to; tables are named by the order of their allocation, and addresses are
counted in 4 KiB pages.  `Translate` is the processor's walk, the reference for
everything that the code stores.  `memory` is the number of tables for which there
is memory: when it is used up, `allocate_table` panics (or the loader exits).

`NestedPaging` is `init_npt`: a step is one level of `map2m`; `HostPaging` calls it when
the host's own tables are in force.  In `HostPaging`,
`set_lv4table_writable`, `map_4k_to` and `change_map_4k` are SurtrC's; `Reconstruct`,
`DirectMap`, `CloneEntry`, `LoadCr3` and `set_mem_reconstructed` are the parts of
`reconstruct` in their order.  `clone_lv3_table` gives the tables that the function
allocates, copies of the old ones: the code does not link the copies of the lower
levels, so neither does the model.  `boot_tables` is history, the number of tables
made before YmirC ran.  `Installed` are the pages of memory that there are: before
`reconstruct` an address is good for `phys2virt` only if it is one of them.
`FirmwareAssumption` says what the code relies on without looking; among others that an entry
that is not present is 0, since `map_4k_to` sets bits in the old value instead of replacing it
(`surtrc/arch/x86/page.c:56-71`).

### BinAllocator

A free chunk's link is kept in the chunk (`lists.next`), where its owner may write
data (`Junk`) while it is not free (`OwnerWrites`); a fresh page is full of data.
`FreeRefused` is the path of `bin_free` for a misaligned pointer.

### SurtrBoot and GuestLoad

`type` and `mem` are the machine's memory: a type per page, a content per byte, where
a byte of a file is the name of the file and the offset.  One action of `SurtrBoot` is
one part of `efi_main` between calls of the firmware whose outcome matters
(`TRY_EFI` goes on or returns); one action of `GuestLoad` is one `load_image` of
`load_kernel`.  The page tables are contents like others here; what is in them is
`HostPaging`'s matter.

The firmware is external: `FreeRuns`, `GetMemoryMap` (which fails when the buffer is
too small for the map) and `FirmwareActs`, by which it takes or gives back a page and
changes the key, at the two places where that matters.  Three things are taken from it and
from the build as they are.  `ExitBootServices` fails with `EFI_INVALID_PARAMETER` only, the one
error that UEFI defines for it; `boot.c:296` asks for no other, so that a firmware with a further
error would be taken for one whose services have ended.  `Read` returns all it was asked for or
fails; `load_segment` would fill up a file that is too short with zeros.  The segments of the kernel
have pages of their own, as `ymirc/linker.ld` aligns them (`SegmentsApart`): after a segment
`change_map_4k` may have made its pages read-only.

`kernel_main` writes over every page that the map which it was given calls usable;
this stands for whatever YmirC keeps in its memory.  `guest_mem` is the guest's
memory, `bp` the parameters that are being put together, `zero_page` the copy the guest
gets: a field set after the copy would be missing in it.  Sums of `size_t` wrap at
`Word`, and a copy that passes the check because of that ends in `"overrun"`.

## 3. What TLC checks

| Run | What it shows |
|---|---|
| `host_pic` | With lines of the primary chip: after each service routine nothing is left in service, and an unmasked request that nothing outranks is served. |
| `host_pic_cascade` | **Violated.** With line 8, the cascade input 2 stays in service for good (`pic.c:91`). |
| `guest_exits` | After every sequence of up to 6 writes to the two emulated chips, in any interleaving, each holds what its own writes call for, and ICW3 is checked.  Over every class of port and operand size, byte accesses to timer and serial port never stop the machine.  Masks, serial registers and EFER read back as written, dirty upper halves or not.  The two leaves with feature bits agree on every host, and the registers behind a feature that is shown can be written. |
| `vcpu_any_guest` | Whole path, unrestricted guest: the injection is never interrupted, no line without handler is taken after `pic_init`, no stale translation is used. |
| `vcpu_delivery` | The guest does nothing in an STI shadow that has to do with interrupts: no interrupt is lost or duplicated, and the loop implements `VirqChannel`; a sleeping guest wakes, an owed timer interrupt is delivered to a guest that stays open to it, a tick is noted. |
| `vcpu_sti_hlt` | **Violated.** With `STI; HLT` a posted line is overwritten (`svm_vcpu.c:356`). |
| `vcpu_sti_cli` | **Violated.** With `STI; CLI` a posted line is delivered twice (`svm_vcpu.c:339-349`). |
| `page_allocator` | Blocks are disjoint and usable although some maps go back and forth and one overflows the table of reserved regions; with an ascending map `free` does not panic; the searches are complete (the aligned one up to its last place) and end. |
| `host_paging` | On both sides of the change of CR3 the kernel image stays where it is with its rights; `phys2virt` and `virt2phys` agree with the walk whenever they may be used; the final map is the direct map and the old kernel region, nothing else.  Of the guest's tables: at every moment exactly the guest's pages so far are mapped, each to its own place; every entry lets user accesses through; no page is met twice. |
| `host_paging_clone` | **Violated.** After `reconstruct` the processor still reads the loader's level 2 and level 1 tables: the clones are never linked (`x86/page.c:108`, `126`). |
| `guest_load` | From `efi_main` to a guest that is ready, under a firmware that may fail, be out of memory and change the map: YmirC never starts before the services have ended, or with an old map; one change of the map does not stop the boot; whatever YmirC writes to the memory it takes for free, its own image, the loader's tables, the guest's image and the initrd stay intact; a guest that is started finds all its parts where its parameters say, and a map of exactly its memory. |
| `bin_allocator` | Whatever the owners of blocks write, the free lists stay lists; blocks are disjoint and large enough; no chunk is lost, listed twice or refused. |

The four violations are the entries of `findings`.  None of them contradicts how
YmirC runs today on its usual path: the kernel unmasks lines 0 and 4 only, and
the two injection cases need a posted interrupt to meet an STI shadow.  The tables
that `reconstruct` keeps are in `EfiBootServicesData` memory, which `is_usable_memory`
leaves out; `NeededMemoryKept` shows that this is what protects them.

`GuestGetsItsImages` has an exception, `Regular`.  `load_kernel` compares the size of the
whole image with the guest's memory, and neither its end with the start of the initrd
(95 MiB above the kernel) nor its length with `setup_sects`.  A larger kernel overwrites the
initrd, and for a shorter one `kernel_size - code_offset` wraps.  The third case is
an image whose `setup_sects` is 0.  `setupheader_from_bzimage` (`linux.h:99-105`) takes 0 for 4,
as the boot protocol does for old images, but nothing calls it: `load_kernel` copies the header
with `bootparams_from_bzimage`, takes the 0 as it is and loads the image from its second
sector on.  `SetupSects`, by which `CodeSize` says where the code is, follows
`setupheader_from_bzimage`, so the property would fail for such an image, and `Regular` leaves it
out.  No doc, comment or test says what should happen in the three cases, so none is a finding;
all of them happen in the run (the places `"init_npt"` and `"overrun"` are reached with such
images).

`AlignedNearlyComplete` has an exception, because `alloc_aligned_pages` gives up when
`start_frame + num_frames >= frame_end` (`page_allocator.c:212`) and so refuses an aligned
block that ends with the last managed frame, which `alloc` does hand out: one block of
memory is out of its reach.

### Bounds

* Lines 0 and 4 in the vCPU runs: the two that `kernel_main` unmasks; one outranks
  the other, which is all that injection order needs.  The chip runs use up to
  four lines and, for the cascade, one of the secondary chip.
* The guest programs the primary chip with bytes that open line 0 (4, as a mask it
  masks line 2), mask line 0 (1) or start an initialization (17).  4 is also the
  only ICW3 that is accepted.  All phases are reached.
* Six writes to the emulated chips are enough for a full initialization, an
  initialization that breaks another off, and a mask before and after.
* Ten frames, requests of up to three, alignments up to four; five maps with
  firmware memory, holes, memory that ends at, crosses and lies beyond the limit, and
  four that are not in ascending order.
* Page tables of four entries: entry 0 of the root is the firmware's, 1 the direct
  map, 3 the kernel, and a guest of five large pages crosses a boundary of every level; three firmware maps (1 GiB pages,
  2 MiB pages, one with mappings of its own in the kernel region and none where there is no
  memory); images within one
  level 1 table, across two, and across two of level 2.
* Two bins, two pages of four units, three blocks at a time, and sizes at the edges
  of the bins and of a page: both bins compete for the pages, and lists span pages
  in every order.
* `guest_exits`: the writes to the chips are counted in one program, the operand sizes
  in another, so that the two do not multiply; three writes of MSRs are enough for a value,
  another and a mixture of their halves; hosts with no, all and the usual feature bits.
* `guest_load`: 13 pages of four bytes, of which the kernel takes two or three, the tables two, the
  images up to four and the guest's memory three; six descriptors fit into the buffer, and
  firmwares exist whose map fits, does not fit, and ceases to fit between the two calls; the
  map changes at most twice, once more than the retry can take.  Images end before, at
  and behind the start of the initrd and the end of the guest's memory.  `Word` is larger
  than twice the guest's memory, so that only a wrapped difference overflows, as with 64 bits.

### Fairness

`vcpu_delivery` assumes that the processor keeps executing YmirC and its guest (weak
fairness of the steps of the loop, of interrupt acceptance and dispatch), that the
timer ticks again and again, and that it looks at its interrupt pin at instruction
boundaries (strong fairness of `GuestInterrupted`).  `LoadBounded` says that
there are moments without a due interrupt: the handler is two port writes and the
devices are a timer and a serial line.  Steps that wait for such a moment
(`HandleIntrClose`, `HltSleep`, `HltClose`) and steps of the guest that such a moment
allows (`TakeVirq`, `GuestNop`) are strongly fair for the same reason.  Nothing is
assumed of the guest's other instructions.  `host_pic` assumes that service
routines return; `page_allocator` that a function that was called runs; `guest_load` that
SurtrC and YmirC run on, and nothing of the firmware beyond the answers to calls.

## 4. What is proved

The theorems hold for every value of the constants that the named assumptions
(`ASSUME`) of the modules allow; TLC evaluates each of those on its instances.
`theorems` of `PROJECT.json` lists them.  Each component has one module of proofs, with an
inductive invariant, a lemma that the first state has it, a lemma per action that it is
kept, and the theorems that follow.  TLC has checked every invariant named here on the
component's instance.

### The page allocator (`PageAllocatorProofs`)

For every `FrameCount`, every set of memory maps without overlap (in any order), every set
of request sizes and alignments (`AllocatorAssumption`):

* `TypeCorrect`: types, and that no region that the scan reserves has a negative
  size.  This needs `InitBelowLimit`: the scan stops as soon as a descriptor reaches
  the limit.
* `InvariantCorrect`: `AllocatorInvariant`, from which follow
  `BlocksDisjointCorrect`, `UsableCorrect` and `AllocCompleteCorrect`.
  `LiveBlocksDisjoint` is not inductive: a search that succeeds must
  know that the frames it takes are held by nobody.  `LiveMarked` (what is held is
  marked) and `PassedFramesFree` (what the search has passed is unmarked and below
  `frame_end`) give that.  `OnlyUsableHandedOut` needs that an unmarked frame below
  `frame_end` is usable: `BelowMarksCovered`, which the scan establishes one descriptor
  at a time (holes and firmware memory become marked, usable memory is usable) and which
  `free` keeps because a block consists of usable frames.  `AllocComplete` needs
  `PassedPlacesBad`: each place behind the search contains a marked frame or ends
  beyond the memory.
* `AlignedCompleteCorrect`, with `AlignedInvariant`: each multiple of the alignment behind the
  search is a bad place, and between two neighbouring multiples there is none
  (`NoMultipleBetween`).  The search gives up where the next place would end at
  or beyond `frame_end`, which is the exception that the property states.
* `FreeCorrect`, with `FreeInvariant`.  `free` compares a block with the reserved regions, so that
  none of them may touch usable memory.  In an ascending map the loop of
  `page_allocator_init` is behind all descriptors it has seen (`LoopBehind`), so that what it
  reserves between two of them is a hole (`RegionsApart`); the only region that may
  cover usable memory is the one at the end, beyond `frame_end`, and blocks
  end before that (`ManagedEnd`, `LiveManaged`).
* `SearchCloserCorrect`, the part of `SearchEnds` that needs no fairness: a step after which a
  search still goes on has found one more free frame of the same place, at most `num_frames` of
  them, or has left a place below `frame_end` for a later one.  The pair of what is left of
  the memory and of the place gets smaller with each step, in lexicographic order.

### The general allocator (`BinAllocatorProofs`)

For every page size, every ascending sequence of bins that divide a page, every finite set of
pages, all request sizes and every sequence of calls (`BinsAssumption`); owners write what they
like to their blocks, and fresh pages hold old data.

* `BinInvariant`: `Inv`, from which follow `BinTypeCorrect`, `BinListsIntact`, `BinBlocksDisjoint`,
  `BinFreeMeansFree` and `BinNothingLeaked`.  None of the properties is inductive: a list that ends
  today may hold a chunk whose link leads into another bin, and a block that overlaps nothing
  may lie across two pages and be given back as a chunk.  `Inv` says that there are
  sequences, one per bin, that the lists spell out (`FreeList`: the head is the top, each link
  leads to the chunk below, no chunk comes twice, each is aligned to its size), that blocks lie
  where `bin_alloc` puts them (`WellPlaced`), and that chunks, blocks and free pages
  together are a partition of the addresses (`Partition`).
* Each call replaces some pieces of the partition by others with the same units: a page
  by its chunks, a chunk by a block, a block by a chunk or by its pages.  The lemma `Exchange`
  shows once that such a replacement keeps the partition; a lemma per kind of call (`CutPage`,
  `TakeChunk`, `GiveChunk`, `TakePages`, `GivePages`) says which pieces it replaces, and
  `DataStaysInBlock` that what an owner writes reaches no link.
* `init_bin_page` and the walk of a list are recursive functions.  What they give is shown
  by the first index at which it would be wrong (`Smallest`), for `InitBinPageIs` and `ChainIs`;
  the walk ends because a stack without repetitions is no higher than there are addresses
  (`StackFits`).

### From the firmware to a guest (`GuestLoadProofs`)

For every memory, every set of files and any number of changes of the memory map:

* `MapIsCurrentCorrect`.  `MapIsCurrent` speaks of the kernel only; the
  invariant `HandOver` adds what holds while SurtrC is about to end the services: a map
  whose key is the current one is the current map, and its key is never larger than
  the current one, so that a change by the firmware cannot go unnoticed.
* `TypeCorrect`, with the invariant `Types`: among others, the map that is handed over fits
  the buffer, and `load_segment` is reached only with a segment to load.
* `NeededMemoryCorrect`, with the invariant `Needed`: the bytes of the segments, of the two files
  and of the tables are there from the moment they were written, *and* the pages they are in
  have a type that neither `AllocatePages` of the firmware nor `is_usable_memory` of YmirC
  takes for free.  The second half is what makes the first inductive.
  `SegmentsApart` (no page belongs to two segments) is an assumption on the kernel's file,
  which `ymirc/linker.ld` guarantees.
* `GuestImagesCorrect`, with the invariant `Layout`: what was written first (command line, initrd,
  parameters, code, in that order) is still there when the guest is ready.  It uses that the
  parts of a `Regular` image do not overlap and that sums below `Word` do not wrap, from
  `LayoutAssumption` and `BootAssumption`.
* `GivesUpForAReasonCorrect`, the part of `OneChangeSurvived` that needs no fairness: once it has a
  map, `efi_main` returns without the kernel only when the firmware has changed the map twice or
  when it no longer fits the buffer.  The invariant `Changes` counts the changes along the
  retry: none at the first map, one at least when the map is read again.

### The page tables (`HostPagingProofs`)

For tables of every size, every set of firmware maps and kernel images, every amount of memory and
every guest's memory.  `FirmwareAssumption` is about the tables that UEFI leaves: memory is mapped
to itself; entries lead to tables, none of which serves at two levels, and the root holds no
page; no large page lies where the image goes, since `map_4k_to` takes any present entry for a
table; entries that are not present are 0.

* `TypeCorrect`, with `Stages`: how far the roots, the flag and the loops have got at each
  place, so that a call that runs out of memory leaves CR3 on a table that exists.
* `GuestMapCorrect`: `MapsGuestExactly` is not inductive, since what a step of `map2m` may reach
  depends on who else points to the same table.  `GuestTree` gives each of the guest's tables
  a place (its level and the indices above it) such that an entry is empty, leads to the table
  whose place it names, or is the page of the guest that its place spells (`Number`).
  A walk is then the decomposition of its address into indices (`GuestIndices`).
* `KernelStaysMappedCorrect`, with `HostMap`.  `HostTree`: the tables of the loader's root fall into
  three levels that do not meet, so that setting an entry of one level changes no walk above
  it and no other page's entry (`NewTableTree`, `Lv1Set`).  `Loaded`: the pages of the image so far
  are mapped and protected, no large page is in the way of the rest.  `Identity`: the firmware's map
  of memory has survived.
* `MappingExactCorrect` and `AddressesConvertCorrect`, with `Built`: entry by entry what the new root
  leads to, a table of 1 GiB pages (`DirectPart`), a copy of the old level 3 table (`ClonePart`)
  or nothing (`EmptyPart`), in tables that belong to nobody else.  A copy has the entries of
  the original, so that a walk joins the old one below it (`RegionSame`).  The guest's
  tables come behind all of these (`HostTop`), so that `init_npt` cannot change any.

`FlattenSeq`, which collects the copies, is a recursive function: `FlattenType` shows that it gives
a sequence, by the first index at which it would not (`Smallest`).

### The exits of a guest (`IoioProofs`, `GuestExitsProofs`)

For every host and every set of guest programs:

* `FeatureLeavesAgreeCorrect` and `AdvertisedMsrsWorkCorrect` follow from `ToldByHandler`: what
  each leaf has shown is what its handler answers on this host.
* `TimerAndSerialCorrect`: the accesses that the handlers refuse are not intercepted.
* `TypeCorrect` and `ReadsBackCorrect`, with `Registers`: the emulated serial registers and EFER
  equal the history of what was written, whatever the upper halves were.
* `ChipsFollowCorrect`, for histories of every length.  The reference `ChipAfter` looks at a
  whole history at once; the proof shows what one more write does to it
  (for a start of an initialization, a byte of it, and a mask) and that the handlers do the
  same to the chip.

### The vCPU loop (`VcpuProofs`)

For every set of lines, every mask that the firmware may have left and every guest:

* `TypeCorrect`.
* `InjectionNotInterruptedCorrect`, with `Windows`: GIF is clear wherever the loop works on
  `pending_irq`, and an interrupt that was taken is served before such a place is
  reached again.
* `NoUnhandledLineCorrect`, with `HandlersReady`: after `pic_init` a line that is open or in service
  has its handler, because each unmasking comes after its registration.
* `NoStaleTranslationCorrect`, with `FlushAsked`: old translations exist between an EFER write and
  the next VMRUN only, and that one flushes.

For guests that are `ShadowHarmless` (in the shadow of an STI they do nothing that has to do
with interrupts):

* `NoIrqLostCorrect`, `NoIrqDuplicatedCorrect`, and `ImplementsChannelCorrect`: the safety part of
  `VirqChannel` is implemented, step by step.  The invariant `Delivery` says that what is owed is
  what is pending or posted (`OwedKnown`), that a posted line is not pending as well
  while the guest runs and is pending again inside the window of an INTR exit
  (`PostedOrPending`), that the next injection would choose something as long as a posted line
  waits (`PostedOpen`), and that a guest with a posted interrupt cannot leave by HLT or by a port
  (`NothingPosted`).  The hypothesis is needed: `vcpu_sti_hlt` and `vcpu_sti_cli` are what
  happens without it.

### The primary 8259 (`HostPicProofs`)

`NothingLeftCorrect`: when all devices are on the primary chip,
`NothingLeftInService` holds for every such set of lines.  The invariant `InService` says
that exactly the line whose routine runs is in service; the assumption `OnPrimary`
is needed, as `host_pic_cascade` shows.

### Only model-checked

* Liveness: `SearchEnds`, `OneChangeSurvived`, and that a sleeping guest wakes, a tick is noted, an
  owed interrupt is delivered and a request is served.  Fairness and ENABLED are out of the
  prover's reach.  For the first two the safety part is proved (`SearchCloserCorrect`,
  `GivesUpForAReasonCorrect`).

## 5. What is not modelled

* The constant fields of the VMCB (intercepts, segments, control registers) and the
  registers that `asm_vmrun` saves and restores: straight-line stores without a
  condition, whose only reference is the processor's manual.
* Descriptor tables (`gdt.c`, `idt.c`): tables of constants, written once before interrupts
  are turned on; `ArchInit` of `Kernel` is the moment from which they hold.
* Serial output and logging: busy-waiting port writes and formatting; no other part
  depends on them.
* `ymircsh`: a guest program that issues one VMMCALL; the exit is in `Vcpu`.
* The instruction wrappers of `asm.c`; each is part of the action that uses it.
* The masks of `bits.h`: arithmetic on operand sizes, of which the port handlers keep
  only the value here.
* Vendor strings and the identification of the processor in CPUID, and ecx of its leaf
  0x80000001, which is the host's.
* A spurious interrupt of the 8259 and exceptions in the host.
* Page attributes that neither side reads (cache control, accessed, dirty).

See `components` for each part and `hazards` for what is exposed and has no property,
with the reason.

## 6. State of the plan

All modules, runs and theorems that were planned are there: each invariant and each safety
property that a passing run checks is also a theorem, under the hypotheses that section 4
names.  What stays with TLC is liveness.  The hazards
without a property are listed in `PROJECT.json` with the reason.
