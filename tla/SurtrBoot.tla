------------------------------ MODULE SurtrBoot ------------------------------
(***************************************************************************)
(* surtrc/boot.c: efi_main loads the kernel, the guest's image and its      *)
(* initrd into memory that it gets from the firmware, reads the memory map, *)
(* ends the boot services and jumps to the kernel.                         *)
(*                                                                         *)
(* The firmware is external.  A call of it succeeds or fails, except that   *)
(* AllocatePages, GetMemoryMap and ExitBootServices are told by what they   *)
(* depend on.  Read returns as much as it was asked for: the files are as   *)
(* long as their headers and their directory entries say.                  *)
(*                                                                         *)
(* While its services run the firmware uses memory of its own accord, which *)
(* changes the memory map and its key; before the loader has read the map   *)
(* this only changes where AllocatePages finds memory, which is arbitrary   *)
(* anyway.  The page tables are in module HostPaging.                      *)
(***************************************************************************)
EXTENDS Integers, Sequences, FiniteSetsExt

CONSTANTS
    PageSize,       \* EFI_PAGE_SIZE
    FrameCount,     \* pages of memory
    FirmwareTypes,  \* the types of the pages when SurtrC starts
    Kernels,        \* ymirc.elf: sequences of program headers
    Guests,         \* bzImage: size and what the setup header says
    Initrds,        \* sizes of rootfs.cpio.gz
    MapBuffer,      \* how many descriptors map_buffer has room for
    MaxKey          \* bound on the firmware's own changes of the memory map

Frame == 0 .. FrameCount - 1
Address == 0 .. FrameCount * PageSize - 1
MemoryType == {"Conventional", "BootServicesCode", "BootServicesData", "LoaderData"}

\* A byte of a file, or of a page table, or anything.
Content == {"junk", "zero", "table", "kernel", "guest", "initrd"} \X Nat

ASSUME BootAssumption ==
    /\ {PageSize, FrameCount, MapBuffer} \subseteq Nat \ {0} /\ MaxKey \in Nat
    /\ \A t \in FirmwareTypes : t \in [Frame -> MemoryType]
    /\ \A k \in Kernels : Len(k) \in Nat /\ DOMAIN k = 1 .. Len(k)
    /\ \A k \in Kernels : \A s \in DOMAIN k :
          /\ k[s].load \in BOOLEAN
          /\ {k[s].p_paddr, k[s].p_offset, k[s].p_filesz, k[s].p_memsz} \subseteq Nat
          /\ k[s].p_filesz <= k[s].p_memsz
    /\ \A g \in Guests : g.size \in Nat \ {0}
    /\ Initrds \subseteq Nat \ {0}

\* The bytes of memory that a program header asks for.
Bytes(h) == h.p_paddr .. h.p_paddr + h.p_memsz - 1

\* The pages that these bytes are in.
SegmentPages(h) == {a \div PageSize : a \in Bytes(h)}

\* The linker gives no page to two segments (ymirc/linker.ld): load_segment takes
\* the right to write from a page before it comes to the next segment.
ASSUME SegmentsApart ==
    \A k \in Kernels : \A s, t \in DOMAIN k :
        s # t /\ k[s].load /\ k[t].load => SegmentPages(k[s]) \cap SegmentPages(k[t]) = {}

VARIABLES
    pc,
    type, mem,          \* the memory: type of each page, content of each byte
    key,                \* the current key of the memory map
    services,           \* the boot services run
    phdr, guest, initrd,\* the files
    seg,                \* the program header that load_segment is at
    guest_start, initrd_start,
    map,                \* what the last GetMemoryMap returned
    tables              \* pages that the loader uses for page tables (history)

files == <<phdr, guest, initrd>>
bootVars == <<pc, type, mem, key, services, files, seg, guest_start,
              initrd_start, map, tables>>

-----------------------------------------------------------------------------
(* Services of the firmware.                                               *)

\* A call that may fail: efi_main goes on at next, or returns the error.
TRY_EFI(next) == pc' \in {next, "returned"}

Pages(start, n) == start .. start + n - 1

\* Where n pages can be allocated.
FreeRuns(n) ==
    {f \in Frame : \A p \in Pages(f, n) : p \in Frame /\ type[p] = "Conventional"}

\* type after the allocation of n pages.
Allocated(start, n, t) == [f \in Frame |-> IF f \in Pages(start, n) THEN t ELSE type[f]]

\* memory with the given bytes, numbered from 0, written from start on.
Written(memory, start, bytes) ==
    [a \in DOMAIN memory |->
        IF a - start \in DOMAIN bytes THEN bytes[a - start] ELSE memory[a]]

\* How many descriptors the memory map has: one per run of pages of one type.
Descriptors == 1 + Cardinality({f \in Frame \ {0} : type[f] # type[f - 1]})

\* GetMemoryMap into a buffer that is said to have room for size descriptors.
GetMemoryMap(size, next) ==
    \/ /\ Descriptors <= size
       /\ map' = [types |-> type, key |-> key, size |-> Descriptors]
       /\ pc' = next
    \/ /\ Descriptors > size            \* EFI_BUFFER_TOO_SMALL
       /\ pc' = "returned"
       /\ UNCHANGED map

\* The firmware takes or gives back a page.
FirmwareActs ==
    /\ services
    /\ pc \in {"exit_services", "exit_services_again"}
    /\ key < MaxKey
    /\ \E f \in Frame \ tables :
          \/ type[f] = "Conventional" /\ type' = Allocated(f, 1, "BootServicesData")
          \/ type[f] = "BootServicesData" /\ type' = Allocated(f, 1, "Conventional")
    /\ key' = key + 1
    /\ UNCHANGED <<pc, mem, services, files, seg, guest_start, initrd_start, map, tables>>

-----------------------------------------------------------------------------
(* efi_main.                                                               *)

pages_of(bytes) == (bytes + PageSize - 1) \div PageSize

\* Faulty variant: memory that the kernel takes for free.
Faulty_ImageType == "BootServicesCode"

\* The type of the memory that the images are loaded to.
ImageType == "LoaderData"

LoaderVars == <<key, services, files, seg, guest_start, initrd_start, map, tables>>

\* The volume and ymirc.elf are opened and its header is read.
OpenKernel ==
    /\ pc = "efi_main"
    /\ TRY_EFI("set_lv4table_writable")
    /\ UNCHANGED <<type, mem, LoaderVars>>

\* A page for page tables; without one the loader exits.
AllocateTable(next) ==
    \/ \E f \in FreeRuns(1) :
          /\ type' = Allocated(f, 1, "BootServicesData")
          /\ mem' = Written(mem, f * PageSize, [k \in 0 .. PageSize - 1 |-> <<"table", k>>])
          /\ tables' = tables \cup {f}
          /\ pc' = next
    \/ /\ FreeRuns(1) = {}
       /\ pc' = "returned"
       /\ UNCHANGED <<type, mem, tables>>

set_lv4table_writable ==
    /\ pc = "set_lv4table_writable"
    /\ AllocateTable("read_headers")
    /\ UNCHANGED <<key, services, files, seg, guest_start, initrd_start, map>>

ReadProgramHeaders ==
    /\ pc = "read_headers"
    /\ TRY_EFI("allocate_kernel")
    /\ UNCHANGED <<type, mem, LoaderVars>>

\* The segments that take part in the image.
Loadable(s) == phdr[s].load /\ phdr[s].p_memsz # 0
Segments == {s \in DOMAIN phdr : Loadable(s)}

\* compute_kernel_memory_range
start_phys == Min({phdr[s].p_paddr : s \in Segments})
end_phys == Max({phdr[s].p_paddr + phdr[s].p_memsz : s \in Segments})

pages_4kib == pages_of(end_phys - start_phys)

\* Without a segment start_phys is UINT64_MAX, which is not there either.
AllocateKernel ==
    LET possible == /\ Segments # {}
                    /\ start_phys % PageSize = 0
                    /\ start_phys \div PageSize \in FreeRuns(pages_4kib)
    IN  /\ pc = "allocate_kernel"
        /\ \/ /\ possible
              /\ type' = Allocated(start_phys \div PageSize, pages_4kib, ImageType)
              /\ pc' = "map_kernel"
           \/ ~possible /\ pc' = "returned" /\ UNCHANGED type
        /\ UNCHANGED <<mem, LoaderVars>>

\* The calls of map_4k_to; one page stands for the tables they need.
MapKernel ==
    /\ pc = "map_kernel"
    /\ AllocateTable("load_segment")
    /\ seg' = 1
    /\ UNCHANGED <<key, services, files, guest_start, initrd_start, map>>

\* The bytes of segment s: those of the file, and zeros.
SegmentByte(s, k) ==
    IF k < phdr[s].p_filesz THEN <<"kernel", phdr[s].p_offset + k>> ELSE <<"zero", 0>>

\* One round of load_segment; the last one leads on to the guest's image.
load_segment ==
    LET next == IF seg = Len(phdr) THEN "load_guest" ELSE "load_segment"
    IN  /\ pc = "load_segment"
        /\ seg' = seg + 1
        /\ \/ /\ ~Loadable(seg)
              /\ pc' = next
              /\ UNCHANGED mem
           \/ /\ Loadable(seg)
              /\ IF phdr[seg].p_filesz > 0 THEN TRY_EFI(next) ELSE pc' = next
              /\ mem' = Written(mem, phdr[seg].p_paddr,
                                [k \in 0 .. phdr[seg].p_memsz - 1 |-> SegmentByte(seg, k)])
        /\ UNCHANGED <<type, key, services, files, guest_start, initrd_start, map, tables>>

\* A file is loaded to any pages, and start becomes the first of them.
LoadFile(name, size, start, next) ==
    \/ \E f \in FreeRuns(pages_of(size)) :
          /\ type' = Allocated(f, pages_of(size), ImageType)
          /\ mem' = Written(mem, f * PageSize, [k \in 0 .. size - 1 |-> <<name, k>>])
          /\ start = f
          /\ pc' = next
    \/ pc' = "returned" /\ start = 0 /\ UNCHANGED <<type, mem>>

LoadGuest ==
    /\ pc = "load_guest"
    /\ LoadFile("guest", guest.size, guest_start', "load_initrd")
    /\ UNCHANGED <<key, services, files, seg, initrd_start, map, tables>>

LoadInitrd ==
    /\ pc = "load_initrd"
    /\ LoadFile("initrd", initrd, initrd_start', "clean_up")
    /\ UNCHANGED <<key, services, files, seg, guest_start, map, tables>>

\* The buffers are freed and the files closed.
CleanUp ==
    /\ pc = "clean_up"
    /\ TRY_EFI("get_map")
    /\ UNCHANGED <<type, mem, LoaderVars>>

ReadMap ==
    /\ pc = "get_map"
    /\ GetMemoryMap(MapBuffer, "exit_services")
    /\ UNCHANGED <<type, mem, key, services, files, seg, guest_start, initrd_start, tables>>

\* Faulty variant: the outcome of the first call is not looked at.
Faulty_ExitBootServices ==
    /\ pc = "exit_services"
    /\ services' = (map.key # key)
    /\ pc' = "kernel_main"
    /\ UNCHANGED <<type, mem, key, files, seg, guest_start, initrd_start, map, tables>>

\* The services end if the key is current; otherwise the map is read again.  An old
\* key, EFI_INVALID_PARAMETER, is the only error that UEFI knows for this call;
\* efi_main would take any other for success and go on to the kernel.
ExitBootServices ==
    /\ pc = "exit_services"
    /\ services' = (map.key # key)
    /\ pc' = IF map.key = key THEN "kernel_main" ELSE "get_map_again"
    /\ UNCHANGED <<type, mem, key, files, seg, guest_start, initrd_start, map, tables>>

\* Faulty variants: map_size is what the first call has left in it; it is the
\* size of the buffer twice over.
Faulty_RetrySize == map.size
Faulty_RetrySize_Double == 2 * MapBuffer

\* map_size before the second call.
RetrySize == MapBuffer

ReadMapAgain ==
    /\ pc = "get_map_again"
    /\ GetMemoryMap(RetrySize, "exit_services_again")
    /\ UNCHANGED <<type, mem, key, services, files, seg, guest_start, initrd_start, tables>>

ExitBootServicesAgain ==
    /\ pc = "exit_services_again"
    /\ services' = (map.key # key)
    /\ pc' = IF map.key = key THEN "kernel_main" ELSE "returned"
    /\ UNCHANGED <<type, mem, key, files, seg, guest_start, initrd_start, map, tables>>

-----------------------------------------------------------------------------

BootInit ==
    /\ pc = "efi_main"
    /\ type \in FirmwareTypes
    /\ mem = [a \in Address |-> <<"junk", 0>>]
    /\ key = 0
    /\ services = TRUE
    /\ phdr \in Kernels
    /\ guest \in Guests
    /\ initrd \in Initrds
    /\ seg = 0
    /\ guest_start = 0
    /\ initrd_start = 0
    /\ map = [types |-> type, key |-> 0, size |-> 0]
    /\ tables = {}

efi_main ==
    \/ OpenKernel \/ set_lv4table_writable \/ ReadProgramHeaders
    \/ AllocateKernel \/ MapKernel \/ load_segment
    \/ LoadGuest \/ LoadInitrd \/ CleanUp
    \/ ReadMap \/ ExitBootServices \/ ReadMapAgain \/ ExitBootServicesAgain

LoaderPlaces ==
    {"efi_main", "set_lv4table_writable", "read_headers", "allocate_kernel",
     "map_kernel", "load_segment", "load_guest", "load_initrd", "clean_up",
     "get_map", "exit_services", "get_map_again", "exit_services_again", "returned"}

\* Types; the memory map never outgrows the buffer on the loader's stack.
BootTypeOK ==
    /\ type \in [Frame -> MemoryType]
    /\ DOMAIN mem = Address /\ \A a \in Address : mem[a] \in Content
    /\ key \in 0 .. MaxKey
    /\ services \in BOOLEAN
    /\ seg \in 0 .. Len(phdr) + 1
    /\ {guest_start, initrd_start} \subseteq Frame
    /\ map.types \in [Frame -> MemoryType]
    /\ map.key \in 0 .. MaxKey
    /\ map.size \in 0 .. MapBuffer
    /\ tables \subseteq Frame

=============================================================================
