------------------------------ MODULE GuestLoad ------------------------------
(***************************************************************************)
(* From the jump to YmirC to a guest that is ready to run: kernel_main of   *)
(* ymirc/main.c as far as it uses what SurtrC hands over, and load_kernel   *)
(* of ymirc/arch/x86/vm.c, which lays out the guest's memory.              *)
(*                                                                         *)
(* Between the two YmirC may write to every page that its page allocator    *)
(* manages.  size_t arithmetic wraps at Word.                              *)
(***************************************************************************)
EXTENDS SurtrBoot

CONSTANTS
    GUEST_MEMORY_SIZE,
    LINUX_LAYOUT_BOOTPARAM, LINUX_LAYOUT_CMDLINE,
    LINUX_LAYOUT_KERNEL_BASE, LINUX_LAYOUT_INITRD,
    BootParamsSize,         \* sizeof(BootParams)
    CmdlineLimit,           \* 256
    KERNEL_CMDLINE_LEN,
    Sector,                 \* 512, the unit of setup_sects
    Word                    \* 2^64

ASSUME LayoutAssumption ==
    /\ {LINUX_LAYOUT_BOOTPARAM, LINUX_LAYOUT_CMDLINE, LINUX_LAYOUT_KERNEL_BASE,
        LINUX_LAYOUT_INITRD, GUEST_MEMORY_SIZE, BootParamsSize, CmdlineLimit,
        KERNEL_CMDLINE_LEN, Sector, Word} \subseteq Nat
    /\ LINUX_LAYOUT_BOOTPARAM + BootParamsSize <= LINUX_LAYOUT_CMDLINE
    /\ LINUX_LAYOUT_CMDLINE + CmdlineLimit <= LINUX_LAYOUT_KERNEL_BASE
    /\ LINUX_LAYOUT_KERNEL_BASE < LINUX_LAYOUT_INITRD
    /\ LINUX_LAYOUT_INITRD < GUEST_MEMORY_SIZE
    /\ KERNEL_CMDLINE_LEN < CmdlineLimit
    /\ 2 * GUEST_MEMORY_SIZE < Word
    /\ \A g \in Guests :
          {g.setup_sects, g.cmdline_size, g.initrd_addr_max} \subseteq Nat

VARIABLES
    guest_mem,      \* vm->guest_mem, byte by byte
    bp,             \* the boot parameters, as far as the guest relies on them
    zero_page       \* the copy of them that the guest gets

vmVars == <<guest_mem, bp, zero_page>>
vars == <<bootVars, vmVars>>

\* What the host keeps while the guest is loaded.
hostVars == <<type, mem, key, services, files, seg, guest_start, initrd_start, map, tables>>

GuestAddress == 0 .. GUEST_MEMORY_SIZE - 1

KernelPlaces == {"kernel_main", "setup_guest_memory", "load_kernel", "load_ramdisk",
                 "load_boot_params", "load_code", "init_npt", "panic", "overrun"}

\* Types; see BootTypeOK.
TypeOK ==
    /\ BootTypeOK
    /\ pc \in LoaderPlaces \cup KernelPlaces
    /\ DOMAIN guest_mem = GuestAddress

-----------------------------------------------------------------------------

is_usable_memory(t) == t \in {"Conventional", "BootServicesCode"}

\* The pages that the page allocator manages, by the map that it was given.
Managed == {f \in Frame : is_usable_memory(map.types[f])}

\* Up to setup_guest_memory: the allocator is set up from the memory map, and
\* tables, lists and the VMCB are put into pages that it manages; or the memory
\* does not suffice for them, or the processor has no SVM, and it stops.
kernel_main ==
    /\ pc = "kernel_main"
    /\ mem' = [a \in Address |-> IF a \div PageSize \in Managed THEN <<"junk", 0>> ELSE mem[a]]
    /\ pc' \in {"setup_guest_memory", "panic"}
    /\ UNCHANGED <<type, key, services, files, seg, guest_start, initrd_start,
                   map, tables, vmVars>>

\* The guest's memory is allocated, if there is such a block left.
setup_guest_memory ==
    /\ pc = "setup_guest_memory"
    /\ \/ /\ \E f \in Frame : Pages(f, pages_of(GUEST_MEMORY_SIZE)) \subseteq Managed
          /\ pc' = "load_kernel"
       \/ pc' = "panic"
    /\ UNCHANGED <<hostVars, vmVars>>

\* size bytes from offset on of an image that SurtrC has loaded to the given page;
\* a copy that runs over reads on behind the end of the memory.
Image(start, offset, size) ==
    [k \in 0 .. size - 1 |->
        LET a == start * PageSize + offset + k
        IN  IF a \in Address THEN mem[a] ELSE <<"junk", 0>>]

\* The check of load_image.
Fits(size, addr) == (addr + size) % Word <= GUEST_MEMORY_SIZE

\* load_image; a copy that passes the check because the sum wraps around runs
\* over the end of the guest's memory.
load_image(image, size, addr, next) ==
    /\ pc' = CASE ~Fits(size, addr) -> "panic"
               [] addr + size <= GUEST_MEMORY_SIZE -> next
               [] OTHER -> "overrun"
    /\ guest_mem' = IF Fits(size, addr) THEN Written(guest_mem, addr, image) ELSE guest_mem

\* The entries that bootparams_add_e820_entry makes.
E820 == <<[addr |-> 0, size |-> LINUX_LAYOUT_KERNEL_BASE],
          [addr |-> LINUX_LAYOUT_KERNEL_BASE,
           size |-> GUEST_MEMORY_SIZE - LINUX_LAYOUT_KERNEL_BASE]>>

CmdlineSize == Min({guest.cmdline_size, CmdlineLimit})

\* The boot parameters are taken from the image and completed, and the command
\* line is written, cut off where the guest's limit is.
load_kernel ==
    /\ pc = "load_kernel"
    /\ \/ /\ guest.size >= GUEST_MEMORY_SIZE
          /\ pc' = "panic"
          /\ UNCHANGED <<guest_mem, bp>>
       \/ /\ guest.size < GUEST_MEMORY_SIZE
          /\ bp' = [bp EXCEPT !.e820_map = E820, !.cmd_line_ptr = LINUX_LAYOUT_CMDLINE]
          /\ guest_mem' = Written(guest_mem, LINUX_LAYOUT_CMDLINE,
                             [k \in 0 .. CmdlineSize - 1 |->
                                IF k < KERNEL_CMDLINE_LEN THEN <<"cmdline", k>> ELSE <<"zero", 0>>])
          /\ pc' = "load_ramdisk"
    /\ UNCHANGED <<hostVars, zero_page>>

LoadRamdisk ==
    LET possible == /\ GUEST_MEMORY_SIZE - LINUX_LAYOUT_INITRD >= initrd
                    /\ guest.initrd_addr_max >= LINUX_LAYOUT_INITRD + initrd
    IN  /\ pc = "load_ramdisk"
        /\ \/ /\ possible
              /\ bp' = [bp EXCEPT !.ramdisk_image = LINUX_LAYOUT_INITRD,
                                  !.ramdisk_size = initrd]
              /\ load_image(Image(initrd_start, 0, initrd), initrd,
                            LINUX_LAYOUT_INITRD, "load_boot_params")
           \/ ~possible /\ pc' = "panic" /\ UNCHANGED <<guest_mem, bp>>
        /\ UNCHANGED <<hostVars, zero_page>>

LoadBootParams ==
    /\ pc = "load_boot_params"
    /\ load_image([k \in 0 .. BootParamsSize - 1 |-> <<"boot_params", k>>], BootParamsSize,
                  LINUX_LAYOUT_BOOTPARAM, "load_code")
    /\ zero_page' = bp
    /\ UNCHANGED <<hostVars, bp>>

\* Faulty variant: the boot sector is not counted.
Faulty_protected_code_offset == guest.setup_sects * Sector

\* The setup code and the boot sector before it.
protected_code_offset == (guest.setup_sects + 1) * Sector

LoadCode ==
    /\ pc = "load_code"
    /\ LET size == (guest.size - protected_code_offset) % Word
       IN  load_image(Image(guest_start, protected_code_offset, size), size,
                      LINUX_LAYOUT_KERNEL_BASE, "init_npt")
    /\ UNCHANGED <<hostVars, bp, zero_page>>

\* efi_main has returned, the kernel has stopped, or the guest is ready.
Ended == pc \in {"returned", "panic", "overrun", "init_npt"} /\ UNCHANGED vars

Init ==
    /\ BootInit
    /\ guest_mem = [a \in GuestAddress |-> <<"junk", 0>>]
    /\ bp = [e820_map |-> <<>>, cmd_line_ptr |-> 0, ramdisk_image |-> 0, ramdisk_size |-> 0]
    /\ zero_page = bp

Loader == efi_main /\ UNCHANGED vmVars

Firmware == FirmwareActs /\ UNCHANGED vmVars

Kernel == kernel_main \/ setup_guest_memory \/ load_kernel \/ LoadRamdisk
          \/ LoadBootParams \/ LoadCode

Next == Loader \/ Firmware \/ Kernel \/ Ended

\* SurtrC and YmirC run on; the firmware does what it likes.
Spec == Init /\ [][Next]_vars /\ WF_vars(Loader) /\ WF_vars(Kernel)

-----------------------------------------------------------------------------

InKernel == pc \in KernelPlaces

\* YmirC never starts while the firmware still runs, and never with a memory
\* map that is not the current one: a page that the firmware or SurtrC took
\* after the map was read is not free for YmirC (surtrc/boot.c:266-303).
MapIsCurrent == InKernel => ~services /\ map.types = type

\* One change of the memory map between reading it and ending the services does
\* not stop the boot, as long as map_buffer can hold the map
\* (surtrc/boot.c:294-303).
OneChangeSurvived ==
    [](key <= 1 /\ Descriptors <= MapBuffer)
        => (pc = "exit_services" ~> pc = "kernel_main")

\* Whatever YmirC puts into the memory that it takes for free, the kernel image
\* stays as its program headers say, the loader's page tables stay tables, and
\* the guest's image and initrd stay as they were read, until the guest is
\* loaded (surtrc/boot.c:68-147, 205-257, page_allocator.c:114-122).
NeededMemoryKept ==
    InKernel =>
        /\ \A s \in Segments : \A k \in 0 .. phdr[s].p_memsz - 1 :
              mem[phdr[s].p_paddr + k] = SegmentByte(s, k)
        /\ \A f \in tables : \A k \in 0 .. PageSize - 1 : mem[f * PageSize + k] = <<"table", k>>
        /\ Image(guest_start, 0, guest.size) = [k \in 0 .. guest.size - 1 |-> <<"guest", k>>]
        /\ Image(initrd_start, 0, initrd) = [k \in 0 .. initrd - 1 |-> <<"initrd", k>>]

\* What setupheader_from_bzimage would read from the header: 0 stands for 4.
SetupSects == IF guest.setup_sects = 0 THEN 4 ELSE guest.setup_sects

\* How much of the image is protected-mode code, by its size.
CodeSize == guest.size - (SetupSects + 1) * Sector

\* The image names its setup sectors, holds them, and ends below the initrd.
Regular ==
    /\ guest.setup_sects # 0
    /\ CodeSize \in 0 .. LINUX_LAYOUT_INITRD - LINUX_LAYOUT_KERNEL_BASE

\* The part of the guest's memory that entry e of the map describes.
Range820(e) == e.addr .. e.addr + e.size - 1

\* A guest that is started finds every byte of its kernel, of its initrd and of
\* its boot parameters where the parameters and the entry point say, a command
\* line that ends if the guest's limit leaves room for that, and a memory map of
\* exactly the memory it has; and loading it writes nowhere else.  This needs a
\* regular image: load_kernel does not compare the end of the kernel with the
\* start of the initrd, does not notice an image that is shorter than its setup
\* code, and takes a setup_sects of 0 as it is, since bootparams_from_bzimage does
\* not replace it (vm.c:91-163, linux.h:98-112, 166-178).
GuestGetsItsImages ==
    Regular =>
        /\ pc # "overrun"
        /\ pc = "init_npt" =>
              /\ \A k \in 0 .. CodeSize - 1 :
                    guest_mem[LINUX_LAYOUT_KERNEL_BASE + k] = <<"guest", guest.size - CodeSize + k>>
              /\ zero_page.ramdisk_size = initrd
              /\ \A k \in 0 .. initrd - 1 : guest_mem[zero_page.ramdisk_image + k] = <<"initrd", k>>
              /\ \A k \in 0 .. BootParamsSize - 1 :
                    guest_mem[LINUX_LAYOUT_BOOTPARAM + k] = <<"boot_params", k>>
              /\ \A k \in 0 .. Min({KERNEL_CMDLINE_LEN, CmdlineSize}) - 1 :
                    guest_mem[zero_page.cmd_line_ptr + k] = <<"cmdline", k>>
              /\ CmdlineSize > KERNEL_CMDLINE_LEN =>
                    guest_mem[zero_page.cmd_line_ptr + KERNEL_CMDLINE_LEN] = <<"zero", 0>>
              /\ UNION {Range820(zero_page.e820_map[n]) : n \in DOMAIN zero_page.e820_map} = GuestAddress
              /\ \A m, n \in DOMAIN zero_page.e820_map :
                    m # n => Range820(zero_page.e820_map[m]) \cap Range820(zero_page.e820_map[n]) = {}

=============================================================================
