----------------------------- MODULE HostPaging -----------------------------
(***************************************************************************)
(* The host's address space from the firmware to the hypervisor.            *)
(*                                                                         *)
(* SurtrC (surtrc/arch/x86/page.c, called by boot.c) copies the firmware's  *)
(* level 4 table, maps the kernel image into it and protects its pages.     *)
(* YmirC (reconstruct of ymirc/arch/x86/page.c) then builds tables of its   *)
(* own with a direct map of all memory, copies the kernel region, loads CR3 *)
(* and turns phys2virt and virt2phys (ymirc/mem.c) over to them.  In the    *)
(* end it builds the guest's tables (module NestedPaging) beside its own.   *)
(*                                                                         *)
(* When memory runs out the loader exits and the kernel panics; the tables  *)
(* of the call that failed are left out then, nothing reads them any more. *)
(***************************************************************************)
EXTENDS NestedPaging, SequencesExt

CONSTANTS Firmware,          \* the tables the firmware may leave, the first is the root
          Kernels,           \* kernel images: first page, attribute of each page
          DirectMapIndex,    \* DIRECT_MAP_BASE >> lv4_shift & index_mask
          DirectMapEntries,  \* DIRECT_MAP_SIZE >> lv4_shift
          KERNEL_BASE,
          Installed          \* the pages of memory that there are

DIRECT_MAP_BASE == DirectMapIndex * Span(4)
DIRECT_MAP_SIZE == DirectMapEntries * Span(4)
lv4idx_end == DirectMapIndex + DirectMapEntries

Attributes == {"read_only", "read_write", "executable"}

\* The kernel lies above the direct map, at its physical address plus
\* KERNEL_BASE (ymirc/linker.ld).
ASSUME HostAssumption ==
    /\ DirectMapIndex \in Nat \ {0} /\ DirectMapEntries \in Nat \ {0}
    /\ lv4idx_end < Entries
    /\ Installed \subseteq 0 .. DIRECT_MAP_SIZE - 1
    /\ KERNEL_BASE \in lv4idx_end * Span(4) .. Entries * Span(4) - 1
    /\ \A image \in Kernels :
          /\ image.start \in Nat
          /\ image.attrs \in Seq(Attributes)
          /\ KERNEL_BASE + image.start + Len(image.attrs) <= Entries * Span(4)
    /\ \A f \in Firmware : f \in Seq(Table) /\ f # <<>>

\* What SurtrC and YmirC rely on: the firmware maps the memory that there is to
\* itself, as UEFI promises; the entries of its tables lead to tables, and no table
\* serves at two levels; there is no large page where the kernel image goes, since
\* map_4k_to does not look for one; and an entry that is not present is 0, since
\* map_4k_to sets bits in what it finds there.
ASSUME FirmwareAssumption ==
    \A f \in Firmware :
        LET lv3 == Below(f, {1})
            lv2 == Below(f, lv3)
            lv1 == Below(f, lv2)
        IN  /\ lv3 \cup lv2 \cup lv1 \subseteq DOMAIN f
            /\ lv3 \cap lv2 = {} /\ lv3 \cap lv1 = {} /\ lv2 \cap lv1 = {}
            /\ \A k \in Index : Present(f[1][k]) => LeadsOn(f[1][k])
            /\ \A tbl \in DOMAIN f : \A k \in Index : Present(f[tbl][k]) \/ f[tbl][k] = NoEntry
            /\ \A a \in Installed : Translate(f, 1, a) = a
            /\ \A image \in Kernels : \A p \in DOMAIN image.attrs :
                  LET m == WalkEnd(f, 1, KERNEL_BASE + image.start + p - 1)
                  IN  Present(m.entry) => m.level = 1

VARIABLES kernel, cr3,
          boot_tables,             \* the tables that were made before YmirC ran
          lv4tbl, old_lv4tbl,      \* reconstruct: the new root and the old one
          mapping_reconstructed

vars == <<tables, memory, kernel, cr3, i, pc, boot_tables, lv4tbl,
          old_lv4tbl, mapping_reconstructed, nested_vars>>

host_vars == <<memory, kernel, cr3, boot_tables, lv4tbl, old_lv4tbl,
               mapping_reconstructed>>

LoaderPlaces == {"set_lv4table_writable", "map_4k_to", "change_map_4k", "exit"}
KernelPlaces == {"reconstruct", "direct_map", "clone", "load_cr3",
                 "set_mem_reconstructed", "setup_guest_memory", "done", "panic"}
                \cup NestedPlaces

\* Every variable has its type, and CR3 and the two roots name tables.
TypeOK ==
    /\ tables \in Seq(Table)
    /\ memory \in Memory
    /\ kernel \in Kernels
    /\ cr3 \in DOMAIN tables
    /\ i \in Nat
    /\ boot_tables \in 0 .. Len(tables)
    /\ {lv4tbl, old_lv4tbl} \subseteq {0} \cup DOMAIN tables
    /\ mapping_reconstructed \in BOOLEAN
    /\ NestedTypeOK
    /\ pc \in LoaderPlaces \cup KernelPlaces

\* What the two functions make of an entry that is 0.
initialize_page_reference_entry(phys) ==
    [flags |-> {"PRESENT", "RW", "PS"}, phys |-> phys]

initialize_table_reference_entry(tbl) ==
    [flags |-> {"PRESENT", "RW"}, phys |-> tbl]

\* new are the tables after a call, if there was memory for all of them.
Allocate(new, next, failed) ==
    \/ /\ Len(new) <= memory
       /\ tables' = new
       /\ pc' = next
    \/ /\ Len(new) > memory
       /\ pc' = failed
       /\ UNCHANGED tables

\* Faulty variant: the kernel image is taken for a part of the direct map.
Faulty_virt2phys(addr) ==
    IF ~mapping_reconstructed THEN addr ELSE addr - DIRECT_MAP_BASE

virt2phys(addr) ==
    IF ~mapping_reconstructed THEN addr
    ELSE IF addr < KERNEL_BASE THEN addr - DIRECT_MAP_BASE
         ELSE addr - KERNEL_BASE

phys2virt(addr) ==
    IF mapping_reconstructed THEN addr + DIRECT_MAP_BASE ELSE addr

-----------------------------------------------------------------------------
(* SurtrC.                                                                 *)

ImagePages == DOMAIN kernel.attrs
ImageVirt(p) == KERNEL_BASE + kernel.start + p - 1
ImagePhys(p) == kernel.start + p - 1

set_lv4table_writable ==
    /\ pc = "set_lv4table_writable"
    /\ Allocate(Append(tables, tables[cr3]), "map_4k_to", "exit")
    /\ cr3' = IF pc' = "exit" THEN cr3 ELSE Len(tables) + 1
    /\ i' = 1
    /\ UNCHANGED <<memory, kernel, boot_tables, lv4tbl, old_lv4tbl, mapping_reconstructed, nested_vars>>

\* The tables tbls in which entry k of tbl leads to a table.
WithTable(tbls, tbl, k) ==
    IF Present(tbls[tbl][k]) THEN tbls
    ELSE SetEntry(Append(tbls, EmptyTable), tbl, k, initialize_table_reference_entry(Len(tbls) + 1))

\* One call of map_4k_to, of the loop in efi_main.  A page that is mapped
\* already ends the loader.
map_4k_to ==
    LET virt == ImageVirt(i)
        t4 == WithTable(tables, cr3, IndexAt(virt, 4))
        lv3 == t4[cr3][IndexAt(virt, 4)].phys
        t3 == WithTable(t4, lv3, IndexAt(virt, 3))
        lv2 == t3[lv3][IndexAt(virt, 3)].phys
        t2 == WithTable(t3, lv2, IndexAt(virt, 2))
        lv1 == t2[lv2][IndexAt(virt, 2)].phys
        k == IndexAt(virt, 1)
    IN  /\ pc = "map_4k_to"
        /\ i \in ImagePages
        /\ \/ /\ ~Present(t2[lv1][k])
              /\ Allocate(SetEntry(t2, lv1, k, initialize_page_reference_entry(ImagePhys(i))),
                          "map_4k_to", "exit")
              /\ i' = i + 1
           \/ /\ Present(t2[lv1][k])
              /\ pc' = "exit"
              /\ UNCHANGED <<tables, i>>
        /\ UNCHANGED <<memory, kernel, cr3, boot_tables, lv4tbl, old_lv4tbl,
                       mapping_reconstructed, nested_vars>>

ImageMapped ==
    /\ pc = "map_4k_to"
    /\ i \notin ImagePages
    /\ i' = 1
    /\ pc' = "change_map_4k"
    /\ UNCHANGED <<tables, memory, kernel, cr3, boot_tables, lv4tbl, old_lv4tbl,
                   mapping_reconstructed, nested_vars>>

\* The flags of a level 1 entry after change_map_4k.
WithAttribute(flags, attr) ==
    CASE attr = "read_only"  -> (flags \ {"RW"}) \cup {"XD"}
      [] attr = "read_write" -> flags \cup {"RW", "XD"}
      [] attr = "executable" -> flags \ {"RW", "XD"}

\* The table of level 1 for the address.
Lv1Table(virt) ==
    LET lv3 == tables[cr3][IndexAt(virt, 4)].phys
        lv2 == tables[lv3][IndexAt(virt, 3)].phys
    IN  tables[lv2][IndexAt(virt, 2)].phys

\* One call of change_map_4k, of the loop in load_segment.
change_map_4k ==
    LET virt == ImageVirt(i)
        lv1 == Lv1Table(virt)
        k == IndexAt(virt, 1)
        old == tables[lv1][k]
    IN  /\ pc = "change_map_4k"
        /\ i \in ImagePages
        /\ tables' = SetEntry(tables, lv1, k,
                         [old EXCEPT !.flags = WithAttribute(@, kernel.attrs[i])])
        /\ i' = i + 1
        /\ UNCHANGED <<memory, kernel, cr3, pc, boot_tables, lv4tbl, old_lv4tbl,
                       mapping_reconstructed, nested_vars>>

\* efi_main jumps to the kernel.
JumpToKernel ==
    /\ pc = "change_map_4k"
    /\ i \notin ImagePages
    /\ pc' = "reconstruct"
    /\ boot_tables' = Len(tables)
    /\ UNCHANGED <<tables, memory, kernel, cr3, i, lv4tbl, old_lv4tbl, mapping_reconstructed, nested_vars>>

-----------------------------------------------------------------------------
(* YmirC.                                                                  *)

Reconstruct ==
    /\ pc = "reconstruct"
    /\ Allocate(Append(tables, EmptyTable), "direct_map", "panic")
    /\ lv4tbl' = IF pc' = "panic" THEN 0 ELSE Len(tables) + 1
    /\ i' = 0
    /\ UNCHANGED <<memory, kernel, cr3, boot_tables, old_lv4tbl, mapping_reconstructed, nested_vars>>

\* The table of level 3 with 1 GiB pages for entry n of the direct map.
DirectTable(n) ==
    [k \in Index |-> initialize_page_reference_entry(n * Span(4) + k * Span(3))]

DirectMap ==
    /\ pc = "direct_map"
    /\ i < DirectMapEntries
    /\ Allocate(SetEntry(Append(tables, DirectTable(i)), lv4tbl,
                         DirectMapIndex + i, initialize_table_reference_entry(Len(tables) + 1)),
                "direct_map", "panic")
    /\ i' = i + 1
    /\ UNCHANGED <<memory, kernel, cr3, boot_tables, lv4tbl, old_lv4tbl, mapping_reconstructed, nested_vars>>

\* Faulty variant: the scan of the kernel region begins one entry too late.
Faulty_FirstCloned == lv4idx_end + 1

FirstCloned == lv4idx_end

DirectMapDone ==
    /\ pc = "direct_map"
    /\ i = DirectMapEntries
    /\ i' = FirstCloned
    /\ old_lv4tbl' = cr3
    /\ pc' = "clone"
    /\ UNCHANGED <<tables, memory, kernel, cr3, boot_tables, lv4tbl,
                   mapping_reconstructed, nested_vars>>

clone_lv1_table(tbl) == <<tables[tbl]>>

\* Faulty variant: the new table is left empty.
Faulty_clone_lv3_table(tbl) == <<EmptyTable>>

\* What clone_lv2_table and clone_lv3_table allocate: a copy of the table, and
\* the copies of the tables below it.  The entry that gets the address of such
\* a copy is a variable of the function: the table keeps the old one.
clone_lv2_table(tbl) ==
    <<tables[tbl]>> \o FlattenSeq([n \in 1 .. Entries |->
        LET e == tables[tbl][n - 1]
        IN  IF LeadsOn(e) THEN clone_lv1_table(e.phys) ELSE <<>>])

clone_lv3_table(tbl) ==
    <<tables[tbl]>> \o FlattenSeq([n \in 1 .. Entries |->
        LET e == tables[tbl][n - 1]
        IN  IF LeadsOn(e) THEN clone_lv2_table(e.phys) ELSE <<>>])

\* One round of the loop over the kernel region.
CloneEntry ==
    /\ pc = "clone"
    /\ i < Entries
    /\ \/ /\ Present(tables[old_lv4tbl][i])
          /\ Allocate(SetEntry(tables \o clone_lv3_table(tables[old_lv4tbl][i].phys),
                               lv4tbl, i, initialize_table_reference_entry(Len(tables) + 1)),
                      "clone", "panic")
       \/ /\ ~Present(tables[old_lv4tbl][i])
          /\ UNCHANGED <<tables, pc>>
    /\ i' = i + 1
    /\ UNCHANGED <<memory, kernel, cr3, boot_tables, lv4tbl, old_lv4tbl, mapping_reconstructed, nested_vars>>

CloneDone ==
    /\ pc = "clone"
    /\ i = Entries
    /\ pc' = "load_cr3"
    /\ UNCHANGED <<tables, memory, kernel, cr3, i, boot_tables, lv4tbl, old_lv4tbl,
                   mapping_reconstructed, nested_vars>>

\* Faulty variant: the flag is set first, and virt2phys subtracts the offset.
Faulty_LoadCr3 ==
    /\ pc = "load_cr3"
    /\ cr3' = lv4tbl - DIRECT_MAP_BASE
    /\ pc' = "set_mem_reconstructed"
    /\ UNCHANGED <<tables, memory, kernel, i, boot_tables, lv4tbl, old_lv4tbl,
                   mapping_reconstructed, nested_vars>>

LoadCr3 ==
    /\ pc = "load_cr3"
    /\ cr3' = lv4tbl
    /\ pc' = "set_mem_reconstructed"
    /\ UNCHANGED <<tables, memory, kernel, i, boot_tables, lv4tbl, old_lv4tbl,
                   mapping_reconstructed, nested_vars>>

set_mem_reconstructed ==
    /\ pc = "set_mem_reconstructed"
    /\ mapping_reconstructed' = TRUE
    /\ pc' = "setup_guest_memory"
    /\ UNCHANGED <<tables, memory, kernel, cr3, i, boot_tables, lv4tbl, old_lv4tbl,
                   nested_vars>>

\* The guest's memory is allocated and filled, and init_npt called; it panics
\* when there is no such memory or the images do not fit into it.
setup_guest_memory ==
    /\ pc = "setup_guest_memory"
    /\ \/ CallInitNpt
       \/ /\ pc' = "panic"
          /\ UNCHANGED <<tables, i, nested_vars>>
    /\ UNCHANGED host_vars

InitNpt ==
    /\ NestedNext
    /\ UNCHANGED host_vars

Stopped ==
    /\ pc \in {"exit", "panic", "panic_mapped", "done"}
    /\ UNCHANGED vars

Init ==
    /\ tables \in Firmware
    /\ memory \in {m \in Memory : m >= Len(tables)}
    /\ kernel \in Kernels
    /\ cr3 = 1
    /\ i = 0
    /\ pc = "set_lv4table_writable"
    /\ boot_tables = 0
    /\ lv4tbl = 0
    /\ old_lv4tbl = 0
    /\ mapping_reconstructed = FALSE
    /\ NestedInit

Next ==
    \/ set_lv4table_writable \/ map_4k_to \/ ImageMapped \/ change_map_4k
    \/ JumpToKernel
    \/ Reconstruct \/ DirectMap \/ DirectMapDone \/ CloneEntry \/ CloneDone
    \/ LoadCr3 \/ set_mem_reconstructed
    \/ setup_guest_memory \/ InitNpt
    \/ Stopped

Spec == Init /\ [][Next]_vars

-----------------------------------------------------------------------------

InKernel == pc \in KernelPlaces

\* From the jump to the kernel on, on both sides of the change of CR3, every
\* page of the kernel image is where the kernel was linked, with the rights
\* that its segment asked for: the code that changes CR3, its stack and its
\* data do not move (surtrc/arch/x86/page.c:115-165, page.c:97-170).
KernelStaysMapped ==
    InKernel =>
        \A p \in ImagePages :
            LET e == WalkEnd(tables, cr3, ImageVirt(p)).entry
            IN  /\ Translate(tables, cr3, ImageVirt(p)) = ImagePhys(p)
                /\ "RW" \in e.flags <=> kernel.attrs[p] = "read_write"
                /\ "XD" \notin e.flags <=> kernel.attrs[p] = "executable"

\* Whenever the code may use phys2virt (everywhere but between the change of
\* CR3 and the change of the flag) it leads to the memory asked for, first as far
\* as there is memory and then in the whole direct map, and virt2phys leads back; with the new tables in force, virt2phys gives for every
\* address of the kernel image what the processor makes of it (mem.c:5-26).
AddressesConvert ==
    /\ InKernel /\ pc # "set_mem_reconstructed" =>
          \A p \in IF mapping_reconstructed THEN 0 .. DIRECT_MAP_SIZE - 1 ELSE Installed :
              /\ Translate(tables, cr3, phys2virt(p)) = p
              /\ virt2phys(phys2virt(p)) = p
    /\ mapping_reconstructed =>
          \A p \in ImagePages :
              virt2phys(ImageVirt(p)) = Translate(tables, cr3, ImageVirt(p))

\* The new tables map the direct map and what was mapped above it, nothing
\* below: the firmware's map of the low addresses is gone, and no page of the
\* kernel region came or went (page.c:144-170).
MappingExact ==
    mapping_reconstructed =>
        \A v \in 0 .. Entries * Span(4) - 1 :
            Translate(tables, cr3, v) =
                IF v < DIRECT_MAP_BASE THEN Fault
                ELSE IF v < DIRECT_MAP_BASE + DIRECT_MAP_SIZE
                     THEN v - DIRECT_MAP_BASE
                     ELSE Translate(tables, old_lv4tbl, v)

\* The tables that a walk from CR3 reads.
Live ==
    LET lv3 == Below(tables, {cr3})
        lv2 == Below(tables, lv3)
        lv1 == Below(tables, lv2)
    IN  {cr3} \cup lv3 \cup lv2 \cup lv1

\* "Recursively clone tables for the kernel region." (page.c:155): the tables
\* in force after reconstruct are YmirC's own.  The code does not do it.
TablesCloned == mapping_reconstructed => \A t \in Live : t > boot_tables

=============================================================================
