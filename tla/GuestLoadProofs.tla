--------------------------- MODULE GuestLoadProofs ---------------------------
(***************************************************************************)
(* The boot, for every memory, every set of files, every size of the map    *)
(* buffer and however often the firmware changes its memory map: the        *)
(* hand-over from the firmware to YmirC, the types, the memory that must be *)
(* kept, the images of the guest, and the retry of ExitBootServices.        *)
(***************************************************************************)
EXTENDS GuestLoad, FiniteSetTheorems, NaturalsInduction, TLAPS

\* Where SurtrC holds a memory map and is about to end the boot services.
Exiting == pc \in {"exit_services", "exit_services_again"}

\* A map that was read under the current key is the current map; no map has a
\* key from the future, so a change by the firmware always shows.
HandOver ==
    /\ key \in Nat
    /\ Exiting => /\ map.key \in Nat
                  /\ map.key <= key
                  /\ map.key = key => map.types = type
    /\ MapIsCurrent

\* The invariant holds at the start: SurtrC is the first to run.
LEMMA HandOverInit == Init => HandOver
BY DEF Init, BootInit, HandOver, Exiting, MapIsCurrent, InKernel, KernelPlaces

\* What efi_main does before it reads the map is no matter of the hand-over: it
\* ends at a place where nothing is claimed.
LEMMA BeforeTheMap ==
    ASSUME HandOver, key' = key, pc' \notin KernelPlaces,
           pc' \notin {"exit_services", "exit_services_again"}
    PROVE  HandOver'
BY DEF HandOver, Exiting, MapIsCurrent, InKernel

\* GetMemoryMap, from either place, gives the map of the moment or none.
LEMMA ReadingTheMap ==
    ASSUME HandOver, NEW size, NEW next \in {"exit_services", "exit_services_again"},
           GetMemoryMap(size, next), UNCHANGED <<type, key, services>>
    PROVE  HandOver'
<1>1. CASE pc' = "returned"
  BY <1>1, BeforeTheMap DEF KernelPlaces
<1>2. CASE pc' = next /\ map' = [types |-> type, key |-> key, size |-> Descriptors]
  BY <1>2 DEF HandOver, Exiting, MapIsCurrent, InKernel, KernelPlaces
<1> QED BY <1>1, <1>2 DEF GetMemoryMap

\* Ending the services, from either place: a map with the current key leads to
\* the kernel, any other to a place where nothing is claimed.
LEMMA EndingTheServices ==
    ASSUME HandOver, Exiting, NEW other \in {"get_map_again", "returned"},
           services' = (map.key # key),
           pc' = IF map.key = key THEN "kernel_main" ELSE other,
           UNCHANGED <<type, key, map>>
    PROVE  HandOver'
<1>1. CASE map.key = key
  BY <1>1 DEF HandOver, Exiting, MapIsCurrent, InKernel, KernelPlaces
<1>2. CASE map.key # key
  <2>1. pc' \in {"get_map_again", "returned"}
    BY <1>2
  <2> QED BY <2>1, BeforeTheMap DEF KernelPlaces
<1> QED BY <1>1, <1>2

\* efi_main keeps the invariant.
LEMMA LoaderStep ==
    ASSUME HandOver, efi_main
    PROVE  HandOver'
<1>1. CASE OpenKernel
  BY <1>1, BeforeTheMap DEF OpenKernel, TRY_EFI, LoaderVars, KernelPlaces
<1>2. CASE set_lv4table_writable
  BY <1>2, BeforeTheMap DEF set_lv4table_writable, AllocateTable, KernelPlaces
<1>3. CASE ReadProgramHeaders
  BY <1>3, BeforeTheMap DEF ReadProgramHeaders, TRY_EFI, LoaderVars, KernelPlaces
<1>4. CASE AllocateKernel
  BY <1>4, BeforeTheMap DEF AllocateKernel, LoaderVars, KernelPlaces
<1>5. CASE MapKernel
  BY <1>5, BeforeTheMap DEF MapKernel, AllocateTable, KernelPlaces
<1>6. CASE load_segment
  <2>1. pc' \in {"load_guest", "load_segment", "returned"}
    BY <1>6 DEF load_segment, TRY_EFI
  <2>2. key' = key
    BY <1>6 DEF load_segment
  <2> QED BY <2>1, <2>2, BeforeTheMap DEF KernelPlaces
<1>7. CASE LoadGuest
  BY <1>7, BeforeTheMap DEF LoadGuest, LoadFile, KernelPlaces
<1>8. CASE LoadInitrd
  BY <1>8, BeforeTheMap DEF LoadInitrd, LoadFile, KernelPlaces
<1>9. CASE CleanUp
  BY <1>9, BeforeTheMap DEF CleanUp, TRY_EFI, LoaderVars, KernelPlaces
<1>10. CASE ReadMap
  BY <1>10, ReadingTheMap DEF ReadMap
<1>11. CASE ExitBootServices
  BY <1>11, EndingTheServices DEF ExitBootServices, Exiting
<1>12. CASE ReadMapAgain
  BY <1>12, ReadingTheMap DEF ReadMapAgain
<1>13. CASE ExitBootServicesAgain
  BY <1>13, EndingTheServices DEF ExitBootServicesAgain, Exiting
<1> QED
  BY <1>1, <1>2, <1>3, <1>4, <1>5, <1>6, <1>7, <1>8, <1>9, <1>10, <1>11, <1>12,
     <1>13 DEF efi_main

\* A change of the memory map makes the key of every map that was read an old one.
LEMMA FirmwareStep ==
    ASSUME HandOver, FirmwareActs
    PROVE  HandOver'
BY DEF FirmwareActs, HandOver, Exiting, MapIsCurrent, InKernel, KernelPlaces

\* YmirC goes from place to place with the map that it was given.
LEMMA KernelStep ==
    ASSUME HandOver, Kernel
    PROVE  HandOver'
<1>1. InKernel /\ InKernel'
  BY DEF Kernel, kernel_main, setup_guest_memory, load_kernel, LoadRamdisk, LoadBootParams,
         LoadCode, load_image, InKernel, KernelPlaces
<1>2. UNCHANGED <<type, key, services, map>>
  BY DEF Kernel, kernel_main, setup_guest_memory, load_kernel, LoadRamdisk, LoadBootParams,
         LoadCode, hostVars
<1> QED BY <1>1, <1>2 DEF HandOver, Exiting, MapIsCurrent, InKernel, KernelPlaces

\* Every step keeps the invariant.
LEMMA HandOverStep == HandOver /\ [Next]_vars => HandOver'
<1> SUFFICES ASSUME HandOver, [Next]_vars PROVE HandOver'
  OBVIOUS
<1>1. CASE Loader
  BY <1>1, LoaderStep DEF Loader
<1>2. CASE Firmware
  BY <1>2, FirmwareStep DEF Firmware
<1>3. CASE Kernel
  BY <1>3, KernelStep
<1>4. CASE UNCHANGED vars
  BY <1>4 DEF vars, bootVars, HandOver, Exiting, MapIsCurrent, InKernel
<1> QED BY <1>1, <1>2, <1>3, <1>4 DEF Next, Ended

\* YmirC never runs beside the firmware and never with a memory map that is not
\* the current one, whatever the firmware does between the calls of
\* GetMemoryMap and ExitBootServices (surtrc/boot.c:266-303).
THEOREM MapIsCurrentCorrect == Spec => []MapIsCurrent
<1>1. HandOver => MapIsCurrent
  BY DEF HandOver
<1> QED BY <1>1, HandOverInit, HandOverStep, PTL DEF Spec

-----------------------------------------------------------------------------
(* Types.                                                                  *)

\* The files are some of those that may be on the volume.
FilesGiven == phdr \in Kernels /\ guest \in Guests /\ initrd \in Initrds

\* load_segment is only reached with a segment to load, and stays in the table.
SegmentsFollow ==
    /\ pc = "map_kernel" => Segments # {}
    /\ pc = "load_segment" => seg \in 1 .. Len(phdr)

\* The invariant of the types.
Types == TypeOK /\ FilesGiven /\ SegmentsFollow

\* What the assumptions say of the files.
LEMMA FileFacts ==
    ASSUME FilesGiven
    PROVE  /\ Len(phdr) \in Nat /\ DOMAIN phdr = 1 .. Len(phdr)
           /\ guest.size \in Nat \ {0} /\ initrd \in Nat \ {0}
           /\ \A s \in Segments :
                 /\ phdr[s].p_paddr \in Nat /\ phdr[s].p_offset \in Nat
                 /\ phdr[s].p_filesz \in Nat /\ phdr[s].p_memsz \in Nat \ {0}
           /\ Segments \subseteq DOMAIN phdr
BY BootAssumption DEF FilesGiven, Segments, Loadable

\* Writing bytes that are contents leaves contents.
LEMMA WrittenType ==
    ASSUME DOMAIN mem = Address, \A a \in Address : mem[a] \in Content,
           NEW start, NEW bytes, \A k \in DOMAIN bytes : bytes[k] \in Content,
           mem' = Written(mem, start, bytes)
    PROVE  DOMAIN mem' = Address /\ \A a \in Address : mem'[a] \in Content
BY DEF Written

\* An allocation leaves types.
LEMMA AllocatedType ==
    ASSUME type \in [Frame -> MemoryType], NEW start, NEW n, NEW t \in MemoryType
    PROVE  Allocated(start, n, t) \in [Frame -> MemoryType]
BY DEF Allocated

\* The memory map has a number of descriptors.
LEMMA DescriptorsType == Descriptors \in Nat
<1> DEFINE S == {f \in Frame \ {0} : type[f] # type[f - 1]}
<1>1. IsFiniteSet(0 .. FrameCount - 1)
  BY FS_Interval, BootAssumption
<1>2. S \subseteq 0 .. FrameCount - 1
  BY DEF Frame
<1>3. Cardinality(S) \in Nat
  BY <1>1, <1>2, FS_Subset, FS_CardinalityType
<1> QED BY <1>3 DEF Descriptors

\* The types hold at the start.
LEMMA TypesInit == Init => Types
<1> SUFFICES ASSUME Init PROVE Types
  OBVIOUS
<1> USE BootAssumption DEF Init, BootInit
<1>1. FilesGiven
  BY DEF FilesGiven
<1>2. SegmentsFollow
  BY DEF SegmentsFollow
<1>3. \A a \in Address : mem[a] \in Content
  BY DEF Content
<1>4. type \in [Frame -> MemoryType] /\ 0 \in Frame
  BY DEF Frame
<1>5. BootTypeOK
  BY <1>1, <1>3, <1>4, FileFacts DEF BootTypeOK
<1>6. TypeOK
  BY <1>5 DEF TypeOK, LoaderPlaces
<1> QED BY <1>1, <1>2, <1>6 DEF Types

\* AllocateTable keeps the types of what it changes.
LEMMA TableType ==
    ASSUME Types, NEW next, AllocateTable(next)
    PROVE  /\ type' \in [Frame -> MemoryType]
           /\ DOMAIN mem' = Address /\ \A a \in Address : mem'[a] \in Content
           /\ tables' \subseteq Frame
           /\ pc' \in {next, "returned"}
<1> USE BootAssumption DEF Types, TypeOK, BootTypeOK
<1>1. CASE FreeRuns(1) = {} /\ pc' = "returned" /\ UNCHANGED <<type, mem, tables>>
  BY <1>1
<1>2. ASSUME NEW f \in FreeRuns(1),
             type' = Allocated(f, 1, "BootServicesData"),
             mem' = Written(mem, f * PageSize, [k \in 0 .. PageSize - 1 |-> <<"table", k>>]),
             tables' = tables \cup {f},
             pc' = next
      PROVE  /\ type' \in [Frame -> MemoryType]
             /\ DOMAIN mem' = Address /\ \A a \in Address : mem'[a] \in Content
             /\ tables' \subseteq Frame
             /\ pc' \in {next, "returned"}
  <2>1. f \in Frame
    BY DEF FreeRuns
  <2>2. type' \in [Frame -> MemoryType]
    BY <1>2, AllocatedType DEF MemoryType
  <2> DEFINE bytes == [k \in 0 .. PageSize - 1 |-> <<"table", k>>]
  <2>3. \A k \in DOMAIN bytes : bytes[k] \in Content
    BY DEF Content
  <2>4. DOMAIN mem' = Address /\ \A a \in Address : mem'[a] \in Content
    <3>1. mem' = Written(mem, f * PageSize, bytes)
      BY <1>2
    <3> HIDE DEF bytes
    <3> QED BY <2>3, <3>1, WrittenType
  <2> QED BY <1>2, <2>1, <2>2, <2>4
<1> QED BY <1>1, <1>2 DEF AllocateTable

\* LoadFile keeps the types of what it changes.
LEMMA FileType ==
    ASSUME Types, NEW name \in {"guest", "initrd"}, NEW size \in Nat, NEW start, NEW next,
           LoadFile(name, size, start, next)
    PROVE  /\ type' \in [Frame -> MemoryType]
           /\ DOMAIN mem' = Address /\ \A a \in Address : mem'[a] \in Content
           /\ start \in Frame
           /\ pc' \in {next, "returned"}
<1> USE BootAssumption DEF Types, TypeOK, BootTypeOK
<1>1. CASE pc' = "returned" /\ start = 0 /\ UNCHANGED <<type, mem>>
  BY <1>1 DEF Frame
<1>2. ASSUME NEW f \in FreeRuns(pages_of(size)),
             type' = Allocated(f, pages_of(size), ImageType),
             mem' = Written(mem, f * PageSize, [k \in 0 .. size - 1 |-> <<name, k>>]),
             start = f,
             pc' = next
      PROVE  /\ type' \in [Frame -> MemoryType]
             /\ DOMAIN mem' = Address /\ \A a \in Address : mem'[a] \in Content
             /\ start \in Frame
             /\ pc' \in {next, "returned"}
  <2>1. f \in Frame
    BY DEF FreeRuns
  <2>2. type' \in [Frame -> MemoryType]
    BY <1>2, AllocatedType DEF MemoryType, ImageType
  <2> DEFINE bytes == [k \in 0 .. size - 1 |-> <<name, k>>]
  <2>3. \A k \in DOMAIN bytes : bytes[k] \in Content
    BY DEF Content
  <2>4. DOMAIN mem' = Address /\ \A a \in Address : mem'[a] \in Content
    <3>1. mem' = Written(mem, f * PageSize, bytes)
      BY <1>2
    <3> HIDE DEF bytes
    <3> QED BY <2>3, <3>1, WrittenType
  <2> QED BY <1>2, <2>1, <2>2, <2>4
<1> QED BY <1>1, <1>2 DEF LoadFile

\* GetMemoryMap never gives a map that is larger than the buffer.
LEMMA MapType ==
    ASSUME Types, NEW next, GetMemoryMap(MapBuffer, next)
    PROVE  /\ map'.types \in [Frame -> MemoryType]
           /\ map'.key \in 0 .. MaxKey
           /\ map'.size \in 0 .. MapBuffer
           /\ pc' \in {next, "returned"}
BY BootAssumption, DescriptorsType DEF GetMemoryMap, Types, TypeOK, BootTypeOK

\* efi_main keeps the types.
LEMMA LoaderKeepsTypes ==
    ASSUME Types, efi_main, UNCHANGED vmVars
    PROVE  Types'
<1> USE DEF Types, TypeOK, FilesGiven
<1>0. DOMAIN guest_mem' = GuestAddress
  BY DEF vmVars
<1>1. CASE OpenKernel
  BY <1>0, <1>1 DEF OpenKernel, TRY_EFI, LoaderVars, files, BootTypeOK, SegmentsFollow,
                    LoaderPlaces
<1>2. CASE set_lv4table_writable
  <2>1. pc' \in {"read_headers", "returned"}
    BY <1>2, TableType DEF set_lv4table_writable
  <2>2. BootTypeOK'
    BY <1>2, TableType DEF set_lv4table_writable, files, BootTypeOK
  <2> QED BY <1>0, <1>2, <2>1, <2>2
          DEF set_lv4table_writable, files, SegmentsFollow, LoaderPlaces
<1>3. CASE ReadProgramHeaders
  BY <1>0, <1>3 DEF ReadProgramHeaders, TRY_EFI, LoaderVars, files, BootTypeOK,
                    SegmentsFollow, LoaderPlaces
<1>4. CASE AllocateKernel
  <2>1. type' \in [Frame -> MemoryType]
    BY <1>4, AllocatedType DEF AllocateKernel, BootTypeOK, MemoryType, ImageType
  <2>2. BootTypeOK'
    BY <1>4, <2>1 DEF AllocateKernel, LoaderVars, files, BootTypeOK
  <2>3. SegmentsFollow'
    BY <1>4 DEF AllocateKernel, LoaderVars, files, SegmentsFollow, Segments, Loadable
  <2> QED BY <1>0, <1>4, <2>2, <2>3 DEF AllocateKernel, LoaderVars, files, LoaderPlaces
<1>5. CASE MapKernel
  <2>1. pc' \in {"load_segment", "returned"}
    BY <1>5, TableType DEF MapKernel
  <2>2. 1 <= Len(phdr) /\ Len(phdr) \in Nat
    BY <1>5, FileFacts DEF MapKernel, SegmentsFollow
  <2>3. BootTypeOK'
    BY <1>5, <2>2, TableType DEF MapKernel, files, BootTypeOK
  <2>4. SegmentsFollow'
    BY <1>5, <2>1, <2>2 DEF MapKernel, files, SegmentsFollow
  <2> QED BY <1>0, <1>5, <2>1, <2>3, <2>4 DEF MapKernel, files, LoaderPlaces
<1>6. CASE load_segment
  <2>1. /\ pc' \in {"load_guest", "load_segment", "returned"}
        /\ pc' = "load_segment" => seg # Len(phdr)
    BY <1>6 DEF load_segment, TRY_EFI
  <2>2. seg' = seg + 1 /\ seg \in 1 .. Len(phdr) /\ Len(phdr) \in Nat /\ UNCHANGED files
    BY <1>6, FileFacts DEF load_segment, SegmentsFollow
  <2>3. SegmentsFollow'
    BY <2>1, <2>2 DEF SegmentsFollow, files
  <2>4. DOMAIN mem' = Address /\ \A a \in Address : mem'[a] \in Content
    <3>1. CASE UNCHANGED mem
      BY <3>1 DEF BootTypeOK
    <3>2. CASE /\ Loadable(seg)
               /\ mem' = Written(mem, phdr[seg].p_paddr,
                            [k \in 0 .. phdr[seg].p_memsz - 1 |-> SegmentByte(seg, k)])
      <4>1. seg \in Segments
        BY <3>2, <2>2, FileFacts DEF Segments
      <4> DEFINE bytes == [k \in 0 .. phdr[seg].p_memsz - 1 |-> SegmentByte(seg, k)]
      <4>2. \A k \in DOMAIN bytes : bytes[k] \in Content
        BY <4>1, FileFacts DEF SegmentByte, Content
      <4>3. mem' = Written(mem, phdr[seg].p_paddr, bytes)
        BY <3>2
      <4> HIDE DEF bytes
      <4> QED BY <4>2, <4>3, WrittenType DEF BootTypeOK
    <3> QED BY <3>1, <3>2, <1>6 DEF load_segment
  <2>5. BootTypeOK'
    BY <1>6, <2>2, <2>4 DEF load_segment, files, BootTypeOK
  <2> QED BY <1>0, <2>1, <2>2, <2>3, <2>5 DEF files, LoaderPlaces
<1>7. CASE LoadGuest
  <2>1. pc' \in {"load_initrd", "returned"}
    BY <1>7, FileType, FileFacts DEF LoadGuest
  <2>2. BootTypeOK'
    BY <1>7, FileType, FileFacts DEF LoadGuest, files, BootTypeOK
  <2> QED BY <1>0, <1>7, <2>1, <2>2 DEF LoadGuest, files, SegmentsFollow, LoaderPlaces
<1>8. CASE LoadInitrd
  <2>1. pc' \in {"clean_up", "returned"}
    BY <1>8, FileType, FileFacts DEF LoadInitrd
  <2>2. BootTypeOK'
    BY <1>8, FileType, FileFacts DEF LoadInitrd, files, BootTypeOK
  <2> QED BY <1>0, <1>8, <2>1, <2>2 DEF LoadInitrd, files, SegmentsFollow, LoaderPlaces
<1>9. CASE CleanUp
  BY <1>0, <1>9 DEF CleanUp, TRY_EFI, LoaderVars, files, BootTypeOK, SegmentsFollow,
                    LoaderPlaces
<1>10. CASE ReadMap
  <2>1. pc' \in {"exit_services", "returned"}
    BY <1>10, MapType DEF ReadMap
  <2>2. BootTypeOK'
    BY <1>10, MapType DEF ReadMap, files, BootTypeOK
  <2> QED BY <1>0, <1>10, <2>1, <2>2 DEF ReadMap, files, SegmentsFollow, LoaderPlaces
<1>11. CASE ExitBootServices
  BY <1>0, <1>11 DEF ExitBootServices, files, BootTypeOK, SegmentsFollow, LoaderPlaces,
                     KernelPlaces
<1>12. CASE ReadMapAgain
  <2>1. pc' \in {"exit_services_again", "returned"}
    BY <1>12, MapType DEF ReadMapAgain, RetrySize
  <2>2. BootTypeOK'
    BY <1>12, MapType DEF ReadMapAgain, RetrySize, files, BootTypeOK
  <2> QED BY <1>0, <1>12, <2>1, <2>2 DEF ReadMapAgain, files, SegmentsFollow, LoaderPlaces
<1>13. CASE ExitBootServicesAgain
  BY <1>0, <1>13 DEF ExitBootServicesAgain, files, BootTypeOK, SegmentsFollow,
                     LoaderPlaces, KernelPlaces
<1> QED
  BY <1>1, <1>2, <1>3, <1>4, <1>5, <1>6, <1>7, <1>8, <1>9, <1>10, <1>11, <1>12,
     <1>13 DEF efi_main

\* A page that the firmware takes or gives back changes its type only.
LEMMA FirmwareKeepsTypes ==
    ASSUME Types, FirmwareActs, UNCHANGED vmVars
    PROVE  Types'
<1> USE DEF Types, TypeOK
<1>1. type' \in [Frame -> MemoryType]
  BY AllocatedType DEF FirmwareActs, BootTypeOK, MemoryType
<1>2. key' \in 0 .. MaxKey
  BY BootAssumption DEF FirmwareActs, BootTypeOK
<1>3. BootTypeOK'
  BY <1>1, <1>2 DEF FirmwareActs, files, BootTypeOK
<1> QED BY <1>3 DEF FirmwareActs, vmVars, files, FilesGiven, SegmentsFollow

\* YmirC keeps the types.
LEMMA KernelKeepsTypes ==
    ASSUME Types, Kernel
    PROVE  Types'
<1> USE DEF Types, TypeOK
<1>1. pc' \in KernelPlaces
  BY DEF Kernel, kernel_main, setup_guest_memory, load_kernel, LoadRamdisk, LoadBootParams,
         LoadCode, load_image, KernelPlaces
<1>2. UNCHANGED <<type, key, services, files, seg, guest_start, initrd_start, map, tables>>
  BY DEF Kernel, kernel_main, setup_guest_memory, load_kernel, LoadRamdisk, LoadBootParams,
         LoadCode, hostVars
<1>3. DOMAIN mem' = Address /\ \A a \in Address : mem'[a] \in Content
  <2>1. CASE kernel_main
    <3>1. <<"junk", 0>> \in Content
      BY DEF Content
    <3> QED BY <2>1, <3>1 DEF kernel_main, BootTypeOK
  <2>2. CASE UNCHANGED mem
    BY <2>2 DEF BootTypeOK
  <2> QED BY <2>1, <2>2 DEF Kernel, setup_guest_memory, load_kernel, LoadRamdisk,
                            LoadBootParams, LoadCode, hostVars
<1>4. DOMAIN guest_mem' = GuestAddress
  BY DEF Kernel, kernel_main, setup_guest_memory, load_kernel, LoadRamdisk, LoadBootParams,
         LoadCode, load_image, Written, vmVars
<1>5. BootTypeOK'
  BY <1>2, <1>3 DEF BootTypeOK, files
<1>6. SegmentsFollow'
  BY <1>1 DEF SegmentsFollow, KernelPlaces
<1> QED BY <1>1, <1>2, <1>4, <1>5, <1>6 DEF FilesGiven, files

\* Every step keeps the types.
LEMMA TypesStep == Types /\ [Next]_vars => Types'
<1> SUFFICES ASSUME Types, [Next]_vars PROVE Types'
  OBVIOUS
<1>1. CASE Loader
  BY <1>1, LoaderKeepsTypes DEF Loader
<1>2. CASE Firmware
  BY <1>2, FirmwareKeepsTypes DEF Firmware
<1>3. CASE Kernel
  BY <1>3, KernelKeepsTypes
<1>4. CASE UNCHANGED vars
  BY <1>4 DEF vars, bootVars, vmVars, files, Types, TypeOK, BootTypeOK, FilesGiven,
              SegmentsFollow, Segments, Loadable
<1> QED BY <1>1, <1>2, <1>3, <1>4 DEF Next, Ended

\* Every variable keeps its type for every machine and every set of files; in
\* particular the memory map that SurtrC hands over is never longer than the
\* buffer it was read into (surtrc/boot.c:266-303), and the loop over the
\* program headers never leaves the table (surtrc/boot.c:121-147).
THEOREM TypeCorrect == Spec => []TypeOK
<1>1. Types => TypeOK
  BY DEF Types
<1> QED BY <1>1, TypesInit, TypesStep, PTL DEF Spec

-----------------------------------------------------------------------------
(* What the boot needs stays in memory.                                    *)

\* Where the guest's image is loaded, the initrd too, the kernel is loaded, and
\* the kernel's memory is allocated.
GuestPlaces == {"load_initrd", "clean_up", "get_map", "exit_services", "get_map_again",
                "exit_services_again"} \cup KernelPlaces
InitrdPlaces == GuestPlaces \ {"load_initrd"}
LoadedPlaces == {"load_guest"} \cup GuestPlaces
HeldPlaces == {"map_kernel", "load_segment"} \cup LoadedPlaces

\* An address in a page that was allocated for an image.
Held(a) == a \div PageSize \in Frame /\ type[a \div PageSize] = ImageType

\* The kernel's memory is its own, for each byte of its segments.
KernelHeld ==
    pc \in HeldPlaces =>
        \A s \in Segments : \A k \in 0 .. phdr[s].p_memsz - 1 : Held(phdr[s].p_paddr + k)

\* The segments that were loaded are there.
KernelThere ==
    /\ pc = "load_segment" =>
          \A s \in Segments : s < seg =>
              \A k \in 0 .. phdr[s].p_memsz - 1 : mem[phdr[s].p_paddr + k] = SegmentByte(s, k)
    /\ pc \in LoadedPlaces =>
          \A s \in Segments : \A k \in 0 .. phdr[s].p_memsz - 1 :
              mem[phdr[s].p_paddr + k] = SegmentByte(s, k)

\* The tables are there, in memory that neither the firmware nor YmirC takes for free.
TablesThere ==
    \A f \in tables :
        /\ f \in Frame /\ type[f] = "BootServicesData"
        /\ \A k \in 0 .. PageSize - 1 : mem[f * PageSize + k] = <<"table", k>>

\* A file is there, in memory of its own.
FileThere(name, size, start) ==
    \A k \in 0 .. size - 1 : /\ Held(start * PageSize + k)
                             /\ mem[start * PageSize + k] = <<name, k>>

\* The files are there once they were read.
FilesThere ==
    /\ pc \in GuestPlaces => FileThere("guest", guest.size, guest_start)
    /\ pc \in InitrdPlaces => FileThere("initrd", initrd, initrd_start)

\* The invariant of what the boot needs.
Needed == KernelHeld /\ KernelThere /\ TablesThere /\ FilesThere

\* A step leaves the images and the tables that are there alone.
Kept ==
    \A a \in Nat : Held(a) \/ a \div PageSize \in tables =>
        /\ type'[a \div PageSize] = type[a \div PageSize]
        /\ mem'[a] = mem[a]

\* Addresses and pages.
LEMMA Division ==
    ASSUME NEW a \in Nat
    PROVE  /\ a \div PageSize \in Nat
           /\ (a \div PageSize) * PageSize <= a
           /\ a < (a \div PageSize) * PageSize + PageSize
           /\ a % PageSize = 0 => (a \div PageSize) * PageSize = a
BY BootAssumption

\* A multiple of the size of a page that is less is of a lower page.
LEMMA LessPages ==
    ASSUME NEW x \in Int, NEW y \in Int, x * PageSize < y * PageSize
    PROVE  x < y
BY BootAssumption

\* An address in a run of pages is in one of the pages.
LEMMA InRun ==
    ASSUME NEW f \in Nat, NEW n \in Nat, NEW a \in Nat,
           f * PageSize <= a, a < f * PageSize + n * PageSize
    PROVE  a \div PageSize \in Pages(f, n)
<1> DEFINE q == a \div PageSize
<1>1. q \in Nat /\ q * PageSize <= a /\ a < q * PageSize + PageSize
  BY Division
<1> HIDE DEF q
<1>2. PageSize \in Nat /\ (f + n) * PageSize = f * PageSize + n * PageSize
      /\ (q + 1) * PageSize = q * PageSize + PageSize
  BY <1>1, BootAssumption
<1>3. /\ f * PageSize \in Nat /\ n * PageSize \in Nat /\ q * PageSize \in Nat
  BY <1>1, <1>2
<1>4. f * PageSize < (q + 1) * PageSize /\ q * PageSize < (f + n) * PageSize
  BY <1>1, <1>2, <1>3
<1>5. f < q + 1 /\ q < f + n
  BY <1>1, <1>4, LessPages
<1>6. q \in f .. f + n - 1
  BY <1>1, <1>5
<1> QED BY <1>6 DEF q, Pages

\* An address in a page of the memory is an address of the memory.
LEMMA InMemory ==
    ASSUME NEW a \in Nat, a \div PageSize \in Frame
    PROVE  a \in Address
<1> DEFINE q == a \div PageSize
<1>1. q \in Nat /\ a < q * PageSize + PageSize /\ q <= FrameCount - 1
  BY Division, BootAssumption DEF Frame
<1> HIDE DEF q
<1>2. (q + 1) * PageSize = q * PageSize + PageSize /\ (q + 1) * PageSize <= FrameCount * PageSize
  BY <1>1, BootAssumption
<1>3. a < FrameCount * PageSize /\ FrameCount * PageSize \in Nat
  BY <1>1, <1>2, BootAssumption
<1> QED BY <1>3 DEF Address

\* The k-th byte of a page is in this page.
LEMMA InPage ==
    ASSUME NEW f \in Nat, NEW k \in 0 .. PageSize - 1
    PROVE  f * PageSize + k \in Nat /\ (f * PageSize + k) \div PageSize = f
<1>1. PageSize \in Nat /\ f * PageSize \in Nat /\ k \in Nat /\ 1 * PageSize = PageSize
  BY BootAssumption
<1>2. PICK a \in Nat : a = f * PageSize + k
  BY <1>1
<1>3. f * PageSize <= a /\ a < f * PageSize + 1 * PageSize
  BY <1>1, <1>2
<1>4. a \div PageSize \in Pages(f, 1)
  BY <1>3, InRun
<1>5. a \div PageSize = f
  BY <1>4 DEF Pages
<1> QED BY <1>2, <1>5

\* Whole pages that a number of bytes takes.
LEMMA RoundedUp ==
    ASSUME NEW size \in Nat
    PROVE  /\ pages_of(size) \in Nat /\ pages_of(size) * PageSize \in Nat
           /\ size <= pages_of(size) * PageSize
<1>1. PageSize \in Nat /\ size + PageSize - 1 \in Nat
  BY BootAssumption
<1>2. /\ pages_of(size) \in Nat
      /\ size + PageSize - 1 < pages_of(size) * PageSize + PageSize
  BY <1>1, Division DEF pages_of
<1>3. pages_of(size) * PageSize \in Nat
  BY <1>1, <1>2
<1> QED BY <1>1, <1>2, <1>3

\* Memory that was free before is allocated and written to: nothing that is there
\* is changed.
LEMMA FreshKept ==
    ASSUME Types, Needed, NEW n \in Nat, NEW f \in FreeRuns(n), NEW t, NEW bytes,
           DOMAIN bytes \subseteq 0 .. n * PageSize - 1,
           type' = Allocated(f, n, t), mem' = Written(mem, f * PageSize, bytes)
    PROVE  Kept
<1> SUFFICES ASSUME NEW a \in Nat, Held(a) \/ a \div PageSize \in tables
             PROVE  /\ type'[a \div PageSize] = type[a \div PageSize]
                    /\ mem'[a] = mem[a]
  BY DEF Kept
<1>1. a \div PageSize \in Frame /\ type[a \div PageSize] # "Conventional"
  BY DEF Held, ImageType, Needed, TablesThere
<1>2. f \in Nat /\ a \div PageSize \notin Pages(f, n)
  BY <1>1 DEF FreeRuns, Frame
<1>3. type'[a \div PageSize] = type[a \div PageSize]
  BY <1>1, <1>2 DEF Allocated
<1>4. a - f * PageSize \notin DOMAIN bytes
  <2> SUFFICES ASSUME a - f * PageSize \in 0 .. n * PageSize - 1 PROVE FALSE
    OBVIOUS
  <2>1. f * PageSize \in Nat /\ n * PageSize \in Nat
    BY <1>2, BootAssumption
  <2> QED BY <2>1, <1>2, InRun
<1>5. a \in DOMAIN mem
  BY <1>1, InMemory DEF Types, TypeOK, BootTypeOK
<1>6. mem'[a] = mem[a]
  BY <1>4, <1>5 DEF Written
<1> QED BY <1>3, <1>6

\* The tables that are there stay, and new ones are there.
LEMMA TablesStep ==
    ASSUME Types, Needed, Kept,
           \A f \in tables' \ tables :
               /\ f \in Frame /\ type'[f] = "BootServicesData"
               /\ \A k \in 0 .. PageSize - 1 : mem'[f * PageSize + k] = <<"table", k>>
    PROVE  TablesThere'
<1> SUFFICES ASSUME NEW f \in tables
             PROVE  /\ f \in Frame /\ type'[f] = "BootServicesData"
                    /\ \A k \in 0 .. PageSize - 1 : mem'[f * PageSize + k] = <<"table", k>>
  BY DEF TablesThere
<1>1. /\ f \in Frame /\ f \in Nat /\ type[f] = "BootServicesData"
      /\ \A k \in 0 .. PageSize - 1 : mem[f * PageSize + k] = <<"table", k>>
  BY DEF Needed, TablesThere, Frame
<1>2. ASSUME NEW k \in 0 .. PageSize - 1
      PROVE  /\ type'[f] = type[f]
             /\ mem'[f * PageSize + k] = mem[f * PageSize + k]
  <2>1. f * PageSize + k \in Nat /\ (f * PageSize + k) \div PageSize = f
    BY <1>1, InPage
  <2> QED BY <2>1 DEF Kept
<1>3. 0 \in 0 .. PageSize - 1
  BY BootAssumption
<1> QED BY <1>1, <1>2, <1>3

\* A byte of an image stays, and stays the image's.
LEMMA HeldStep ==
    ASSUME Kept, NEW a \in Nat, Held(a)
    PROVE  mem'[a] = mem[a] /\ Held(a)'
BY DEF Kept, Held

\* The bytes of a segment have addresses.
LEMMA SegmentAddress ==
    ASSUME Types, NEW s \in Segments, NEW k \in 0 .. phdr[s].p_memsz - 1
    PROVE  phdr[s].p_paddr + k \in Nat
BY FileFacts DEF Types

\* The kernel's memory stays its own.
LEMMA KernelHeldStep ==
    ASSUME Types, Needed, Kept, UNCHANGED phdr, pc' \in HeldPlaces => pc \in HeldPlaces
    PROVE  KernelHeld'
<1> SUFFICES ASSUME pc' \in HeldPlaces,
                    NEW s \in Segments, NEW k \in 0 .. phdr[s].p_memsz - 1
             PROVE  Held(phdr[s].p_paddr + k)'
  BY DEF KernelHeld, Segments, Loadable
<1>1. Held(phdr[s].p_paddr + k) /\ phdr[s].p_paddr + k \in Nat
  BY SegmentAddress DEF Needed, KernelHeld
<1> QED BY <1>1 DEF Kept, Held

\* The kernel stays loaded.
LEMMA KernelThereStep ==
    ASSUME Types, Needed, Kept, UNCHANGED phdr, pc' # "load_segment",
           pc' \in LoadedPlaces => pc \in LoadedPlaces
    PROVE  KernelThere'
<1> SUFFICES ASSUME pc' \in LoadedPlaces,
                    NEW s \in Segments, NEW k \in 0 .. phdr[s].p_memsz - 1
             PROVE  mem'[phdr[s].p_paddr + k] = SegmentByte(s, k)
  BY DEF KernelThere, Segments, Loadable, SegmentByte
<1>1. Held(phdr[s].p_paddr + k) /\ phdr[s].p_paddr + k \in Nat
  BY SegmentAddress DEF Needed, KernelHeld, HeldPlaces
<1>2. mem[phdr[s].p_paddr + k] = SegmentByte(s, k)
  BY DEF Needed, KernelThere
<1> QED BY <1>1, <1>2, HeldStep

\* The bytes of a file have addresses.
LEMMA FileAddress ==
    ASSUME NEW start \in Frame, NEW size \in Nat, NEW k \in 0 .. size - 1
    PROVE  start * PageSize + k \in Nat
<1>1. start \in Nat /\ PageSize \in Nat /\ k \in Nat
  BY BootAssumption DEF Frame
<1> QED BY <1>1

\* The guest's image stays.
LEMMA GuestThereStep ==
    ASSUME Types, Needed, Kept, pc \in GuestPlaces, UNCHANGED <<guest, guest_start>>
    PROVE  FileThere("guest", guest.size, guest_start)'
<1> SUFFICES ASSUME NEW k \in 0 .. guest.size - 1
             PROVE  /\ Held(guest_start * PageSize + k)'
                    /\ mem'[guest_start * PageSize + k] = <<"guest", k>>
  BY DEF FileThere
<1>0. guest_start \in Frame /\ guest.size \in Nat
  BY FileFacts DEF Types, TypeOK, BootTypeOK
<1>1. guest_start * PageSize + k \in Nat
  BY <1>0, FileAddress
<1>2. /\ Held(guest_start * PageSize + k)
      /\ mem[guest_start * PageSize + k] = <<"guest", k>>
  BY DEF Needed, FilesThere, FileThere
<1> QED BY <1>1, <1>2 DEF Kept, Held

\* The initrd stays.
LEMMA InitrdThereStep ==
    ASSUME Types, Needed, Kept, pc \in InitrdPlaces, UNCHANGED <<initrd, initrd_start>>
    PROVE  FileThere("initrd", initrd, initrd_start)'
<1> SUFFICES ASSUME NEW k \in 0 .. initrd - 1
             PROVE  /\ Held(initrd_start * PageSize + k)'
                    /\ mem'[initrd_start * PageSize + k] = <<"initrd", k>>
  BY DEF FileThere
<1>0. initrd_start \in Frame /\ initrd \in Nat
  BY FileFacts DEF Types, TypeOK, BootTypeOK
<1>1. initrd_start * PageSize + k \in Nat
  BY <1>0, FileAddress
<1>2. /\ Held(initrd_start * PageSize + k)
      /\ mem[initrd_start * PageSize + k] = <<"initrd", k>>
  BY DEF Needed, FilesThere, FileThere
<1> QED BY <1>1, <1>2 DEF Kept, Held

\* A step that loads nothing.
LEMMA NothingLoaded ==
    ASSUME Types, Needed, Kept, UNCHANGED <<files, guest_start, initrd_start, tables>>,
           pc' # "load_segment",
           pc' \in HeldPlaces => pc \in HeldPlaces,
           pc' \in LoadedPlaces => pc \in LoadedPlaces,
           pc' \in GuestPlaces => pc \in GuestPlaces,
           pc' \in InitrdPlaces => pc \in InitrdPlaces
    PROVE  Needed'
<1>1. TablesThere'
  BY TablesStep
<1>2. KernelHeld' /\ KernelThere'
  BY KernelHeldStep, KernelThereStep DEF files
<1>3. FilesThere'
  BY GuestThereStep, InitrdThereStep DEF FilesThere, files
<1> QED BY <1>1, <1>2, <1>3 DEF Needed

\* A step that gives up.
LEMMA GivenUp ==
    ASSUME Types, Needed, Kept, UNCHANGED tables, pc' = "returned"
    PROVE  Needed'
<1>1. pc' \notin HeldPlaces
  BY DEF HeldPlaces, LoadedPlaces, GuestPlaces, KernelPlaces
<1>2. TablesThere'
  BY TablesStep
<1> QED BY <1>1, <1>2 DEF Needed, KernelHeld, KernelThere, FilesThere, HeldPlaces,
                          LoadedPlaces, InitrdPlaces

\* AllocateTable writes to free memory, and the table is there afterwards.
LEMMA TableAllocated ==
    ASSUME Types, Needed, NEW next, AllocateTable(next)
    PROVE  Kept /\ TablesThere'
<1>1. CASE UNCHANGED <<type, mem, tables>>
  BY <1>1, TablesStep DEF Kept
<1>2. ASSUME NEW f \in FreeRuns(1),
             type' = Allocated(f, 1, "BootServicesData"),
             mem' = Written(mem, f * PageSize, [k \in 0 .. PageSize - 1 |-> <<"table", k>>]),
             tables' = tables \cup {f}
      PROVE  Kept /\ TablesThere'
  <2> DEFINE bytes == [k \in 0 .. PageSize - 1 |-> <<"table", k>>]
  <2>1. 1 * PageSize = PageSize /\ 1 \in Nat
    BY BootAssumption
  <2>2. DOMAIN bytes \subseteq 0 .. 1 * PageSize - 1 /\ mem' = Written(mem, f * PageSize, bytes)
    BY <1>2, <2>1
  <2>3. Kept
    <3> HIDE DEF bytes
    <3> QED BY <1>2, <2>1, <2>2, FreshKept
  <2>4. f \in Frame /\ f \in Nat
    BY DEF FreeRuns, Frame
  <2>5. type'[f] = "BootServicesData"
    BY <1>2, <2>4 DEF Allocated, Pages
  <2>6. ASSUME NEW k \in 0 .. PageSize - 1
        PROVE  mem'[f * PageSize + k] = <<"table", k>>
    <3>1. PICK a \in Nat : a = f * PageSize + k /\ a \div PageSize = f
      BY <2>4, InPage
    <3>2. a \in DOMAIN mem
      BY <2>4, <3>1, InMemory DEF Types, TypeOK, BootTypeOK
    <3>3. f * PageSize \in Nat
      BY <2>4, BootAssumption
    <3>4. a - f * PageSize = k
      BY <3>1, <3>3
    <3>5. mem'[a] = bytes[k]
      BY <2>2, <3>2, <3>4 DEF Written
    <3> QED BY <3>1, <3>5
  <2>7. \A x \in tables' \ tables : x = f
    BY <1>2
  <2> QED BY <2>3, <2>4, <2>5, <2>6, <2>7, TablesStep
<1> QED BY <1>1, <1>2 DEF AllocateTable

\* LoadFile writes to free memory, and the file is there afterwards.
LEMMA FileLoaded ==
    ASSUME Types, Needed, NEW name, NEW size \in Nat, NEW start,
           NEW next, next # "returned", LoadFile(name, size, start, next)
    PROVE  /\ Kept
           /\ pc' = next => \A k \in 0 .. size - 1 :
                 /\ (start * PageSize + k) \div PageSize \in Frame
                 /\ type'[(start * PageSize + k) \div PageSize] = ImageType
                 /\ mem'[start * PageSize + k] = <<name, k>>
<1>1. CASE pc' = "returned" /\ UNCHANGED <<type, mem>>
  BY <1>1 DEF Kept
<1>2. ASSUME NEW f \in FreeRuns(pages_of(size)),
             type' = Allocated(f, pages_of(size), ImageType),
             mem' = Written(mem, f * PageSize, [k \in 0 .. size - 1 |-> <<name, k>>]),
             start = f
      PROVE  /\ Kept
             /\ \A k \in 0 .. size - 1 :
                   /\ (start * PageSize + k) \div PageSize \in Frame
                   /\ type'[(start * PageSize + k) \div PageSize] = ImageType
                   /\ mem'[start * PageSize + k] = <<name, k>>
  <2> DEFINE bytes == [k \in 0 .. size - 1 |-> <<name, k>>]
  <2> DEFINE n == pages_of(size)
  <2>1. n \in Nat /\ n * PageSize \in Nat /\ size <= n * PageSize
    BY RoundedUp
  <2>2. DOMAIN bytes \subseteq 0 .. n * PageSize - 1 /\ mem' = Written(mem, f * PageSize, bytes)
    BY <1>2, <2>1
  <2>3. Kept
    <3> HIDE DEF bytes
    <3> QED BY <1>2, <2>1, <2>2, FreshKept
  <2>4. f \in Frame /\ f \in Nat /\ f * PageSize \in Nat
    BY BootAssumption DEF FreeRuns, Frame
  <2>5. ASSUME NEW k \in 0 .. size - 1
        PROVE  /\ (f * PageSize + k) \div PageSize \in Frame
               /\ type'[(f * PageSize + k) \div PageSize] = ImageType
               /\ mem'[f * PageSize + k] = <<name, k>>
    <3>1. PICK a \in Nat : a = f * PageSize + k
      BY <2>4
    <3>2. f * PageSize <= a /\ a < f * PageSize + n * PageSize
      BY <2>1, <2>4, <3>1
    <3>3. a \div PageSize \in Pages(f, n)
      BY <2>1, <2>4, <3>2, InRun
    <3>4. a \div PageSize \in Frame
      BY <3>3 DEF FreeRuns
    <3>5. type'[a \div PageSize] = ImageType
      BY <1>2, <3>3, <3>4 DEF Allocated
    <3>6. a \in DOMAIN mem
      BY <3>4, InMemory DEF Types, TypeOK, BootTypeOK
    <3>7. a - f * PageSize = k
      BY <2>4, <3>1
    <3>8. mem'[a] = bytes[k]
      BY <2>2, <3>6, <3>7 DEF Written
    <3> QED BY <3>1, <3>4, <3>5, <3>8
  <2> QED BY <1>2, <2>3, <2>5
<1> QED BY <1>1, <1>2 DEF LoadFile

\* A set of numbers has a smallest one.
LEMMA Smallest ==
    ASSUME NEW T \in SUBSET Nat, T # {}
    PROVE  \E x \in T : \A y \in T : x <= y
<1>1. PICK x \in T : \A y \in T : ~(<<y, x>> \in OpToRel(<, Nat))
  BY WFMin, NatLessThanWellFounded
<1>2. ASSUME NEW y \in T
      PROVE  x <= y
  <2>1. x \in Nat /\ y \in Nat /\ <<y, x>> \in Nat \X Nat
    OBVIOUS
  <2>2. ~(y < x)
    BY <1>1, <2>1, Zenon DEF OpToRel
  <2> QED BY <2>1, <2>2
<1> QED BY <1>2

\* Min is it.
LEMMA MinIsSmallest ==
    ASSUME NEW T \in SUBSET Nat, T # {}
    PROVE  Min(T) \in T /\ \A y \in T : Min(T) <= y
<1>1. \E x \in T : \A y \in T : x <= y
  BY Smallest
<1> QED BY <1>1, Zenon DEF Min

\* A bounded set of numbers has a largest one, and Max is it.
LEMMA MaxIsLargest ==
    ASSUME NEW b \in Nat, NEW K \in SUBSET (0 .. b), K # {}
    PROVE  Max(K) \in K /\ \A k \in K : Max(K) >= k
<1> DEFINE T == {b - k : k \in K}
<1>1. T \in SUBSET Nat /\ T # {}
  <2>1. \A k \in K : b - k \in Nat
    OBVIOUS
  <2> QED BY <2>1, Zenon
<1>2. PICK x \in T : \A y \in T : x <= y
  <2> HIDE DEF T
  <2> QED BY <1>1, Smallest
<1>3. PICK k \in K : x = b - k
  BY <1>2
<1>4. \A j \in K : b - k <= b - j
  BY <1>2, <1>3, Zenon
<1>5. \A j \in K : k >= j
  BY <1>4
<1>6. \E m \in K : \A y \in K : m >= y
  BY <1>5
<1> QED BY <1>6, Zenon DEF Max

\* The segments end somewhere: by the smallest number of program headers for
\* which they would not.
LEMMA SegmentsEnd ==
    ASSUME FilesGiven
    PROVE  \E b \in Nat : \A s \in Segments : phdr[s].p_paddr + phdr[s].p_memsz <= b
<1> DEFINE end(s) == phdr[s].p_paddr + phdr[s].p_memsz
<1> DEFINE Bounds(b, n) == \A s \in Segments : s <= n => end(s) <= b
<1> DEFINE T == {n \in Nat : ~ \E b \in Nat : Bounds(b, n)}
<1>1. /\ Len(phdr) \in Nat /\ Segments \subseteq 1 .. Len(phdr)
      /\ \A s \in Segments : end(s) \in Nat
  BY FileFacts
<1> HIDE DEF end
<1>2. ASSUME T # {}
      PROVE  FALSE
  <2>1. PICK x \in T : \A y \in T : x <= y
    <3>1. T \in SUBSET Nat
      OBVIOUS
    <3> HIDE DEF T
    <3> QED BY <1>2, <3>1, Smallest
  <2>2. x \in Nat /\ ~ \E b \in Nat : Bounds(b, x)
    OBVIOUS
  <2>3. x # 0
    <3>1. Bounds(0, 0)
      BY <1>1
    <3> QED BY <3>1, <2>2
  <2>4. x - 1 \in Nat /\ x - 1 \notin T
    BY <2>1, <2>2, <2>3
  <2>5. PICK b \in Nat : Bounds(b, x - 1)
    BY <2>4
  <2>6. CASE x \in Segments
    <3>0. end(x) \in Nat
      BY <1>1, <2>6, Zenon
    <3>1. b + end(x) \in Nat
      BY <3>0
    <3>2. Bounds(b + end(x), x)
      <4> SUFFICES ASSUME NEW s \in Segments, s <= x PROVE end(s) <= b + end(x)
        OBVIOUS
      <4>1. s \in Nat /\ end(s) \in Nat /\ end(x) \in Nat
        BY <1>1, <2>6
      <4>2. CASE s = x
        BY <4>1, <4>2
      <4>3. CASE s # x
        <5>1. s <= x - 1
          BY <4>1, <4>3, <2>2
        <5>2. end(s) <= b
          BY <5>1, <2>5
        <5> QED BY <5>2, <4>1
      <4> QED BY <4>2, <4>3
    <3> QED BY <3>1, <3>2, <2>2
  <2>7. CASE x \notin Segments
    <3>1. \A s \in Segments : s <= x => s <= x - 1
      BY <1>1, <2>2, <2>7
    <3>2. Bounds(b, x)
      BY <2>5, <3>1
    <3> QED BY <3>2, <2>2
  <2> QED BY <2>6, <2>7
<1>3. PICK b \in Nat : Bounds(b, Len(phdr))
  BY <1>1, <1>2
<1>4. \A s \in Segments : end(s) <= b
  BY <1>1, <1>3
<1> QED BY <1>4 DEF end

\* compute_kernel_memory_range: no segment begins before start_phys or ends
\* behind end_phys.
LEMMA KernelRange ==
    ASSUME FilesGiven, Segments # {}
    PROVE  /\ start_phys \in Nat /\ end_phys \in Nat
           /\ \A s \in Segments : /\ start_phys <= phdr[s].p_paddr
                                  /\ phdr[s].p_paddr + phdr[s].p_memsz <= end_phys
<1> DEFINE Starts == {phdr[s].p_paddr : s \in Segments}
<1> DEFINE Ends == {phdr[s].p_paddr + phdr[s].p_memsz : s \in Segments}
<1>1. Starts \in SUBSET Nat /\ Starts # {}
  BY FileFacts
<1>2. PICK b \in Nat : \A s \in Segments : phdr[s].p_paddr + phdr[s].p_memsz <= b
  BY SegmentsEnd
<1>3. Ends \in SUBSET (0 .. b) /\ Ends # {}
  BY <1>2, FileFacts
<1>4. start_phys = Min(Starts) /\ end_phys = Max(Ends)
  BY DEF start_phys, end_phys
<1>5. start_phys \in Starts /\ \A y \in Starts : start_phys <= y
  <2> HIDE DEF Starts
  <2> QED BY <1>1, <1>4, MinIsSmallest
<1>6. end_phys \in Ends /\ \A y \in Ends : end_phys >= y
  <2> HIDE DEF Ends
  <2> QED BY <1>3, <1>4, MaxIsLargest
<1>7. start_phys \in Nat /\ end_phys \in Nat
  BY <1>1, <1>3, <1>5, <1>6
<1>8. ASSUME NEW s \in Segments
      PROVE  /\ start_phys <= phdr[s].p_paddr
             /\ phdr[s].p_paddr + phdr[s].p_memsz <= end_phys
  <2>1. phdr[s].p_paddr \in Starts /\ phdr[s].p_paddr + phdr[s].p_memsz \in Ends
    OBVIOUS
  <2>2. phdr[s].p_paddr + phdr[s].p_memsz \in Nat
    BY FileFacts
  <2> QED BY <2>1, <2>2, <1>5, <1>6, <1>7
<1> QED BY <1>7, <1>8

\* The memory of the kernel is allocated, whole, from free memory.
LEMMA KernelAllocated ==
    ASSUME Types, Needed, Segments # {}, start_phys % PageSize = 0,
           start_phys \div PageSize \in FreeRuns(pages_4kib),
           type' = Allocated(start_phys \div PageSize, pages_4kib, ImageType),
           UNCHANGED <<mem, phdr>>
    PROVE  Kept /\ KernelHeld'
<1> DEFINE f == start_phys \div PageSize
<1>1. /\ start_phys \in Nat /\ end_phys \in Nat
      /\ \A s \in Segments : /\ start_phys <= phdr[s].p_paddr
                             /\ phdr[s].p_paddr + phdr[s].p_memsz <= end_phys
  BY KernelRange DEF Types
<1>2. f \in Nat /\ f * PageSize = start_phys
  BY <1>1, Division
<1>3. end_phys - start_phys \in Nat
  BY <1>1, FileFacts DEF Types
<1>4. /\ pages_4kib \in Nat /\ pages_4kib * PageSize \in Nat
      /\ end_phys - start_phys <= pages_4kib * PageSize
  BY <1>3, RoundedUp DEF pages_4kib
<1>5. Kept
  <2> SUFFICES ASSUME NEW a \in Nat, Held(a) \/ a \div PageSize \in tables
               PROVE  type'[a \div PageSize] = type[a \div PageSize]
    BY DEF Kept
  <2>1. a \div PageSize \in Frame /\ type[a \div PageSize] # "Conventional"
    BY DEF Held, ImageType, Needed, TablesThere
  <2>2. a \div PageSize \notin Pages(f, pages_4kib)
    BY <2>1 DEF FreeRuns
  <2> QED BY <2>1, <2>2 DEF Allocated
<1>6. ASSUME NEW s \in Segments, NEW k \in 0 .. phdr[s].p_memsz - 1
      PROVE  Held(phdr[s].p_paddr + k)'
  <2>1. PICK a \in Nat : a = phdr[s].p_paddr + k
    BY SegmentAddress
  <2>2. start_phys <= a /\ a < end_phys
    <3>1. phdr[s].p_paddr \in Nat /\ phdr[s].p_memsz \in Nat
      BY FileFacts DEF Types
    <3> QED BY ONLY <1>1, <2>1, <3>1, s \in Segments, k \in 0 .. phdr[s].p_memsz - 1
  <2>3. f * PageSize <= a /\ a < f * PageSize + pages_4kib * PageSize
    BY <1>1, <1>2, <1>4, <2>2
  <2>4. a \div PageSize \in Pages(f, pages_4kib)
    <3> HIDE DEF f
    <3> QED BY <1>2, <1>4, <2>3, InRun
  <2>5. a \div PageSize \in Frame
    BY <2>4 DEF FreeRuns
  <2>6. type'[a \div PageSize] = ImageType
    BY <2>4, <2>5 DEF Allocated
  <2> QED BY <2>1, <2>5, <2>6 DEF Held
<1>7. KernelHeld'
  BY <1>6 DEF KernelHeld, Segments, Loadable
<1> QED BY <1>5, <1>7

\* One round of load_segment: the segment is there afterwards, and those before
\* it and the tables still are.
LEMMA SegmentLoaded ==
    ASSUME Types, Needed, load_segment
    PROVE  Needed'
<1>1. /\ pc = "load_segment" /\ seg' = seg + 1
      /\ pc' \in {"load_guest", "load_segment", "returned"}
      /\ pc' = "load_guest" => seg = Len(phdr)
      /\ UNCHANGED <<type, phdr, tables>>
  BY DEF load_segment, TRY_EFI, files
<1>2. /\ seg \in Nat /\ Len(phdr) \in Nat /\ Segments \subseteq 1 .. Len(phdr)
      /\ phdr \in Kernels /\ seg \in DOMAIN phdr
  BY <1>1, FileFacts DEF Types, SegmentsFollow, FilesGiven
<1>3. KernelHeld' /\ FilesThere'
  <2>1. KernelHeld'
    BY <1>1 DEF Needed, KernelHeld, HeldPlaces, LoadedPlaces, GuestPlaces, KernelPlaces,
                Segments, Loadable, Held
  <2>2. FilesThere'
    BY <1>1 DEF FilesThere, GuestPlaces, InitrdPlaces, KernelPlaces
  <2> QED BY <2>1, <2>2
<1>4. \A s \in Segments : \A k \in 0 .. phdr[s].p_memsz - 1 :
         phdr[s].p_paddr + k \in Nat /\ Held(phdr[s].p_paddr + k)
  BY <1>1, SegmentAddress DEF Needed, KernelHeld, HeldPlaces
<1>5. \A s \in Segments : s < seg => \A k \in 0 .. phdr[s].p_memsz - 1 :
         mem[phdr[s].p_paddr + k] = SegmentByte(s, k)
  BY <1>1 DEF Needed, KernelThere
<1>6. CASE ~Loadable(seg) /\ UNCHANGED mem
  <2>1. seg \notin Segments
    BY <1>6 DEF Segments
  <2>2. \A s \in Segments : s < seg + 1 => s < seg
    BY <1>2, <2>1
  <2>3. \A s \in Segments : s < seg + 1 => \A k \in 0 .. phdr[s].p_memsz - 1 :
           mem'[phdr[s].p_paddr + k] = SegmentByte(s, k)
    BY <1>5, <1>6, <2>2
  <2>4. pc' = "load_guest" => \A s \in Segments : s < seg + 1
    BY <1>1, <1>2
  <2>5. KernelThere'
    BY <1>1, <2>3, <2>4 DEF KernelThere, LoadedPlaces, GuestPlaces, KernelPlaces, Segments,
                            Loadable, SegmentByte
  <2>6. Kept
    BY <1>1, <1>6 DEF Kept
  <2>7. TablesThere'
    BY <1>1, <2>6, TablesStep
  <2> QED BY <1>3, <2>5, <2>7 DEF Needed
<1>7. CASE /\ Loadable(seg)
           /\ mem' = Written(mem, phdr[seg].p_paddr,
                             [k \in 0 .. phdr[seg].p_memsz - 1 |-> SegmentByte(seg, k)])
  <2> DEFINE bytes == [k \in 0 .. phdr[seg].p_memsz - 1 |-> SegmentByte(seg, k)]
  <2>1. seg \in Segments
    BY <1>2, <1>7 DEF Segments
  <2>2. /\ phdr[seg].p_paddr \in Nat /\ phdr[seg].p_memsz \in Nat
        /\ mem' = Written(mem, phdr[seg].p_paddr, bytes)
    BY <1>7, <2>1, FileFacts DEF Types
  <2>3. DOMAIN mem = Address
    BY DEF Types, TypeOK, BootTypeOK
  <2>4. ASSUME NEW a \in Address, ~ (a - phdr[seg].p_paddr \in 0 .. phdr[seg].p_memsz - 1)
        PROVE  mem'[a] = mem[a]
    BY <2>2, <2>3, <2>4 DEF Written
  <2>5. \A s \in Segments : \A k \in 0 .. phdr[s].p_memsz - 1 : phdr[s].p_paddr + k \in Address
    BY <1>4, InMemory DEF Held
  <2>6. ASSUME NEW s \in Segments, s < seg + 1, NEW k \in 0 .. phdr[s].p_memsz - 1
        PROVE  mem'[phdr[s].p_paddr + k] = SegmentByte(s, k)
    <3>1. CASE s = seg
      <4>1. PICK a \in Address : a = phdr[seg].p_paddr + k
        BY <2>1, <2>5, <2>6, <3>1
      <4>2. k \in DOMAIN bytes /\ a - phdr[seg].p_paddr = k
        BY <2>2, <2>6, <3>1, <4>1
      <4>3. mem'[a] = bytes[k]
        BY <2>2, <2>3, <4>1, <4>2 DEF Written
      <4>4. bytes[k] = SegmentByte(seg, k)
        BY <4>2
      <4> QED BY <3>1, <4>1, <4>3, <4>4
    <3>2. CASE s # seg
      <4>1. s < seg /\ s \in DOMAIN phdr
        BY <1>2, <2>6, <3>2, FileFacts DEF Types
      <4>2. PICK a \in Address : a = phdr[s].p_paddr + k
        BY <2>5, <2>6
      <4>3. phdr[s].p_paddr \in Nat /\ phdr[s].p_memsz \in Nat
        BY <2>6, FileFacts DEF Types
      <4>4. a \in Bytes(phdr[s])
        BY <2>6, <4>2, <4>3 DEF Bytes
      <4>5. Bytes(phdr[s]) \cap Bytes(phdr[seg]) = {}
        <5>1. SegmentPages(phdr[s]) \cap SegmentPages(phdr[seg]) = {}
          BY <1>2, <1>7, <2>6, <3>2, <4>1, SegmentsApart DEF Segments, Loadable
        <5> QED BY <5>1 DEF SegmentPages
      <4>6. ~ (a - phdr[seg].p_paddr \in 0 .. phdr[seg].p_memsz - 1)
        <5>1. a \in Nat /\ a \notin Bytes(phdr[seg])
          BY <4>2, <4>3, <4>4, <4>5
        <5> QED BY <5>1, <2>2 DEF Bytes
      <4>7. mem'[a] = mem[a]
        BY <2>4, <4>6
      <4>8. mem[phdr[s].p_paddr + k] = SegmentByte(s, k)
        BY <1>5, <2>6, <4>1
      <4> QED BY <4>2, <4>7, <4>8
    <3> QED BY <3>1, <3>2
  <2>7. pc' = "load_guest" => \A s \in Segments : s < seg + 1
    BY <1>1, <1>2
  <2>8. KernelThere'
    BY <1>1, <2>6, <2>7 DEF KernelThere, LoadedPlaces, GuestPlaces, KernelPlaces, Segments,
                            Loadable, SegmentByte
  <2>9. ASSUME NEW f \in tables
        PROVE  /\ f \in Frame /\ type'[f] = "BootServicesData"
               /\ \A k \in 0 .. PageSize - 1 : mem'[f * PageSize + k] = <<"table", k>>
    <3>1. /\ f \in Frame /\ f \in Nat /\ type[f] = "BootServicesData"
          /\ \A k \in 0 .. PageSize - 1 : mem[f * PageSize + k] = <<"table", k>>
      BY <2>9 DEF Needed, TablesThere, Frame
    <3>2. ASSUME NEW k \in 0 .. PageSize - 1
          PROVE  mem'[f * PageSize + k] = mem[f * PageSize + k]
      <4>1. PICK a \in Nat : a = f * PageSize + k /\ a \div PageSize = f
        BY <3>1, InPage
      <4>2. a \in Address /\ ~Held(a)
        BY <3>1, <4>1, InMemory DEF Held, ImageType
      <4>3. ~ (a - phdr[seg].p_paddr \in 0 .. phdr[seg].p_memsz - 1)
        <5> SUFFICES ASSUME a - phdr[seg].p_paddr \in 0 .. phdr[seg].p_memsz - 1
                     PROVE  FALSE
          OBVIOUS
        <5>1. Held(phdr[seg].p_paddr + (a - phdr[seg].p_paddr))
          BY <1>4, <2>1
        <5>2. phdr[seg].p_paddr + (a - phdr[seg].p_paddr) = a
          BY <2>2, <4>1
        <5> QED BY <4>2, <5>1, <5>2
      <4> QED BY <4>1, <4>2, <4>3, <2>4
    <3> QED BY <1>1, <3>1, <3>2
  <2>10. TablesThere'
    BY <1>1, <2>9 DEF TablesThere
  <2> QED BY <1>3, <2>8, <2>10 DEF Needed
<1> QED BY <1>6, <1>7 DEF load_segment

\* A step that touches no memory.
LEMMA Untouched == UNCHANGED <<type, mem>> => Kept
BY DEF Kept

\* efi_main keeps the invariant.
LEMMA LoaderNeeded ==
    ASSUME Types, Needed, efi_main
    PROVE  Needed'
<1> USE DEF HeldPlaces, LoadedPlaces, GuestPlaces, InitrdPlaces, KernelPlaces
<1>1. CASE OpenKernel
  BY <1>1, Untouched, NothingLoaded DEF OpenKernel, TRY_EFI, LoaderVars
<1>2. CASE set_lv4table_writable
  <2>1. pc' \in {"read_headers", "returned"}
    BY <1>2 DEF set_lv4table_writable, AllocateTable
  <2>2. Kept /\ TablesThere'
    BY <1>2, TableAllocated DEF set_lv4table_writable
  <2> QED BY <2>1, <2>2 DEF Needed, KernelHeld, KernelThere, FilesThere
<1>3. CASE ReadProgramHeaders
  BY <1>3, Untouched, NothingLoaded DEF ReadProgramHeaders, TRY_EFI, LoaderVars
<1>4. CASE AllocateKernel
  <2>1. UNCHANGED <<mem, files, guest_start, initrd_start, tables>>
    BY <1>4 DEF AllocateKernel, LoaderVars
  <2>2. CASE pc' = "returned" /\ UNCHANGED type
    BY <2>1, <2>2, Untouched, GivenUp
  <2>3. CASE pc' = "map_kernel"
    <3>1. Kept /\ KernelHeld'
      BY <1>4, <2>1, <2>3, KernelAllocated DEF AllocateKernel, files
    <3>2. TablesThere'
      BY <2>1, <3>1, TablesStep
    <3> QED BY <2>3, <3>1, <3>2 DEF Needed, KernelThere, FilesThere
  <2> QED BY <1>4, <2>2, <2>3 DEF AllocateKernel
<1>5. CASE MapKernel
  <2>1. pc = "map_kernel" /\ pc' \in {"load_segment", "returned"} /\ seg' = 1 /\ UNCHANGED files
    BY <1>5 DEF MapKernel, AllocateTable
  <2>2. Kept /\ TablesThere'
    BY <1>5, TableAllocated DEF MapKernel
  <2>3. KernelHeld'
    BY <2>1, <2>2, KernelHeldStep DEF files
  <2>4. \A s \in Segments' : ~ (s < 1)
    BY <2>1, FileFacts DEF Types, Segments, Loadable, files
  <2>5. KernelThere'
    BY <2>1, <2>4 DEF KernelThere
  <2> QED BY <2>1, <2>2, <2>3, <2>5 DEF Needed, FilesThere
<1>6. CASE load_segment
  BY <1>6, SegmentLoaded
<1>7. CASE LoadGuest
  <2>1. pc = "load_guest" /\ pc' \in {"load_initrd", "returned"} /\ UNCHANGED <<files, tables>>
    BY <1>7 DEF LoadGuest, LoadFile
  <2>2. /\ Kept
        /\ pc' = "load_initrd" => \A k \in 0 .. guest.size - 1 :
              /\ (guest_start' * PageSize + k) \div PageSize \in Frame
              /\ type'[(guest_start' * PageSize + k) \div PageSize] = ImageType
              /\ mem'[guest_start' * PageSize + k] = <<"guest", k>>
    BY <1>7, FileLoaded, FileFacts DEF LoadGuest, Types
  <2>3. TablesThere'
    BY <2>1, <2>2, TablesStep
  <2>4. KernelHeld' /\ KernelThere'
    BY <2>1, <2>2, KernelHeldStep, KernelThereStep DEF files
  <2>5. FilesThere'
    BY <2>1, <2>2 DEF FilesThere, FileThere, Held, ImageType, files
  <2> QED BY <2>3, <2>4, <2>5 DEF Needed
<1>8. CASE LoadInitrd
  <2>1. /\ pc = "load_initrd" /\ pc' \in {"clean_up", "returned"}
        /\ UNCHANGED <<files, tables, guest_start>>
    BY <1>8 DEF LoadInitrd, LoadFile
  <2>2. /\ Kept
        /\ pc' = "clean_up" => \A k \in 0 .. initrd - 1 :
              /\ (initrd_start' * PageSize + k) \div PageSize \in Frame
              /\ type'[(initrd_start' * PageSize + k) \div PageSize] = ImageType
              /\ mem'[initrd_start' * PageSize + k] = <<"initrd", k>>
    BY <1>8, FileLoaded, FileFacts DEF LoadInitrd, Types
  <2>3. TablesThere'
    BY <2>1, <2>2, TablesStep
  <2>4. KernelHeld' /\ KernelThere'
    BY <2>1, <2>2, KernelHeldStep, KernelThereStep DEF files
  <2>5. FileThere("guest", guest.size, guest_start)'
    BY <2>1, <2>2, GuestThereStep DEF files
  <2>6. pc' \in InitrdPlaces => FileThere("initrd", initrd, initrd_start)'
    BY <2>1, <2>2 DEF FileThere, Held, ImageType, files
  <2> QED BY <2>3, <2>4, <2>5, <2>6 DEF Needed, FilesThere
<1>9. CASE CleanUp
  BY <1>9, Untouched, NothingLoaded DEF CleanUp, TRY_EFI, LoaderVars
<1>10. CASE ReadMap
  BY <1>10, Untouched, NothingLoaded DEF ReadMap, GetMemoryMap
<1>11. CASE ExitBootServices
  BY <1>11, Untouched, NothingLoaded DEF ExitBootServices
<1>12. CASE ReadMapAgain
  BY <1>12, Untouched, NothingLoaded DEF ReadMapAgain, GetMemoryMap
<1>13. CASE ExitBootServicesAgain
  BY <1>13, Untouched, NothingLoaded DEF ExitBootServicesAgain
<1> QED
  BY <1>1, <1>2, <1>3, <1>4, <1>5, <1>6, <1>7, <1>8, <1>9, <1>10, <1>11, <1>12,
     <1>13 DEF efi_main

\* The firmware takes free memory only, and gives back memory of its own only.
LEMMA FirmwareNeeded ==
    ASSUME Types, Needed, FirmwareActs
    PROVE  Needed'
<1>1. Kept
  <2> SUFFICES ASSUME NEW a \in Nat, Held(a) \/ a \div PageSize \in tables
               PROVE  type'[a \div PageSize] = type[a \div PageSize]
    BY DEF Kept, FirmwareActs
  <2>1. PICK f \in Frame \ tables, t \in {"BootServicesData", "Conventional"} :
           /\ type[f] \in {"BootServicesData", "Conventional"}
           /\ type' = Allocated(f, 1, t)
    BY DEF FirmwareActs
  <2>2. a \div PageSize \in Frame /\ a \div PageSize # f
    BY <2>1 DEF Held, ImageType, Needed, TablesThere
  <2>3. a \div PageSize \notin Pages(f, 1)
    BY <2>1, <2>2 DEF Pages, Frame
  <2> QED BY <2>1, <2>2, <2>3 DEF Allocated
<1>2. /\ UNCHANGED <<pc, files, guest_start, initrd_start, tables>>
      /\ pc' # "load_segment"
  BY DEF FirmwareActs
<1> QED BY <1>1, <1>2, NothingLoaded

\* YmirC writes to memory that its map calls usable; the map is the current one,
\* and neither images nor tables are in such memory.
LEMMA KernelNeeded ==
    ASSUME Types, HandOver, Needed, Kernel
    PROVE  Needed'
<1>1. pc \in KernelPlaces /\ pc' \in KernelPlaces /\ map.types = type
  BY DEF Kernel, kernel_main, setup_guest_memory, load_kernel, LoadRamdisk, LoadBootParams,
         LoadCode, load_image, InKernel, KernelPlaces, HandOver, MapIsCurrent
<1>2. UNCHANGED <<type, files, guest_start, initrd_start, tables>>
  BY DEF Kernel, kernel_main, setup_guest_memory, load_kernel, LoadRamdisk, LoadBootParams,
         LoadCode, hostVars
<1>3. Kept
  <2>1. CASE UNCHANGED mem
    BY <1>2, <2>1, Untouched
  <2>2. CASE kernel_main
    <3> SUFFICES ASSUME NEW a \in Nat, Held(a) \/ a \div PageSize \in tables
                 PROVE  mem'[a] = mem[a]
      BY <1>2 DEF Kept
    <3>1. /\ a \div PageSize \in Frame
          /\ type[a \div PageSize] \notin {"Conventional", "BootServicesCode"}
      BY DEF Held, ImageType, Needed, TablesThere
    <3>2. a \in Address /\ a \div PageSize \notin Managed
      BY <1>1, <3>1, InMemory DEF Managed, is_usable_memory
    <3> QED BY <2>2, <3>2 DEF kernel_main
  <2> QED BY <2>1, <2>2 DEF Kernel, setup_guest_memory, load_kernel, LoadRamdisk,
                            LoadBootParams, LoadCode, hostVars
<1> QED BY <1>1, <1>2, <1>3, NothingLoaded
        DEF HeldPlaces, LoadedPlaces, GuestPlaces, InitrdPlaces, KernelPlaces

\* At the start there is nothing that could be lost.
LEMMA NeededInit == Init => Needed
BY DEF Init, BootInit, Needed, KernelHeld, KernelThere, TablesThere, FilesThere, HeldPlaces,
       LoadedPlaces, InitrdPlaces, GuestPlaces, KernelPlaces

\* Every step keeps the invariant.
LEMMA NeededStep == Types /\ HandOver /\ Needed /\ [Next]_vars => Needed'
<1> SUFFICES ASSUME Types, HandOver, Needed, [Next]_vars PROVE Needed'
  OBVIOUS
<1>1. CASE Loader
  BY <1>1, LoaderNeeded DEF Loader
<1>2. CASE Firmware
  BY <1>2, FirmwareNeeded DEF Firmware
<1>3. CASE Kernel
  BY <1>3, KernelNeeded
<1>4. CASE UNCHANGED vars
  BY <1>4 DEF vars, bootVars, files, Needed, KernelHeld, KernelThere, TablesThere,
              FilesThere, FileThere, Held, Segments, Loadable, SegmentByte
<1> QED BY <1>1, <1>2, <1>3, <1>4 DEF Next, Ended

\* What is there is what the kernel finds.
LEMMA NeededSuffices ==
    ASSUME Types, Needed
    PROVE  NeededMemoryKept
<1> SUFFICES ASSUME pc \in KernelPlaces
             PROVE  /\ Image(guest_start, 0, guest.size)
                         = [k \in 0 .. guest.size - 1 |-> <<"guest", k>>]
                    /\ Image(initrd_start, 0, initrd) = [k \in 0 .. initrd - 1 |-> <<"initrd", k>>]
  BY DEF Needed, KernelThere, TablesThere, NeededMemoryKept, InKernel, LoadedPlaces, GuestPlaces
<1>1. /\ FileThere("guest", guest.size, guest_start) /\ FileThere("initrd", initrd, initrd_start)
      /\ guest_start \in Frame /\ initrd_start \in Frame
      /\ guest.size \in Nat /\ initrd \in Nat
  BY FileFacts DEF Needed, FilesThere, InitrdPlaces, GuestPlaces, KernelPlaces, Types, TypeOK,
                   BootTypeOK
<1>2. ASSUME NEW start \in Frame, NEW size \in Nat, NEW k \in 0 .. size - 1,
             Held(start * PageSize + k)
      PROVE  start * PageSize + 0 + k = start * PageSize + k /\ start * PageSize + k \in Address
  <2>1. start * PageSize + k \in Nat /\ start * PageSize \in Nat
    BY FileAddress, BootAssumption DEF Frame
  <2> QED BY <1>2, <2>1, InMemory DEF Held
<1>3. \A k \in 0 .. guest.size - 1 :
         /\ guest_start * PageSize + 0 + k = guest_start * PageSize + k
         /\ guest_start * PageSize + k \in Address
         /\ mem[guest_start * PageSize + k] = <<"guest", k>>
  BY <1>1, <1>2 DEF FileThere
<1>4. \A k \in 0 .. initrd - 1 :
         /\ initrd_start * PageSize + 0 + k = initrd_start * PageSize + k
         /\ initrd_start * PageSize + k \in Address
         /\ mem[initrd_start * PageSize + k] = <<"initrd", k>>
  BY <1>1, <1>2 DEF FileThere
<1> QED BY <1>3, <1>4 DEF Image

\* Whatever YmirC puts into the memory that it takes for free, the kernel, the
\* loader's page tables, the guest's image and its initrd stay as they were
\* loaded, for every memory, every layout of the kernel's segments and every
\* size of the files, and wherever the firmware finds memory
\* (surtrc/boot.c:68-147, 205-257, page_allocator.c:114-122).
THEOREM NeededMemoryCorrect == Spec => []NeededMemoryKept
<1>1. Types /\ Needed => NeededMemoryKept
  BY NeededSuffices
<1> QED BY <1>1, TypesInit, TypesStep, HandOverInit, HandOverStep, NeededInit, NeededStep,
           PTL DEF Spec

-----------------------------------------------------------------------------
(* The guest's memory.                                                     *)

\* The command line and the memory map are written first.
CmdlineThere ==
    /\ bp.e820_map = E820 /\ bp.cmd_line_ptr = LINUX_LAYOUT_CMDLINE
    /\ \A k \in 0 .. CmdlineSize - 1 :
          guest_mem[LINUX_LAYOUT_CMDLINE + k]
              = IF k < KERNEL_CMDLINE_LEN THEN <<"cmdline", k>> ELSE <<"zero", 0>>

\* The initrd is next; it ends within the guest's memory.
RamdiskThere ==
    /\ bp.ramdisk_image = LINUX_LAYOUT_INITRD /\ bp.ramdisk_size = initrd
    /\ LINUX_LAYOUT_INITRD + initrd <= GUEST_MEMORY_SIZE
    /\ \A k \in 0 .. initrd - 1 : guest_mem[LINUX_LAYOUT_INITRD + k] = <<"initrd", k>>

\* Then the parameters, as they are at that time.
ParamsThere ==
    /\ zero_page = bp
    /\ \A k \in 0 .. BootParamsSize - 1 :
          guest_mem[LINUX_LAYOUT_BOOTPARAM + k] = <<"boot_params", k>>

\* Then the code.
CodeThere ==
    \A k \in 0 .. CodeSize - 1 :
        guest_mem[LINUX_LAYOUT_KERNEL_BASE + k] = <<"guest", guest.size - CodeSize + k>>

\* The invariant: what was written first is still there when the guest is ready.
Layout ==
    /\ DOMAIN bp = {"e820_map", "cmd_line_ptr", "ramdisk_image", "ramdisk_size"}
    /\ Regular =>
          /\ pc # "overrun"
          /\ pc \in {"load_ramdisk", "load_boot_params", "load_code", "init_npt"} => CmdlineThere
          /\ pc \in {"load_boot_params", "load_code", "init_npt"} => RamdiskThere
          /\ pc \in {"load_code", "init_npt"} => ParamsThere
          /\ pc = "init_npt" => CodeThere

\* A number below Word does not wrap around.
LEMMA NoWrap ==
    ASSUME NEW a \in Nat, a < Word
    PROVE  a % Word = a
<1>1. Word \in Nat \ {0}
  BY LayoutAssumption
<1> QED BY <1>1

\* The layout in numbers.
LEMMA LayoutNumbers ==
    /\ LINUX_LAYOUT_BOOTPARAM \in Nat /\ LINUX_LAYOUT_CMDLINE \in Nat
    /\ LINUX_LAYOUT_KERNEL_BASE \in Nat /\ LINUX_LAYOUT_INITRD \in Nat
    /\ GUEST_MEMORY_SIZE \in Nat /\ BootParamsSize \in Nat /\ CmdlineLimit \in Nat
    /\ KERNEL_CMDLINE_LEN \in Nat /\ Sector \in Nat /\ Word \in Nat
    /\ LINUX_LAYOUT_BOOTPARAM + BootParamsSize <= LINUX_LAYOUT_CMDLINE
    /\ LINUX_LAYOUT_CMDLINE + CmdlineLimit <= LINUX_LAYOUT_KERNEL_BASE
    /\ LINUX_LAYOUT_KERNEL_BASE < LINUX_LAYOUT_INITRD
    /\ LINUX_LAYOUT_INITRD < GUEST_MEMORY_SIZE
    /\ GUEST_MEMORY_SIZE < Word
BY LayoutAssumption

\* What a write to the guest's memory writes, and what it leaves.
LEMMA GuestWritten ==
    ASSUME Types, NEW addr \in Nat, NEW size \in Nat, NEW bytes, DOMAIN bytes = 0 .. size - 1,
           addr + size <= GUEST_MEMORY_SIZE,
           guest_mem' = Written(guest_mem, addr, bytes)
    PROVE  /\ \A k \in 0 .. size - 1 : guest_mem'[addr + k] = bytes[k]
           /\ \A a \in GuestAddress : a < addr \/ addr + size <= a => guest_mem'[a] = guest_mem[a]
<1>1. DOMAIN guest_mem = 0 .. GUEST_MEMORY_SIZE - 1
  BY DEF Types, TypeOK, GuestAddress
<1>2. ASSUME NEW k \in 0 .. size - 1
      PROVE  guest_mem'[addr + k] = bytes[k]
  <2>1. addr + k \in DOMAIN guest_mem /\ (addr + k) - addr = k
    BY <1>1, LayoutNumbers
  <2> QED BY <2>1 DEF Written
<1>3. ASSUME NEW a \in GuestAddress, a < addr \/ addr + size <= a
      PROVE  guest_mem'[a] = guest_mem[a]
  <2>1. a \in DOMAIN guest_mem /\ a \in Int
    BY <1>1 DEF GuestAddress
  <2>2. a - addr \notin 0 .. size - 1
    BY <1>3, <2>1
  <2> QED BY <2>1, <2>2 DEF Written
<1> QED BY <1>2, <1>3

\* load_image, where the image fits: it is there, and nothing else has changed.
LEMMA ImageLoaded ==
    ASSUME Types, NEW addr \in Nat, NEW size \in Nat, NEW image, DOMAIN image = 0 .. size - 1,
           addr + size <= GUEST_MEMORY_SIZE, NEW next, load_image(image, size, addr, next)
    PROVE  /\ pc' = next
           /\ \A k \in 0 .. size - 1 : guest_mem'[addr + k] = image[k]
           /\ \A a \in GuestAddress : a < addr \/ addr + size <= a => guest_mem'[a] = guest_mem[a]
<1>1. addr + size \in Nat /\ addr + size < Word
  BY LayoutNumbers
<1>2. (addr + size) % Word = addr + size
  BY <1>1, NoWrap
<1>3. Fits(size, addr)
  BY <1>2 DEF Fits
<1>4. pc' = next /\ guest_mem' = Written(guest_mem, addr, image)
  BY <1>3 DEF load_image
<1> QED BY <1>4, GuestWritten

\* The length of the command line is within the limit.
LEMMA CmdlineNumbers ==
    ASSUME Types
    PROVE  CmdlineSize \in Nat /\ CmdlineSize <= CmdlineLimit
<1>1. guest.cmdline_size \in Nat /\ CmdlineLimit \in Nat
  BY LayoutAssumption DEF Types, FilesGiven
<1>2. {guest.cmdline_size, CmdlineLimit} \in SUBSET Nat
  BY <1>1
<1>3. /\ CmdlineSize \in {guest.cmdline_size, CmdlineLimit}
      /\ \A y \in {guest.cmdline_size, CmdlineLimit} : CmdlineSize <= y
  BY <1>2, MinIsSmallest DEF CmdlineSize
<1> QED BY <1>1, <1>3

\* The command line is not overwritten by a write below or above it.
LEMMA CmdlineStays ==
    ASSUME Types, CmdlineThere, NEW lo \in Nat, NEW hi \in Nat,
           hi <= LINUX_LAYOUT_CMDLINE \/ LINUX_LAYOUT_KERNEL_BASE <= lo,
           \A a \in GuestAddress : a < lo \/ hi <= a => guest_mem'[a] = guest_mem[a],
           UNCHANGED guest, bp'.e820_map = bp.e820_map, bp'.cmd_line_ptr = bp.cmd_line_ptr
    PROVE  CmdlineThere'
<1>1. CmdlineSize' = CmdlineSize
  BY DEF CmdlineSize
<1>2. ASSUME NEW k \in 0 .. CmdlineSize - 1
      PROVE  guest_mem'[LINUX_LAYOUT_CMDLINE + k] = guest_mem[LINUX_LAYOUT_CMDLINE + k]
  <2>1. PICK a : a = LINUX_LAYOUT_CMDLINE + k
    OBVIOUS
  <2>2. a \in GuestAddress /\ (a < lo \/ hi <= a)
    BY <2>1, CmdlineNumbers, LayoutNumbers DEF GuestAddress
  <2> QED BY <2>1, <2>2
<1> QED BY <1>1, <1>2 DEF CmdlineThere

\* Nor is the initrd by a write below it.
LEMMA RamdiskStays ==
    ASSUME Types, RamdiskThere, NEW lo \in Nat, NEW hi \in Nat, hi <= LINUX_LAYOUT_INITRD,
           \A a \in GuestAddress : a < lo \/ hi <= a => guest_mem'[a] = guest_mem[a],
           UNCHANGED <<initrd, bp>>
    PROVE  RamdiskThere'
<1>1. ASSUME NEW k \in 0 .. initrd - 1
      PROVE  guest_mem'[LINUX_LAYOUT_INITRD + k] = guest_mem[LINUX_LAYOUT_INITRD + k]
  <2>1. PICK a : a = LINUX_LAYOUT_INITRD + k
    OBVIOUS
  <2>2. initrd \in Nat /\ LINUX_LAYOUT_INITRD + initrd <= GUEST_MEMORY_SIZE
    BY FileFacts DEF RamdiskThere, Types
  <2>3. a \in GuestAddress /\ hi <= a
    BY <2>1, <2>2, LayoutNumbers DEF GuestAddress
  <2> QED BY <2>1, <2>3
<1> QED BY <1>1 DEF RamdiskThere

\* Nor are the parameters by a write above them.
LEMMA ParamsStay ==
    ASSUME Types, ParamsThere, NEW lo \in Nat, NEW hi \in Nat, LINUX_LAYOUT_CMDLINE <= lo,
           \A a \in GuestAddress : a < lo \/ hi <= a => guest_mem'[a] = guest_mem[a],
           UNCHANGED <<zero_page, bp>>
    PROVE  ParamsThere'
<1>1. ASSUME NEW k \in 0 .. BootParamsSize - 1
      PROVE  guest_mem'[LINUX_LAYOUT_BOOTPARAM + k] = guest_mem[LINUX_LAYOUT_BOOTPARAM + k]
  <2>1. PICK a : a = LINUX_LAYOUT_BOOTPARAM + k
    OBVIOUS
  <2>2. a \in GuestAddress /\ a < lo
    BY <2>1, LayoutNumbers DEF GuestAddress
  <2> QED BY <2>1, <2>2
<1> QED BY <1>1 DEF ParamsThere

\* load_kernel writes the command line.
LEMMA CmdlineStep ==
    ASSUME Types, Layout, load_kernel
    PROVE  Layout'
<1>1. CASE pc' = "panic" /\ UNCHANGED bp
  BY <1>1 DEF Layout
<1>2. CASE /\ pc' = "load_ramdisk"
           /\ bp' = [bp EXCEPT !.e820_map = E820, !.cmd_line_ptr = LINUX_LAYOUT_CMDLINE]
           /\ guest_mem' = Written(guest_mem, LINUX_LAYOUT_CMDLINE,
                              [k \in 0 .. CmdlineSize - 1 |->
                                 IF k < KERNEL_CMDLINE_LEN THEN <<"cmdline", k>> ELSE <<"zero", 0>>])
  <2> DEFINE bytes == [k \in 0 .. CmdlineSize - 1 |->
                         IF k < KERNEL_CMDLINE_LEN THEN <<"cmdline", k>> ELSE <<"zero", 0>>]
  <2>1. CmdlineSize' = CmdlineSize
    BY DEF load_kernel, hostVars, files, CmdlineSize
  <2>2. /\ DOMAIN bytes = 0 .. CmdlineSize - 1
        /\ guest_mem' = Written(guest_mem, LINUX_LAYOUT_CMDLINE, bytes)
        /\ \A k \in 0 .. CmdlineSize - 1 : bytes[k]
              = IF k < KERNEL_CMDLINE_LEN THEN <<"cmdline", k>> ELSE <<"zero", 0>>
    BY <1>2
  <2>3. /\ LINUX_LAYOUT_CMDLINE \in Nat /\ CmdlineSize \in Nat
        /\ LINUX_LAYOUT_CMDLINE + CmdlineSize <= GUEST_MEMORY_SIZE
    BY CmdlineNumbers, LayoutNumbers
  <2>4. \A k \in 0 .. CmdlineSize - 1 : guest_mem'[LINUX_LAYOUT_CMDLINE + k] = bytes[k]
    <3> HIDE DEF bytes
    <3> QED BY <2>2, <2>3, GuestWritten
  <2>5. /\ DOMAIN bp' = DOMAIN bp
        /\ bp'.e820_map = E820 /\ bp'.cmd_line_ptr = LINUX_LAYOUT_CMDLINE
    <3> DEFINE b1 == [bp EXCEPT !.e820_map = E820]
    <3>1. DOMAIN b1 = DOMAIN bp /\ b1.e820_map = E820
      BY DEF Layout
    <3>2. bp' = [b1 EXCEPT !.cmd_line_ptr = LINUX_LAYOUT_CMDLINE]
      BY <1>2
    <3> HIDE DEF b1
    <3> QED BY <3>1, <3>2 DEF Layout
  <2>6. CmdlineThere'
    BY <2>1, <2>2, <2>4, <2>5 DEF CmdlineThere
  <2> QED BY <1>2, <2>5, <2>6 DEF Layout
<1> QED BY <1>1, <1>2 DEF load_kernel

\* The initrd is loaded.
LEMMA RamdiskStep ==
    ASSUME Types, NeededMemoryKept, Layout, LoadRamdisk
    PROVE  Layout'
<1>1. CASE pc' = "panic" /\ UNCHANGED bp
  BY <1>1 DEF Layout
<1>2. CASE /\ GUEST_MEMORY_SIZE - LINUX_LAYOUT_INITRD >= initrd
           /\ bp' = [bp EXCEPT !.ramdisk_image = LINUX_LAYOUT_INITRD, !.ramdisk_size = initrd]
           /\ load_image(Image(initrd_start, 0, initrd), initrd,
                         LINUX_LAYOUT_INITRD, "load_boot_params")
  <2> DEFINE image == [k \in 0 .. initrd - 1 |-> <<"initrd", k>>]
  <2>1. pc = "load_ramdisk" /\ UNCHANGED <<guest, initrd>>
    BY DEF LoadRamdisk, hostVars, files
  <2>2. Image(initrd_start, 0, initrd) = image
    BY <2>1 DEF NeededMemoryKept, InKernel, KernelPlaces
  <2>3. /\ initrd \in Nat /\ LINUX_LAYOUT_INITRD \in Nat
        /\ LINUX_LAYOUT_INITRD + initrd <= GUEST_MEMORY_SIZE
    BY <1>2, FileFacts, LayoutNumbers DEF Types
  <2>4. DOMAIN image = 0 .. initrd - 1 /\ \A k \in 0 .. initrd - 1 : image[k] = <<"initrd", k>>
    OBVIOUS
  <2>5. /\ pc' = "load_boot_params"
        /\ \A k \in 0 .. initrd - 1 : guest_mem'[LINUX_LAYOUT_INITRD + k] = image[k]
        /\ \A a \in GuestAddress : a < LINUX_LAYOUT_INITRD \/ LINUX_LAYOUT_INITRD + initrd <= a
              => guest_mem'[a] = guest_mem[a]
    <3> HIDE DEF image
    <3> QED BY <1>2, <2>2, <2>3, <2>4, ImageLoaded
  <2>6. /\ DOMAIN bp' = DOMAIN bp
        /\ bp'.e820_map = bp.e820_map /\ bp'.cmd_line_ptr = bp.cmd_line_ptr
        /\ bp'.ramdisk_image = LINUX_LAYOUT_INITRD /\ bp'.ramdisk_size = initrd
    <3> DEFINE b1 == [bp EXCEPT !.ramdisk_image = LINUX_LAYOUT_INITRD]
    <3>1. /\ DOMAIN b1 = DOMAIN bp /\ b1.ramdisk_image = LINUX_LAYOUT_INITRD
          /\ b1.e820_map = bp.e820_map /\ b1.cmd_line_ptr = bp.cmd_line_ptr
      BY DEF Layout
    <3>2. bp' = [b1 EXCEPT !.ramdisk_size = initrd]
      BY <1>2
    <3> HIDE DEF b1
    <3> QED BY <3>1, <3>2 DEF Layout
  <2>7. RamdiskThere'
    BY <2>1, <2>3, <2>4, <2>5, <2>6 DEF RamdiskThere
  <2>8. ASSUME Regular'
        PROVE  CmdlineThere'
    <3>1. Regular
      BY <2>1, <2>8 DEF Regular, CodeSize, SetupSects
    <3>2. CmdlineThere
      BY <2>1, <3>1 DEF Layout
    <3>3. LINUX_LAYOUT_INITRD + initrd \in Nat /\ LINUX_LAYOUT_KERNEL_BASE <= LINUX_LAYOUT_INITRD
      BY <2>3, LayoutNumbers
    <3> QED BY <2>1, <2>3, <2>5, <2>6, <3>2, <3>3, CmdlineStays
  <2> QED BY <2>5, <2>6, <2>7, <2>8 DEF Layout
<1> QED BY <1>1, <1>2 DEF LoadRamdisk

\* The parameters are loaded.
LEMMA ParamsStep ==
    ASSUME Types, Layout, LoadBootParams
    PROVE  Layout'
<1> DEFINE image == [k \in 0 .. BootParamsSize - 1 |-> <<"boot_params", k>>]
<1>1. /\ pc = "load_boot_params" /\ UNCHANGED <<guest, initrd, bp>> /\ zero_page' = bp
      /\ load_image(image, BootParamsSize, LINUX_LAYOUT_BOOTPARAM, "load_code")
  BY DEF LoadBootParams, hostVars, files
<1>2. /\ DOMAIN image = 0 .. BootParamsSize - 1
      /\ \A k \in 0 .. BootParamsSize - 1 : image[k] = <<"boot_params", k>>
  OBVIOUS
<1>3. /\ BootParamsSize \in Nat /\ LINUX_LAYOUT_BOOTPARAM \in Nat
      /\ LINUX_LAYOUT_BOOTPARAM + BootParamsSize \in Nat
      /\ LINUX_LAYOUT_BOOTPARAM + BootParamsSize <= LINUX_LAYOUT_CMDLINE
      /\ LINUX_LAYOUT_BOOTPARAM + BootParamsSize <= LINUX_LAYOUT_INITRD
      /\ LINUX_LAYOUT_BOOTPARAM + BootParamsSize <= GUEST_MEMORY_SIZE
  BY LayoutNumbers
<1>4. /\ pc' = "load_code"
      /\ \A k \in 0 .. BootParamsSize - 1 : guest_mem'[LINUX_LAYOUT_BOOTPARAM + k] = image[k]
      /\ \A a \in GuestAddress :
            a < LINUX_LAYOUT_BOOTPARAM \/ LINUX_LAYOUT_BOOTPARAM + BootParamsSize <= a
              => guest_mem'[a] = guest_mem[a]
  <2> HIDE DEF image
  <2> QED BY <1>1, <1>2, <1>3, ImageLoaded
<1>5. ParamsThere'
  BY <1>1, <1>2, <1>4 DEF ParamsThere
<1>6. ASSUME Regular'
      PROVE  CmdlineThere' /\ RamdiskThere'
  <2>1. CmdlineThere /\ RamdiskThere
    BY <1>1, <1>6 DEF Layout, Regular, CodeSize, SetupSects
  <2>2. CmdlineThere'
    BY <1>1, <1>3, <1>4, <2>1, CmdlineStays
  <2>3. RamdiskThere'
    BY <1>1, <1>3, <1>4, <2>1, RamdiskStays
  <2> QED BY <2>2, <2>3
<1> QED BY <1>1, <1>4, <1>5, <1>6 DEF Layout

\* The code of a regular image is loaded: it ends before the initrd.
LEMMA CodeStep ==
    ASSUME Types, NeededMemoryKept, Layout, LoadCode
    PROVE  Layout'
<1>1. pc = "load_code" /\ UNCHANGED <<guest, initrd, bp, zero_page>>
  BY DEF LoadCode, hostVars, files
<1>2. CASE ~Regular
  BY <1>1, <1>2 DEF Layout, Regular, CodeSize, SetupSects
<1>3. CASE Regular
  <2> DEFINE image == Image(guest_start, protected_code_offset, CodeSize)
  <2>1. /\ guest.size \in Nat /\ guest.setup_sects \in Nat
        /\ protected_code_offset \in Nat
        /\ guest.size - protected_code_offset = CodeSize
        /\ guest.size - CodeSize = protected_code_offset
    <3>1. guest.size \in Nat /\ guest.setup_sects \in Nat /\ Sector \in Nat
      BY FileFacts, LayoutAssumption DEF Types, FilesGiven
    <3>2. (guest.setup_sects + 1) * Sector \in Nat
      BY <3>1
    <3>3. SetupSects = guest.setup_sects
      BY <1>3 DEF Regular, SetupSects
    <3> QED BY <3>1, <3>2, <3>3 DEF CodeSize, protected_code_offset
  <2>2. /\ CodeSize \in Nat /\ CodeSize <= LINUX_LAYOUT_INITRD - LINUX_LAYOUT_KERNEL_BASE
    BY <1>3, LayoutNumbers DEF Regular
  <2>3. /\ LINUX_LAYOUT_KERNEL_BASE \in Nat /\ LINUX_LAYOUT_KERNEL_BASE + CodeSize \in Nat
        /\ LINUX_LAYOUT_KERNEL_BASE + CodeSize <= LINUX_LAYOUT_INITRD
        /\ LINUX_LAYOUT_KERNEL_BASE + CodeSize <= GUEST_MEMORY_SIZE
        /\ LINUX_LAYOUT_CMDLINE <= LINUX_LAYOUT_KERNEL_BASE
        /\ CodeSize < Word
    BY <2>2, LayoutNumbers
  <2>4. (guest.size - protected_code_offset) % Word = CodeSize
    BY <2>1, <2>2, <2>3, NoWrap
  <2>5. load_image(image, CodeSize, LINUX_LAYOUT_KERNEL_BASE, "init_npt")
    BY <2>4 DEF LoadCode
  <2>6. DOMAIN image = 0 .. CodeSize - 1
    BY DEF Image
  <2>7. ASSUME NEW k \in 0 .. CodeSize - 1
        PROVE  image[k] = <<"guest", guest.size - CodeSize + k>>
    <3>1. PICK j : j = protected_code_offset + k
      OBVIOUS
    <3>2. j \in 0 .. guest.size - 1
      BY <2>1, <2>2, <3>1
    <3>3. guest_start * PageSize \in Nat
      BY BootAssumption DEF Types, TypeOK, BootTypeOK, Frame
    <3>4. guest_start * PageSize + protected_code_offset + k = guest_start * PageSize + 0 + j
      BY <2>1, <2>2, <3>1, <3>3
    <3>5. image[k] = Image(guest_start, 0, guest.size)[j]
      BY <3>2, <3>4 DEF Image
    <3>6. Image(guest_start, 0, guest.size)[j] = <<"guest", j>>
      BY <1>1, <3>2 DEF NeededMemoryKept, InKernel, KernelPlaces
    <3> QED BY <2>1, <3>1, <3>5, <3>6
  <2>8. /\ pc' = "init_npt"
        /\ \A k \in 0 .. CodeSize - 1 : guest_mem'[LINUX_LAYOUT_KERNEL_BASE + k] = image[k]
        /\ \A a \in GuestAddress :
              a < LINUX_LAYOUT_KERNEL_BASE \/ LINUX_LAYOUT_KERNEL_BASE + CodeSize <= a
                => guest_mem'[a] = guest_mem[a]
    <3> HIDE DEF image
    <3> QED BY <2>2, <2>3, <2>5, <2>6, ImageLoaded
  <2>9. CodeThere'
    BY <1>1, <2>7, <2>8 DEF CodeThere, CodeSize, SetupSects
  <2>10. CmdlineThere /\ RamdiskThere /\ ParamsThere
    BY <1>1, <1>3 DEF Layout
  <2>11. CmdlineThere'
    BY <1>1, <2>3, <2>8, <2>10, CmdlineStays
  <2>12. RamdiskThere'
    BY <1>1, <2>3, <2>8, <2>10, RamdiskStays
  <2>13. ParamsThere'
    BY <1>1, <2>3, <2>8, <2>10, ParamsStay
  <2> QED BY <1>1, <2>8, <2>9, <2>11, <2>12, <2>13 DEF Layout
<1> QED BY <1>2, <1>3

\* Nothing is loaded at the start.
LEMMA LayoutInit == Init => Layout
BY DEF Init, BootInit, Layout

\* Every step keeps the layout.
LEMMA LayoutStep == Types /\ NeededMemoryKept /\ Layout /\ [Next]_vars => Layout'
<1> SUFFICES ASSUME Types, NeededMemoryKept, Layout, [Next]_vars PROVE Layout'
  OBVIOUS
<1>1. CASE Loader
  <2>1. pc' \in LoaderPlaces \cup {"kernel_main"}
    BY <1>1 DEF Loader, efi_main, OpenKernel, set_lv4table_writable, ReadProgramHeaders,
                AllocateKernel, MapKernel, load_segment, LoadGuest, LoadInitrd, CleanUp,
                ReadMap, ExitBootServices, ReadMapAgain, ExitBootServicesAgain, TRY_EFI,
                AllocateTable, LoadFile, GetMemoryMap, LoaderPlaces
  <2> QED BY <1>1, <2>1 DEF Loader, vmVars, Layout, LoaderPlaces
<1>2. CASE Firmware
  BY <1>2 DEF Firmware, FirmwareActs, vmVars, Layout
<1>3. CASE Kernel
  <2>1. CASE kernel_main
    BY <2>1 DEF kernel_main, vmVars, Layout
  <2>2. CASE setup_guest_memory
    BY <2>2 DEF setup_guest_memory, vmVars, Layout
  <2> QED BY <1>3, <2>1, <2>2, CmdlineStep, RamdiskStep, ParamsStep, CodeStep DEF Kernel
<1>4. CASE UNCHANGED vars
  BY <1>4 DEF vars, bootVars, vmVars, files, Layout, Regular, CodeSize, SetupSects, CmdlineThere,
              CmdlineSize, RamdiskThere, ParamsThere, CodeThere
<1> QED BY <1>1, <1>2, <1>3, <1>4 DEF Next, Ended

\* The memory map that the guest gets covers its memory, once.
LEMMA MapCovers ==
    ASSUME NEW m, m = E820
    PROVE  /\ UNION {Range820(m[n]) : n \in DOMAIN m} = GuestAddress
           /\ \A i, n \in DOMAIN m : i # n => Range820(m[i]) \cap Range820(m[n]) = {}
<1> DEFINE low == 0 .. LINUX_LAYOUT_KERNEL_BASE - 1
<1> DEFINE high == LINUX_LAYOUT_KERNEL_BASE .. GUEST_MEMORY_SIZE - 1
<1>1. DOMAIN m = {1, 2} /\ Range820(m[1]) = low /\ Range820(m[2]) = high
  BY LayoutNumbers DEF E820, Range820
<1>2. low \cup high = GuestAddress /\ low \cap high = {}
  BY LayoutNumbers DEF GuestAddress
<1> HIDE DEF low, high
<1>3. UNION {Range820(m[n]) : n \in DOMAIN m} = low \cup high
  BY <1>1, Zenon
<1> QED BY <1>1, <1>2, <1>3

\* The layout is what the guest relies on.
LEMMA LayoutSuffices ==
    ASSUME Types, Layout
    PROVE  GuestGetsItsImages
<1> SUFFICES ASSUME Regular, pc = "init_npt"
             PROVE  GuestGetsItsImages
  BY DEF Layout, GuestGetsItsImages
<1>1. CmdlineThere /\ RamdiskThere /\ ParamsThere /\ CodeThere
  BY DEF Layout
<1>2. /\ KERNEL_CMDLINE_LEN \in Nat /\ CmdlineSize \in Nat
      /\ Min({KERNEL_CMDLINE_LEN, CmdlineSize}) \in {KERNEL_CMDLINE_LEN, CmdlineSize}
      /\ \A y \in {KERNEL_CMDLINE_LEN, CmdlineSize} : Min({KERNEL_CMDLINE_LEN, CmdlineSize}) <= y
  BY LayoutNumbers, CmdlineNumbers, MinIsSmallest
<1>3. zero_page.e820_map = E820 /\ zero_page.cmd_line_ptr = LINUX_LAYOUT_CMDLINE
  BY <1>1 DEF CmdlineThere, ParamsThere
<1>4. \A k \in 0 .. CmdlineSize - 1 :
         guest_mem[LINUX_LAYOUT_CMDLINE + k]
             = IF k < KERNEL_CMDLINE_LEN THEN <<"cmdline", k>> ELSE <<"zero", 0>>
  BY <1>1 DEF CmdlineThere
<1>5. \A k \in 0 .. Min({KERNEL_CMDLINE_LEN, CmdlineSize}) - 1 :
         guest_mem[zero_page.cmd_line_ptr + k] = <<"cmdline", k>>
  <2> SUFFICES ASSUME NEW k \in 0 .. Min({KERNEL_CMDLINE_LEN, CmdlineSize}) - 1
               PROVE  guest_mem[LINUX_LAYOUT_CMDLINE + k] = <<"cmdline", k>>
    BY <1>3
  <2>1. k \in 0 .. CmdlineSize - 1 /\ k < KERNEL_CMDLINE_LEN
    BY <1>2
  <2> QED BY <1>4, <2>1
<1>6. ASSUME CmdlineSize > KERNEL_CMDLINE_LEN
      PROVE  guest_mem[zero_page.cmd_line_ptr + KERNEL_CMDLINE_LEN] = <<"zero", 0>>
  <2>1. KERNEL_CMDLINE_LEN \in 0 .. CmdlineSize - 1 /\ ~ (KERNEL_CMDLINE_LEN < KERNEL_CMDLINE_LEN)
    BY <1>2, <1>6
  <2> QED BY <1>3, <1>4, <2>1
<1> QED BY <1>1, <1>3, <1>5, <1>6, MapCovers
        DEF GuestGetsItsImages, RamdiskThere, ParamsThere, CodeThere

\* A guest that is started finds its kernel, its initrd, its parameters, its
\* command line and a map of exactly its memory where they belong, for every
\* layout, every size of the guest's memory and every regular image
\* (vm.c:91-163, linux.h:107-112, 166-178).
THEOREM GuestImagesCorrect == Spec => []GuestGetsItsImages
<1>1. Types /\ Layout => GuestGetsItsImages
  BY LayoutSuffices
<1> QED BY <1>1, TypesInit, TypesStep, NeededMemoryCorrect, LayoutInit, LayoutStep,
           PTL DEF Spec

-----------------------------------------------------------------------------
(* The retry: the part of OneChangeSurvived that needs no fairness.        *)

\* Where efi_main has read a map and has not ended the services.
RetryPlaces == {"exit_services", "get_map_again", "exit_services_again"}

\* From there efi_main gives up only when the firmware has changed its map a second
\* time, or when the map has outgrown map_buffer.
GivesUpForAReason ==
    pc \in RetryPlaces /\ pc' = "returned" => key >= 2 \/ Descriptors > MapBuffer

\* The key counts the changes: none before the first map, one or more when it is
\* read again.
Changes ==
    /\ pc \in LoaderPlaces \ (RetryPlaces \cup {"returned"}) => key = 0
    /\ pc = "exit_services" => map.key = 0
    /\ pc = "get_map_again" => key >= 1
    /\ pc = "exit_services_again" => map.key >= 1

\* Up to the first map, efi_main goes to the next of its places or gives up.
LEMMA ChangesBefore ==
    ASSUME Changes, pc \in LoaderPlaces \ (RetryPlaces \cup {"returned"}), key' = key,
           pc' \notin RetryPlaces
    PROVE  Changes'
BY DEF Changes, RetryPlaces

\* Every step of efi_main keeps the count.
LEMMA LoaderChanges ==
    ASSUME HandOver, Changes, efi_main
    PROVE  Changes'
<1> USE DEF LoaderPlaces, RetryPlaces
<1>1. CASE OpenKernel
  BY <1>1, ChangesBefore DEF OpenKernel, TRY_EFI, LoaderVars
<1>2. CASE set_lv4table_writable
  BY <1>2, ChangesBefore DEF set_lv4table_writable, AllocateTable
<1>3. CASE ReadProgramHeaders
  BY <1>3, ChangesBefore DEF ReadProgramHeaders, TRY_EFI, LoaderVars
<1>4. CASE AllocateKernel
  BY <1>4, ChangesBefore DEF AllocateKernel, LoaderVars
<1>5. CASE MapKernel
  BY <1>5, ChangesBefore DEF MapKernel, AllocateTable
<1>6. CASE load_segment
  <2>1. pc = "load_segment" /\ pc' \in {"load_guest", "load_segment", "returned"}
    BY <1>6 DEF load_segment, TRY_EFI
  <2>2. key' = key
    BY <1>6 DEF load_segment
  <2> QED BY <2>1, <2>2, ChangesBefore
<1>7. CASE LoadGuest
  BY <1>7, ChangesBefore DEF LoadGuest, LoadFile
<1>8. CASE LoadInitrd
  BY <1>8, ChangesBefore DEF LoadInitrd, LoadFile
<1>9. CASE CleanUp
  BY <1>9, ChangesBefore DEF CleanUp, TRY_EFI, LoaderVars
<1>10. CASE ReadMap
  <2>1. pc = "get_map" /\ key = 0 /\ key' = key
    BY <1>10 DEF ReadMap, Changes
  <2>2. \/ pc' = "exit_services" /\ map'.key = key
        \/ pc' = "returned"
    BY <1>10 DEF ReadMap, GetMemoryMap
  <2> QED BY <2>1, <2>2 DEF Changes
<1>11. CASE ExitBootServices
  <2>1. pc = "exit_services" /\ key' = key /\ map.key = 0 /\ key \in Nat
    BY <1>11 DEF ExitBootServices, Changes, HandOver
  <2>2. \/ pc' = "kernel_main"
        \/ pc' = "get_map_again" /\ map.key # key
    BY <1>11 DEF ExitBootServices
  <2> QED BY <2>1, <2>2 DEF Changes
<1>12. CASE ReadMapAgain
  <2>1. pc = "get_map_again" /\ key >= 1 /\ key' = key
    BY <1>12 DEF ReadMapAgain, Changes
  <2>2. \/ pc' = "exit_services_again" /\ map'.key = key
        \/ pc' = "returned"
    BY <1>12 DEF ReadMapAgain, GetMemoryMap
  <2> QED BY <2>1, <2>2 DEF Changes
<1>13. CASE ExitBootServicesAgain
  <2>1. pc' \in {"kernel_main", "returned"}
    BY <1>13 DEF ExitBootServicesAgain
  <2> QED BY <2>1 DEF Changes
<1> QED
  BY <1>1, <1>2, <1>3, <1>4, <1>5, <1>6, <1>7, <1>8, <1>9, <1>10, <1>11, <1>12,
     <1>13 DEF efi_main

\* Every step keeps the count.
LEMMA ChangesStep == HandOver /\ Changes /\ [Next]_vars => Changes'
<1> SUFFICES ASSUME HandOver, Changes, [Next]_vars PROVE Changes'
  OBVIOUS
<1>1. CASE Loader
  BY <1>1, LoaderChanges DEF Loader
<1>2. CASE Firmware
  BY <1>2 DEF Firmware, FirmwareActs, Changes, RetryPlaces, LoaderPlaces
<1>3. CASE Kernel
  <2>1. pc' \in KernelPlaces
    BY <1>3 DEF Kernel, kernel_main, setup_guest_memory, load_kernel, LoadRamdisk,
                LoadBootParams, LoadCode, load_image, KernelPlaces
  <2> QED BY <2>1 DEF Changes, KernelPlaces, LoaderPlaces
<1>4. CASE UNCHANGED vars
  BY <1>4 DEF vars, bootVars, Changes
<1> QED BY <1>1, <1>2, <1>3, <1>4 DEF Next, Ended

\* Once SurtrC has read a memory map, one change of it by the firmware never makes
\* the boot fail as long as map_buffer can hold the map (surtrc/boot.c:294-303).
THEOREM GivesUpForAReasonCorrect == Spec => [][GivesUpForAReason]_vars
<1>1. Init => Changes
  BY DEF Init, BootInit, Changes
<1>2. ASSUME HandOver, Changes, [Next]_vars, vars' # vars
      PROVE  GivesUpForAReason
  <2> SUFFICES ASSUME pc \in RetryPlaces, pc' = "returned", Descriptors <= MapBuffer
               PROVE  key >= 2
    <3>1. Descriptors \in Nat /\ MapBuffer \in Nat
      BY DescriptorsType, BootAssumption
    <3> QED BY <3>1 DEF GivesUpForAReason
  <2>1. Descriptors \in Nat /\ MapBuffer \in Nat
    BY DescriptorsType, BootAssumption
  <2>2. ExitBootServicesAgain
    <3>1. Loader
      <4>1. ~Firmware /\ ~Kernel
        BY DEF Firmware, FirmwareActs, RetryPlaces, Kernel, kernel_main, setup_guest_memory,
               load_kernel, LoadRamdisk, LoadBootParams, LoadCode, load_image
      <4> QED BY <1>2, <4>1 DEF Next, Ended
    <3>2. ~ReadMapAgain
      BY <2>1 DEF ReadMapAgain, GetMemoryMap, RetrySize
    <3> QED BY <3>1, <3>2 DEF Loader, efi_main, RetryPlaces, OpenKernel,
            set_lv4table_writable, ReadProgramHeaders, AllocateKernel, MapKernel,
            load_segment, LoadGuest, LoadInitrd, CleanUp, ReadMap, ExitBootServices
  <2>3. /\ map.key >= 1 /\ map.key # key /\ map.key <= key
        /\ map.key \in Nat /\ key \in Nat
    BY <1>2, <2>2 DEF ExitBootServicesAgain, Changes, HandOver, Exiting
  <2> QED BY <2>3
<1>3. HandOver /\ Changes /\ [Next]_vars => [GivesUpForAReason]_vars
  BY <1>2
<1> QED BY <1>1, <1>3, HandOverInit, HandOverStep, ChangesStep, PTL DEF Spec

=============================================================================
