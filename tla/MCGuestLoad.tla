----------------------------- MODULE MCGuestLoad -----------------------------
(***************************************************************************)
(* A small machine for GuestLoad: pages of four bytes; the kernel is linked  *)
(* to page 2.                                                              *)
(***************************************************************************)
EXTENDS GuestLoad

\* Page 0 is the firmware's data, page 1 its code; or the firmware has more,
\* where the kernel goes, almost everywhere, or everywhere.
Usual == [f \in Frame |-> CASE f = 0 -> "BootServicesData"
                            [] f = 1 -> "BootServicesCode"
                            [] OTHER -> "Conventional"]
Taken == [Usual EXCEPT ![3] = "BootServicesData"]
Full == [f \in Frame |-> IF f \in 2 .. 5 THEN "Conventional" ELSE "BootServicesData"]

All == [f \in Frame |-> "BootServicesData"]

MCFirmwareTypes == {Usual, Taken, Full, All}

Segment(paddr, offset, filesz, memsz) ==
    [load |-> TRUE, p_paddr |-> paddr, p_offset |-> offset, p_filesz |-> filesz, p_memsz |-> memsz]
Note == [Segment(0, 9, 1, 1) EXCEPT !.load = FALSE]

\* Code, data with a tail of zeros, and zeros; segments that do not come in the
\* order of their addresses, one empty; a file without a segment.
MCKernels == {<<Segment(8, 0, 2, 2), Segment(12, 2, 1, 2), Segment(16, 3, 0, 1)>>,
              <<Note, Segment(12, 4, 2, 2), Segment(0, 0, 0, 0), Segment(8, 1, 1, 4)>>,
              <<Note>>}

\* Images: of an ordinary size; with a limit on the command line and the ramdisk;
\* as large as the initrd allows; as the guest's memory; shorter than the setup
\* code; reaching into the initrd, and beyond the memory; with setup_sects 0.
Bz(size, sects, cmdline, max) ==
    [size |-> size, setup_sects |-> sects, cmdline_size |-> cmdline, initrd_addr_max |-> max]
MCGuests == {Bz(4, 1, 9, 20), Bz(5, 2, 1, 9), Bz(6, 1, 2, 20), Bz(10, 1, 9, 20),
             Bz(1, 2, 9, 20), Bz(8, 1, 9, 20), Bz(9, 1, 9, 20), Bz(6, 0, 9, 20)}

=============================================================================
