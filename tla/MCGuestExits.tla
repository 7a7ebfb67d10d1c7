---------------------------- MODULE MCGuestExits ----------------------------
(***************************************************************************)
(* Guests for GuestExits: one that programs the two chips, one that touches *)
(* every class of port with every operand size, one that finds out what the *)
(* processor can do and sets it up, and one that reads and writes registers. *)
(***************************************************************************)
EXTENDS GuestExits

\* A host with nothing, with everything, and a usual one.
Hosts == {{}, CpuidExtFeatureInfoEdx,
          CpuidExtFeatureInfoEdx \ {"threednow", "threednowext"}}

PicDriver == [ports |-> {32, 33, 160, 161}, data |-> {2, 4, 17}, widths |-> {8},
              writes |-> 6, leaves |-> {}, msrs |-> {}, wrmsrs |-> 0, hosts |-> {{}}]

Prober == [ports |-> {32, 33, 66, 70, 96, 128, 160, 200,
                      1016, 1017, 1020, 1021, 1022, 1023},
           data |-> {4, 17, 96}, widths |-> {8, 16, 32},
           writes |-> 2, leaves |-> {}, msrs |-> {}, wrmsrs |-> 0, hosts |-> {{}}]

Detector == [ports |-> {}, data |-> {3}, widths |-> {8}, writes |-> 0,
             leaves |-> Leaves, msrs |-> Msrs, wrmsrs |-> 1, hosts |-> Hosts]

Writer == [ports |-> {}, data |-> {3, 7}, widths |-> {8}, writes |-> 0,
           leaves |-> {}, msrs |-> {"EFER", "STAR"}, wrmsrs |-> 3, hosts |-> {{}}]

MCPrograms == {PicDriver, Prober, Detector, Writer}

=============================================================================
