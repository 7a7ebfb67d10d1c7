------------------------------ MODULE SvmIoio ------------------------------
(***************************************************************************)
(* The guest's port accesses: the I/O permission map that decides which of *)
(* them leave the guest (setup_vmcb_ioio) and handle_svm_ioio_exit, which  *)
(* emulates those that do.                                                 *)
(*                                                                         *)
(* A device that the handlers pass an access through to is hardware: an IN  *)
(* from it returns any byte of Data.  An access that the map lets through  *)
(* never reaches YmirC.                                                    *)
(***************************************************************************)
EXTENDS IoioState, Sequences, FiniteSetsExt

\* What a guest does: the ports that it touches, the bytes that it writes (and
\* that devices return), the operand sizes in bits, and a bound on its writes to
\* the two chips together; see GuestExits for the rest.
CONSTANT Programs

PortNumbers == 0 .. 65535
OperandSizes == {8, 16, 32}

ASSUME SvmIoioAssumption ==
    \A p \in Programs : /\ p.ports \subseteq PortNumbers
                        /\ p.data \subseteq Byte
                        /\ p.widths \subseteq OperandSizes
                        /\ p.writes \in Nat

VARIABLES
    program,      \* the guest, one of Programs
    ioio,         \* vcpu->guest_ioio_state
    aborted,      \* svm_vcpu_abort has been called
    got,          \* the byte that the last IN left in vmcb->rax (history)
    log,          \* what the guest wrote to each chip, in order (history)
    last          \* what the guest last wrote to a register (history)

ioioVars == <<program, ioio, aborted, got, log, last>>

Ports == program.ports
Data == program.data
Widths == program.widths
MaxLog == program.writes

PortWrite == [command : BOOLEAN, byte : Byte]

IoioTypeOK ==
    /\ ioio \in SvmIoioGuestState
    /\ aborted \in BOOLEAN
    /\ got \in Byte
    /\ log \in [Chips -> Seq(PortWrite)]

PicCommandPort(c) == IF c = "primary" THEN 32 ELSE 160        \* 0x20, 0xA0
PicDataPort(c) == IF c = "primary" THEN 33 ELSE 161           \* 0x21, 0xA1

PicPorts == {32, 33, 160, 161}
PitPorts == 64 .. 71                                          \* 0x40 ... 0x47
SerialPorts == 1016 .. 1023                                   \* 0x3F8 ... 0x3FF

\* Unimplemented devices that read as 0: PS/2, RTC, VGA, PCI.
ReadsAsZero(port) ==
    \/ port \in 96 .. 100 \/ port \in 112 .. 113
    \/ port \in 944 .. 991 \/ port \in 3320 .. 3327
\* Unimplemented devices that leave rax alone: DMA, the other serial ports, the
\* old PCI range.
Ignored(port) ==
    \/ port \in 128 .. 143 \/ port \in 744 .. 751 \/ port \in 760 .. 767
    \/ port \in 1000 .. 1007 \/ port \in 49152 .. 53247

\* The default case of the two switch statements.
Unknown(port) ==
    /\ port \notin PicPorts \cup PitPorts \cup SerialPorts
    /\ ~ReadsAsZero(port) /\ ~Ignored(port)

-----------------------------------------------------------------------------
(* setup_vmcb_ioio                                                         *)

\* Faulty variant: the map forgets the line and modem status registers.
Faulty_UnmaskedInIopm == PitPorts \cup {1016}

\* The ports whose bit is clear in the I/O permission map.
UnmaskedInIopm == PitPorts \cup {1016, 1021, 1022}

\* An access leaves the guest when the bit of any of its bytes is set.
Intercepted(port, width) ==
    \E p \in port .. port + (width \div 8) - 1 : p \notin UnmaskedInIopm

-----------------------------------------------------------------------------
(* The handlers.                                                           *)

svm_vcpu_abort ==
    /\ aborted' = TRUE
    /\ UNCHANGED <<program, ioio, got, log, last>>

\* What a read by the guest leaves in rax; reading a pass-through register
\* yields a byte of the device.
handle_serial_in(port) ==
    /\ got' \in CASE port = 1017 -> {ioio.ier}
                  [] port = 1020 -> {ioio.mcr}
                  [] port \in {1019, 1023} -> {0}
                  [] OTHER -> Data
    /\ UNCHANGED <<program, ioio, aborted, log, last>>

handle_pit_in ==
    /\ got' \in Data
    /\ UNCHANGED <<program, ioio, aborted, log, last>>

handle_pic_in(c, port, width) ==
    LET chip == ioio.pic[c]
        ok   == width = 8 /\ port = PicDataPort(c) /\ PicReadOk(chip)
    IN  \/ /\ ok
           /\ got' = chip.mask
           /\ UNCHANGED <<program, ioio, aborted, log, last>>
        \/ ~ok /\ svm_vcpu_abort

handle_ioio_in(port, width) ==
    \/ \E c \in Chips : /\ port \in {PicCommandPort(c), PicDataPort(c)}
                        /\ handle_pic_in(c, port, width)
    \/ port \in PitPorts /\ handle_pit_in
    \/ port \in SerialPorts /\ handle_serial_in(port)
    \/ ReadsAsZero(port) /\ got' = 0 /\ UNCHANGED <<program, ioio, aborted, log, last>>
    \/ Ignored(port) /\ UNCHANGED ioioVars
    \/ Unknown(port) /\ svm_vcpu_abort

\* The transmit buffer is passed on to the host's serial driver.
handle_serial_out(port, dx) ==
    \/ /\ port \notin {1021, 1022}
       /\ ioio' = CASE port = 1017 -> [ioio EXCEPT !.ier = dx]
                    [] port = 1020 -> [ioio EXCEPT !.mcr = dx]
                    [] OTHER -> ioio
       /\ last' = IF port \in DOMAIN last THEN [last EXCEPT ![port] = dx] ELSE last
       /\ UNCHANGED <<program, aborted, got, log>>
    \/ port \in {1021, 1022} /\ svm_vcpu_abort

handle_pic_out(c, port, width, dx) ==
    LET chip == ioio.pic[c]
        command == port = PicCommandPort(c)
        ok == /\ width = 8
              /\ IF command THEN PicCommandOk(dx) ELSE PicDataOk(c, chip, dx)
    IN  \/ /\ ok
           /\ ioio' = [ioio EXCEPT !.pic[c] = IF command THEN PicCommand(chip, dx)
                                                         ELSE PicData(chip, dx)]
           /\ log' = [log EXCEPT ![c] =
                        Append(@, [command |-> command, byte |-> dx])]
           /\ UNCHANGED <<program, aborted, got, last>>
        \/ ~ok /\ svm_vcpu_abort

handle_ioio_out(port, width, dx) ==
    \/ \E c \in Chips : /\ port \in {PicCommandPort(c), PicDataPort(c)}
                        /\ handle_pic_out(c, port, width, dx)
    \/ port \in SerialPorts /\ handle_serial_out(port, dx)
    \/ /\ port \in PitPorts \/ ReadsAsZero(port) \/ Ignored(port)
       /\ UNCHANGED ioioVars
    \/ Unknown(port) /\ svm_vcpu_abort

-----------------------------------------------------------------------------
(* The guest.                                                              *)

GuestIn(port, width) ==
    /\ ~aborted
    /\ \/ Intercepted(port, width) /\ handle_ioio_in(port, width)
       \/ /\ ~Intercepted(port, width)
          /\ got' \in Data
          /\ UNCHANGED <<program, ioio, aborted, log, last>>

GuestOut(port, width, dx) ==
    /\ ~aborted
    /\ Len(log["primary"]) + Len(log["secondary"]) < MaxLog
    /\ \/ Intercepted(port, width) /\ handle_ioio_out(port, width, dx)
       \/ ~Intercepted(port, width) /\ UNCHANGED ioioVars

IoioInit ==
    /\ program \in Programs
    /\ ioio = svm_ioio_guest_state_new
    /\ aborted = FALSE
    /\ got = 0
    /\ log = [c \in Chips |-> <<>>]
    /\ last = [r \in {1017, 1020} |-> 0]

IoioNext ==
    \E port \in Ports, width \in Widths :
        \/ GuestIn(port, width)
        \/ \E dx \in Data : GuestOut(port, width, dx)

-----------------------------------------------------------------------------
(* What a chip has been told, read off the writes it got: the command port *)
(* carries ICW1, the data port ICW2, ICW3 and ICW4 after it, and OCW1      *)
(* otherwise.  w is the sequence of writes, k a position in it.            *)

Icw1Before(w, k) == {j \in 1 .. k - 1 : w[j].command /\ w[j].byte = ICW1}

\* How many bytes the data port got since the last ICW1, w[k] included.
Ordinal(w, k) ==
    Cardinality({j \in 1 .. k : /\ ~w[j].command
                                /\ \A i \in Icw1Before(w, k) : i < j})

\* w[k] is the n-th initialization word, or a mask.
IsIcw(w, k, n) ==
    ~w[k].command /\ Icw1Before(w, k) # {} /\ Ordinal(w, k) = n - 1
IsOcw1(w, k) ==
    ~w[k].command /\ (Icw1Before(w, k) = {} \/ Ordinal(w, k) > 3)

\* The byte at the last of the positions in K, or the reset value.
LastByte(w, K, reset) == IF K = {} THEN reset ELSE w[Max(K)].byte

ChipAfter(w) ==
    LET end == Len(w) + 1
        icws == {k \in DOMAIN w : ~w[k].command
                                 /\ \A i \in Icw1Before(w, end) : i < k}
    IN  [mask  |-> LastByte(w, {k \in DOMAIN w : IsOcw1(w, k)}, 255),
         base  |-> LastByte(w, {k \in DOMAIN w : IsIcw(w, k, 2)}, 0),
         phase |-> IF Icw1Before(w, end) = {} THEN "UNINITIALIZED"
                   ELSE CASE Cardinality(icws) = 0 -> "PHASE1"
                          [] Cardinality(icws) = 1 -> "PHASE2"
                          [] Cardinality(icws) = 2 -> "PHASE3"
                          [] OTHER -> "INITED"]

-----------------------------------------------------------------------------

\* Whatever the order in which the guest programs the two chips, breaks off an
\* initialization or starts it again, each emulated chip holds the mask, vector
\* base and phase that its own writes call for (svm_ioio.c:290-384), and never
\* takes an initialization word for a mask or the reverse.  No chip comes up with
\* a wrong cascade wiring (svm_ioio.c:323, 368): inject_ext_intr relies on the
\* secondary chip hanging off input 2.
ChipsFollowTheirWrites ==
    \A c \in Chips :
        /\ ioio.pic[c] = ChipAfter(log[c])
        /\ \A k \in DOMAIN log[c] :
              IsIcw(log[c], k, 3) => log[c][k].byte = CascadeId(c)

\* A byte access to the timer or to the first serial port never stops the
\* machine: what handle_serial_out refuses (svm_ioio.c:201-204) is let through
\* by the permission map (svm_vcpu.c:109-117).
TimerAndSerialNeverAbort ==
    [][\A port \in Ports \cap (PitPorts \cup SerialPorts) :
         (GuestIn(port, 8) \/ \E dx \in Data : GuestOut(port, 8, dx))
            => ~aborted']_ioioVars

\* A read that succeeds returns what the guest last wrote: of a data port the
\* mask, of the serial port's control registers their values
\* (svm_ioio.c:138-150, 244-276).
PortReadsBack ==
    /\ \A c \in Chips : PicDataPort(c) \in Ports /\ GuestIn(PicDataPort(c), 8) /\ ~aborted'
          => got' = ChipAfter(log[c]).mask
    /\ \A r \in DOMAIN last \cap Ports : GuestIn(r, 8) => got' = last[r]

=============================================================================
