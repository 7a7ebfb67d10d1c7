-------------------------- MODULE GuestExitsProofs --------------------------
(***************************************************************************)
(* What a guest sees of the machine, for every guest program, every host   *)
(* and any number of port accesses: proofs of the properties of GuestExits *)
(* and SvmIoio.                                                            *)
(***************************************************************************)
EXTENDS GuestExits, IoioProofs, FiniteSetTheorems

-----------------------------------------------------------------------------
(* CPUID.                                                                  *)

\* What each leaf has shown is what its handler answers on this host.
ToldByHandler ==
    /\ DOMAIN told \subseteq {"1", "7", "80000001"}
    /\ "1" \in DOMAIN told => told["1"] = std_feature_info_edx
    /\ "7" \in DOMAIN told => told["7"] \in {ext_feature0_ebx, {}}
    /\ "80000001" \in DOMAIN told => told["80000001"] = get_ext_feature_info_edx(host)

\* The guest stops, or sees the answer of one leaf, or nothing new.
LEMMA StepTold ==
    ASSUME [Next]_vars
    PROVE  /\ host' = host
           /\ \/ told' = told
              \/ \E leaf \in {"1", "7", "80000001"} : \E rcx :
                    told' = Put(told, leaf, Shown(leaf, rcx))
<1>1. CASE GuestIo
  BY <1>1 DEF GuestIo, msrVars
<1>2. ASSUME NEW upper \in Upper, NEW leaf \in program.leaves, NEW rcx \in Upper \X (0 .. 3),
             GuestCpuid(leaf, upper, rcx)
      PROVE  /\ host' = host
             /\ \/ told' = told
                \/ \E l \in {"1", "7", "80000001"} : \E r :
                      told' = Put(told, l, Shown(l, r))
  BY <1>2 DEF GuestCpuid, handle_svm_cpuid_exit, msrVars
<1>3. ASSUME NEW upper \in Upper, NEW m \in program.msrs,
             \/ GuestRdmsr(m, upper)
             \/ \E rdx, rax \in Upper \X Data : GuestWrmsr(m, upper, rdx, rax)
      PROVE  host' = host /\ told' = told
  BY <1>3 DEF GuestRdmsr, GuestWrmsr, handle_rdmsr, handle_wrmsr, msrVars
<1>4. CASE UNCHANGED vars
  BY <1>4 DEF vars, msrVars
<1> QED BY <1>1, <1>2, <1>3, <1>4 DEF Next

\* The invariant of the leaves is inductive.
LEMMA ToldStep == ToldByHandler /\ [Next]_vars => ToldByHandler'
<1> SUFFICES ASSUME ToldByHandler, [Next]_vars
             PROVE  ToldByHandler'
  OBVIOUS
<1>1. host' = host
  BY StepTold
<1>2. CASE told' = told
  BY <1>1, <1>2 DEF ToldByHandler
<1>3. ASSUME NEW leaf \in {"1", "7", "80000001"}, NEW rcx,
             told' = Put(told, leaf, Shown(leaf, rcx))
      PROVE  ToldByHandler'
  <2>1. /\ DOMAIN told' = DOMAIN told \cup {leaf}
        /\ told'[leaf] = Shown(leaf, rcx)
        /\ \A l \in DOMAIN told : l # leaf => told'[l] = told[l]
    BY <1>3 DEF Put
  <2>2. CASE leaf = "1"
    BY <1>1, <2>1, <2>2 DEF ToldByHandler, Shown
  <2>3. CASE leaf = "7"
    <3>1. Shown(leaf, rcx) \in {ext_feature0_ebx, {}}
      BY <2>3 DEF Shown
    <3> QED BY <1>1, <2>1, <2>3, <3>1 DEF ToldByHandler
  <2>4. CASE leaf = "80000001"
    BY <1>1, <2>1, <2>4 DEF ToldByHandler, Shown
  <2> QED BY <2>2, <2>3, <2>4
<1> QED BY <1>2, <1>3, StepTold

\* No leaf has been shown at first.
LEMMA ToldInit == Init => ToldByHandler
BY DEF Init, ToldByHandler

\* The answers of the handlers hold in every reachable state.
LEMMA ToldCorrect == Spec => []ToldByHandler
BY ToldInit, ToldStep, PTL DEF Spec

\* A feature that both leaves have a bit for is shown by both or by neither,
\* whatever the host has (svm_cpuid.c:58-88).
LEMMA LeavesAgree ==
    ASSUME NEW f \in CpuidStdFeatureInfoEdx \cap CpuidExtFeatureInfoEdx, NEW orig
    PROVE  f \in std_feature_info_edx <=> f \in get_ext_feature_info_edx(orig)
BY DEF CpuidStdFeatureInfoEdx, CpuidExtFeatureInfoEdx, std_feature_info_edx,
       get_ext_feature_info_edx

\* The two leaves with feature bits never contradict each other, for every host and
\* every guest (svm_cpuid.c:58-88).
THEOREM FeatureLeavesAgreeCorrect == Spec => []FeatureLeavesAgree
<1>1. ToldByHandler => FeatureLeavesAgree
  BY LeavesAgree DEF ToldByHandler, FeatureLeavesAgree
<1> QED BY <1>1, ToldCorrect, PTL

-----------------------------------------------------------------------------
(* Model-specific registers.                                               *)

\* The features whose registers svm_msr.c does not let the guest write.
Withheld == {"tsc", "apic", "mtrr", "pat", "mce", "mca"}

\* handle_wrmsr knows the registers of every other feature.
LEMMA RegistersWritable ==
    ASSUME NEW f, f \notin Withheld
    PROVE  RegistersOf(f) \subseteq Writable
<1>1. CASE f = "sysentersysexit"
  BY <1>1 DEF RegistersOf, Writable
<1>2. CASE f = "syscallsysret"
  BY <1>2 DEF RegistersOf, Writable
<1>3. CASE f = "lm"
  BY <1>3 DEF RegistersOf, Writable
<1>4. CASE f \in {"nx", "ffxsr"}
  BY <1>4 DEF RegistersOf, Writable
<1>5. CASE f = "rdtscp"
  BY <1>5 DEF RegistersOf, Writable
<1>6. CASE f \notin {"sysentersysexit", "syscallsysret", "lm", "nx", "ffxsr", "rdtscp"}
  BY <1>6 DEF RegistersOf, Withheld
<1> QED BY <1>1, <1>2, <1>3, <1>4, <1>5, <1>6

\* No leaf shows a feature of the others, whatever the host has.
LEMMA WithheldNotTold ==
    ASSUME ToldByHandler, NEW leaf \in DOMAIN told, NEW f \in told[leaf]
    PROVE  f \notin Withheld
BY DEF ToldByHandler, Withheld, std_feature_info_edx, ext_feature0_ebx,
       get_ext_feature_info_edx

\* A guest that sets up a feature which CPUID has shown to it is never stopped for
\* it, on any host: what svm_cpuid.c advertises, svm_msr.c lets the guest write
\* (svm_cpuid.c:8-30, 58-88, svm_msr.c:50-104).
THEOREM AdvertisedMsrsWorkCorrect == Spec => AdvertisedMsrsWork
<1> DEFINE Works ==
      aborted' =>
         \A m \in program.msrs : \A rdx, rax \in Upper \X Data :
            (\E leaf \in DOMAIN told : \E f \in told[leaf] : m \in RegistersOf(f))
                => ~GuestWrmsr(m, 0, rdx, rax)
<1>1. ASSUME ToldByHandler
      PROVE  Works
  <2> SUFFICES ASSUME aborted', NEW m, NEW rdx, NEW rax,
                      NEW leaf \in DOMAIN told, NEW f \in told[leaf], m \in RegistersOf(f),
                      GuestWrmsr(m, 0, rdx, rax)
               PROVE  FALSE
    OBVIOUS
  <2>1. m \in Writable
    BY <1>1, RegistersWritable, WithheldNotTold
  <2> QED BY <2>1 DEF GuestWrmsr, handle_wrmsr, ioioVars
<1>2. ToldByHandler => [Works]_vars
  BY <1>1
<1> QED BY <1>2, ToldCorrect, PTL DEF AdvertisedMsrsWork

-----------------------------------------------------------------------------
(* The timer and the serial port.                                          *)

\* A byte access leaves the guest exactly when the map has the bit of its port.
LEMMA ByteIntercepted ==
    ASSUME NEW port \in Int
    PROVE  Intercepted(port, 8) <=> port \notin UnmaskedInIopm
<1>1. port + (8 \div 8) - 1 = port
  OBVIOUS
<1>2. \A p : p \in port .. port <=> p = port
  OBVIOUS
<1> QED BY <1>1, <1>2 DEF Intercepted

\* A byte access to the timer or to the first serial port never stops the machine,
\* for any guest: what handle_serial_out refuses is let through by the permission
\* map (svm_ioio.c:201-204, svm_vcpu.c:109-117).
THEOREM TimerAndSerialCorrect == Spec => TimerAndSerialNeverAbort
<1> DEFINE Alive ==
      \A port \in Ports \cap (PitPorts \cup SerialPorts) :
         (GuestIn(port, 8) \/ \E dx \in Data : GuestOut(port, 8, dx)) => ~aborted'
<1>1. ASSUME NEW port \in PitPorts \cup SerialPorts
      PROVE  /\ port \in Int /\ ~Unknown(port) /\ port \notin PicPorts
             /\ port \in {1021, 1022} => ~Intercepted(port, 8)
  <2>1. port \in Int
    BY DEF PitPorts, SerialPorts
  <2> QED BY <2>1, ByteIntercepted DEF Unknown, PicPorts, PitPorts, SerialPorts, UnmaskedInIopm
<1>2. ASSUME NEW port \in PitPorts \cup SerialPorts, GuestIn(port, 8)
      PROVE  ~aborted'
  <2>1. \A c \in Chips : port \notin {PicCommandPort(c), PicDataPort(c)}
    BY <1>1 DEF PicPorts, PicCommandPort, PicDataPort
  <2> QED BY <1>1, <1>2, <2>1
          DEF GuestIn, handle_ioio_in, handle_pit_in, handle_serial_in, ioioVars
<1>3. ASSUME NEW port \in PitPorts \cup SerialPorts, NEW dx, GuestOut(port, 8, dx)
      PROVE  ~aborted'
  <2>1. \A c \in Chips : port \notin {PicCommandPort(c), PicDataPort(c)}
    BY <1>1 DEF PicPorts, PicCommandPort, PicDataPort
  <2> QED BY <1>1, <1>3, <2>1
          DEF GuestOut, handle_ioio_out, handle_serial_out, ioioVars
<1>4. [Alive]_ioioVars
  BY <1>2, <1>3
<1> QED BY <1>4, PTL DEF TimerAndSerialNeverAbort

-----------------------------------------------------------------------------
(* Types, and the registers that are kept twice.                           *)

\* The two registers of the serial port hold what the guest last wrote.
SerialKept ==
    /\ DOMAIN last = {1017, 1020}
    /\ last[1017] = ioio.ier /\ last[1020] = ioio.mcr

\* So does the EFER in the VMCB.
EferKept == "EFER" \in DOMAIN save /\ save["EFER"] = written.efer

\* The guest is one of Programs.
ProgramKept == program \in Programs

\* The guest's bytes are bytes.
LEMMA DataBytes == ProgramKept => Data \subseteq Byte
<1>1. \A p \in Programs : p.data \subseteq Byte
  BY SvmIoioAssumption
<1> QED BY ONLY <1>1 DEF ProgramKept, Data

\* What an access to a port leaves behind is typed.
LEMMA PicOutType ==
    ASSUME IoioTypeOK, NEW c \in Chips, NEW port, NEW width, NEW dx \in Byte,
           handle_pic_out(c, port, width, dx)
    PROVE  IoioTypeOK' /\ ioio'.ier = ioio.ier /\ ioio'.mcr = ioio.mcr
           /\ UNCHANGED <<program, last>>
<1> DEFINE chip == ioio.pic[c]
           command == port = PicCommandPort(c)
           new == IF command THEN PicCommand(chip, dx) ELSE PicData(chip, dx)
<1>1. CASE svm_vcpu_abort
  BY <1>1 DEF svm_vcpu_abort, IoioTypeOK
<1>2. CASE /\ ioio' = [ioio EXCEPT !.pic[c] = new]
           /\ log' = [log EXCEPT ![c] = Append(@, [command |-> command, byte |-> dx])]
           /\ UNCHANGED <<program, aborted, got, last>>
  <2>1. chip \in Chip
    BY DEF IoioTypeOK, SvmIoioGuestState
  <2>2. new \in Chip
    BY <2>1, PicCommandType, PicDataType
  <2>3. [command |-> command, byte |-> dx] \in PortWrite
    BY DEF PortWrite
  <2>4. log' \in [Chips -> Seq(PortWrite)]
    BY <1>2, <2>3 DEF IoioTypeOK
  <2> HIDE DEF new
  <2>5. ioio' \in SvmIoioGuestState
    BY <1>2, <2>2, ChipsType DEF IoioTypeOK
  <2>6. ioio'.ier = ioio.ier /\ ioio'.mcr = ioio.mcr
    BY <1>2 DEF IoioTypeOK, SvmIoioGuestState
  <2> QED BY <1>2, <2>4, <2>5, <2>6 DEF IoioTypeOK
<1> QED BY <1>1, <1>2 DEF handle_pic_out

\* The serial port's registers are bytes, and the history has them too.
LEMMA SerialOutType ==
    ASSUME IoioTypeOK, SerialKept, NEW port, NEW dx \in Byte, handle_serial_out(port, dx)
    PROVE  /\ IoioTypeOK' /\ SerialKept'
           /\ program' = program /\ ioio'.pic = ioio.pic /\ log' = log
<1>1. CASE svm_vcpu_abort
  BY <1>1 DEF svm_vcpu_abort, IoioTypeOK, SerialKept
<1>2. CASE ~svm_vcpu_abort
  <2>1. /\ UNCHANGED <<program, aborted, got, log>>
        /\ last' = IF port \in DOMAIN last THEN [last EXCEPT ![port] = dx] ELSE last
    BY <1>2 DEF handle_serial_out
  <2>2. CASE port = 1017
    <3>1. ioio' = [ioio EXCEPT !.ier = dx]
      BY <1>2, <2>2 DEF handle_serial_out
    <3> QED BY <2>1, <2>2, <3>1 DEF IoioTypeOK, SvmIoioGuestState, SerialKept
  <2>3. CASE port = 1020
    <3>1. ioio' = [ioio EXCEPT !.mcr = dx]
      BY <1>2, <2>3 DEF handle_serial_out
    <3> QED BY <2>1, <2>3, <3>1 DEF IoioTypeOK, SvmIoioGuestState, SerialKept
  <2>4. CASE port \notin {1017, 1020}
    <3>1. ioio' = ioio
      BY <1>2, <2>4 DEF handle_serial_out
    <3> QED BY <2>1, <2>4, <3>1 DEF IoioTypeOK, SerialKept
  <2> QED BY <2>2, <2>3, <2>4
<1> QED BY <1>1, <1>2

\* A read changes no register.
LEMMA InType ==
    ASSUME IoioTypeOK, ProgramKept, NEW port, NEW width, GuestIn(port, width)
    PROVE  IoioTypeOK' /\ UNCHANGED <<program, ioio, log, last>>
<1>1. Data \subseteq Byte
  BY DataBytes
<1>2. CASE svm_vcpu_abort
  BY <1>2 DEF svm_vcpu_abort, IoioTypeOK
<1>3. CASE got' \in Byte /\ UNCHANGED <<program, ioio, aborted, log, last>>
  BY <1>3 DEF IoioTypeOK
<1>4. ASSUME NEW c \in Chips, handle_pic_in(c, port, width)
      PROVE  IoioTypeOK' /\ UNCHANGED <<program, ioio, log, last>>
  <2>1. ioio.pic[c].mask \in Byte
    BY DEF IoioTypeOK, SvmIoioGuestState, Chip
  <2> QED BY <1>2, <1>3, <1>4, <2>1 DEF handle_pic_in
<1>5. ASSUME handle_serial_in(port)
      PROVE  got' \in Byte /\ UNCHANGED <<program, ioio, aborted, log, last>>
  <2>1. ioio.ier \in Byte /\ ioio.mcr \in Byte /\ 0 \in Byte
    BY DEF IoioTypeOK, SvmIoioGuestState, Byte
  <2>2. CASE port = 1017
    BY <1>5, <2>1, <2>2 DEF handle_serial_in
  <2>3. CASE port = 1020
    BY <1>5, <2>1, <2>3 DEF handle_serial_in
  <2>4. CASE port \in {1019, 1023}
    BY <1>5, <2>1, <2>4 DEF handle_serial_in
  <2>5. CASE port \notin {1017, 1019, 1020, 1023}
    BY <1>1, <1>5, <2>5 DEF handle_serial_in
  <2> QED BY <2>2, <2>3, <2>4, <2>5
<1>6. CASE UNCHANGED ioioVars
  BY <1>6 DEF ioioVars, IoioTypeOK
<1>7. 0 \in Byte
  BY DEF Byte
<1> QED BY <1>1, <1>2, <1>3, <1>4, <1>5, <1>6, <1>7
        DEF GuestIn, handle_ioio_in, handle_pit_in

\* A port access by the guest, as far as the types and the serial port go.
LEMMA PortStepType ==
    ASSUME IoioTypeOK, ProgramKept, SerialKept, IoioNext
    PROVE  IoioTypeOK' /\ SerialKept' /\ program' = program
<1>1. ASSUME NEW port, NEW width, NEW dx \in Byte, GuestOut(port, width, dx)
      PROVE  IoioTypeOK' /\ SerialKept' /\ program' = program
  <2>1. CASE UNCHANGED ioioVars \/ svm_vcpu_abort
    <3>1. UNCHANGED <<program, ioio, got, log, last>> /\ aborted' \in BOOLEAN
      BY <2>1 DEF ioioVars, svm_vcpu_abort, IoioTypeOK
    <3> QED BY <3>1 DEF IoioTypeOK, SerialKept
  <2>2. CASE \E c \in Chips : handle_pic_out(c, port, width, dx)
    BY <2>2, PicOutType DEF SerialKept
  <2>3. CASE handle_serial_out(port, dx)
    BY <2>3, SerialOutType
  <2> QED BY <1>1, <2>1, <2>2, <2>3 DEF GuestOut, handle_ioio_out
<1>2. Data \subseteq Byte
  BY DataBytes
<1>3. ASSUME NEW port, NEW width, GuestIn(port, width)
      PROVE  IoioTypeOK' /\ SerialKept' /\ program' = program
  BY <1>3, InType DEF SerialKept
<1> QED BY <1>1, <1>2, <1>3 DEF IoioNext

\* The types of the registers and of what the guest was told.
MsrTypeOK ==
    /\ DOMAIN save \subseteq Msrs /\ \A m \in DOMAIN save : save[m] \in Value
    /\ DOMAIN told \subseteq {"1", "7", "80000001"}
    /\ read \in Value
    /\ written.count \in Nat /\ written.efer \in Value

\* Types, with what is kept twice: the inductive invariant of the registers.
Registers == TypeOK /\ ProgramKept /\ SerialKept /\ EferKept

\* The guest's EFER and the serial port start out equal to their histories.
LEMMA RegistersInit == Init => Registers
<1> SUFFICES ASSUME Init PROVE Registers
  OBVIOUS
<1>1. IoioTypeOK
  <2>1. svm_ioio_guest_state_new \in SvmIoioGuestState
    BY DEF svm_ioio_guest_state_new, SvmIoioGuestState, Chip, Phases, Byte
  <2>2. log \in [Chips -> Seq(PortWrite)]
    BY DEF Init, IoioInit
  <2>3. 0 \in Byte
    BY DEF Byte
  <2> QED BY <2>1, <2>2, <2>3 DEF Init, IoioInit, IoioTypeOK
<1>2. MsrTypeOK
  BY DEF Init, MsrTypeOK, Value, Byte, Msrs
<1>3. ProgramKept /\ SerialKept
  BY DEF Init, IoioInit, ProgramKept, SerialKept, svm_ioio_guest_state_new
<1>4. EferKept
  BY DEF Init, EferKept
<1> QED BY <1>1, <1>2, <1>3, <1>4 DEF Registers, TypeOK, MsrTypeOK

\* A WRMSR that succeeds stores the lower halves.
LEMMA WrmsrKeeps ==
    ASSUME Registers, NEW m \in Msrs, NEW upper, NEW rdx \in Upper \X Data,
           NEW rax \in Upper \X Data, GuestWrmsr(m, upper, rdx, rax)
    PROVE  Registers'
<1>1. rdx[2] \in Byte /\ rax[2] \in Byte
  BY DataBytes DEF Registers
<1>2. CASE svm_vcpu_abort /\ UNCHANGED msrVars
  BY <1>2 DEF svm_vcpu_abort, msrVars, Registers, TypeOK, IoioTypeOK, ProgramKept,
              SerialKept, EferKept
<1>3. CASE /\ save' = Put(save, m, concat_64(rdx, rax))
           /\ written' = [count |-> written.count + 1,
                          efer |-> IF m = "EFER" THEN <<rdx[2], rax[2]>> ELSE written.efer]
           /\ UNCHANGED <<ioioVars, host, told, read>>
  <2>1. concat_64(rdx, rax) = <<rdx[2], rax[2]>> /\ concat_64(rdx, rax) \in Value
    BY <1>1 DEF concat_64, Value
  <2>2. /\ DOMAIN save' = DOMAIN save \cup {m}
        /\ save'[m] = concat_64(rdx, rax)
        /\ \A x \in DOMAIN save : x # m => save'[x] = save[x]
    BY <1>3 DEF Put
  <2>3. written'.count = written.count + 1
        /\ written'.efer = IF m = "EFER" THEN <<rdx[2], rax[2]>> ELSE written.efer
    BY <1>3
  <2>4. MsrTypeOK'
    <3>1. DOMAIN save' \subseteq Msrs /\ \A x \in DOMAIN save' : save'[x] \in Value
      BY <2>1, <2>2 DEF Registers, TypeOK
    <3>2. written'.count \in Nat
      BY <2>3 DEF Registers, TypeOK
    <3>3. written'.efer \in Value
      BY <2>1, <2>3 DEF Registers, TypeOK
    <3> QED BY <1>3, <3>1, <3>2, <3>3 DEF MsrTypeOK, Registers, TypeOK
  <2>5. EferKept'
    BY <2>1, <2>2, <2>3 DEF EferKept, Registers
  <2>6. IoioTypeOK' /\ ProgramKept' /\ SerialKept'
    BY <1>3 DEF ioioVars, Registers, TypeOK, IoioTypeOK, ProgramKept, SerialKept
  <2> QED BY <2>4, <2>5, <2>6 DEF Registers, TypeOK, MsrTypeOK
<1> QED BY <1>2, <1>3 DEF GuestWrmsr, handle_wrmsr

\* An RDMSR changes nothing but the answer.
LEMMA RdmsrKeeps ==
    ASSUME Registers, NEW m, NEW upper, GuestRdmsr(m, upper)
    PROVE  Registers'
<1>1. read' \in Value
  BY DEF GuestRdmsr, handle_rdmsr, msrVars, AllOnes, Value, Byte, Registers, TypeOK, EferKept
<1>2. UNCHANGED <<program, ioio, got, log, last, save, told, written>>
      /\ aborted' \in BOOLEAN
  BY DEF GuestRdmsr, handle_rdmsr, svm_vcpu_abort, ioioVars, msrVars, Registers, TypeOK, IoioTypeOK
<1> QED BY <1>1, <1>2 DEF Registers, TypeOK, IoioTypeOK, ProgramKept, SerialKept, EferKept

\* A CPUID changes nothing but what was told.
LEMMA CpuidKeeps ==
    ASSUME Registers, NEW leaf, NEW upper, NEW rcx, GuestCpuid(leaf, upper, rcx)
    PROVE  Registers'
<1>1. UNCHANGED <<program, ioio, got, log, last, save, read, written>>
      /\ aborted' \in BOOLEAN
  BY DEF GuestCpuid, handle_svm_cpuid_exit, svm_vcpu_abort, ioioVars, msrVars, Registers,
         TypeOK, IoioTypeOK
<1>2. DOMAIN told' \subseteq {"1", "7", "80000001"}
  BY DEF GuestCpuid, handle_svm_cpuid_exit, msrVars, Registers, TypeOK, Put
<1> QED BY <1>1, <1>2 DEF Registers, TypeOK, IoioTypeOK, ProgramKept, SerialKept, EferKept

\* The invariant is inductive.
LEMMA RegistersStep == Registers /\ [Next]_vars => Registers'
<1> SUFFICES ASSUME Registers, [Next]_vars PROVE Registers'
  OBVIOUS
<1>1. CASE GuestIo
  <2>1. IoioTypeOK' /\ SerialKept' /\ program' = program
    BY <1>1, PortStepType DEF GuestIo, Registers, TypeOK
  <2>2. UNCHANGED <<save, told, read, written>>
    BY <1>1 DEF GuestIo, msrVars
  <2> QED BY <2>1, <2>2 DEF Registers, TypeOK, ProgramKept, EferKept
<1>2. program.msrs \subseteq Msrs
  BY GuestExitsAssumption DEF Registers, ProgramKept
<1>3. CASE UNCHANGED vars
  BY <1>3 DEF vars, ioioVars, msrVars, Registers, TypeOK, IoioTypeOK, ProgramKept,
              SerialKept, EferKept
<1> QED BY <1>1, <1>2, <1>3, WrmsrKeeps, RdmsrKeeps, CpuidKeeps DEF Next

\* The invariant holds in every reachable state.
LEMMA RegistersCorrect == Spec => []Registers
BY RegistersInit, RegistersStep, PTL DEF Spec

\* Every register of the emulated devices and every register of the guest keeps its
\* width, for every guest program, also when the guest's registers had dirty upper
\* halves (svm_ioio.c:152-384, svm_msr.c:24-104, bits.h:53-55).
THEOREM TypeCorrect == Spec => []TypeOK
<1>1. Registers => TypeOK
  BY DEF Registers
<1> QED BY <1>1, RegistersCorrect, PTL

-----------------------------------------------------------------------------
(* The emulated chips follow their writes.                                 *)


\* A set of natural numbers has a smallest element.
LEMMA Smallest ==
    ASSUME NEW T \in SUBSET Nat, T # {}
    PROVE  \E x \in T : \A y \in T : x <= y
<1>1. PICK x \in T : \A y \in T : ~(<<y, x>> \in OpToRel(<, Nat))
  BY WFMin, NatLessThanWellFounded
<1>2. ASSUME NEW y \in T
      PROVE  x <= y
  <2>1. x \in Nat /\ y \in Nat /\ <<y, x>> \in Nat \X Nat
    OBVIOUS
  <2>2. ~(y < x)
    BY <1>1, <2>1, Zenon DEF OpToRel
  <2> QED BY <2>1, <2>2
<1> QED BY <1>2

\* A set of positions of a sequence has a last one, and Max is it.
LEMMA MaxIsLast ==
    ASSUME NEW n \in Nat, NEW K \in SUBSET (1 .. n), K # {}
    PROVE  Max(K) \in K /\ \A k \in K : k <= Max(K)
<1> DEFINE T == {n - k : k \in K}
<1>1. T \in SUBSET Nat /\ T # {}
  <2>1. \A k \in K : n - k \in Nat
    OBVIOUS
  <2> QED BY <2>1, Zenon
<1>2. PICK x \in T : \A y \in T : x <= y
  <2> HIDE DEF T
  <2> QED BY <1>1, Smallest
<1>3. PICK k \in K : x = n - k
  BY <1>2
<1>4. \A j \in K : n - k <= n - j
  BY <1>2, <1>3, Zenon
<1>5. \A j \in K : k >= j
  BY <1>4
<1>6. \E m \in K : \A y \in K : m >= y
  BY <1>5
<1>7. Max(K) \in K /\ \A y \in K : Max(K) >= y
  BY <1>6, Zenon DEF Max
<1> QED BY <1>7

\* A position behind all the others is the last.
LEMMA MaxOfNext ==
    ASSUME NEW n \in Nat, NEW K \in SUBSET (1 .. n)
    PROVE  Max(K \cup {n + 1}) = n + 1
<1> DEFINE M == K \cup {n + 1}
<1>1. M \in SUBSET (1 .. n + 1) /\ M # {} /\ n + 1 \in Nat /\ n + 1 \in M
  OBVIOUS
<1> HIDE DEF M
<1>2. Max(M) \in M /\ \A k \in M : k <= Max(M)
  BY <1>1, MaxIsLast
<1>3. Max(M) \in 1 .. n + 1 /\ n + 1 <= Max(M)
  BY <1>1, <1>2
<1>4. Max(M) = n + 1
  BY <1>3
<1> QED BY <1>4 DEF M

\* The bytes that the data port got since the last ICW1.
DataSince(w) ==
    {k \in DOMAIN w : ~w[k].command /\ \A i \in Icw1Before(w, Len(w) + 1) : i < k}

\* The sequence of writes to a chip, one write longer.
LEMMA Longer ==
    ASSUME NEW w \in Seq(PortWrite), NEW r \in PortWrite
    PROVE  /\ Len(w) \in Nat /\ DOMAIN w = 1 .. Len(w)
           /\ Append(w, r) \in Seq(PortWrite)
           /\ Len(Append(w, r)) = Len(w) + 1
           /\ DOMAIN Append(w, r) = 1 .. Len(w) + 1
           /\ Append(w, r)[Len(w) + 1] = r
           /\ \A k \in 1 .. Len(w) : Append(w, r)[k] = w[k]
OBVIOUS

\* A write does not change the meaning of the writes before it.
LEMMA EarlierIcw1 ==
    ASSUME NEW w \in Seq(PortWrite), NEW r \in PortWrite, NEW k \in 1 .. Len(w) + 1
    PROVE  Icw1Before(Append(w, r), k) = Icw1Before(w, k)
<1>1. \A j \in 1 .. k - 1 : Append(w, r)[j] = w[j]
  BY Longer
<1> QED BY <1>1 DEF Icw1Before

\* What an earlier write was, a command word of initialization or a mask, it stays.
LEMMA EarlierKinds ==
    ASSUME NEW w \in Seq(PortWrite), NEW r \in PortWrite, NEW k \in 1 .. Len(w), NEW n
    PROVE  /\ IsIcw(Append(w, r), k, n) <=> IsIcw(w, k, n)
           /\ IsOcw1(Append(w, r), k) <=> IsOcw1(w, k)
<1> DEFINE x == Append(w, r)
<1>1. Icw1Before(x, k) = Icw1Before(w, k)
  BY EarlierIcw1
<1>2. \A j \in 1 .. k : x[j] = w[j]
  BY Longer
<1>3. Ordinal(x, k) = Ordinal(w, k)
  <2>1. {j \in 1 .. k : ~x[j].command /\ \A i \in Icw1Before(x, k) : i < j}
        = {j \in 1 .. k : ~w[j].command /\ \A i \in Icw1Before(w, k) : i < j}
    BY <1>1, <1>2
  <2> QED BY <2>1 DEF Ordinal
<1>4. x[k] = w[k]
  BY <1>2
<1> QED BY <1>1, <1>3, <1>4 DEF IsIcw, IsOcw1

\* A byte for the data port is one more since the last ICW1.
LEMMA NextOrdinal ==
    ASSUME NEW w \in Seq(PortWrite), NEW r \in PortWrite, ~r.command
    PROVE  /\ Cardinality(DataSince(w)) \in Nat
           /\ Ordinal(Append(w, r), Len(w) + 1) = Cardinality(DataSince(w)) + 1
           /\ DataSince(Append(w, r)) = DataSince(w) \cup {Len(w) + 1}
<1> DEFINE x == Append(w, r)
           n == Len(w)
<1>1. /\ n \in Nat /\ DOMAIN w = 1 .. n /\ Len(x) = n + 1 /\ DOMAIN x = 1 .. n + 1
      /\ x[n + 1] = r /\ \A k \in 1 .. n : x[k] = w[k]
  BY Longer
<1>2. Icw1Before(x, n + 1) = Icw1Before(w, n + 1)
  BY <1>1, EarlierIcw1
<1>3. Icw1Before(w, n + 1) \subseteq 1 .. n
  BY <1>1 DEF Icw1Before
<1>4. {j \in 1 .. n + 1 : ~x[j].command /\ \A i \in Icw1Before(x, n + 1) : i < j}
      = DataSince(w) \cup {n + 1}
  BY <1>1, <1>2, <1>3 DEF DataSince
<1>5. IsFiniteSet(DataSince(w)) /\ n + 1 \notin DataSince(w)
  <2>1. IsFiniteSet(1 .. n)
    BY <1>1, FS_Interval
  <2>2. DataSince(w) \in SUBSET (1 .. n)
    BY <1>1 DEF DataSince
  <2>3. n + 1 \notin 1 .. n
    BY <1>1
  <2> QED BY <2>1, <2>2, <2>3, FS_Subset
<1>6. Icw1Before(x, n + 2) = Icw1Before(w, n + 1)
  BY <1>1 DEF Icw1Before
<1>7. DataSince(x) = DataSince(w) \cup {n + 1}
  <2>1. DataSince(x) = {j \in 1 .. n + 1 : ~x[j].command /\ \A i \in Icw1Before(x, n + 1) : i < j}
    BY <1>1, <1>2, <1>6 DEF DataSince
  <2> QED BY <1>4, <2>1
<1>8. Ordinal(x, n + 1) = Cardinality(DataSince(w) \cup {n + 1})
  BY <1>4 DEF Ordinal
<1>9. /\ Cardinality(DataSince(w)) \in Nat
      /\ Cardinality(DataSince(w) \cup {n + 1}) = Cardinality(DataSince(w)) + 1
  BY <1>5, FS_CardinalityType, FS_AddElement
<1> QED BY <1>7, <1>8, <1>9

\* The byte at the last of some positions, after one more write.
LEMMA NextLastByte ==
    ASSUME NEW w \in Seq(PortWrite), NEW r \in PortWrite,
           NEW K \in SUBSET (1 .. Len(w))
    PROVE  \A reset :
             /\ LastByte(Append(w, r), K, reset) = LastByte(w, K, reset)
             /\ LastByte(Append(w, r), K \cup {Len(w) + 1}, reset) = r.byte
<1> TAKE reset
<1>1. Len(w) \in Nat
  BY Longer
<1>2. K # {} => Max(K) \in 1 .. Len(w)
  BY <1>1, MaxIsLast
<1>3. LastByte(Append(w, r), K, reset) = LastByte(w, K, reset)
  BY <1>2, Longer DEF LastByte
<1>4. Max(K \cup {Len(w) + 1}) = Len(w) + 1
  BY <1>1, MaxOfNext
<1>5. LastByte(Append(w, r), K \cup {Len(w) + 1}, reset) = r.byte
  BY <1>4, Longer DEF LastByte
<1> QED BY <1>3, <1>5

\* ChipAfter, in parts; the writes that set the mask.
Masks(w) == {k \in DOMAIN w : IsOcw1(w, k)}

\* The writes that set the base of the vectors.
Bases(w) == {k \in DOMAIN w : IsIcw(w, k, 2)}

\* The phase that the writes have led to.
PhaseAfter(w) ==
    IF Icw1Before(w, Len(w) + 1) = {} THEN "UNINITIALIZED"
    ELSE CASE Cardinality(DataSince(w)) = 0 -> "PHASE1"
           [] Cardinality(DataSince(w)) = 1 -> "PHASE2"
           [] Cardinality(DataSince(w)) = 2 -> "PHASE3"
           [] OTHER -> "INITED"

\* The chip after some writes is made of these parts.
LEMMA ChipParts ==
    ASSUME NEW w
    PROVE  ChipAfter(w) = [mask |-> LastByte(w, Masks(w), 255),
                           base |-> LastByte(w, Bases(w), 0),
                           phase |-> PhaseAfter(w)]
BY DEF ChipAfter, Masks, Bases, PhaseAfter, DataSince

\* A write to the command port is neither a mask nor a vector base.
LEMMA CommandPlaces ==
    ASSUME NEW w \in Seq(PortWrite), NEW r \in PortWrite, r.command
    PROVE  /\ Masks(Append(w, r)) = Masks(w)
           /\ Bases(Append(w, r)) = Bases(w)
<1> DEFINE x == Append(w, r)
<1>1. x[Len(w) + 1].command
  BY Longer
<1>2. ~IsOcw1(x, Len(w) + 1) /\ ~IsIcw(x, Len(w) + 1, 2)
  BY <1>1 DEF IsOcw1, IsIcw
<1>3. \A k \in 1 .. Len(w) : /\ IsIcw(x, k, 2) <=> IsIcw(w, k, 2)
                             /\ IsOcw1(x, k) <=> IsOcw1(w, k)
  BY EarlierKinds
<1>4. DOMAIN w = 1 .. Len(w) /\ DOMAIN x = 1 .. Len(w) + 1 /\ Len(w) \in Nat
  BY Longer
<1>5. DOMAIN x = DOMAIN w \cup {Len(w) + 1}
  BY <1>4
<1> HIDE DEF x
<1>6. Masks(x) = Masks(w)
  BY <1>2, <1>3, <1>4, <1>5, Zenon DEF Masks
<1>7. Bases(x) = Bases(w)
  BY <1>2, <1>3, <1>4, <1>5, Zenon DEF Bases
<1> QED BY <1>6, <1>7 DEF x

\* handle_pic_out on a command port does to the chip what the writes call for.
LEMMA ChipAfterCommand ==
    ASSUME NEW w \in Seq(PortWrite), NEW r \in PortWrite, r.command
    PROVE  ChipAfter(Append(w, r)) = PicCommand(ChipAfter(w), r.byte)
<1> DEFINE x == Append(w, r)
           n == Len(w)
<1>1. /\ n \in Nat /\ DOMAIN w = 1 .. n /\ Len(x) = n + 1 /\ DOMAIN x = 1 .. n + 1
      /\ x[n + 1] = r /\ \A k \in 1 .. n : x[k] = w[k]
  BY Longer
<1>2. /\ Masks(w) \in SUBSET (1 .. n) /\ Bases(w) \in SUBSET (1 .. n)
  BY <1>1 DEF Masks, Bases
<1>3. /\ LastByte(x, Masks(x), 255) = LastByte(w, Masks(w), 255)
      /\ LastByte(x, Bases(x), 0) = LastByte(w, Bases(w), 0)
  <2>1. Masks(x) = Masks(w) /\ Bases(x) = Bases(w)
    BY CommandPlaces
  <2>2. \A reset : LastByte(x, Masks(w), reset) = LastByte(w, Masks(w), reset)
    BY <1>2, NextLastByte
  <2>3. LastByte(x, Bases(w), 0) = LastByte(w, Bases(w), 0)
    BY <1>2, NextLastByte
  <2> HIDE DEF x
  <2> QED BY <2>1, <2>2, <2>3
<1>4. CASE r.byte = ICW1
  <2>1. n + 1 \in Icw1Before(x, n + 2)
    BY <1>1, <1>4 DEF Icw1Before
  <2>2. DataSince(x) = {}
    BY <1>1, <2>1 DEF DataSince
  <2>3. PhaseAfter(x) = "PHASE1"
    BY <1>1, <2>1, <2>2, FS_EmptySet DEF PhaseAfter
  <2> QED BY <1>3, <1>4, <2>3, ChipParts DEF PicCommand
<1>5. CASE r.byte # ICW1
  <2>1. Icw1Before(x, n + 2) = Icw1Before(w, n + 1)
    BY <1>1, <1>5 DEF Icw1Before
  <2>2. DataSince(x) = DataSince(w)
    BY <1>1, <2>1 DEF DataSince
  <2>3. PhaseAfter(x) = PhaseAfter(w)
    BY <1>1, <2>1, <2>2 DEF PhaseAfter
  <2> QED BY <1>3, <1>5, <2>3, ChipParts DEF PicCommand
<1> QED BY <1>4, <1>5

\* A byte for the data port is a mask or a vector base, depending on the phase that
\* the writes before it have led to, and on nothing else.
LEMMA DataPlaces ==
    ASSUME NEW w \in Seq(PortWrite), NEW r \in PortWrite, ~r.command
    PROVE  LET x == Append(w, r)
               next == Len(w) + 1
           IN  /\ Masks(x) = IF PhaseAfter(w) \in {"UNINITIALIZED", "INITED"}
                             THEN Masks(w) \cup {next} ELSE Masks(w)
               /\ Bases(x) = IF PhaseAfter(w) = "PHASE1"
                             THEN Bases(w) \cup {next} ELSE Bases(w)
               /\ IsIcw(x, next, 3) <=> PhaseAfter(w) = "PHASE2"
<1> DEFINE x == Append(w, r)
           next == Len(w) + 1
           d == Cardinality(DataSince(w))
<1>1. ~x[next].command /\ Icw1Before(x, next) = Icw1Before(w, next)
  BY Longer, EarlierIcw1
<1>2. d \in Nat /\ Ordinal(x, next) = d + 1
  BY NextOrdinal
<1>3. \A k \in 1 .. Len(w) : /\ IsIcw(x, k, 2) <=> IsIcw(w, k, 2)
                             /\ IsOcw1(x, k) <=> IsOcw1(w, k)
  BY EarlierKinds
<1>4. DOMAIN w = 1 .. Len(w) /\ DOMAIN x = 1 .. Len(w) + 1 /\ Len(w) \in Nat
  BY Longer
<1>5. DOMAIN x = DOMAIN w \cup {next} /\ DOMAIN w = 1 .. Len(w)
  BY <1>4
<1> DEFINE none == Icw1Before(w, next) = {}
<1>6. /\ IsOcw1(x, next) <=> none \/ d + 1 > 3
      /\ IsIcw(x, next, 2) <=> ~none /\ d + 1 = 1
      /\ IsIcw(x, next, 3) <=> ~none /\ d + 1 = 2
  BY <1>1, <1>2 DEF IsOcw1, IsIcw
<1>7. PhaseAfter(w) = IF none THEN "UNINITIALIZED"
                      ELSE CASE d = 0 -> "PHASE1" [] d = 1 -> "PHASE2"
                             [] d = 2 -> "PHASE3" [] OTHER -> "INITED"
  BY DEF PhaseAfter
<1> HIDE DEF x, d, none, next
<1>8. /\ IsOcw1(x, next) <=> PhaseAfter(w) \in {"UNINITIALIZED", "INITED"}
      /\ IsIcw(x, next, 2) <=> PhaseAfter(w) = "PHASE1"
      /\ IsIcw(x, next, 3) <=> PhaseAfter(w) = "PHASE2"
  BY <1>2, <1>6, <1>7
<1>9. Masks(x) = IF IsOcw1(x, next) THEN Masks(w) \cup {next} ELSE Masks(w)
  BY <1>3, <1>5, Zenon DEF Masks
<1>10. Bases(x) = IF IsIcw(x, next, 2) THEN Bases(w) \cup {next} ELSE Bases(w)
  BY <1>3, <1>5, Zenon DEF Bases
<1> QED BY <1>8, <1>9, <1>10 DEF x, next

\* handle_pic_out on a data port does to the chip what the writes call for.
LEMMA ChipAfterData ==
    ASSUME NEW w \in Seq(PortWrite), NEW r \in PortWrite, ~r.command
    PROVE  ChipAfter(Append(w, r)) = PicData(ChipAfter(w), r.byte)
<1> DEFINE x == Append(w, r)
           n == Len(w)
           mask == LastByte(w, Masks(w), 255)
           base == LastByte(w, Bases(w), 0)
           phase == PhaseAfter(w)
<1>1. /\ n \in Nat /\ DOMAIN w = 1 .. n /\ Len(x) = n + 1 /\ DOMAIN x = 1 .. n + 1
      /\ x[n + 1] = r /\ \A k \in 1 .. n : x[k] = w[k]
  BY Longer
<1>2. /\ Masks(w) \in SUBSET (1 .. n) /\ Bases(w) \in SUBSET (1 .. n)
  BY <1>1 DEF Masks, Bases
<1>3. \A reset : /\ LastByte(x, Masks(w), reset) = LastByte(w, Masks(w), reset)
                 /\ LastByte(x, Masks(w) \cup {n + 1}, reset) = r.byte
  BY <1>2, NextLastByte
<1>4. /\ LastByte(x, Bases(w), 0) = base
      /\ LastByte(x, Bases(w) \cup {n + 1}, 0) = r.byte
  BY <1>2, NextLastByte
<1>5. /\ Masks(x) = IF phase \in {"UNINITIALIZED", "INITED"}
                    THEN Masks(w) \cup {n + 1} ELSE Masks(w)
      /\ Bases(x) = IF phase = "PHASE1" THEN Bases(w) \cup {n + 1} ELSE Bases(w)
  BY DataPlaces
<1>6. /\ LastByte(x, Masks(x), 255) = IF phase \in {"UNINITIALIZED", "INITED"}
                                      THEN r.byte ELSE mask
      /\ LastByte(x, Bases(x), 0) = IF phase = "PHASE1" THEN r.byte ELSE base
  <2>1. /\ LastByte(x, Masks(w), 255) = mask
        /\ LastByte(x, Masks(w) \cup {n + 1}, 255) = r.byte
    <3> HIDE DEF x, n
    <3> QED BY <1>3
  <2> HIDE DEF x, n, mask, base, phase
  <2> QED BY <1>4, <1>5, <2>1
<1>7. PhaseAfter(x) = CASE phase = "PHASE1" -> "PHASE2"
                        [] phase = "PHASE2" -> "PHASE3"
                        [] phase = "PHASE3" -> "INITED"
                        [] OTHER -> phase
  <2> DEFINE d == Cardinality(DataSince(w))
             none == Icw1Before(w, n + 1) = {}
  <2>1. Icw1Before(x, n + 2) = Icw1Before(w, n + 1)
    BY <1>1 DEF Icw1Before
  <2>2. d \in Nat /\ Cardinality(DataSince(x)) = d + 1
    <3>1. DataSince(x) = DataSince(w) \cup {n + 1}
      BY NextOrdinal
    <3>2. IsFiniteSet(DataSince(w)) /\ n + 1 \notin DataSince(w)
      <4>1. IsFiniteSet(1 .. n)
        BY <1>1, FS_Interval
      <4>2. DataSince(w) \in SUBSET (1 .. n)
        BY <1>1 DEF DataSince
      <4>3. n + 1 \notin 1 .. n
        BY <1>1
      <4> QED BY <4>1, <4>2, <4>3, FS_Subset
    <3> QED BY <3>1, <3>2, FS_CardinalityType, FS_AddElement
  <2>3. phase = IF none THEN "UNINITIALIZED"
                ELSE CASE d = 0 -> "PHASE1" [] d = 1 -> "PHASE2"
                       [] d = 2 -> "PHASE3" [] OTHER -> "INITED"
    BY DEF PhaseAfter
  <2>4. PhaseAfter(x) = IF none THEN "UNINITIALIZED"
                        ELSE CASE d + 1 = 0 -> "PHASE1" [] d + 1 = 1 -> "PHASE2"
                               [] d + 1 = 2 -> "PHASE3" [] OTHER -> "INITED"
    <3>1. Len(x) + 1 = n + 2
      BY <1>1
    <3> HIDE DEF x
    <3> QED BY <2>1, <2>2, <3>1 DEF PhaseAfter
  <2> HIDE DEF d, none, phase, x
  <2>5. CASE none
    BY <2>3, <2>4, <2>5
  <2>6. CASE ~none /\ d = 0
    BY <2>3, <2>4, <2>6
  <2>7. CASE ~none /\ d = 1
    BY <2>3, <2>4, <2>7
  <2>8. CASE ~none /\ d = 2
    BY <2>3, <2>4, <2>8
  <2>9. CASE ~none /\ d > 2
    BY <2>2, <2>3, <2>4, <2>9
  <2> QED BY <2>2, <2>5, <2>6, <2>7, <2>8, <2>9
<1>8. phase \in Phases
  <2> USE DEF PhaseAfter, Phases
  <2> QED OBVIOUS
<1>9. ChipAfter(w) = [mask |-> mask, base |-> base, phase |-> phase]
  BY ChipParts
<1>10. ChipAfter(x) = [mask |-> LastByte(x, Masks(x), 255),
                       base |-> LastByte(x, Bases(x), 0), phase |-> PhaseAfter(x)]
  BY ChipParts
<1> HIDE DEF mask, base, phase
<1>11. CASE phase = "PHASE1"
  <2> DEFINE chip == ChipAfter(w)
             based == [chip EXCEPT !.base = r.byte]
  <2>1. based = [mask |-> mask, base |-> r.byte, phase |-> phase]
    BY <1>9
  <2>2. PicData(chip, r.byte) = [based EXCEPT !.phase = "PHASE2"]
    <3>1. chip.phase = "PHASE1"
      BY <1>9, <1>11
    <3>2. PicData(chip, r.byte) = [chip EXCEPT !.base = r.byte, !.phase = "PHASE2"]
      BY <3>1 DEF PicData
    <3> QED BY <3>2
  <2> HIDE DEF based, chip
  <2>3. PicData(chip, r.byte) = [mask |-> mask, base |-> r.byte, phase |-> "PHASE2"]
    BY <2>1, <2>2
  <2> QED BY <1>6, <1>7, <1>10, <1>11, <2>3 DEF chip
<1>12. CASE phase = "PHASE2"
  BY <1>6, <1>7, <1>9, <1>10, <1>12 DEF PicData
<1>13. CASE phase = "PHASE3"
  BY <1>6, <1>7, <1>9, <1>10, <1>13 DEF PicData
<1>14. CASE phase \in {"UNINITIALIZED", "INITED"}
  BY <1>6, <1>7, <1>9, <1>10, <1>14 DEF PicData
<1> QED BY <1>8, <1>11, <1>12, <1>13, <1>14 DEF Phases

\* A chip that got no write is as svm_ioio_guest_state_new leaves it.
LEMMA ChipAfterNothing ==
    ChipAfter(<<>>) = [mask |-> 255, phase |-> "UNINITIALIZED", base |-> 0]
<1>1. DOMAIN <<>> = {} /\ Len(<<>>) = 0
  OBVIOUS
<1>2. Masks(<<>>) = {} /\ Bases(<<>>) = {}
  BY <1>1 DEF Masks, Bases
<1>3. Icw1Before(<<>>, Len(<<>>) + 1) = {}
  BY <1>1 DEF Icw1Before
<1>4. PhaseAfter(<<>>) = "UNINITIALIZED"
  BY <1>3 DEF PhaseAfter
<1>5. \A reset : LastByte(<<>>, {}, reset) = reset
  BY DEF LastByte
<1> QED BY <1>2, <1>4, <1>5, ChipParts

\* The chips start as their (empty) logs say.
LEMMA ChipsInit == Init => ChipsFollowTheirWrites
<1> SUFFICES ASSUME Init, NEW c \in Chips
             PROVE  /\ ioio.pic[c] = ChipAfter(log[c])
                    /\ \A k \in DOMAIN log[c] :
                          IsIcw(log[c], k, 3) => log[c][k].byte = CascadeId(c)
  BY DEF ChipsFollowTheirWrites
<1>1. log[c] = <<>>
  BY DEF Init, IoioInit
<1>2. ioio.pic[c] = [mask |-> 255, phase |-> "UNINITIALIZED", base |-> 0]
  BY DEF Init, IoioInit, svm_ioio_guest_state_new
<1> QED BY <1>1, <1>2, ChipAfterNothing

\* A step that touches neither chips nor logs keeps the property.
LEMMA ChipsUntouched ==
    ASSUME ChipsFollowTheirWrites, ioio'.pic = ioio.pic, log' = log
    PROVE  ChipsFollowTheirWrites'
BY DEF ChipsFollowTheirWrites

\* handle_pic_out keeps the chip and its log in step, and the other chip apart.
LEMMA ChipsPicOut ==
    ASSUME IoioTypeOK, ChipsFollowTheirWrites, NEW c \in Chips, NEW port, NEW width,
           NEW dx \in Byte, handle_pic_out(c, port, width, dx)
    PROVE  ChipsFollowTheirWrites'
<1> DEFINE chip == ioio.pic[c]
           command == port = PicCommandPort(c)
           new == IF command THEN PicCommand(chip, dx) ELSE PicData(chip, dx)
           r == [command |-> command, byte |-> dx]
<1>1. CASE svm_vcpu_abort
  BY <1>1, ChipsUntouched DEF svm_vcpu_abort
<1>2. CASE /\ IF command THEN PicCommandOk(dx) ELSE PicDataOk(c, chip, dx)
           /\ ioio' = [ioio EXCEPT !.pic[c] = new]
           /\ log' = [log EXCEPT ![c] = Append(@, r)]
  <2>1. r \in PortWrite /\ r.command = command /\ r.byte = dx
    BY DEF PortWrite
  <2>2. \A d \in Chips : log[d] \in Seq(PortWrite)
    BY DEF IoioTypeOK
  <2>3. chip = ChipAfter(log[c])
    BY DEF ChipsFollowTheirWrites
  <2> HIDE DEF r, new
  <2>4. /\ log'[c] = Append(log[c], r)
        /\ \A d \in Chips \ {c} : log'[d] = log[d]
    BY <1>2 DEF IoioTypeOK
  <2>5. /\ ioio'.pic[c] = new
        /\ \A d \in Chips \ {c} : ioio'.pic[d] = ioio.pic[d]
    BY <1>2 DEF IoioTypeOK, SvmIoioGuestState
  <2>6. new = ChipAfter(log'[c])
    <3>1. CASE command
      <4>1. ChipAfter(Append(log[c], r)) = PicCommand(chip, dx)
        BY <2>1, <2>2, <2>3, <3>1, ChipAfterCommand
      <4> QED BY <2>4, <3>1, <4>1 DEF new
    <3>2. CASE ~command
      <4>1. ChipAfter(Append(log[c], r)) = PicData(chip, dx)
        BY <2>1, <2>2, <2>3, <3>2, ChipAfterData
      <4> QED BY <2>4, <3>2, <4>1 DEF new
    <3> QED BY <3>1, <3>2
  <2>7. ASSUME NEW k \in DOMAIN log'[c], IsIcw(log'[c], k, 3)
        PROVE  log'[c][k].byte = CascadeId(c)
    <3> DEFINE w == log[c]
    <3>1. /\ w \in Seq(PortWrite) /\ Len(w) \in Nat /\ DOMAIN w = 1 .. Len(w)
          /\ DOMAIN Append(w, r) = 1 .. Len(w) + 1 /\ Append(w, r)[Len(w) + 1] = r
          /\ \A j \in 1 .. Len(w) : Append(w, r)[j] = w[j]
      BY <2>1, <2>2, Longer
    <3>2. CASE k \in 1 .. Len(w)
      <4>1. IsIcw(w, k, 3)
        BY <2>1, <2>4, <2>7, <3>1, <3>2, EarlierKinds
      <4>2. w[k].byte = CascadeId(c)
        BY <3>1, <3>2, <4>1 DEF ChipsFollowTheirWrites
      <4> QED BY <2>4, <3>1, <3>2, <4>2
    <3>3. CASE k = Len(w) + 1
      <4>1. ~command
        BY <2>1, <2>4, <2>7, <3>1, <3>3 DEF IsIcw
      <4>2. PhaseAfter(w) = "PHASE2"
        <5>1. IsIcw(Append(w, r), Len(w) + 1, 3)
          BY <2>4, <2>7, <3>3
        <5>2. IsIcw(Append(w, r), Len(w) + 1, 3) <=> PhaseAfter(w) = "PHASE2"
          BY <2>1, <3>1, <4>1, DataPlaces
        <5> QED BY <5>1, <5>2
      <4>3. chip.phase = "PHASE2"
        BY <2>3, <4>2, ChipParts
      <4>4. dx = CascadeId(c)
        BY <1>2, <4>1, <4>3 DEF PicDataOk
      <4> QED BY <2>1, <2>4, <3>1, <3>3, <4>4
    <3> QED BY <2>4, <3>1, <3>2, <3>3
  <2> QED BY <2>4, <2>5, <2>6, <2>7 DEF ChipsFollowTheirWrites
<1> QED BY <1>1, <1>2 DEF handle_pic_out

\* Every step of the guest keeps the chips in step with their logs.
LEMMA ChipsStep ==
    ASSUME Registers, ChipsFollowTheirWrites, [Next]_vars
    PROVE  ChipsFollowTheirWrites'
<1>1. CASE GuestIo
  <2>1. Data \subseteq Byte
    BY DataBytes DEF Registers
  <2>2. ASSUME NEW port, NEW width, GuestIn(port, width)
        PROVE  ChipsFollowTheirWrites'
    BY <2>2, InType, ChipsUntouched DEF Registers, TypeOK
  <2>3. ASSUME NEW port, NEW width, NEW dx \in Byte, GuestOut(port, width, dx)
        PROVE  ChipsFollowTheirWrites'
    <3>1. CASE UNCHANGED ioioVars \/ svm_vcpu_abort
      BY <3>1, ChipsUntouched DEF ioioVars, svm_vcpu_abort
    <3>2. CASE \E c \in Chips : handle_pic_out(c, port, width, dx)
      BY <3>2, ChipsPicOut DEF Registers, TypeOK
    <3>3. CASE handle_serial_out(port, dx)
      BY <3>3, SerialOutType, ChipsUntouched DEF Registers, TypeOK
    <3> QED BY <2>3, <3>1, <3>2, <3>3 DEF GuestOut, handle_ioio_out
  <2> QED BY <1>1, <2>1, <2>2, <2>3 DEF GuestIo, IoioNext
<1>2. CASE ~GuestIo
  <2>1. UNCHANGED <<ioio, log>>
    BY <1>2 DEF Next, GuestCpuid, handle_svm_cpuid_exit, GuestRdmsr, handle_rdmsr,
                GuestWrmsr, handle_wrmsr, svm_vcpu_abort, vars, ioioVars
  <2> QED BY <2>1, ChipsUntouched
<1> QED BY <1>1, <1>2

\* Whatever the order in which a guest programs the two chips, breaks off an
\* initialization or starts it again, and however many writes there are, each
\* emulated chip holds the mask, the vector base and the phase that its own writes
\* call for (svm_ioio.c:290-384).
THEOREM ChipsFollowCorrect == Spec => []ChipsFollowTheirWrites
<1>1. Registers /\ ChipsFollowTheirWrites /\ [Next]_vars => ChipsFollowTheirWrites'
  BY ChipsStep
<1> QED BY <1>1, RegistersCorrect, ChipsInit, PTL DEF Spec

\* A byte read from a data port that succeeds returns the mask of that chip.
LEMMA PicReadsMask ==
    ASSUME NEW c \in Chips, GuestIn(PicDataPort(c), 8), ~aborted'
    PROVE  got' = ioio.pic[c].mask
<1> DEFINE port == PicDataPort(c)
<1>1. port \in {33, 161} /\ (c = "primary" <=> port = 33)
  BY DEF PicDataPort, Chips
<1>2. port \in Int
  BY <1>1
<1>3. Intercepted(port, 8)
  <2>1. port \notin UnmaskedInIopm
    BY <1>1 DEF UnmaskedInIopm, PitPorts
  <2> QED BY <1>2, <2>1, ByteIntercepted
<1>4. ~svm_vcpu_abort
  BY DEF svm_vcpu_abort
<1>5. \A d \in Chips : port \in {PicCommandPort(d), PicDataPort(d)} => d = c
  BY <1>1 DEF PicCommandPort, PicDataPort, Chips
<1> HIDE DEF port
<1>6. port \notin PitPorts /\ port \notin SerialPorts /\ ~ReadsAsZero(port) /\ ~Ignored(port)
  <2>1. port \in Int /\ (port = 33 \/ port = 161)
    BY <1>1, <1>2
  <2>2. port \notin PitPorts /\ port \notin SerialPorts
    BY <2>1, SMT DEF PitPorts, SerialPorts
  <2>3. ~ReadsAsZero(port)
    BY <2>1, SMT DEF ReadsAsZero
  <2>4. ~Ignored(port)
    <3>1. CASE port = 33
      BY <3>1 DEF Ignored
    <3>2. CASE port = 161
      BY <3>2 DEF Ignored
    <3> QED BY <2>1, <3>1, <3>2
  <2> QED BY <2>2, <2>3, <2>4
<1>7. handle_pic_in(c, port, 8)
  BY <1>3, <1>4, <1>5, <1>6 DEF GuestIn, handle_ioio_in, port
<1> QED BY <1>4, <1>7 DEF handle_pic_in

\* A byte read from one of the two registers of the serial port returns it.
LEMMA SerialReadsRegister ==
    ASSUME NEW port \in {1017, 1020}, GuestIn(port, 8)
    PROVE  got' = IF port = 1017 THEN ioio.ier ELSE ioio.mcr
<1>1. Intercepted(port, 8)
  <2>1. port \notin UnmaskedInIopm /\ port \in Int
    BY DEF UnmaskedInIopm, PitPorts
  <2> QED BY <2>1, ByteIntercepted
<1>2. /\ \A d \in Chips : port \notin {PicCommandPort(d), PicDataPort(d)}
      /\ port \notin PitPorts /\ ~ReadsAsZero(port) /\ ~Ignored(port)
  <2>1. port \in Int /\ (port = 1017 \/ port = 1020)
    OBVIOUS
  <2>2. \A d \in Chips : port \notin {PicCommandPort(d), PicDataPort(d)}
    BY <2>1 DEF PicCommandPort, PicDataPort
  <2>3. port \notin PitPorts
    BY <2>1, SMT DEF PitPorts
  <2>4. ~ReadsAsZero(port)
    BY <2>1, SMT DEF ReadsAsZero
  <2>5. ~Ignored(port)
    <3>1. CASE port = 1017
      BY <3>1 DEF Ignored
    <3>2. CASE port = 1020
      BY <3>2 DEF Ignored
    <3> QED BY <2>1, <3>1, <3>2
  <2> QED BY <2>2, <2>3, <2>4, <2>5
<1>3. ~Unknown(port)
  BY DEF Unknown, SerialPorts
<1>4. handle_serial_in(port)
  BY <1>1, <1>2, <1>3 DEF GuestIn, handle_ioio_in
<1> QED BY <1>4 DEF handle_serial_in

\* What a guest reads back is what it last wrote, for every guest: the masks of the
\* two chips, the control registers of the serial port, and EFER
\* (svm_ioio.c:138-150, 244-276, svm_msr.c:24-72, bits.h:53-55).
THEOREM ReadsBackCorrect == Spec => ReadsBack
<1> DEFINE Back == PortReadsBack /\ (GuestRdmsr("EFER", 0) => read' = written.efer)
<1>1. ASSUME Registers, ChipsFollowTheirWrites
      PROVE  Back
  <2>1. ASSUME NEW c \in Chips, GuestIn(PicDataPort(c), 8), ~aborted'
        PROVE  got' = ChipAfter(log[c]).mask
    BY <1>1, <2>1, PicReadsMask DEF ChipsFollowTheirWrites
  <2>2. ASSUME NEW r \in DOMAIN last, GuestIn(r, 8)
        PROVE  got' = last[r]
    <3>1. r \in {1017, 1020}
      BY <1>1 DEF Registers, SerialKept
    <3> QED BY <1>1, <2>2, <3>1, SerialReadsRegister DEF Registers, SerialKept
  <2>3. GuestRdmsr("EFER", 0) => read' = written.efer
    BY <1>1 DEF GuestRdmsr, handle_rdmsr, Registers, EferKept
  <2> QED BY <2>1, <2>2, <2>3 DEF PortReadsBack
<1>2. Registers /\ ChipsFollowTheirWrites => [Back]_vars
  BY <1>1
<1> QED BY <1>2, RegistersCorrect, ChipsFollowCorrect, PTL DEF ReadsBack

=============================================================================
