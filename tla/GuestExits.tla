----------------------------- MODULE GuestExits -----------------------------
(***************************************************************************)
(* What a guest sees of the machine: the port accesses of SvmIoio, CPUID    *)
(* (svm_cpuid.c) and the model-specific registers (svm_msr.c), all of which *)
(* are intercepted (setup_vmcb_msr).                                       *)
(*                                                                         *)
(* A register of the guest is a pair of an upper and a lower half.  The     *)
(* handlers select by the whole register, concat_64 takes the lower halves. *)
(* A half is a byte here, and a word of feature bits a set of names.  The   *)
(* TLB flush that an EFER write asks for is in module Vcpu; the bit of EFER *)
(* that the processor itself sets when the guest enters long mode is left   *)
(* out.                                                                    *)
(***************************************************************************)
EXTENDS SvmIoio

\* The bit fields of cpuid.h.
CpuidStdFeatureInfoEdx ==
    {"fpu", "vme", "de", "pse", "tsc", "msr", "pae", "mce", "cmpxchg8b", "apic",
     "sysentersysexit", "mtrr", "pge", "mca", "cmov", "pat", "pse36", "clfsh",
     "mmx", "fxsr", "sse", "sse2", "htt"}
CpuidExtFeatureInfoEdx ==
    {"fpu", "vme", "de", "pse", "tsc", "msr", "pae", "mce", "cmpxchg8b", "apic",
     "syscallsysret", "mtrr", "pge", "mca", "cmov", "pat", "pse36", "nx",
     "mmxext", "mmx", "fxsr", "ffxsr", "page1gb", "rdtscp", "lm",
     "threednowext", "threednow"}

\* The leaves that handle_svm_cpuid_exit knows, and any other.
Leaves == {"0", "1", "6", "7", "d", "80000000", "80000001", "other"}

\* The registers that handle_wrmsr stores, those that handle_rdmsr reads, and
\* some that neither knows.
Msrs == {"SYSENTER_CS", "SYSENTER_ESP", "SYSENTER_EIP", "EFER", "STAR", "LSTAR",
         "CSTAR", "SF_MASK", "FS_BASE", "GS_BASE", "KERNEL_GS_BASE", "TSC_AUX",
         "APIC_BASE", "TSC", "MTRR", "MCG", "PAT"}

\* A program further has the leaves that it asks for, the registers that it
\* accesses, a bound on its WRMSRs, and what edx of the host's own leaf
\* 0x80000001 may say.
ASSUME GuestExitsAssumption ==
    \A p \in Programs : /\ p.leaves \subseteq Leaves
                        /\ p.msrs \subseteq Msrs
                        /\ p.wrmsrs \in Nat
                        /\ p.hosts \subseteq SUBSET CpuidExtFeatureInfoEdx

VARIABLES
    host,       \* edx of the host's leaf 0x80000001
    save,       \* the registers that the guest has written: VMCB, and TSC_AUX
    told,       \* the features that each leaf showed to the guest (history)
    read,       \* what the last RDMSR returned (history)
    written     \* how many WRMSRs there were; the last value of EFER (history)

msrVars == <<host, save, told, read, written>>
vars == <<ioioVars, msrVars>>

\* The table f with the entry v for x.
Put(f, x, v) == [y \in DOMAIN f \cup {x} |-> IF y = x THEN v ELSE f[y]]

Value == Byte \X Byte

TypeOK ==
    /\ IoioTypeOK
    /\ DOMAIN save \subseteq Msrs /\ \A m \in DOMAIN save : save[m] \in Value
    /\ DOMAIN told \subseteq {"1", "7", "80000001"}
    /\ read \in Value
    /\ written.count \in Nat /\ written.efer \in Value

-----------------------------------------------------------------------------
(* handle_svm_cpuid_exit                                                   *)

std_feature_info_edx ==
    {"fpu", "vme", "de", "pse", "msr", "pae", "cmpxchg8b", "sysentersysexit",
     "pge", "cmov", "pse36", "fxsr", "sse", "sse2"}

ext_feature0_ebx == {"smep", "invpcid", "smap"}

\* Faulty variant: the host's time stamp counter shows through.
Faulty_get_ext_feature_info_edx(orig) ==
    (orig \ {"mce", "apic", "mtrr", "mca", "pat", "mmxext", "mmx"})
    \cup {"fpu", "vme", "de", "pse", "msr", "pae", "cmpxchg8b", "pge", "cmov",
          "pse36", "fxsr"}

get_ext_feature_info_edx(orig) ==
    (orig \ {"tsc", "mce", "apic", "mtrr", "mca", "pat", "mmxext", "mmx"})
    \cup {"fpu", "vme", "de", "pse", "msr", "pae", "cmpxchg8b", "pge", "cmov",
          "pse36", "fxsr"}

\* Leaves with numbers that the guest is free to ask for and that stop it.
CpuidAborts(leaf, rcx) ==
    \/ leaf = "7" /\ rcx \notin {<<0, n>> : n \in 0 .. 2}
    \/ leaf = "d" /\ rcx # <<0, 1>>

\* The features that an answer shows, in edx or, for leaf 7, in ebx.
Shown(leaf, rcx) ==
    CASE leaf = "1" -> std_feature_info_edx
      [] leaf = "7" -> IF rcx = <<0, 0>> THEN ext_feature0_ebx ELSE {}
      [] leaf = "80000001" -> get_ext_feature_info_edx(host)

\* A dirty upper half of rax makes a number that no case has.
handle_svm_cpuid_exit(number, upper, rcx) ==
    LET leaf == IF upper = 0 THEN number ELSE "other"
    IN  \/ CpuidAborts(leaf, rcx) /\ svm_vcpu_abort /\ UNCHANGED msrVars
        \/ /\ ~CpuidAborts(leaf, rcx)
           /\ told' = IF leaf \in {"1", "7", "80000001"}
                      THEN Put(told, leaf, Shown(leaf, rcx)) ELSE told
           /\ UNCHANGED <<ioioVars, host, save, read, written>>

-----------------------------------------------------------------------------
(* handle_svm_msr_exit                                                     *)

\* Faulty variant: the upper half of b is not masked.
Faulty_concat_64(a, b) == <<IF b[1] = 0 THEN a[2] ELSE b[1], b[2]>>

concat_64(a, b) == <<a[2], b[2]>>

AllOnes == <<255, 255>>

handle_rdmsr(m, upper) ==
    LET known == upper = 0 /\ m \in {"APIC_BASE", "EFER"}
    IN  \/ /\ known
           /\ read' = IF m = "EFER" THEN save["EFER"] ELSE AllOnes
           /\ UNCHANGED <<ioioVars, host, save, told, written>>
        \/ ~known /\ svm_vcpu_abort /\ UNCHANGED msrVars

\* Faulty variant: the register behind RDTSCP is forgotten.
Faulty_Writable ==
    {"SYSENTER_CS", "SYSENTER_ESP", "SYSENTER_EIP", "EFER", "STAR", "LSTAR",
     "CSTAR", "SF_MASK", "FS_BASE", "GS_BASE", "KERNEL_GS_BASE"}

Writable ==
    {"SYSENTER_CS", "SYSENTER_ESP", "SYSENTER_EIP", "EFER", "STAR", "LSTAR",
     "CSTAR", "SF_MASK", "FS_BASE", "GS_BASE", "KERNEL_GS_BASE", "TSC_AUX"}

handle_wrmsr(m, upper, rdx, rax) ==
    LET known == upper = 0 /\ m \in Writable
    IN  \/ /\ known
           /\ save' = Put(save, m, concat_64(rdx, rax))
           /\ written' = [count |-> written.count + 1,
                          efer |-> IF m = "EFER" THEN <<rdx[2], rax[2]>> ELSE written.efer]
           /\ UNCHANGED <<ioioVars, host, told, read>>
        \/ ~known /\ svm_vcpu_abort /\ UNCHANGED msrVars

-----------------------------------------------------------------------------
(* The guest.  It may leave the upper half of a register dirty.            *)

Upper == {0, 1}

GuestCpuid(leaf, upper, rcx) ==
    ~aborted /\ handle_svm_cpuid_exit(leaf, upper, rcx)

GuestRdmsr(m, upper) == ~aborted /\ handle_rdmsr(m, upper)

GuestWrmsr(m, upper, rdx, rax) ==
    /\ ~aborted
    /\ written.count < program.wrmsrs
    /\ handle_wrmsr(m, upper, rdx, rax)

\* setup_vmcb: EFER has only the bit SVME, which is 16 here.
Init ==
    /\ IoioInit
    /\ host \in program.hosts
    /\ save = [m \in {"EFER"} |-> <<0, 16>>]
    /\ told = <<>>
    /\ read = <<0, 0>>
    /\ written = [count |-> 0, efer |-> <<0, 16>>]

GuestIo == IoioNext /\ UNCHANGED msrVars

Next ==
    \/ GuestIo
    \/ \E upper \in Upper :
          \/ \E leaf \in program.leaves, rcx \in Upper \X (0 .. 3) :
                GuestCpuid(leaf, upper, rcx)
          \/ \E m \in program.msrs :
                \/ GuestRdmsr(m, upper)
                \/ \E rdx, rax \in Upper \X Data : GuestWrmsr(m, upper, rdx, rax)

Spec == Init /\ [][Next]_vars

-----------------------------------------------------------------------------

\* What the guest reads back is what it last wrote, also when the registers that
\* it wrote it from had dirty upper halves: the masks of the two chips, the
\* control registers of the serial port, and EFER, which travels through the
\* lower halves of rdx and rax in both directions (svm_ioio.c:138-150, 244-276,
\* svm_msr.c:24-72, bits.h:53-55).
ReadsBack ==
    [][/\ PortReadsBack
       /\ GuestRdmsr("EFER", 0) => read' = written.efer]_vars

\* The two leaves with feature bits never contradict each other, whatever the
\* host has: a guest that looks at either gets the same answer about a feature
\* that both have (svm_cpuid.c:58-88).
FeatureLeavesAgree ==
    {"1", "80000001"} \subseteq DOMAIN told =>
        \A f \in CpuidStdFeatureInfoEdx \cap CpuidExtFeatureInfoEdx :
            f \in told["1"] <=> f \in told["80000001"]

\* The registers with which a feature is set up, by the processor's manual.
RegistersOf(feature) ==
    CASE feature = "sysentersysexit" -> {"SYSENTER_CS", "SYSENTER_ESP", "SYSENTER_EIP"}
      [] feature = "syscallsysret" -> {"EFER", "STAR", "LSTAR", "CSTAR", "SF_MASK"}
      [] feature = "lm" -> {"EFER", "FS_BASE", "GS_BASE", "KERNEL_GS_BASE"}
      [] feature \in {"nx", "ffxsr"} -> {"EFER"}
      [] feature = "rdtscp" -> {"TSC_AUX"}
      [] feature = "tsc" -> {"TSC"}
      [] feature = "apic" -> {"APIC_BASE"}
      [] feature = "mtrr" -> {"MTRR"}
      [] feature = "pat" -> {"PAT"}
      [] feature \in {"mce", "mca"} -> {"MCG"}
      [] OTHER -> {}

\* A guest that sets up a feature which CPUID has shown to it is never stopped
\* for it: what svm_cpuid.c advertises or lets through from the host, in edx and
\* in leaf 7, svm_msr.c lets the guest write (svm_cpuid.c:8-30, 58-88,
\* svm_msr.c:50-104).
AdvertisedMsrsWork ==
    [][aborted' =>
         \A m \in program.msrs : \A rdx, rax \in Upper \X Data :
            (\E leaf \in DOMAIN told : \E f \in told[leaf] : m \in RegistersOf(f))
                => ~GuestWrmsr(m, 0, rdx, rax)]_vars

=============================================================================
