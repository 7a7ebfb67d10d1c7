\* A guest that opens a one-instruction interrupt window with STI; CLI.
CONSTANTS
    Lines = {0, 4}
    NoIrq = NoIrq
    FirmwareMasks <- MCAllMasked
    GuestChips = {"primary"}
    GuestBytes = {1, 4, 17}
    GuestCodes = {"CPUID", "MSR", "VMMCALL", "OTHER"}
    ShadowInsns = {"nop", "cli"}
SPECIFICATION Spec
INVARIANT NoIrqDuplicated
