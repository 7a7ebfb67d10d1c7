\* A guest whose idle loop is STI; HLT.
CONSTANTS
    Lines = {0, 4}
    NoIrq = NoIrq
    FirmwareMasks <- MCAllMasked
    GuestChips = {"primary"}
    GuestBytes = {1, 4, 17}
    GuestCodes = {"CPUID", "MSR", "VMMCALL", "OTHER"}
    ShadowInsns = {"nop", "hlt"}
SPECIFICATION Spec
INVARIANT NoIrqLost
