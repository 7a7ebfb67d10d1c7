\* A guest that does anything in the shadow of an STI.
CONSTANTS
    Lines = {0, 4}
    NoIrq = NoIrq
    FirmwareMasks <- MCFirmwareMasks
    GuestChips = {"primary"}
    GuestBytes = {1, 4, 17}
    GuestCodes = {"CPUID", "MSR", "VMMCALL", "OTHER"}
    ShadowInsns = {"nop", "sti", "cli", "hlt", "io", "other"}
SPECIFICATION Spec
INVARIANT TypeOK
INVARIANT InjectionNotInterrupted
INVARIANT NoUnhandledLine
INVARIANT NoStaleTranslation
