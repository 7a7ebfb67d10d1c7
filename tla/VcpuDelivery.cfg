\* A guest that does not disable interrupts, program a chip or halt in the shadow
\* of an STI.
CONSTANTS
    Lines = {0, 4}
    NoIrq = NoIrq
    FirmwareMasks <- MCAllMasked
    GuestChips = {"primary"}
    GuestBytes = {4, 17}
    GuestCodes = {"CPUID"}
    ShadowInsns = {"nop", "other"}
SPECIFICATION LiveSpec
INVARIANT NoIrqLost
INVARIANT NoIrqDuplicated
PROPERTY ImplementsChannel
PROPERTY HaltedGuestWakes
PROPERTY OwedTimerDelivered
PROPERTY TickNoted
