\* One question: do the tables in force belong to YmirC in the end?
CONSTANTS
    Entries = 4
    DirectMapIndex = 1
    DirectMapEntries = 1
    Memory = {30}
    GuestStarts = {0}
    HostStarts = {0}
    Sizes = {0}
    Firmware <- MCFirmware
    Kernels <- MCKernels
    KERNEL_BASE <- MCKernelBase
    Installed <- MCInstalled
SPECIFICATION Spec
INVARIANT TablesCloned
