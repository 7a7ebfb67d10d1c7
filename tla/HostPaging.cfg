\* Enough memory, and every way of running out of it.
CONSTANTS
    Entries = 4
    DirectMapIndex = 1
    DirectMapEntries = 1
    Memory = {2, 3, 5, 6, 7, 8, 9, 11, 12, 13, 14, 15, 18, 30}
    GuestStarts = {0, 3, 15}
    HostStarts = {9}
    Sizes = {0, 7, 10, 21}
    Firmware <- MCFirmware
    Kernels <- MCKernels
    KERNEL_BASE <- MCKernelBase
    Installed <- MCInstalled
SPECIFICATION Spec
INVARIANT TypeOK
INVARIANT KernelStaysMapped
INVARIANT AddressesConvert
INVARIANT MappingExact
INVARIANT MapsGuestExactly
