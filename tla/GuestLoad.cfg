\* A machine of thirteen pages, and a firmware that changes its memory map twice.
CONSTANTS
    PageSize = 4
    FrameCount = 13
    FirmwareTypes <- MCFirmwareTypes
    Kernels <- MCKernels
    Guests <- MCGuests
    Initrds = {1, 3}
    MapBuffer = 6
    MaxKey = 2
    GUEST_MEMORY_SIZE = 10
    LINUX_LAYOUT_BOOTPARAM = 0
    LINUX_LAYOUT_CMDLINE = 1
    LINUX_LAYOUT_KERNEL_BASE = 4
    LINUX_LAYOUT_INITRD = 8
    BootParamsSize = 1
    CmdlineLimit = 3
    KERNEL_CMDLINE_LEN = 2
    Sector = 1
    Word = 64
SPECIFICATION Spec
INVARIANT TypeOK
INVARIANT MapIsCurrent
INVARIANT NeededMemoryKept
INVARIANT GuestGetsItsImages
PROPERTY OneChangeSurvived
