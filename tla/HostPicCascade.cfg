\* pic.c with a line of the secondary chip.
CONSTANTS
    Lines = {0, 4, 8}
    NoIrq = NoIrq
SPECIFICATION PicSpec
INVARIANT NothingLeftInService
