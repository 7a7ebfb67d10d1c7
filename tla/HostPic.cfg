\* pic.c with the lines of the primary chip only.
CONSTANTS
    Lines = {0, 1, 4, 7}
    NoIrq = NoIrq
SPECIFICATION PicLiveSpec
INVARIANT NothingLeftInService
PROPERTY HighestRequestServed
