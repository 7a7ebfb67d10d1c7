\* Two bins of a page of four units; sizes at the edge of every bin and of a page.
CONSTANTS
    PageUnits = 4
    BinSizes <- MCBinSizes
    Pages = {1, 2}
    Requests = {0, 1, 2, 4, 5}
    MaxLive = 3
SPECIFICATION Spec
INVARIANT TypeOK
INVARIANT ListsIntact
INVARIANT BlocksDisjoint
INVARIANT FreeMeansFree
INVARIANT NothingLeaked
