--------------------------- MODULE MCPageAllocator ---------------------------
(* Instances of PageAllocator for TLC: 10 frames.                          *)
EXTENDS PageAllocator

D(type, start, pages) == [type |-> type, start |-> start, pages |-> pages]

\* Maps in ascending order: firmware memory in the middle and at the end, a
\* hole, memory that starts at frame 0, memory that ends at or crosses the
\* limit, memory beyond it, nothing usable.
MCSortedMaps == {
    <<D("Conventional", 0, 4), D("Other", 4, 1), D("Conventional", 5, 4)>>,
    <<D("Other", 0, 1), D("BootServicesCode", 1, 3), D("Conventional", 6, 3)>>,
    <<D("Conventional", 1, 5), D("Conventional", 6, 6)>>,
    <<D("Conventional", 2, 5), D("Other", 12, 3)>>,
    <<D("Other", 0, 3), D("Other", 3, 9)>> }

\* Maps that go back and forth.
MCUnsortedMaps == {
    <<D("Conventional", 4, 3), D("Other", 0, 2), D("Conventional", 8, 1)>>,
    <<D("Conventional", 7, 2), D("Conventional", 0, 3), D("Other", 4, 2)>>,
    <<D("Other", 5, 1), D("Conventional", 1, 3), D("Other", 4, 1),
      D("Conventional", 7, 2), D("Other", 6, 1)>>,
    <<D("Other", 8, 1), D("Other", 6, 1), D("Other", 4, 1), D("Other", 1, 1),
      D("Conventional", 3, 1)>> }

MCMaps == MCSortedMaps \cup MCUnsortedMaps

=============================================================================
