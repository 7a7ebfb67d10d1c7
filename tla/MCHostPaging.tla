---------------------------- MODULE MCHostPaging ----------------------------
(***************************************************************************)
(* Small instances of HostPaging: tables of four entries, the low addresses *)
(* in entry 0 of the root, the direct map in entry 1, the kernel in entry 3.*)
(***************************************************************************)
EXTENDS HostPaging

Leaf(phys) == [flags |-> {"PRESENT", "RW", "PS"}, phys |-> phys]
Link(tbl) == [flags |-> {"PRESENT", "RW"}, phys |-> tbl]

\* A table with the entries of f, and no others.
With(f) == [k \in Index |-> IF k \in DOMAIN f THEN f[k] ELSE NoEntry]

\* All memory at its own address, in 1 GiB pages ...
GiB == <<With([k \in {0} |-> Link(2)]),
         [k \in Index |-> Leaf(k * Span(3))]>>

\* ... or in 2 MiB pages.
MiB == <<With([k \in {0} |-> Link(2)]), [k \in Index |-> Link(3 + k)]>> \o
       [n \in 1 .. Entries |-> [k \in Index |-> Leaf((n - 1) * Span(3) + k * Span(2))]]

\* A firmware that has mapped something above the direct map itself: a 1 GiB
\* page, and the second page of what is the kernel's region.  It maps the memory
\* that there is and no more.
High == <<With(0 :> Link(2) @@ 2 :> Link(3) @@ 3 :> Link(4)),
          With([k \in 0 .. 2 |-> Leaf(k * Span(3))]),
          With([k \in {0} |-> Leaf(0)]),
          With([k \in {2} |-> Link(5)]),
          With([k \in {0} |-> Link(6)]),
          With([k \in {1} |-> Leaf(1)])>>

\* The last of the 1 GiB pages has no memory.
MCInstalled == 0 .. 3 * Span(3) - 1

MCFirmware == {GiB, MiB, High}

\* Images in one table of level 1, in two, and in two of level 2.
MCKernels ==
    {[start |-> 4, attrs |-> <<"executable", "read_write">>],
     [start |-> 1, attrs |-> <<"executable", "read_only", "read_write", "read_write">>],
     [start |-> 15, attrs |-> <<"executable", "read_write">>]}

MCKernelBase == 3 * Span(4) + 2 * Span(3)

=============================================================================
