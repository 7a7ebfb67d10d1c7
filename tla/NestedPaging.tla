---------------------------- MODULE NestedPaging ----------------------------
(***************************************************************************)
(* ymirc/arch/x86/svm_npt.c: init_npt maps the guest's physical memory to   *)
(* the host memory that was allocated for it, one 2 MiB page at a time.    *)
(* These are the steps of one call; HostPaging makes it.                   *)
(***************************************************************************)
EXTENDS PageTables

CONSTANTS GuestStarts, HostStarts,   \* arguments of init_npt, in 2 MiB pages
          Sizes                      \* and in 4 KiB pages

Space == Span(4)     \* the guest's address space, in 2 MiB pages

\* The guest's memory does not wrap around.
ASSUME NestedAssumption ==
    /\ GuestStarts \subseteq Nat /\ HostStarts \subseteq Nat /\ Sizes \subseteq Nat
    /\ \A g \in GuestStarts, s \in Sizes : g + (s \div Span(2)) <= Space

VARIABLES guest_start, host_start, size,
          npt,            \* lv4tbl of init_npt, 0 as long as there is none
          i, pc

arguments == <<guest_start, host_start, size>>
nested_vars == <<arguments, npt>>

NestedPlaces == {"init_npt", "lv4", "lv3", "lv2", "panic_mapped"}

\* The 4 KiB page with which a 2 MiB page begins.
Page(p) == p * Span(2)

\* The 2 MiB pages that the loop maps: a rest that does not fill one is left out.
Pages == size \div Span(2)

gpa == Page(guest_start + i)

npt_page_entry(phys) ==
    [flags |-> {"PRESENT", "RW", "US", "PS"}, phys |-> phys]

npt_table_entry(tbl) ==
    [flags |-> {"PRESENT", "RW", "US"}, phys |-> tbl]

-----------------------------------------------------------------------------

\* The condition of the loop of init_npt.
LoopHead(k) == IF k < Pages THEN "lv4" ELSE "done"

\* allocate_table, and what becomes of the tables with the new one.
allocate_table(with, next) ==
    \/ /\ Len(tables) < memory
       /\ tables' = with
       /\ pc' = next
    \/ /\ Len(tables) >= memory
       /\ pc' = "panic"
       /\ UNCHANGED tables

AllocateLv4 ==
    /\ pc = "init_npt"
    /\ allocate_table(Append(tables, EmptyTable), LoopHead(0))
    /\ npt' = IF pc' = "panic" THEN 0 ELSE Len(tables) + 1
    /\ i' = 0
    /\ UNCHANGED arguments

\* The entry of tbl for the address is given a new table of the next level.
NewTableFor(tbl, level, next) ==
    allocate_table(SetEntry(Append(tables, EmptyTable), tbl, IndexAt(gpa, level),
                            npt_table_entry(Len(tables) + 1)),
                   next)

\* ... if it has none.
EnsureTable(tbl, level, next) ==
    \/ /\ Present(tables[tbl][IndexAt(gpa, level)])
       /\ pc' = next
       /\ UNCHANGED tables
    \/ /\ ~Present(tables[tbl][IndexAt(gpa, level)])
       /\ NewTableFor(tbl, level, next)

lv3tbl == tables[npt][IndexAt(gpa, 4)].phys
lv2tbl == tables[lv3tbl][IndexAt(gpa, 3)].phys

MapLv4 ==
    /\ pc = "lv4"
    /\ EnsureTable(npt, 4, "lv3")
    /\ UNCHANGED <<nested_vars, i>>

MapLv3 ==
    /\ pc = "lv3"
    /\ EnsureTable(lv3tbl, 3, "lv2")
    /\ UNCHANGED <<nested_vars, i>>

\* Faulty variant: every page of the guest is given the first page.
Faulty_hpa == Page(host_start)

hpa == Page(host_start + i)

\* The last step of map2m; the panic is never reached (MapsGuestExactly).
MapLv2 ==
    LET k == IndexAt(gpa, 2)
        mapped == Present(tables[lv2tbl][k])
    IN  /\ pc = "lv2"
        /\ tables' = IF mapped THEN tables
                     ELSE SetEntry(tables, lv2tbl, k,
                                   npt_page_entry(hpa))
        /\ i' = IF mapped THEN i ELSE i + 1
        /\ pc' = IF mapped THEN "panic_mapped" ELSE LoopHead(i + 1)
        /\ UNCHANGED nested_vars

NestedInit ==
    /\ guest_start = 0
    /\ host_start = 0
    /\ size = 0
    /\ npt = 0

\* setup_guest_memory calls init_npt.
CallInitNpt ==
    /\ guest_start' \in GuestStarts
    /\ host_start' \in HostStarts
    /\ size' \in Sizes
    /\ pc' = "init_npt"
    /\ UNCHANGED <<tables, npt, i>>

NestedNext == AllocateLv4 \/ MapLv4 \/ MapLv3 \/ MapLv2

\* The types of the variables; the loop does not run past its bound.
NestedTypeOK ==
    /\ guest_start \in GuestStarts \cup {0}
    /\ host_start \in HostStarts \cup {0}
    /\ size \in Sizes \cup {0}
    /\ npt \in {0} \cup DOMAIN tables
    /\ npt # 0 => i \in 0 .. Pages

-----------------------------------------------------------------------------

\* The processor makes a nested walk as a user access that may write: every
\* entry on the way to a page must let it.
Grants(e) == Present(e) => {"US", "RW"} \subseteq e.flags

\* At every moment exactly the pages mapped so far are reachable for the guest,
\* every address in them at its own place in the guest's memory, and nothing
\* else: it gets no window into the rest of the host.  The loop never meets a
\* page that it has mapped (svm_npt.c:64-141).
MapsGuestExactly ==
    /\ pc # "panic_mapped"
    /\ npt # 0 =>
          /\ \A p \in 0 .. Space - 1, off \in 0 .. Span(2) - 1 :
                Translate(tables, npt, Page(p) + off) =
                    IF p \in guest_start .. guest_start + i - 1
                    THEN Page(host_start + (p - guest_start)) + off
                    ELSE Fault
          /\ \A t \in npt .. Len(tables), k \in Index : Grants(tables[t][k])

=============================================================================
