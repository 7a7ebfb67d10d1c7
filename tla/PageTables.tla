----------------------------- MODULE PageTables -----------------------------
(***************************************************************************)
(* Page tables in memory, and the walk that the processor makes through     *)
(* them: the state that ymirc/arch/x86/svm_npt.c, ymirc/arch/x86/page.c and *)
(* surtrc/arch/x86/page.c build.                                           *)
(*                                                                         *)
(* tables holds every table there is; a table is named by its position.     *)
(* An allocator hands out memory that nobody holds (module PageAllocator),  *)
(* so a new table gets a new name, until there is no memory for one more.   *)
(* Addresses are counted in 4 KiB pages; a table of any of the four levels  *)
(* has Entries entries.                                                    *)
(***************************************************************************)
EXTENDS Integers, Sequences

CONSTANTS Entries,      \* NUM_TABLE_ENTRIES
          Memory        \* how many tables there may be memory for

ASSUME TablesAssumption == Entries \in Nat \ {0} /\ Memory \subseteq Nat

VARIABLES tables,
          memory        \* for how many tables there is memory

Index == 0 .. Entries - 1

\* The bits of an entry that matter here, and what it points to: the name of a
\* table, or the first page of what it maps.
Flags == {"PRESENT", "RW", "US", "PS", "XD"}
Entry == [flags : SUBSET Flags, phys : Nat]
Table == [Index -> Entry]

NoEntry == [flags |-> {}, phys |-> 0]
EmptyTable == [k \in Index |-> NoEntry]

Present(e) == "PRESENT" \in e.flags

\* The entry leads to a table of the next level (above level 1).
LeadsOn(e) == Present(e) /\ "PS" \notin e.flags

\* How many pages an entry of the level covers.
Span(level) == <<1, Entries, Entries * Entries, Entries * Entries * Entries>>[level]

\* get_entry_address: the index of the address in a table of the level.
IndexAt(addr, level) == (addr \div Span(level)) % Entries

\* tbls with one entry replaced.
SetEntry(tbls, tbl, k, e) == [tbls EXCEPT ![tbl][k] = e]

-----------------------------------------------------------------------------

\* An entry that the walk has met, and its level.
Met(e, level) == [entry |-> e, level |-> level]

\* One level down, unless the walk has ended in a page or in nothing.  At
\* level 1 every entry is a page: the bit that is PS above has another meaning.
Down(tbls, m, addr) ==
    IF LeadsOn(m.entry) /\ m.level > 1
    THEN Met(tbls[m.entry.phys][IndexAt(addr, m.level - 1)], m.level - 1)
    ELSE m

WalkEnd(tbls, root, addr) ==
    LET m4 == Met(tbls[root][IndexAt(addr, 4)], 4)
        m3 == Down(tbls, m4, addr)
        m2 == Down(tbls, m3, addr)
    IN  Down(tbls, m2, addr)

Fault == -1

\* The page that the address is translated to.
Translate(tbls, root, addr) ==
    LET m == WalkEnd(tbls, root, addr)
    IN  IF Present(m.entry) THEN m.entry.phys + (addr % Span(m.level)) ELSE Fault

\* The tables to which the entries of the tables in ts lead.
Below(tbls, ts) ==
    {tbls[tk[1]][tk[2]].phys : tk \in
         {x \in ts \X Index : LeadsOn(tbls[x[1]][x[2]])}}

=============================================================================
