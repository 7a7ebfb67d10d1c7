-------------------------- MODULE HostPagingProofs --------------------------
(***************************************************************************)
(* Theorems about HostPaging, for tables of every size, every firmware that *)
(* FirmwareAssumption allows, every kernel image and every guest.           *)
(***************************************************************************)
EXTENDS HostPaging, NaturalsInduction, WellFoundedInduction, TLAPS

-----------------------------------------------------------------------------
(* Addresses and indices.                                                  *)

\* Division by a positive number.
LEMMA Parts ==
    ASSUME NEW e \in Nat \ {0}, NEW v \in Nat
    PROVE  /\ v = (v \div e) * e + (v % e)
           /\ v \div e \in Nat
           /\ v % e \in 0 .. e - 1
OBVIOUS

\* Quotient and remainder are determined by the sum.
LEMMA Unique ==
    ASSUME NEW e \in Nat \ {0}, NEW q \in Nat, NEW r \in 0 .. e - 1
    PROVE  (q * e + r) \div e = q /\ (q * e + r) % e = r
OBVIOUS

\* Dividing twice is dividing by the product, and the remainder has two digits.
LEMMA TwoDigits ==
    ASSUME NEW a \in Nat \ {0}, NEW b \in Nat \ {0}, NEW v \in Nat
    PROVE  /\ a * b \in Nat \ {0}
           /\ (v \div a) \div b = v \div (a * b)
           /\ v % (a * b) = ((v \div a) % b) * a + (v % a)
<1> DEFINE q == v \div a
           r == v % a
           p == q \div b
           s == q % b
<1>1. v = q * a + r /\ q \in Nat /\ r \in 0 .. a - 1
  BY Parts
<1>2. q = p * b + s /\ p \in Nat /\ s \in 0 .. b - 1
  BY <1>1, Parts
<1> HIDE DEF q, r, p, s
<1>3. a * b \in Nat \ {0}
  OBVIOUS
<1>4. s * a + r \in 0 .. a * b - 1
  <2>1. s * a <= (b - 1) * a
    BY <1>1, <1>2
  <2> QED BY <1>1, <1>2, <2>1
<1>5. v = p * (a * b) + (s * a + r)
  BY <1>1, <1>2
<1>6. v \div (a * b) = p /\ v % (a * b) = s * a + r
  BY <1>2, <1>3, <1>4, <1>5, Unique
<1> QED BY <1>3, <1>6 DEF p, q, r, s

\* How many pages an entry covers, level by level.
LEMMA Spans ==
    /\ Span(1) = 1 /\ Span(2) = Entries
    /\ Span(3) = Entries * Entries /\ Span(4) = Entries * Entries * Entries
    /\ Entries \in Nat \ {0}
    /\ \A level \in 1 .. 4 : Span(level) \in Nat \ {0}
<1>1. /\ Span(1) = 1 /\ Span(2) = Entries
      /\ Span(3) = Entries * Entries /\ Span(4) = Entries * Entries * Entries
      /\ Entries \in Nat \ {0}
  BY TablesAssumption DEF Span
<1>2. /\ Entries * Entries \in Nat \ {0}
      /\ Entries * Entries * Entries \in Nat \ {0}
  BY <1>1
<1> QED BY <1>1, <1>2

\* An index is one of a table.
LEMMA IndexType ==
    ASSUME NEW a \in Nat, NEW level \in 1 .. 4
    PROVE  IndexAt(a, level) \in Index
<1>1. a \div Span(level) \in Nat
  BY Spans, Parts
<1> QED BY <1>1, Spans, Parts DEF IndexAt, Index

\* The digits of an address: its remainder by the span of a level is made of the
\* index at the level below and the remainder there.
LEMMA Digits ==
    ASSUME NEW v \in Nat
    PROVE  /\ v % Span(1) = 0
           /\ v % Span(2) = IndexAt(v, 1)
           /\ v % Span(3) = IndexAt(v, 2) * Span(2) + (v % Span(2))
           /\ v % Span(4) = IndexAt(v, 3) * Span(3) + (v % Span(3))
           /\ v \div Span(4) = ((v \div Span(2)) \div Entries) \div Entries
           /\ v \div Span(3) = (v \div Span(2)) \div Entries
<1> DEFINE E == Entries
<1>1. E \in Nat \ {0} /\ E * E \in Nat \ {0}
  BY Spans
<1> HIDE DEF E
<1>2. v % 1 = 0 /\ v \div 1 = v
  OBVIOUS
<1>3. /\ (v \div E) \div E = v \div (E * E)
      /\ v % (E * E) = ((v \div E) % E) * E + (v % E)
  BY <1>1, TwoDigits
<1>4. /\ (v \div (E * E)) \div E = v \div (E * E * E)
      /\ v % (E * E * E) = ((v \div (E * E)) % E) * (E * E) + (v % (E * E))
  BY <1>1, TwoDigits
<1> QED BY <1>2, <1>3, <1>4, Spans DEF IndexAt, E

-----------------------------------------------------------------------------
(* Tables.                                                                 *)

\* A sequence of tables: its tables have entries.
LEMMA EntryType ==
    ASSUME NEW tbls \in Seq(Table), NEW t \in DOMAIN tbls, NEW k \in Index
    PROVE  /\ tbls[t] \in Table /\ tbls[t][k] \in Entry
           /\ tbls[t][k].flags \in SUBSET Flags /\ tbls[t][k].phys \in Nat
           /\ Len(tbls) \in Nat /\ DOMAIN tbls = 1 .. Len(tbls)
BY DEF Table, Entry

\* What SetEntry changes.
LEMMA SetEntryIs ==
    ASSUME NEW tbls \in Seq(Table), NEW t \in DOMAIN tbls, NEW k \in Index, NEW e \in Entry
    PROVE  LET new == SetEntry(tbls, t, k, e)
           IN  /\ new \in Seq(Table)
               /\ Len(new) = Len(tbls) /\ DOMAIN new = DOMAIN tbls
               /\ \A u \in DOMAIN tbls \ {t} : new[u] = tbls[u]
               /\ new[t][k] = e
               /\ \A j \in Index \ {k} : new[t][j] = tbls[t][j]
<1> DEFINE row == [tbls[t] EXCEPT ![k] = e]
           new == [tbls EXCEPT ![t] = row]
<1>1. row \in Table /\ row[k] = e /\ \A j \in Index \ {k} : row[j] = tbls[t][j]
  BY DEF Table
<1>2. SetEntry(tbls, t, k, e) = new
  BY DEF SetEntry
<1> HIDE DEF row
<1>3. /\ new \in Seq(Table) /\ Len(new) = Len(tbls) /\ DOMAIN new = DOMAIN tbls
      /\ \A u \in DOMAIN tbls \ {t} : new[u] = tbls[u]
      /\ new[t] = row
  BY <1>1
<1> QED BY <1>1, <1>2, <1>3

\* What Append adds.
LEMMA AppendIs ==
    ASSUME NEW tbls \in Seq(Table), NEW tbl \in Table
    PROVE  LET new == Append(tbls, tbl)
           IN  /\ new \in Seq(Table)
               /\ Len(new) = Len(tbls) + 1 /\ DOMAIN new = DOMAIN tbls \cup {Len(tbls) + 1}
               /\ Len(tbls) + 1 \notin DOMAIN tbls
               /\ \A u \in DOMAIN tbls : new[u] = tbls[u]
               /\ new[Len(tbls) + 1] = tbl
OBVIOUS

\* The new entries are entries, and the empty table is a table.
LEMMA NewEntries ==
    /\ NoEntry \in Entry /\ EmptyTable \in Table /\ ~Present(NoEntry)
    /\ \A k \in Index : EmptyTable[k] = NoEntry
    /\ \A n \in Nat :
          /\ npt_page_entry(n) \in Entry /\ npt_table_entry(n) \in Entry
          /\ initialize_page_reference_entry(n) \in Entry
          /\ initialize_table_reference_entry(n) \in Entry
          /\ LeadsOn(initialize_table_reference_entry(n))
          /\ LeadsOn(npt_table_entry(n))
          /\ Present(npt_page_entry(n)) /\ ~LeadsOn(npt_page_entry(n))
          /\ Present(initialize_page_reference_entry(n))
          /\ ~LeadsOn(initialize_page_reference_entry(n))
BY DEF NoEntry, Entry, Flags, EmptyTable, Table, Present, LeadsOn, npt_page_entry,
       npt_table_entry, initialize_page_reference_entry, initialize_table_reference_entry

-----------------------------------------------------------------------------
(* The copies that clone_lv3_table makes.                                  *)

\* A set of numbers has a smallest one.
LEMMA Smallest ==
    ASSUME NEW T \in SUBSET Nat, T # {}
    PROVE  \E x \in T : \A y \in T : x <= y
<1>1. PICK x \in T : \A y \in T : ~(<<y, x>> \in OpToRel(<, Nat))
  BY WFMin, NatLessThanWellFounded
<1>2. ASSUME NEW y \in T
      PROVE  x <= y
  <2>1. x \in Nat /\ y \in Nat /\ <<y, x>> \in Nat \X Nat
    OBVIOUS
  <2>2. ~(y < x)
    BY <1>1, <2>1, Zenon DEF OpToRel
  <2> QED BY <2>1, <2>2
<1> QED BY <1>2

\* The concatenation of sequences over a set is one.  FlattenSeq is defined by a
\* recursive function; it exists up to every index, by the first at which it would
\* not, and its values are sequences, by the first that would not be one.
LEMMA FlattenType ==
    ASSUME NEW S, NEW ss \in Seq(Seq(S))
    PROVE  FlattenSeq(ss) \in Seq(S)
<1> DEFINE n == Len(ss)
           Step(g, k) == IF k = 1 THEN ss[k] ELSE g[k - 1] \o ss[k]
           Eq(g, m) == g = [k \in 1 .. m |-> Step(g, k)]
<1>0. n \in Nat /\ \A k \in 1 .. n : ss[k] \in Seq(S)
  OBVIOUS
<1> HIDE DEF n
<1>1. \A m \in 0 .. n : \E g : Eq(g, m)
  <2> DEFINE Bad == {m \in 0 .. n : ~\E g : Eq(g, m)}
  <2> SUFFICES ASSUME Bad # {}
               PROVE  FALSE
    OBVIOUS
  <2> HIDE DEF Eq
  <2>0. Bad \in SUBSET Nat /\ \A m : m \in Bad <=> m \in 0 .. n /\ ~\E g : Eq(g, m)
    BY <1>0
  <2> HIDE DEF Bad
  <2>1. PICK m \in Bad : \A y \in Bad : m <= y
    BY <2>0, Smallest
  <2>2. m # 0
    <3>1. Eq([k \in 1 .. 0 |-> 0], 0)
      BY DEF Eq
    <3> QED BY <2>0, <2>1, <3>1
  <2>3. m \in 1 .. n /\ m - 1 \in 0 .. n /\ m - 1 \notin Bad
    <3>1. m \in 0 .. n
      BY <2>0, <2>1
    <3> QED BY <1>0, <2>1, <2>2, <3>1
  <2>4. PICK g : Eq(g, m - 1)
    BY <2>0, <2>3
  <2> DEFINE h == [k \in 1 .. m |-> IF k = m THEN Step(g, m) ELSE g[k]]
  <2>5. \A k \in 1 .. m : h[k] = Step(h, k)
    <3> SUFFICES ASSUME NEW k \in 1 .. m
                 PROVE  h[k] = Step(h, k)
      OBVIOUS
    <3>1. k # 1 => k - 1 \in 1 .. m - 1
      BY <1>0, <2>3
    <3>2. k # 1 => h[k - 1] = g[k - 1]
      BY <1>0, <2>3, <3>1
    <3>3. Step(h, k) = Step(g, k)
      BY <3>2
    <3>4. k # m => g[k] = Step(g, k)
      <4>1. k # m => k \in 1 .. m - 1
        BY <1>0, <2>3
      <4>2. \A j \in 1 .. m - 1 : g[j] = Step(g, j)
        <5> HIDE DEF Step
        <5> QED BY <2>4 DEF Eq
      <4> QED BY <4>1, <4>2
    <3> QED BY <3>3, <3>4
  <2>6. Eq(h, m)
    <3> HIDE DEF Step
    <3> QED BY <2>5 DEF Eq
  <2> QED BY <2>0, <2>1, <2>6
<1> DEFINE f == CHOOSE g : Eq(g, n)
<1>2. Eq(f, n)
  <2> HIDE DEF Eq
  <2>1. n \in 0 .. n
    BY <1>0
  <2>2. \E g : Eq(g, n)
    BY <1>1, <2>1, Zenon
  <2> QED BY <2>2
<1> HIDE DEF f
<1>3. \A k \in 1 .. n : f[k] = Step(f, k)
  <2> HIDE DEF Step
  <2> QED BY <1>2
<1>4. \A k \in 1 .. n : f[k] \in Seq(S)
  <2> DEFINE Bad == {k \in 1 .. n : f[k] \notin Seq(S)}
  <2> SUFFICES ASSUME Bad # {}
               PROVE  FALSE
    OBVIOUS
  <2>0. Bad \in SUBSET Nat /\ \A k : k \in Bad <=> k \in 1 .. n /\ f[k] \notin Seq(S)
    BY <1>0
  <2> HIDE DEF Bad, Eq
  <2>1. PICK m \in Bad : \A y \in Bad : m <= y
    BY <2>0, Smallest
  <2>2. m \in 1 .. n /\ f[m] \notin Seq(S)
    BY <2>0, <2>1
  <2>3. m # 1
    BY <1>0, <1>3, <2>2
  <2>4. m - 1 \in 1 .. n /\ m - 1 \notin Bad
    BY <1>0, <2>1, <2>2, <2>3
  <2>5. f[m - 1] \in Seq(S)
    BY <2>0, <2>4
  <2>6. ss[m] \in Seq(S) /\ f[m] = f[m - 1] \o ss[m]
    BY <1>0, <1>3, <2>2, <2>3
  <2> QED BY <2>2, <2>5, <2>6
<1>5. FlattenSeq(ss) = IF n = 0 THEN ss ELSE f[n]
  BY DEF FlattenSeq, f, n
<1> QED BY <1>0, <1>4, <1>5 DEF n

-----------------------------------------------------------------------------
(* The walk.                                                               *)

\* The entries that a walk of four levels meets.
E4(tbls, root, v) == tbls[root][IndexAt(v, 4)]
E3(tbls, root, v) == tbls[E4(tbls, root, v).phys][IndexAt(v, 3)]
E2(tbls, root, v) == tbls[E3(tbls, root, v).phys][IndexAt(v, 2)]
E1(tbls, root, v) == tbls[E2(tbls, root, v).phys][IndexAt(v, 1)]

\* The walk ends with the first of them that does not lead on.
LEMMA WalkIs ==
    ASSUME NEW tbls, NEW root, NEW v
    PROVE  WalkEnd(tbls, root, v) =
              IF ~LeadsOn(E4(tbls, root, v)) THEN Met(E4(tbls, root, v), 4)
              ELSE IF ~LeadsOn(E3(tbls, root, v)) THEN Met(E3(tbls, root, v), 3)
              ELSE IF ~LeadsOn(E2(tbls, root, v)) THEN Met(E2(tbls, root, v), 2)
              ELSE Met(E1(tbls, root, v), 1)
<1> DEFINE m4 == Met(tbls[root][IndexAt(v, 4)], 4)
           m3 == Down(tbls, m4, v)
           m2 == Down(tbls, m3, v)
<1>1. m4 = Met(E4(tbls, root, v), 4) /\ \A e, n : Met(e, n).entry = e /\ Met(e, n).level = n
  BY DEF E4, Met
<1> HIDE DEF m4
<1>2. \A e : /\ ~LeadsOn(e) => \A n : Down(tbls, Met(e, n), v) = Met(e, n)
             /\ LeadsOn(e) => \A n \in {4, 3, 2} :
                   Down(tbls, Met(e, n), v) = Met(tbls[e.phys][IndexAt(v, n - 1)], n - 1)
  BY <1>1 DEF Down
<1>3. m3 = IF ~LeadsOn(E4(tbls, root, v)) THEN Met(E4(tbls, root, v), 4)
           ELSE Met(E3(tbls, root, v), 3)
  BY <1>1, <1>2 DEF E3
<1> HIDE DEF m3
<1>4. m2 = IF ~LeadsOn(E4(tbls, root, v)) THEN Met(E4(tbls, root, v), 4)
           ELSE IF ~LeadsOn(E3(tbls, root, v)) THEN Met(E3(tbls, root, v), 3)
           ELSE Met(E2(tbls, root, v), 2)
  BY <1>2, <1>3 DEF E2
<1> HIDE DEF m2
<1>5. WalkEnd(tbls, root, v) = Down(tbls, m2, v)
  BY DEF WalkEnd, m4, m3, m2
<1>6. CASE ~LeadsOn(E4(tbls, root, v)) \/ ~LeadsOn(E3(tbls, root, v))
  BY <1>2, <1>4, <1>5, <1>6
<1>7. CASE LeadsOn(E4(tbls, root, v)) /\ LeadsOn(E3(tbls, root, v))
  BY <1>2, <1>4, <1>5, <1>7 DEF E1
<1> QED BY <1>6, <1>7

\* The page of an address, level by level.
LEMMA TranslateIs ==
    ASSUME NEW tbls, NEW root, NEW v
    PROVE  Translate(tbls, root, v) =
              IF ~LeadsOn(E4(tbls, root, v))
              THEN IF Present(E4(tbls, root, v))
                   THEN E4(tbls, root, v).phys + (v % Span(4)) ELSE Fault
              ELSE IF ~LeadsOn(E3(tbls, root, v))
              THEN IF Present(E3(tbls, root, v))
                   THEN E3(tbls, root, v).phys + (v % Span(3)) ELSE Fault
              ELSE IF ~LeadsOn(E2(tbls, root, v))
              THEN IF Present(E2(tbls, root, v))
                   THEN E2(tbls, root, v).phys + (v % Span(2)) ELSE Fault
              ELSE IF Present(E1(tbls, root, v))
                   THEN E1(tbls, root, v).phys + (v % Span(1)) ELSE Fault
<1>1. \A e, n : Met(e, n).entry = e /\ Met(e, n).level = n
  BY DEF Met
<1>2. Translate(tbls, root, v) =
         IF Present(WalkEnd(tbls, root, v).entry)
         THEN WalkEnd(tbls, root, v).entry.phys + (v % Span(WalkEnd(tbls, root, v).level))
         ELSE Fault
  BY DEF Translate
<1>3. CASE ~LeadsOn(E4(tbls, root, v))
  <2>1. WalkEnd(tbls, root, v) = Met(E4(tbls, root, v), 4)
    BY <1>3, WalkIs
  <2> QED BY ONLY <1>1, <1>2, <1>3, <2>1
<1>4. CASE LeadsOn(E4(tbls, root, v)) /\ ~LeadsOn(E3(tbls, root, v))
  <2>1. WalkEnd(tbls, root, v) = Met(E3(tbls, root, v), 3)
    BY <1>4, WalkIs
  <2> QED BY ONLY <1>1, <1>2, <1>4, <2>1
<1>5. CASE LeadsOn(E4(tbls, root, v)) /\ LeadsOn(E3(tbls, root, v)) /\ ~LeadsOn(E2(tbls, root, v))
  <2>1. WalkEnd(tbls, root, v) = Met(E2(tbls, root, v), 2)
    BY <1>5, WalkIs
  <2> QED BY ONLY <1>1, <1>2, <1>5, <2>1
<1>6. CASE LeadsOn(E4(tbls, root, v)) /\ LeadsOn(E3(tbls, root, v)) /\ LeadsOn(E2(tbls, root, v))
  <2>1. WalkEnd(tbls, root, v) = Met(E1(tbls, root, v), 1)
    BY <1>6, WalkIs
  <2> QED BY ONLY <1>1, <1>2, <1>6, <2>1
<1> QED BY <1>3, <1>4, <1>5, <1>6

-----------------------------------------------------------------------------
(* The invariant.                                                          *)

\* The tables of the levels below a root: entries lead from each to the next, and
\* no table is in two of them.
Levels(tbls, root, l3, l2, l1) ==
    /\ root \in DOMAIN tbls
    /\ l3 \subseteq DOMAIN tbls /\ l2 \subseteq DOMAIN tbls /\ l1 \subseteq DOMAIN tbls
    /\ l3 \cap l2 = {} /\ l3 \cap l1 = {} /\ l2 \cap l1 = {}
    /\ \A k \in Index : Present(tbls[root][k]) =>
          LeadsOn(tbls[root][k]) /\ tbls[root][k].phys \in l3
    /\ \A t \in l3, k \in Index : LeadsOn(tbls[t][k]) => tbls[t][k].phys \in l2
    /\ \A t \in l2, k \in Index : LeadsOn(tbls[t][k]) => tbls[t][k].phys \in l1

\* The root that SurtrC made, and the last table that may belong to it.
Root == IF old_lv4tbl = 0 THEN cr3 ELSE old_lv4tbl
Top == IF pc \in LoaderPlaces THEN Len(tables) ELSE boot_tables

\* The tables below that root; it is none of them itself once it is a copy.
HostTree ==
    \E l3, l2, l1 \in SUBSET (1 .. Top) :
        /\ Levels(tables, Root, l3, l2, l1)
        /\ pc \notin {"set_lv4table_writable", "exit"} => Root \notin l3 \cup l2 \cup l1

\* The places after which the new root is in force.
SwitchedPlaces == {"set_mem_reconstructed", "setup_guest_memory", "done"} \cup NestedPlaces

\* What is known at each place of the variables that say how far things are.
LoaderStage ==
    pc \in LoaderPlaces =>
        /\ boot_tables = 0 /\ lv4tbl = 0 /\ old_lv4tbl = 0 /\ npt = 0
        /\ ~mapping_reconstructed
        /\ pc \in {"map_4k_to", "change_map_4k"} => i \in 1 .. Len(kernel.attrs) + 1
KernelStage ==
    pc \notin LoaderPlaces =>
        /\ boot_tables \in 1 .. Len(tables) /\ Root \in 1 .. boot_tables
        /\ pc \in {"reconstruct", "direct_map"} => old_lv4tbl = 0
        /\ pc = "direct_map" => lv4tbl # 0 /\ i \in 0 .. DirectMapEntries
        /\ pc = "clone" => i \in lv4idx_end .. Entries
        /\ pc \in {"clone", "load_cr3"} => lv4tbl # 0 /\ old_lv4tbl = cr3 /\ cr3 # lv4tbl
        /\ pc \in {"reconstruct", "direct_map", "clone", "load_cr3"} => ~mapping_reconstructed
        /\ pc \in SwitchedPlaces => cr3 = lv4tbl
        /\ pc \in SwitchedPlaces \ {"set_mem_reconstructed"} => mapping_reconstructed
RootStage ==
    /\ lv4tbl # 0 => lv4tbl \in boot_tables + 1 .. Len(tables)
    /\ cr3 = lv4tbl \/ cr3 = Root
    /\ cr3 = lv4tbl => old_lv4tbl # 0
    /\ mapping_reconstructed => cr3 = lv4tbl
    /\ cr3 = lv4tbl /\ pc # "set_mem_reconstructed" => mapping_reconstructed
GuestStage ==
    /\ npt # 0 => /\ lv4tbl < npt /\ boot_tables < npt /\ cr3 = lv4tbl /\ mapping_reconstructed
                  /\ pc \in NestedPlaces \cup {"done", "panic"} /\ pc # "init_npt"
    /\ npt # 0 \/ pc = "init_npt" =>
          guest_start \in GuestStarts /\ host_start \in HostStarts /\ size \in Sizes
    /\ pc \in {"lv4", "lv3", "lv2"} => npt # 0 /\ i < Pages
    /\ pc = "panic_mapped" => npt # 0

Stages == LoaderStage /\ KernelStage /\ RootStage /\ GuestStage

-----------------------------------------------------------------------------

\* The tables of the host: the guest's come behind them.
HostTop == IF npt = 0 THEN Len(tables) ELSE npt - 1

\* Entry e of the root leads to a table that was made for it, which is tbl.
Linked(tbls, lo, hi, root, e, tbl) ==
    \E c \in lo + 1 .. hi :
        c # root /\ e = initialize_table_reference_entry(c) /\ tbls[c] = tbl

\* The first n entries of the direct map, the kernel region up to index n, and
\* entries that are not used.
DirectPart(tbls, lo, hi, root, n) ==
    \A d \in 0 .. n - 1 : Linked(tbls, lo, hi, root, tbls[root][DirectMapIndex + d], DirectTable(d))
ClonePart(tbls, lo, hi, root, old, n) ==
    \A k \in lv4idx_end .. n - 1 :
        IF Present(tbls[old][k])
        THEN Linked(tbls, lo, hi, root, tbls[root][k], tbls[tbls[old][k].phys])
        ELSE tbls[root][k] = NoEntry
EmptyPart(tbls, root, ks) == \A k \in ks : tbls[root][k] = NoEntry

\* The new root when it is complete.
Complete(tbls, lo, hi, root, old) ==
    /\ DirectPart(tbls, lo, hi, root, DirectMapEntries)
    /\ ClonePart(tbls, lo, hi, root, old, Entries)
    /\ EmptyPart(tbls, root, 0 .. DirectMapIndex - 1)

\* The new root, as far as it is built.
Built ==
    /\ pc = "direct_map" =>
          /\ DirectPart(tables, boot_tables, HostTop, lv4tbl, i)
          /\ EmptyPart(tables, lv4tbl, Index \ (DirectMapIndex .. DirectMapIndex + i - 1))
    /\ pc = "clone" =>
          /\ DirectPart(tables, boot_tables, HostTop, lv4tbl, DirectMapEntries)
          /\ ClonePart(tables, boot_tables, HostTop, lv4tbl, Root, i)
          /\ EmptyPart(tables, lv4tbl, (0 .. DirectMapIndex - 1) \cup (i .. Entries - 1))
    /\ pc = "load_cr3" \/ cr3 = lv4tbl => Complete(tables, boot_tables, HostTop, lv4tbl, Root)

-----------------------------------------------------------------------------

\* A walk meets no large page.
Clear(tbls, root, v) ==
    /\ Present(E4(tbls, root, v)) => LeadsOn(E4(tbls, root, v))
    /\ LeadsOn(E4(tbls, root, v)) /\ Present(E3(tbls, root, v)) => LeadsOn(E3(tbls, root, v))
    /\ LeadsOn(E4(tbls, root, v)) /\ LeadsOn(E3(tbls, root, v)) /\ Present(E2(tbls, root, v))
          => LeadsOn(E2(tbls, root, v))

\* A walk goes down to level 1.
Deep(tbls, root, v) ==
    LeadsOn(E4(tbls, root, v)) /\ LeadsOn(E3(tbls, root, v)) /\ LeadsOn(E2(tbls, root, v))

Rights(flags, attr) ==
    /\ "RW" \in flags <=> attr = "read_write"
    /\ "XD" \notin flags <=> attr = "executable"

\* A page of the image is mapped, and has its rights.
ImageThere(p) ==
    LET v == ImageVirt(p)
    IN  /\ Deep(tables, Root, v) /\ Present(E1(tables, Root, v))
        /\ E1(tables, Root, v).phys = ImagePhys(p)
ImageRights(p) == Rights(E1(tables, Root, ImageVirt(p)).flags, kernel.attrs[p])

\* The image, as far as it is mapped and protected.
Loaded ==
    /\ pc \in {"set_lv4table_writable", "map_4k_to"} =>
          \A p \in ImagePages : Clear(tables, cr3, ImageVirt(p))
    /\ pc = "map_4k_to" => \A p \in 1 .. i - 1 : ImageThere(p)
    /\ pc = "change_map_4k" =>
          /\ \A p \in ImagePages : ImageThere(p)
          /\ \A p \in 1 .. i - 1 : ImageRights(p)
    /\ InKernel => \A p \in ImagePages : ImageThere(p) /\ ImageRights(p)

\* The firmware's map of memory to itself is kept.
Identity == \A a \in Installed : Translate(tables, Root, a) = a

-----------------------------------------------------------------------------

\* The indices of a guest's 2 MiB page.
A(q) == (q \div Entries) \div Entries
B(q) == (q \div Entries) % Entries
C(q) == q % Entries

Number(a, b, c) == (a * Entries + b) * Entries + c

\* Where in the guest's tables each of them is: its level and the indices above it.
Place == {4, 3, 2} \X Index \X Index

\* What may be in the guest's tables.
GuestEntry(w, t, k) ==
    LET e == tables[t][k]
    IN  \/ e = NoEntry
        \/ \E c \in npt + 1 .. Len(tables) :
              /\ e = npt_table_entry(c)
              /\ \/ w[t][1] = 4 /\ w[c] = <<3, k, 0>>
                 \/ w[t][1] = 3 /\ w[c] = <<2, w[t][2], k>>
        \/ LET q == Number(w[t][2], w[t][3], k)
           IN  /\ w[t][1] = 2
               /\ q \in guest_start .. guest_start + i - 1
               /\ e = npt_page_entry(Page(host_start + (q - guest_start)))

GuestTables(w) ==
    /\ w[npt] = <<4, 0, 0>>
    /\ \A t \in npt .. Len(tables), k \in Index : GuestEntry(w, t, k)

\* The walk to a guest's page, level by level.
G4(q) == tables[npt][A(q)]
G3(q) == tables[G4(q).phys][B(q)]
G2(q) == tables[G3(q).phys][C(q)]

\* The guest's tables: nothing else is in them, the pages so far are, and map2m has
\* what it needs on its way down.
GuestTree ==
    npt # 0 =>
        /\ \E w \in [npt .. Len(tables) -> Place] : GuestTables(w)
        /\ \A q \in guest_start .. guest_start + i - 1 :
              Present(G4(q)) /\ Present(G3(q)) /\ Present(G2(q))
        /\ pc \in {"lv3", "lv2"} => Present(G4(guest_start + i))
        /\ pc = "lv2" => Present(G3(guest_start + i))
        /\ pc # "panic_mapped"

-----------------------------------------------------------------------------
(* Types and stages: the kernel.                                           *)

\* What is known of every state, of the tables apart.
Known == TypeOK /\ Stages

\* The tables up to n stay as they are, and there are not fewer.
Extended(n) ==
    /\ tables' \in Seq(Table) /\ Len(tables') >= Len(tables)
    /\ \A t \in 1 .. n : tables'[t] = tables[t]

\* What the assumptions say of the constants that are numbers.
LEMMA Constants ==
    /\ Entries \in Nat \ {0}
    /\ DirectMapIndex \in Nat \ {0} /\ DirectMapEntries \in Nat \ {0}
    /\ lv4idx_end \in Nat /\ lv4idx_end < Entries
    /\ lv4idx_end = DirectMapIndex + DirectMapEntries
    /\ Installed \subseteq Nat
BY HostAssumption, TablesAssumption DEF lv4idx_end

\* Places are different.
LEMMA NotLoading ==
    /\ \A x \in KernelPlaces : x \notin LoaderPlaces
    /\ SwitchedPlaces \subseteq KernelPlaces /\ NestedPlaces \subseteq KernelPlaces
BY DEF KernelPlaces, LoaderPlaces, SwitchedPlaces, NestedPlaces

\* A call that needs tables gets them, or fails and leaves everything.
LEMMA Allocated ==
    ASSUME NEW new, NEW next, NEW failed, tables \in Seq(Table), Allocate(new, next, failed)
    PROVE  \/ tables' = new /\ pc' = next
           \/ tables' = tables /\ pc' = failed
BY DEF Allocate

\* The first step of reconstruct.
LEMMA ReconstructKnown ==
    ASSUME Known, Reconstruct
    PROVE  Known' /\ Extended(boot_tables)
<1> DEFINE new == Append(tables, EmptyTable)
<1> USE DEF TypeOK, NestedTypeOK, nested_vars, arguments, Root, Pages
<1>1. /\ new \in Seq(Table) /\ Len(new) = Len(tables) + 1 /\ DOMAIN new = DOMAIN tables \cup {Len(tables) + 1}
      /\ \A u \in DOMAIN tables : new[u] = tables[u]
  BY NewEntries, AppendIs DEF Known
<1>2. \/ tables' = new /\ pc' = "direct_map" /\ lv4tbl' = Len(tables) + 1
      \/ tables' = tables /\ pc' = "panic" /\ lv4tbl' = 0
  BY Allocated DEF Known, Reconstruct
<1>3. pc = "reconstruct" /\ i' = 0
      /\ UNCHANGED <<memory, kernel, cr3, boot_tables, old_lv4tbl, mapping_reconstructed, nested_vars>>
  BY DEF Reconstruct
<1> HIDE DEF new
<1>4. Extended(boot_tables)
  BY <1>1, <1>2 DEF Extended, Known, Stages, KernelStage, LoaderPlaces
<1>5. TypeOK'
  BY <1>1, <1>2, <1>3 DEF Known, KernelPlaces, Stages, GuestStage, NestedPlaces
<1>6. Stages'
  BY <1>1, <1>2, <1>3, Constants
     DEF Known, Stages, LoaderStage, KernelStage, RootStage, GuestStage, LoaderPlaces, NestedPlaces,
         SwitchedPlaces
<1> QED BY <1>4, <1>5, <1>6 DEF Known

\* The table of one entry of the direct map.
LEMMA DirectTableType ==
    ASSUME NEW n \in Nat
    PROVE  DirectTable(n) \in Table
<1>1. ASSUME NEW k \in Index
      PROVE  initialize_page_reference_entry(n * Span(4) + k * Span(3)) \in Entry
  <2>1. k \in Nat /\ Span(4) \in Nat /\ Span(3) \in Nat
    BY Spans DEF Index
  <2>2. n * Span(4) + k * Span(3) \in Nat
    BY <2>1
  <2> QED BY <2>2, NewEntries
<1> QED BY <1>1 DEF DirectTable, Table

\* An entry of the direct map.
LEMMA DirectMapKnown ==
    ASSUME Known, DirectMap
    PROVE  Known' /\ Extended(boot_tables)
<1> DEFINE longer == Append(tables, DirectTable(i))
           e == initialize_table_reference_entry(Len(tables) + 1)
           new == SetEntry(longer, lv4tbl, DirectMapIndex + i, e)
<1> USE DEF TypeOK, NestedTypeOK, nested_vars, arguments, Root, Pages
<1>1. pc = "direct_map" /\ i < DirectMapEntries /\ i' = i + 1 /\ i \in Nat
      /\ UNCHANGED <<memory, kernel, cr3, boot_tables, lv4tbl, old_lv4tbl, mapping_reconstructed, nested_vars>>
  BY DEF DirectMap, Known
<1>2. /\ longer \in Seq(Table) /\ Len(longer) = Len(tables) + 1
      /\ DOMAIN longer = DOMAIN tables \cup {Len(tables) + 1}
      /\ \A u \in DOMAIN tables : longer[u] = tables[u]
  BY <1>1, DirectTableType, AppendIs DEF Known
<1>3. lv4tbl \in boot_tables + 1 .. Len(tables) /\ boot_tables \in 1 .. Len(tables)
      /\ Len(tables) \in Nat /\ DOMAIN tables = 1 .. Len(tables)
  BY <1>1 DEF Known, Stages, KernelStage, RootStage, LoaderPlaces
<1>4. DirectMapIndex + i \in Index /\ e \in Entry
  BY <1>1, <1>3, Constants, NewEntries DEF Index
<1> HIDE DEF longer, e
<1>5. /\ new \in Seq(Table) /\ Len(new) = Len(longer) /\ DOMAIN new = DOMAIN longer
      /\ \A u \in DOMAIN longer \ {lv4tbl} : new[u] = longer[u]
  <2>1. longer \in Seq(Table) /\ lv4tbl \in DOMAIN longer
    BY <1>2, <1>3
  <2> QED BY <1>4, <2>1, SetEntryIs
<1>6. \/ tables' = new /\ pc' = "direct_map"
      \/ tables' = tables /\ pc' = "panic"
  BY Allocated DEF Known, DirectMap, longer, e
<1> HIDE DEF new
<1>7. Extended(boot_tables)
  BY <1>2, <1>3, <1>5, <1>6 DEF Extended, Known
<1>8. TypeOK'
  BY <1>1, <1>2, <1>3, <1>5, <1>6 DEF Known, KernelPlaces, Stages, GuestStage, NestedPlaces
<1>9. Stages'
  BY <1>1, <1>2, <1>3, <1>5, <1>6, Constants
     DEF Known, Stages, LoaderStage, KernelStage, RootStage, GuestStage, LoaderPlaces, NestedPlaces,
         SwitchedPlaces
<1> QED BY <1>7, <1>8, <1>9 DEF Known

\* The steps of the kernel that leave the tables alone.
LEMMA UnchangedKnown ==
    ASSUME Known, DirectMapDone \/ CloneDone \/ LoadCr3 \/ set_mem_reconstructed
                    \/ setup_guest_memory
    PROVE  Known' /\ UNCHANGED tables /\ Extended(boot_tables)
<1> USE DEF TypeOK, NestedTypeOK, nested_vars, arguments, Root, Pages
<1>1. UNCHANGED tables
  BY DEF DirectMapDone, CloneDone, LoadCr3, set_mem_reconstructed, setup_guest_memory, CallInitNpt
<1>2. Extended(boot_tables)
  BY <1>1 DEF Extended, Known
<1>3. CASE DirectMapDone
  <2>1. TypeOK'
    BY <1>3, Constants
       DEF DirectMapDone, Known, KernelPlaces, FirstCloned, Stages, GuestStage, NestedPlaces
  <2>2. Stages'
    BY <1>3, Constants
       DEF DirectMapDone, FirstCloned, Known, Stages, LoaderStage, KernelStage, RootStage,
           GuestStage, LoaderPlaces, NestedPlaces, SwitchedPlaces
  <2> QED BY <1>1, <1>2, <2>1, <2>2 DEF Known
<1>4. CASE CloneDone
  <2>1. TypeOK'
    BY <1>4 DEF CloneDone, Known, KernelPlaces
  <2>2. Stages'
    BY <1>4
       DEF CloneDone, Known, Stages, LoaderStage, KernelStage, RootStage, GuestStage, LoaderPlaces,
           NestedPlaces, SwitchedPlaces
  <2> QED BY <1>1, <1>2, <2>1, <2>2 DEF Known
<1>5. CASE LoadCr3
  <2>1. TypeOK'
    BY <1>5 DEF LoadCr3, Known, KernelPlaces, Stages, KernelStage, LoaderPlaces
  <2>2. Stages'
    BY <1>5
       DEF LoadCr3, Known, Stages, LoaderStage, KernelStage, RootStage, GuestStage, LoaderPlaces,
           NestedPlaces, SwitchedPlaces
  <2> QED BY <1>1, <1>2, <2>1, <2>2 DEF Known
<1>6. CASE set_mem_reconstructed
  <2>1. TypeOK'
    BY <1>6 DEF set_mem_reconstructed, Known, KernelPlaces
  <2>2. Stages'
    BY <1>6
       DEF set_mem_reconstructed, Known, Stages, LoaderStage, KernelStage, RootStage, GuestStage,
           LoaderPlaces, NestedPlaces, SwitchedPlaces
  <2> QED BY <1>1, <1>2, <2>1, <2>2 DEF Known
<1>7. CASE setup_guest_memory
  <2>0. pc = "setup_guest_memory" /\ npt = 0
    BY <1>7 DEF setup_guest_memory, Known, Stages, GuestStage, NestedPlaces
  <2>1. TypeOK'
    BY <1>7, <2>0 DEF setup_guest_memory, CallInitNpt, host_vars, Known, KernelPlaces, NestedPlaces
  <2>2. Stages'
    BY <1>7, <2>0
       DEF setup_guest_memory, CallInitNpt, host_vars, Known, Stages, LoaderStage, KernelStage,
           RootStage, GuestStage, LoaderPlaces, NestedPlaces, SwitchedPlaces
  <2> QED BY <1>1, <1>2, <2>1, <2>2 DEF Known
<1> QED BY <1>3, <1>4, <1>5, <1>6, <1>7

\* A function on the first numbers is a sequence.
LEMMA FunctionIsSeq ==
    ASSUME NEW S, NEW n \in Nat, NEW f \in [1 .. n -> S]
    PROVE  f \in Seq(S)
OBVIOUS

\* The copies of a table of level 3 and of the tables below it.
LEMMA CloneType ==
    ASSUME tables \in Seq(Table), NEW root, NEW l3, NEW l2, NEW l1,
           Levels(tables, root, l3, l2, l1), NEW t \in l3
    PROVE  /\ clone_lv3_table(t) \in Seq(Table)
           /\ Len(clone_lv3_table(t)) >= 1
           /\ clone_lv3_table(t)[1] = tables[t]
<1>1. \A u \in l3 \cup l2 \cup l1 : u \in DOMAIN tables /\ tables[u] \in Table
  BY DEF Levels
<1>2. \A u \in l1 : clone_lv1_table(u) \in Seq(Table)
  BY <1>1 DEF clone_lv1_table
<1>3. ASSUME NEW u \in l2
      PROVE  clone_lv2_table(u) \in Seq(Table)
  <2> DEFINE ss == [n \in 1 .. Entries |->
                      IF LeadsOn(tables[u][n - 1]) THEN clone_lv1_table(tables[u][n - 1].phys) ELSE <<>>]
  <2>1. ss \in Seq(Seq(Table))
    <3>1. ASSUME NEW n \in 1 .. Entries
          PROVE  ss[n] \in Seq(Table)
      <4>1. n - 1 \in Index
        BY Constants DEF Index
      <4>2. LeadsOn(tables[u][n - 1]) => tables[u][n - 1].phys \in l1
        BY <4>1 DEF Levels
      <4> QED BY <1>2, <4>2
    <3> HIDE DEF ss
    <3>2. ss = [n \in 1 .. Entries |-> ss[n]]
      BY DEF ss
    <3>3. ss \in [1 .. Entries -> Seq(Table)]
      BY <3>1, <3>2
    <3> QED BY <3>3, Constants, FunctionIsSeq
  <2> HIDE DEF ss
  <2>2. FlattenSeq(ss) \in Seq(Table)
    BY <2>1, FlattenType
  <2>3. clone_lv2_table(u) = <<tables[u]>> \o FlattenSeq(ss)
    BY DEF clone_lv2_table, ss
  <2> QED BY <1>1, <2>2, <2>3
<1> DEFINE ss == [n \in 1 .. Entries |->
                    IF LeadsOn(tables[t][n - 1]) THEN clone_lv2_table(tables[t][n - 1].phys) ELSE <<>>]
<1>4. ss \in Seq(Seq(Table))
  <2>1. ASSUME NEW n \in 1 .. Entries
        PROVE  ss[n] \in Seq(Table)
    <3>1. n - 1 \in Index
      BY Constants DEF Index
    <3>2. LeadsOn(tables[t][n - 1]) => tables[t][n - 1].phys \in l2
      BY <3>1 DEF Levels
    <3> QED BY <1>3, <3>2
  <2> HIDE DEF ss
  <2>2. ss = [n \in 1 .. Entries |-> ss[n]]
    BY DEF ss
  <2>3. ss \in [1 .. Entries -> Seq(Table)]
    BY <2>1, <2>2
  <2> QED BY <2>3, Constants, FunctionIsSeq
<1> HIDE DEF ss
<1>5. FlattenSeq(ss) \in Seq(Table)
  BY <1>4, FlattenType
<1>6. clone_lv3_table(t) = <<tables[t]>> \o FlattenSeq(ss)
  BY DEF clone_lv3_table, ss
<1> QED BY <1>1, <1>5, <1>6

\* Tables added at the end, and one entry set in one of the old ones.
LEMMA AddedIs ==
    ASSUME NEW tbls \in Seq(Table), NEW more \in Seq(Table), NEW t \in DOMAIN tbls,
           NEW k \in Index, NEW e \in Entry
    PROVE  LET new == SetEntry(tbls \o more, t, k, e)
           IN  /\ new \in Seq(Table) /\ Len(new) = Len(tbls) + Len(more)
               /\ DOMAIN new = 1 .. Len(tbls) + Len(more)
               /\ \A u \in DOMAIN tbls \ {t} : new[u] = tbls[u]
               /\ new[t][k] = e
               /\ \A j \in Index \ {k} : new[t][j] = tbls[t][j]
               /\ \A j \in DOMAIN more : new[Len(tbls) + j] = more[j]
<1> DEFINE longer == tbls \o more
<1>1. /\ longer \in Seq(Table) /\ Len(longer) = Len(tbls) + Len(more)
      /\ DOMAIN longer = 1 .. Len(tbls) + Len(more)
      /\ t \in DOMAIN longer
      /\ \A u \in DOMAIN tbls : longer[u] = tbls[u]
      /\ \A j \in DOMAIN more : longer[Len(tbls) + j] = more[j]
      /\ \A j \in DOMAIN more : Len(tbls) + j \in DOMAIN longer \ {t}
      /\ DOMAIN tbls \subseteq DOMAIN longer
  OBVIOUS
<1>0. longer \in Seq(Table) /\ t \in DOMAIN longer
  BY <1>1
<1> HIDE DEF longer
<1> DEFINE new == SetEntry(longer, t, k, e)
<1>2. /\ new \in Seq(Table) /\ Len(new) = Len(longer) /\ DOMAIN new = DOMAIN longer
      /\ \A u \in DOMAIN longer \ {t} : new[u] = longer[u]
      /\ new[t][k] = e
      /\ \A j \in Index \ {k} : new[t][j] = longer[t][j]
  BY <1>0, SetEntryIs
<1> HIDE DEF new
<1>3. /\ new \in Seq(Table) /\ Len(new) = Len(tbls) + Len(more)
      /\ DOMAIN new = 1 .. Len(tbls) + Len(more)
      /\ \A u \in DOMAIN tbls \ {t} : new[u] = tbls[u]
      /\ new[t][k] = e
      /\ \A j \in Index \ {k} : new[t][j] = tbls[t][j]
      /\ \A j \in DOMAIN more : new[Len(tbls) + j] = more[j]
  BY <1>1, <1>2
<1> QED BY <1>3 DEF new, longer

\* An entry of the kernel region.
LEMMA CloneEntryKnown ==
    ASSUME Known, HostTree, CloneEntry
    PROVE  Known' /\ Extended(boot_tables)
<1> DEFINE e == initialize_table_reference_entry(Len(tables) + 1)
           more == clone_lv3_table(tables[old_lv4tbl][i].phys)
           new == SetEntry(tables \o more, lv4tbl, i, e)
<1> USE DEF TypeOK, NestedTypeOK, nested_vars, arguments, Pages
<1>1. pc = "clone" /\ i < Entries /\ i' = i + 1 /\ i \in Nat
      /\ UNCHANGED <<memory, kernel, cr3, boot_tables, lv4tbl, old_lv4tbl, mapping_reconstructed, nested_vars>>
  BY DEF CloneEntry, Known
<1>2. lv4tbl \in boot_tables + 1 .. Len(tables) /\ boot_tables \in 1 .. Len(tables)
      /\ Len(tables) \in Nat /\ DOMAIN tables = 1 .. Len(tables) /\ Root = old_lv4tbl
  BY <1>1 DEF Known, Stages, KernelStage, RootStage, LoaderPlaces, Root
<1>3. i \in Index /\ e \in Entry
  BY <1>1, <1>2, NewEntries, Constants DEF Index
<1> HIDE DEF e, more
<1>4. CASE Present(tables[old_lv4tbl][i])
  <2>1. PICK l3, l2, l1 \in SUBSET (1 .. Top) : Levels(tables, Root, l3, l2, l1)
    BY DEF HostTree
  <2>2. tables[old_lv4tbl][i].phys \in l3
    BY <1>2, <1>3, <1>4, <2>1 DEF Levels
  <2>3. more \in Seq(Table)
    BY <2>1, <2>2, CloneType DEF Known, more
  <2>4. /\ new \in Seq(Table) /\ Len(new) = Len(tables) + Len(more)
        /\ DOMAIN new = 1 .. Len(tables) + Len(more)
        /\ \A u \in DOMAIN tables \ {lv4tbl} : new[u] = tables[u]
        /\ Len(more) \in Nat
    <3>1. tables \in Seq(Table) /\ lv4tbl \in DOMAIN tables
      BY <1>2 DEF Known
    <3> QED BY <1>3, <2>3, <3>1, AddedIs
  <2>5. \/ tables' = new /\ pc' = "clone"
        \/ tables' = tables /\ pc' = "panic"
    BY <1>4, Allocated DEF Known, CloneEntry, more, e
  <2> HIDE DEF new
  <2>6. Extended(boot_tables) /\ Len(tables') \in Nat /\ DOMAIN tables' = 1 .. Len(tables')
    <3>1. CASE tables' = new
      <4>1. Len(new) \in Nat /\ Len(new) >= Len(tables) /\ DOMAIN new = 1 .. Len(new)
        BY <1>2, <2>4
      <4>2. \A u \in 1 .. boot_tables : u \in DOMAIN tables \ {lv4tbl}
        BY <1>2
      <4> QED BY <2>4, <3>1, <4>1, <4>2 DEF Extended
    <3>2. CASE tables' = tables
      BY <1>2, <3>2 DEF Extended, Known
    <3> QED BY <2>5, <3>1, <3>2
  <2>7. TypeOK'
    BY <1>1, <1>2, <2>5, <2>6 DEF Known, KernelPlaces, Stages, GuestStage, NestedPlaces, Extended
  <2>8. Stages'
    BY <1>1, <1>2, <2>5, <2>6, Constants
       DEF Known, Extended, Stages, LoaderStage, KernelStage, RootStage, GuestStage, LoaderPlaces,
           NestedPlaces, SwitchedPlaces, Root
  <2> QED BY <2>6, <2>7, <2>8 DEF Known
<1>5. CASE ~Present(tables[old_lv4tbl][i])
  <2>1. UNCHANGED <<tables, pc>>
    BY <1>5 DEF CloneEntry
  <2>2. Extended(boot_tables)
    BY <2>1 DEF Extended, Known
  <2>3. TypeOK'
    BY <1>1, <1>2, <2>1 DEF Known, Stages, GuestStage, NestedPlaces
  <2>4. Stages'
    BY <1>1, <1>2, <2>1, Constants
       DEF Known, Stages, LoaderStage, KernelStage, RootStage, GuestStage, LoaderPlaces,
           NestedPlaces, SwitchedPlaces, Root
  <2> QED BY <2>2, <2>3, <2>4 DEF Known
<1> QED BY <1>4, <1>5

-----------------------------------------------------------------------------
(* The guest's tables.                                                     *)

\* The indices of the addresses in a 2 MiB page of the guest.
LEMMA GuestIndices ==
    ASSUME NEW q \in Nat, NEW off \in 0 .. Entries - 1, q < Space
    PROVE  /\ A(q) \in Index /\ B(q) \in Index /\ C(q) \in Index
           /\ Number(A(q), B(q), C(q)) = q
           /\ Page(q) + off \in Nat
           /\ IndexAt(Page(q) + off, 4) = A(q)
           /\ IndexAt(Page(q) + off, 3) = B(q)
           /\ IndexAt(Page(q) + off, 2) = C(q)
           /\ (Page(q) + off) % Span(2) = off
<1> DEFINE E == Entries
           v == q * E + off
<1>1. E \in Nat \ {0} /\ E * E \in Nat \ {0} /\ Span(2) = E /\ q < E * E * E
  BY Spans DEF Space
<1>2. Page(q) + off = v
  BY <1>1 DEF Page
<1> HIDE DEF E
<1>3. v \in Nat /\ v \div E = q /\ v % E = off
  BY <1>1, Unique DEF E
<1> DEFINE h == q \div E
<1>4. h \in Nat /\ q = h * E + (q % E) /\ q % E \in 0 .. E - 1
  BY <1>1, Parts
<1>5. h = (h \div E) * E + (h % E) /\ h \div E \in Nat /\ h % E \in 0 .. E - 1
  BY <1>1, <1>4, Parts
<1>6. h \div E < E
  <2>1. h < E * E
    <3>1. h * E < (E * E) * E
      BY <1>1, <1>4
    <3> QED BY <1>1, <1>4, <3>1
  <2>2. (h \div E) * E < E * E
    BY <1>1, <1>5, <2>1
  <2> QED BY <1>1, <1>5, <2>2
<1>7. A(q) = h \div E /\ B(q) = h % E /\ C(q) = q % E
  BY DEF A, B, C, E
<1>8. A(q) \in Index /\ B(q) \in Index /\ C(q) \in Index
  BY <1>1, <1>4, <1>5, <1>6, <1>7 DEF Index, E
<1>9. Number(A(q), B(q), C(q)) = q
  BY <1>4, <1>5, <1>7 DEF Number, E
<1>10. /\ v \div Span(4) = (q \div E) \div E /\ v \div Span(3) = q \div E
       /\ v \div Span(2) = q
  BY <1>1, <1>3, Digits DEF E
<1>11. (h \div E) % E = h \div E
  <2>1. \A x \in Nat : x < E => x % E = x
    BY <1>1
  <2> QED BY <1>5, <1>6, <2>1
<1>12. IndexAt(v, 4) = A(q) /\ IndexAt(v, 3) = B(q) /\ IndexAt(v, 2) = C(q)
  BY <1>7, <1>10, <1>11 DEF IndexAt, E
<1> QED BY <1>1, <1>2, <1>3, <1>8, <1>9, <1>12

\* The page that map2m is about to map is one of the guest's address space.
LEMMA NextPage ==
    ASSUME Known, npt # 0
    PROVE  /\ guest_start \in Nat /\ host_start \in Nat /\ Pages \in Nat /\ i \in 0 .. Pages
           /\ guest_start + Pages <= Space /\ Space \in Nat
           /\ npt \in DOMAIN tables /\ Len(tables) \in Nat /\ DOMAIN tables = 1 .. Len(tables)
<1>1. guest_start \in GuestStarts /\ host_start \in HostStarts /\ size \in Sizes
  BY DEF Known, Stages, GuestStage
<1>2. guest_start \in Nat /\ host_start \in Nat /\ size \in Nat
  BY <1>1, NestedAssumption
<1>3. Pages \in Nat
  BY <1>2, Spans, Parts DEF Pages
<1>4. guest_start + Pages <= Space
  BY <1>1, NestedAssumption DEF Pages
<1>5. Space \in Nat
  BY Spans DEF Space
<1> QED BY <1>2, <1>3, <1>4, <1>5 DEF Known, TypeOK, NestedTypeOK

\* What the walk to a page of the guest meets.
LEMMA GuestWalk ==
    ASSUME Known, npt # 0, NEW w \in [npt .. Len(tables) -> Place], GuestTables(w),
           NEW q \in Nat, q < Space
    PROVE  /\ \/ G4(q) = NoEntry
              \/ \E c \in npt + 1 .. Len(tables) :
                    G4(q) = npt_table_entry(c) /\ w[c] = <<3, A(q), 0>>
           /\ Present(G4(q)) =>
                 /\ G4(q).phys \in npt + 1 .. Len(tables)
                 /\ w[G4(q).phys] = <<3, A(q), 0>>
                 /\ \/ G3(q) = NoEntry
                    \/ \E c \in npt + 1 .. Len(tables) :
                          G3(q) = npt_table_entry(c) /\ w[c] = <<2, A(q), B(q)>>
           /\ Present(G4(q)) /\ Present(G3(q)) =>
                 /\ G3(q).phys \in npt + 1 .. Len(tables)
                 /\ w[G3(q).phys] = <<2, A(q), B(q)>>
                 /\ \/ G2(q) = NoEntry
                    \/ /\ q \in guest_start .. guest_start + i - 1
                       /\ G2(q) = npt_page_entry(Page(host_start + (q - guest_start)))
<1>1. A(q) \in Index /\ B(q) \in Index /\ C(q) \in Index /\ Number(A(q), B(q), C(q)) = q
  <2>1. 0 \in 0 .. Entries - 1
    BY Constants
  <2> QED BY <2>1, GuestIndices
<1>2. Len(tables) \in Nat /\ npt \in 1 .. Len(tables)
  BY NextPage
<1>3. \A c : npt_table_entry(c).phys = c
  BY DEF npt_table_entry
<1>4. \/ G4(q) = NoEntry
      \/ \E c \in npt + 1 .. Len(tables) :
            G4(q) = npt_table_entry(c) /\ w[c] = <<3, A(q), 0>>
  <2>1. GuestEntry(w, npt, A(q)) /\ w[npt] = <<4, 0, 0>>
    BY <1>1, <1>2 DEF GuestTables
  <2> QED BY <2>1 DEF GuestEntry, G4
<1>5. ASSUME Present(G4(q))
      PROVE  /\ G4(q).phys \in npt + 1 .. Len(tables)
             /\ w[G4(q).phys] = <<3, A(q), 0>>
             /\ \/ G3(q) = NoEntry
                \/ \E c \in npt + 1 .. Len(tables) :
                      G3(q) = npt_table_entry(c) /\ w[c] = <<2, A(q), B(q)>>
  <2>1. PICK c \in npt + 1 .. Len(tables) : G4(q) = npt_table_entry(c) /\ w[c] = <<3, A(q), 0>>
    BY <1>4, <1>5, NewEntries
  <2>2. GuestEntry(w, c, B(q)) /\ G4(q).phys = c
    BY <1>1, <1>2, <1>3, <2>1 DEF GuestTables
  <2> QED BY <2>1, <2>2 DEF GuestEntry, G3
<1>6. ASSUME Present(G4(q)), Present(G3(q))
      PROVE  /\ G3(q).phys \in npt + 1 .. Len(tables)
             /\ w[G3(q).phys] = <<2, A(q), B(q)>>
             /\ \/ G2(q) = NoEntry
                \/ /\ q \in guest_start .. guest_start + i - 1
                   /\ G2(q) = npt_page_entry(Page(host_start + (q - guest_start)))
  <2>1. PICK c \in npt + 1 .. Len(tables) : G3(q) = npt_table_entry(c) /\ w[c] = <<2, A(q), B(q)>>
    BY <1>5, <1>6, NewEntries
  <2>2. GuestEntry(w, c, C(q)) /\ G3(q).phys = c
    BY <1>1, <1>2, <1>3, <2>1 DEF GuestTables
  <2> QED BY <1>1, <2>1, <2>2 DEF GuestEntry, G2
<1> QED BY <1>4, <1>5, <1>6

\* Which is all that MapsGuestExactly says.
LEMMA GuestExact ==
    ASSUME Known, GuestTree
    PROVE  MapsGuestExactly
<1>0. npt = 0 => pc # "panic_mapped"
  BY DEF Known, Stages, GuestStage
<1> SUFFICES ASSUME npt # 0
             PROVE  MapsGuestExactly
  BY <1>0 DEF MapsGuestExactly
<1>1. PICK w \in [npt .. Len(tables) -> Place] : GuestTables(w)
  BY DEF GuestTree
<1>2. ASSUME NEW q \in 0 .. Space - 1, NEW off \in 0 .. Span(2) - 1
      PROVE  Translate(tables, npt, Page(q) + off) =
                IF q \in guest_start .. guest_start + i - 1
                THEN Page(host_start + (q - guest_start)) + off
                ELSE Fault
  <2> DEFINE v == Page(q) + off
  <2>1. q \in Nat /\ q < Space /\ off \in 0 .. Entries - 1
    <3>1. Space \in Nat /\ Span(2) = Entries
      BY NextPage, Spans
    <3> QED BY <3>1
  <2>2. /\ IndexAt(v, 4) = A(q) /\ IndexAt(v, 3) = B(q) /\ IndexAt(v, 2) = C(q)
        /\ v % Span(2) = off
    BY <2>1, GuestIndices
  <2> HIDE DEF v
  <2>3. /\ E4(tables, npt, v) = G4(q)
        /\ E3(tables, npt, v) = G3(q)
        /\ E2(tables, npt, v) = G2(q)
    BY <2>2 DEF E4, E3, E2, G4, G3, G2
  <2>4. /\ \A n : LeadsOn(npt_table_entry(n)) /\ npt_page_entry(n).phys = n
        /\ \A n : Present(npt_page_entry(n)) /\ ~LeadsOn(npt_page_entry(n))
        /\ ~Present(NoEntry) /\ ~LeadsOn(NoEntry)
    BY DEF LeadsOn, Present, npt_table_entry, npt_page_entry, NoEntry
  <2>5. CASE ~Present(G4(q))
    <3>1. q \notin guest_start .. guest_start + i - 1
      BY <2>5 DEF GuestTree
    <3>2. Translate(tables, npt, v) = Fault
      BY <2>3, <2>5, TranslateIs DEF LeadsOn
    <3> QED BY <3>1, <3>2 DEF v
  <2>6. CASE Present(G4(q)) /\ ~Present(G3(q))
    <3>1. q \notin guest_start .. guest_start + i - 1
      BY <2>6 DEF GuestTree
    <3>2. LeadsOn(G4(q))
      BY <1>1, <2>1, <2>4, <2>6, GuestWalk
    <3>3. Translate(tables, npt, v) = Fault
      BY <2>3, <2>6, <3>2, TranslateIs DEF LeadsOn
    <3> QED BY <3>1, <3>3 DEF v
  <2>7. CASE Present(G4(q)) /\ Present(G3(q))
    <3>1. LeadsOn(G4(q)) /\ LeadsOn(G3(q))
      BY <1>1, <2>1, <2>4, <2>7, GuestWalk
    <3>2. CASE G2(q) = NoEntry
      <4>1. q \notin guest_start .. guest_start + i - 1
        BY <2>4, <3>2 DEF GuestTree
      <4>2. Translate(tables, npt, v) = Fault
        BY <2>3, <2>4, <3>1, <3>2, TranslateIs
      <4> QED BY <4>1, <4>2 DEF v
    <3>3. CASE /\ q \in guest_start .. guest_start + i - 1
               /\ G2(q) = npt_page_entry(Page(host_start + (q - guest_start)))
      <4>1. ~LeadsOn(G2(q)) /\ Present(G2(q)) /\ G2(q).phys = Page(host_start + (q - guest_start))
        BY <2>4, <3>3
      <4>2. Translate(tables, npt, v) = Page(host_start + (q - guest_start)) + (v % Span(2))
        BY <2>3, <3>1, <4>1, TranslateIs
      <4> QED BY <2>2, <3>3, <4>2 DEF v
    <3> QED BY <1>1, <2>1, <2>7, <3>2, <3>3, GuestWalk
  <2> QED BY <2>5, <2>6, <2>7
<1>3. ASSUME NEW t \in npt .. Len(tables), NEW k \in Index
      PROVE  Grants(tables[t][k])
  <2>1. GuestEntry(w, t, k)
    BY <1>1 DEF GuestTables
  <2>2. /\ ~Present(NoEntry)
        /\ \A n : {"US", "RW"} \subseteq npt_table_entry(n).flags
        /\ \A n : {"US", "RW"} \subseteq npt_page_entry(n).flags
    BY DEF Present, NoEntry, npt_table_entry, npt_page_entry
  <2> QED BY <2>1, <2>2 DEF GuestEntry, Grants
<1> QED BY <1>2, <1>3 DEF MapsGuestExactly, GuestTree

\* The entries that are there stay.
Grows(tbls, new) ==
    /\ DOMAIN tbls \subseteq DOMAIN new
    /\ \A t \in DOMAIN tbls, k \in Index : Present(tbls[t][k]) => new[t][k] = tbls[t][k]

\* So the pages that are mapped stay mapped.
LEMMA GuestPagesStay ==
    ASSUME Known, GuestTree, npt # 0, Grows(tables, tables'), UNCHANGED npt,
           NEW q \in Nat, q < Space
    PROVE  /\ Present(G4(q)) => G4(q)' = G4(q)
           /\ Present(G4(q)) /\ Present(G3(q)) => G3(q)' = G3(q)
           /\ Present(G4(q)) /\ Present(G3(q)) /\ Present(G2(q)) => G2(q)' = G2(q)
<1>1. PICK w \in [npt .. Len(tables) -> Place] : GuestTables(w)
  BY DEF GuestTree
<1>2. A(q) \in Index /\ B(q) \in Index /\ C(q) \in Index
  <2>1. 0 \in 0 .. Entries - 1
    BY Constants
  <2> QED BY <2>1, GuestIndices
<1>3. npt \in DOMAIN tables /\ DOMAIN tables = 1 .. Len(tables) /\ Len(tables) \in Nat
  BY NextPage
<1>4. Present(G4(q)) => G4(q)' = G4(q)
  BY <1>2, <1>3 DEF G4, Grows
<1>5. Present(G4(q)) /\ Present(G3(q)) => G3(q)' = G3(q)
  <2>1. Present(G4(q)) => G4(q).phys \in DOMAIN tables
    BY <1>1, <1>3, GuestWalk
  <2> QED BY <1>2, <1>4, <2>1 DEF G3, Grows
<1>6. Present(G4(q)) /\ Present(G3(q)) /\ Present(G2(q)) => G2(q)' = G2(q)
  <2>1. Present(G4(q)) /\ Present(G3(q)) => G3(q).phys \in DOMAIN tables
    BY <1>1, <1>3, GuestWalk
  <2> QED BY <1>2, <1>5, <2>1 DEF G2, Grows
<1> QED BY <1>4, <1>5, <1>6

\* A new table in the place of an entry that is not there.
LEMMA NewGuestTable ==
    ASSUME Known, npt # 0, NEW w \in [npt .. Len(tables) -> Place], GuestTables(w),
           NEW t \in npt .. Len(tables), NEW k \in Index, ~Present(tables[t][k]),
           NEW place \in Place,
           \/ w[t][1] = 4 /\ place = <<3, k, 0>>
           \/ w[t][1] = 3 /\ place = <<2, w[t][2], k>>,
           tables' = SetEntry(Append(tables, EmptyTable), t, k, npt_table_entry(Len(tables) + 1)),
           UNCHANGED <<nested_vars, i>>
    PROVE  /\ tables' \in Seq(Table) /\ Len(tables') = Len(tables) + 1
           /\ Grows(tables, tables') /\ Extended(npt - 1)
           /\ tables'[t][k] = npt_table_entry(Len(tables) + 1)
           /\ \E x \in [npt .. Len(tables') -> Place] : GuestTables(x)'
<1> DEFINE n == Len(tables) + 1
           longer == Append(tables, EmptyTable)
<1>1. /\ tables \in Seq(Table) /\ Len(tables) \in Nat /\ DOMAIN tables = 1 .. Len(tables)
      /\ npt \in 1 .. Len(tables)
  BY NextPage DEF Known, TypeOK
<1>0. UNCHANGED <<npt, guest_start, host_start, i>>
  BY DEF nested_vars, arguments
<1>a. n \in Nat /\ n = Len(tables) + 1 /\ t \in DOMAIN tables /\ t # n
  BY <1>1
<1>2. /\ longer \in Seq(Table) /\ Len(longer) = n /\ DOMAIN longer = DOMAIN tables \cup {n}
      /\ \A u \in DOMAIN tables : longer[u] = tables[u]
      /\ longer[n] = EmptyTable /\ n \notin DOMAIN tables
  BY <1>1, NewEntries, AppendIs
<1>3. npt_table_entry(n) \in Entry /\ t \in DOMAIN longer /\ t \in DOMAIN tables
  BY <1>1, <1>2, NewEntries
<1> HIDE DEF longer
<1> DEFINE new == SetEntry(longer, t, k, npt_table_entry(n))
<1>4. /\ new \in Seq(Table) /\ Len(new) = Len(longer) /\ DOMAIN new = DOMAIN longer
      /\ \A u \in DOMAIN longer \ {t} : new[u] = longer[u]
      /\ new[t][k] = npt_table_entry(n)
      /\ \A j \in Index \ {k} : new[t][j] = longer[t][j]
  <2>1. longer \in Seq(Table) /\ t \in DOMAIN longer /\ npt_table_entry(n) \in Entry
    BY <1>2, <1>3
  <2> QED BY <2>1, SetEntryIs
<1>5. tables' = new
  BY DEF longer
<1> HIDE DEF new
<1>6. /\ tables' \in Seq(Table) /\ Len(tables') = n
      /\ \A u \in DOMAIN tables \ {t} : tables'[u] = tables[u]
      /\ tables'[n] = EmptyTable
      /\ tables'[t][k] = npt_table_entry(n)
      /\ \A j \in Index \ {k} : tables'[t][j] = tables[t][j]
      /\ DOMAIN tables \subseteq DOMAIN tables'
  BY <1>2, <1>3, <1>4, <1>5
<1>7. Grows(tables, tables')
  <2> SUFFICES ASSUME NEW u \in DOMAIN tables, NEW j \in Index, Present(tables[u][j])
               PROVE  tables'[u][j] = tables[u][j]
    BY <1>6 DEF Grows
  <2>1. CASE u = t
    BY <1>6, <2>1
  <2>2. CASE u # t
    BY <1>6, <2>2
  <2> QED BY <2>1, <2>2
<1>8. Extended(npt - 1)
  <2>1. \A u \in 1 .. npt - 1 : u \in DOMAIN tables \ {t}
    BY <1>1
  <2>2. Len(tables') >= Len(tables)
    BY <1>1, <1>6
  <2> QED BY <1>6, <2>1, <2>2 DEF Extended
<1> HIDE DEF n
<1>9. PICK x \in [npt .. n -> Place] : x[n] = place /\ \A u \in npt .. Len(tables) : x[u] = w[u]
  <2> DEFINE y == [u \in npt .. n |-> IF u = n THEN place ELSE w[u]]
  <2>1. \A u \in npt .. n : u = n \/ u \in npt .. Len(tables)
    BY <1>1, <1>a
  <2>2. n \in npt .. n /\ \A u \in npt .. Len(tables) : u \in npt .. n /\ u # n
    BY <1>1, <1>a
  <2>3. y \in [npt .. n -> Place] /\ y[n] = place /\ \A u \in npt .. Len(tables) : y[u] = w[u]
    BY <2>1, <2>2
  <2> HIDE DEF y
  <2> QED BY <2>3
<1>10. ASSUME NEW u \in npt .. n, NEW j \in Index
       PROVE  GuestEntry(x, u, j)'
  <2>1. CASE u = n
    BY <1>6, <2>1, NewEntries DEF GuestEntry
  <2>2. CASE u = t /\ j = k
    <3>1. tables'[u][j] = npt_table_entry(n) /\ n \in npt' + 1 .. Len(tables')
      BY <1>0, <1>1, <1>6, <1>a, <2>2
    <3>2. x[u] = w[t] /\ x[n] = place
      BY <1>9, <2>2
    <3>3. \/ x[u][1] = 4 /\ x[n] = <<3, j, 0>>
          \/ x[u][1] = 3 /\ x[n] = <<2, x[u][2], j>>
      BY <2>2, <3>2
    <3> QED BY <3>1, <3>3 DEF GuestEntry
  <2>3. CASE u # n /\ ~(u = t /\ j = k)
    <3>1. u \in npt .. Len(tables) /\ u \in DOMAIN tables
      BY <1>1, <1>a, <2>3
    <3>2. tables'[u][j] = tables[u][j]
      <4>1. CASE u = t
        BY <1>6, <2>3, <4>1
      <4>2. CASE u # t
        BY <1>6, <3>1, <4>2
      <4> QED BY <4>1, <4>2
    <3>3. GuestEntry(w, u, j)
      BY <3>1 DEF GuestTables
    <3>4. x[u] = w[u] /\ \A c \in npt + 1 .. Len(tables) : x[c] = w[c] /\ c \in npt + 1 .. Len(tables')
      <4>1. \A c \in npt + 1 .. Len(tables) : c \in npt .. Len(tables) /\ c \in npt + 1 .. Len(tables')
        BY <1>1, <1>6, <1>a
      <4> QED BY <1>9, <3>1, <4>1
    <3>5. CASE tables[u][j] = NoEntry
      BY <3>2, <3>5 DEF GuestEntry
    <3>6. ASSUME NEW c \in npt + 1 .. Len(tables), tables[u][j] = npt_table_entry(c),
                 \/ w[u][1] = 4 /\ w[c] = <<3, j, 0>>
                 \/ w[u][1] = 3 /\ w[c] = <<2, w[u][2], j>>
          PROVE  GuestEntry(x, u, j)'
      <4>1. /\ c \in npt' + 1 .. Len(tables') /\ tables'[u][j] = npt_table_entry(c)
            /\ \/ x[u][1] = 4 /\ x[c] = <<3, j, 0>>
               \/ x[u][1] = 3 /\ x[c] = <<2, x[u][2], j>>
        BY <1>0, <3>2, <3>4, <3>6
      <4> QED BY <4>1 DEF GuestEntry
    <3>7. CASE LET q == Number(w[u][2], w[u][3], j)
               IN  /\ w[u][1] = 2
                   /\ q \in guest_start .. guest_start + i - 1
                   /\ tables[u][j] = npt_page_entry(Page(host_start + (q - guest_start)))
      BY <1>0, <3>2, <3>4, <3>7 DEF GuestEntry
    <3> QED BY <3>3, <3>5, <3>6, <3>7 DEF GuestEntry
  <2> QED BY <2>1, <2>2, <2>3
<1>11. x[npt] = <<4, 0, 0>>
  BY <1>1, <1>9 DEF GuestTables
<1>12. GuestTables(x)'
  BY <1>0, <1>6, <1>10, <1>11 DEF GuestTables
<1> QED BY <1>6, <1>7, <1>8, <1>9, <1>12 DEF n

\* The address that map2m works on, and the tables that it has come to.
LEMMA Gpa ==
    ASSUME Known, pc \in {"lv4", "lv3", "lv2"}
    PROVE  /\ npt # 0 /\ i \in Nat /\ i < Pages
           /\ guest_start + i \in Nat /\ guest_start + i < Space
           /\ IndexAt(gpa, 4) = A(guest_start + i) /\ IndexAt(gpa, 3) = B(guest_start + i)
           /\ IndexAt(gpa, 2) = C(guest_start + i)
           /\ A(guest_start + i) \in Index /\ B(guest_start + i) \in Index
           /\ C(guest_start + i) \in Index
           /\ lv3tbl = G4(guest_start + i).phys /\ lv2tbl = G3(guest_start + i).phys
<1> DEFINE q == guest_start + i
<1>1. npt # 0 /\ i < Pages
  BY DEF Known, Stages, GuestStage
<1>2. i \in Nat /\ guest_start \in Nat /\ Pages \in Nat /\ Space \in Nat /\ guest_start + Pages <= Space
  BY <1>1, NextPage
<1>3. q \in Nat /\ q < Space
  BY <1>1, <1>2
<1>4. gpa = Page(q)
  BY DEF gpa
<1> HIDE DEF q
<1>5. 0 \in 0 .. Entries - 1 /\ Page(q) + 0 = Page(q)
  BY <1>3, Spans DEF Page
<1>6. /\ IndexAt(Page(q) + 0, 4) = A(q) /\ IndexAt(Page(q) + 0, 3) = B(q)
      /\ IndexAt(Page(q) + 0, 2) = C(q)
      /\ A(q) \in Index /\ B(q) \in Index /\ C(q) \in Index
  BY <1>3, <1>5, GuestIndices
<1>7. IndexAt(gpa, 4) = A(q) /\ IndexAt(gpa, 3) = B(q) /\ IndexAt(gpa, 2) = C(q)
  BY <1>4, <1>5, <1>6
<1>8. lv3tbl = G4(q).phys /\ lv2tbl = G3(q).phys
  BY <1>7 DEF lv3tbl, lv2tbl, G4, G3
<1> QED BY <1>1, <1>2, <1>3, <1>6, <1>7, <1>8 DEF q

\* A step of init_npt keeps what is known, if it keeps the tables and the loop.
LEMMA GuestStepKnown ==
    ASSUME Known, npt # 0, UNCHANGED host_vars, UNCHANGED nested_vars,
           tables' \in Seq(Table), Len(tables') >= Len(tables),
           pc' \in {"lv4", "lv3", "lv2", "done", "panic"},
           i' \in 0 .. Pages, pc' \in {"lv4", "lv3", "lv2"} => i' < Pages
    PROVE  Known'
<1> USE DEF TypeOK, NestedTypeOK, nested_vars, arguments, host_vars
<1>0. Pages' = Pages /\ Root' = Root
  BY DEF Pages, Root
<1>1. /\ Len(tables') \in Nat /\ DOMAIN tables' = 1 .. Len(tables')
      /\ Len(tables) \in Nat /\ DOMAIN tables = 1 .. Len(tables) /\ Pages \in Nat
  BY NextPage DEF Known
<1>2. TypeOK'
  BY <1>0, <1>1 DEF Known, KernelPlaces, NestedPlaces
<1>3. Stages'
  <2>1. LoaderStage'
    BY DEF LoaderStage, LoaderPlaces
  <2>2. KernelStage'
    BY <1>0, <1>1
       DEF KernelStage, LoaderPlaces, SwitchedPlaces, NestedPlaces, Known, Stages, GuestStage
  <2>3. RootStage'
    BY <1>0, <1>1 DEF RootStage, Known, Stages, GuestStage
  <2>4. GuestStage'
    BY <1>0, <1>1 DEF GuestStage, NestedPlaces, Known, Stages
  <2> QED BY <2>1, <2>2, <2>3, <2>4 DEF Stages
<1> QED BY <1>2, <1>3 DEF Known

\* What every step keeps of the pages mapped so far.
LEMMA GuestTreeKept ==
    ASSUME Known, GuestTree, npt # 0, Grows(tables, tables'), UNCHANGED nested_vars, UNCHANGED i,
           NEW x, x \in [npt .. Len(tables') -> Place], GuestTables(x)',
           pc' \in {"lv3", "lv2"} => Present(G4(guest_start + i)'),
           pc' = "lv2" => Present(G3(guest_start + i)'),
           pc' # "panic_mapped"
    PROVE  GuestTree'
<1>1. UNCHANGED <<npt, guest_start, host_start, i>>
  BY DEF nested_vars, arguments
<1>2. ASSUME NEW q \in guest_start .. guest_start + i - 1
      PROVE  Present(G4(q)') /\ Present(G3(q)') /\ Present(G2(q)')
  <2>1. q \in Nat /\ q < Space
    BY NextPage
  <2>2. Present(G4(q)) /\ Present(G3(q)) /\ Present(G2(q))
    BY DEF GuestTree
  <2>3. G4(q)' = G4(q) /\ G3(q)' = G3(q) /\ G2(q)' = G2(q)
    BY <1>1, <2>1, <2>2, GuestPagesStay
  <2> QED BY <2>2, <2>3
<1>3. \A q \in guest_start' .. guest_start' + i' - 1 :
          Present(G4(q)') /\ Present(G3(q)') /\ Present(G2(q)')
  BY <1>1, <1>2
<1>4. \E y \in [npt' .. Len(tables') -> Place] : GuestTables(y)'
  BY <1>1
<1>5. /\ pc' \in {"lv3", "lv2"} => Present(G4(guest_start + i))'
      /\ pc' = "lv2" => Present(G3(guest_start + i))'
  BY <1>1 DEF Present
<1> QED BY <1>3, <1>4, <1>5 DEF GuestTree, Present

\* EnsureTable, for an entry of a table of the guest.
LEMMA EnsureGuest ==
    ASSUME Known, GuestTree, npt # 0,
           NEW w \in [npt .. Len(tables) -> Place], GuestTables(w),
           NEW t \in npt .. Len(tables), NEW level, NEW next,
           IndexAt(gpa, level) \in Index,
           NEW place \in Place,
           \/ w[t][1] = 4 /\ place = <<3, IndexAt(gpa, level), 0>>
           \/ w[t][1] = 3 /\ place = <<2, w[t][2], IndexAt(gpa, level)>>,
           EnsureTable(t, level, next), UNCHANGED <<nested_vars, i>>
    PROVE  /\ tables' \in Seq(Table) /\ Len(tables') >= Len(tables)
           /\ Grows(tables, tables') /\ Extended(npt - 1)
           /\ pc' \in {next, "panic"}
           /\ pc' = next /\ next # "panic" => Present(tables'[t][IndexAt(gpa, level)])
           /\ \E x \in [npt .. Len(tables') -> Place] : GuestTables(x)'
<1> DEFINE k == IndexAt(gpa, level)
<1>0. UNCHANGED <<npt, guest_start, host_start, i>>
  BY DEF nested_vars, arguments
<1>1. tables \in Seq(Table) /\ Len(tables) \in Nat /\ npt \in 1 .. Len(tables)
  BY NextPage DEF Known, TypeOK
<1>2. \/ UNCHANGED tables /\ Present(tables[t][k]) /\ pc' = next
      \/ UNCHANGED tables /\ pc' = "panic"
      \/ /\ tables' = SetEntry(Append(tables, EmptyTable), t, k, npt_table_entry(Len(tables) + 1))
         /\ ~Present(tables[t][k]) /\ pc' = next
  BY DEF EnsureTable, NewTableFor, allocate_table
<1>3. CASE UNCHANGED tables
  <2>1. GuestTables(w)'
    BY <1>0, <1>3 DEF GuestTables, GuestEntry, Page
  <2>2. Grows(tables, tables') /\ Extended(npt - 1)
    BY <1>1, <1>3 DEF Grows, Extended
  <2>3. pc' \in {next, "panic"} /\ (pc' = next /\ next # "panic" => Present(tables'[t][k]))
    <3>1. tables'[t][k] = tables[t][k]
      BY <1>3
    <3>2. CASE UNCHANGED tables /\ Present(tables[t][k]) /\ pc' = next
      BY <3>1, <3>2
    <3>3. CASE pc' = "panic"
      BY <3>3
    <3>4. CASE /\ tables' = SetEntry(Append(tables, EmptyTable), t, k, npt_table_entry(Len(tables) + 1))
               /\ ~Present(tables[t][k]) /\ pc' = next
      <4>1. tables'[t][k] = npt_table_entry(Len(tables) + 1)
        BY <3>4, NewGuestTable
      <4> QED BY <1>1, <3>4, <4>1, NewEntries DEF LeadsOn
    <3> QED BY <1>2, <3>2, <3>3, <3>4
  <2>4. Len(tables') >= Len(tables) /\ tables' \in Seq(Table)
    BY <1>1, <1>3
  <2>5. w \in [npt .. Len(tables') -> Place]
    BY <1>3
  <2> QED BY <2>1, <2>2, <2>3, <2>4, <2>5
<1>4. CASE /\ tables' = SetEntry(Append(tables, EmptyTable), t, k, npt_table_entry(Len(tables) + 1))
           /\ ~Present(tables[t][k]) /\ pc' = next
  <2>1. /\ tables' \in Seq(Table) /\ Len(tables') = Len(tables) + 1
        /\ Grows(tables, tables') /\ Extended(npt - 1)
        /\ tables'[t][k] = npt_table_entry(Len(tables) + 1)
        /\ \E x \in [npt .. Len(tables') -> Place] : GuestTables(x)'
    BY <1>4, NewGuestTable
  <2>2. Present(tables'[t][k])
    BY <1>1, <2>1, NewEntries DEF LeadsOn
  <2> QED BY <1>1, <1>4, <2>1, <2>2
<1> QED BY <1>2, <1>3, <1>4

\* The first level of map2m.
LEMMA MapLv4Keeps ==
    ASSUME Known, GuestTree, MapLv4, UNCHANGED host_vars
    PROVE  Known' /\ GuestTree' /\ Extended(npt - 1)
<1> DEFINE q == guest_start + i
<1>1. pc = "lv4" /\ EnsureTable(npt, 4, "lv3") /\ UNCHANGED <<nested_vars, i>>
  BY DEF MapLv4
<1>2. /\ npt # 0 /\ i \in Nat /\ i < Pages
      /\ IndexAt(gpa, 4) = A(q) /\ A(q) \in Index
  BY <1>1, Gpa
<1>3. PICK w \in [npt .. Len(tables) -> Place] : GuestTables(w)
  BY <1>2 DEF GuestTree
<1>4. npt \in npt .. Len(tables) /\ w[npt][1] = 4 /\ Pages \in Nat
  BY <1>2, <1>3, NextPage DEF GuestTables
<1>5. PICK place \in Place : place = <<3, A(q), 0>>
  <2>1. 0 \in Index
    BY Constants DEF Index
  <2> QED BY <1>2, <2>1 DEF Place
<1>6. /\ tables' \in Seq(Table) /\ Len(tables') >= Len(tables)
      /\ Grows(tables, tables') /\ Extended(npt - 1)
      /\ pc' \in {"lv3", "panic"}
      /\ pc' = "lv3" => Present(tables'[npt][A(q)])
      /\ \E x \in [npt .. Len(tables') -> Place] : GuestTables(x)'
  BY <1>1, <1>2, <1>3, <1>4, <1>5, EnsureGuest
<1>7. Known'
  BY <1>1, <1>2, <1>4, <1>6, GuestStepKnown
<1>8. PICK x \in [npt .. Len(tables') -> Place] : GuestTables(x)'
  BY <1>6
<1>9. pc' = "lv3" => Present(G4(q)')
  <2>1. UNCHANGED <<npt, guest_start, i>>
    BY <1>1 DEF nested_vars, arguments
  <2> QED BY <1>6, <2>1 DEF G4
<1>10. GuestTree'
  BY <1>1, <1>2, <1>6, <1>8, <1>9, GuestTreeKept
<1> QED BY <1>6, <1>7, <1>10

\* The second level.
LEMMA MapLv3Keeps ==
    ASSUME Known, GuestTree, MapLv3, UNCHANGED host_vars
    PROVE  Known' /\ GuestTree' /\ Extended(npt - 1)
<1> DEFINE q == guest_start + i
<1>1. pc = "lv3" /\ EnsureTable(lv3tbl, 3, "lv2") /\ UNCHANGED <<nested_vars, i>>
  BY DEF MapLv3
<1>2. /\ npt # 0 /\ i \in Nat /\ i < Pages /\ q \in Nat /\ q < Space
      /\ IndexAt(gpa, 3) = B(q) /\ A(q) \in Index /\ B(q) \in Index /\ lv3tbl = G4(q).phys
  BY <1>1, Gpa
<1>3. PICK w \in [npt .. Len(tables) -> Place] : GuestTables(w)
  BY <1>2 DEF GuestTree
<1>4. Present(G4(q))
  BY <1>1, <1>2 DEF GuestTree
<1>5. lv3tbl \in npt + 1 .. Len(tables) /\ w[lv3tbl] = <<3, A(q), 0>>
  BY <1>2, <1>3, <1>4, GuestWalk
<1>6. lv3tbl \in npt .. Len(tables) /\ w[lv3tbl][1] = 3 /\ w[lv3tbl][2] = A(q) /\ Pages \in Nat
  BY <1>2, <1>5, NextPage
<1>7. PICK place \in Place : place = <<2, A(q), B(q)>>
  BY <1>2 DEF Place
<1>8. /\ tables' \in Seq(Table) /\ Len(tables') >= Len(tables)
      /\ Grows(tables, tables') /\ Extended(npt - 1)
      /\ pc' \in {"lv2", "panic"}
      /\ pc' = "lv2" => Present(tables'[lv3tbl][B(q)])
      /\ \E x \in [npt .. Len(tables') -> Place] : GuestTables(x)'
  <2> HIDE DEF q
  <2>1. EnsureTable(lv3tbl, 3, "lv2") /\ IndexAt(gpa, 3) \in Index
    BY <1>1, <1>2
  <2>2. w[lv3tbl][1] = 3 /\ place = <<2, w[lv3tbl][2], IndexAt(gpa, 3)>>
    BY <1>2, <1>6, <1>7
  <2> QED BY <1>1, <1>2, <1>3, <1>6, <2>1, <2>2, EnsureGuest
<1>9. Known'
  BY <1>1, <1>2, <1>6, <1>8, GuestStepKnown
<1>10. PICK x \in [npt .. Len(tables') -> Place] : GuestTables(x)'
  BY <1>8
<1>11. UNCHANGED <<npt, guest_start, i>>
  BY <1>1 DEF nested_vars, arguments
<1>12. q' = q
  BY <1>11
<1>13. G4(q)' = G4(q)
  <2> HIDE DEF q
  <2>1. PICK p : p = q
    OBVIOUS
  <2>2. G4(p)' = G4(p)
    BY <1>2, <1>4, <1>8, <1>11, <2>1, GuestPagesStay
  <2> QED BY <1>12, <2>1, <2>2 DEF G4
<1>14. pc' = "lv2" => Present(G3(q)')
  <2>1. G3(q)' = tables'[lv3tbl][B(q)]
    BY <1>2, <1>12, <1>13 DEF G3
  <2> QED BY <1>8, <2>1
<1>15. Present(G4(q)')
  BY <1>4, <1>13
<1>16. GuestTree'
  BY <1>1, <1>2, <1>8, <1>10, <1>14, <1>15, GuestTreeKept
<1> QED BY <1>8, <1>9, <1>16

\* The last level: the page is not there yet, and gets its entry.
LEMMA MapLv2Keeps ==
    ASSUME Known, GuestTree, MapLv2, UNCHANGED host_vars
    PROVE  Known' /\ GuestTree' /\ Extended(npt - 1)
<1> DEFINE r == guest_start + i
<1>1. pc = "lv2" /\ UNCHANGED nested_vars
  BY DEF MapLv2
<1>2. /\ npt # 0 /\ i \in Nat /\ i < Pages /\ r \in Nat /\ r < Space
      /\ IndexAt(gpa, 2) = C(r) /\ A(r) \in Index /\ B(r) \in Index /\ C(r) \in Index
      /\ lv2tbl = G3(r).phys
  BY <1>1, Gpa
<1>3. PICK w \in [npt .. Len(tables) -> Place] : GuestTables(w)
  BY <1>2 DEF GuestTree
<1>4. Present(G4(r)) /\ Present(G3(r))
  BY <1>1, <1>2 DEF GuestTree
<1>5. UNCHANGED <<npt, guest_start, host_start, size>>
  BY <1>1 DEF nested_vars, arguments
<1>6. /\ guest_start \in Nat /\ host_start \in Nat /\ Pages \in Nat /\ tables \in Seq(Table)
      /\ npt \in 1 .. Len(tables) /\ Len(tables) \in Nat /\ DOMAIN tables = 1 .. Len(tables)
  BY <1>2, NextPage DEF Known, TypeOK
<1>7. PICK t \in npt + 1 .. Len(tables) : t = lv2tbl /\ w[t] = <<2, A(r), B(r)>>
  BY <1>2, <1>3, <1>4, GuestWalk
<1>8. PICK q \in Nat : q = r
  BY <1>2
<1>9. PICK k \in Index : k = C(r)
  BY <1>2
<1>10. tables[t][k] = NoEntry
  <2>1. G2(r) = tables[t][k]
    BY <1>2, <1>7, <1>9 DEF G2
  <2>2. r \notin guest_start .. guest_start + i - 1
    BY <1>2, <1>6
  <2>3. G2(r) = NoEntry
    BY <1>2, <1>3, <1>4, <2>2, GuestWalk
  <2> QED BY <2>1, <2>3
<1>11. /\ tables' = SetEntry(tables, t, k, npt_page_entry(hpa))
       /\ i' = i + 1 /\ pc' = LoopHead(i + 1)
  BY <1>2, <1>7, <1>9, <1>10, NewEntries DEF MapLv2
<1>12. hpa \in Nat /\ hpa = Page(host_start + (q - guest_start))
  <2>1. host_start + i = host_start + (q - guest_start) /\ host_start + i \in Nat
    BY <1>2, <1>6, <1>8
  <2> QED BY <2>1, Spans DEF hpa, Page
<1>13. t \in DOMAIN tables /\ npt_page_entry(hpa) \in Entry
  BY <1>6, <1>12, NewEntries
<1>14. /\ tables' \in Seq(Table) /\ Len(tables') = Len(tables) /\ DOMAIN tables' = DOMAIN tables
       /\ \A u \in DOMAIN tables \ {t} : tables'[u] = tables[u]
       /\ tables'[t][k] = npt_page_entry(hpa)
       /\ \A j \in Index \ {k} : tables'[t][j] = tables[t][j]
  BY <1>6, <1>11, <1>13, SetEntryIs
<1>15. Grows(tables, tables')
  <2> SUFFICES ASSUME NEW u \in DOMAIN tables, NEW j \in Index, Present(tables[u][j])
               PROVE  tables'[u][j] = tables[u][j]
    BY <1>14 DEF Grows
  <2>1. CASE u = t
    BY <1>10, <1>14, <2>1, NewEntries
  <2>2. CASE u # t
    BY <1>14, <2>2
  <2> QED BY <2>1, <2>2
<1>16. Extended(npt - 1)
  <2>1. \A u \in 1 .. npt - 1 : u \in DOMAIN tables \ {t}
    BY <1>6
  <2>2. Len(tables') >= Len(tables)
    BY <1>6, <1>14
  <2> QED BY <1>14, <2>1, <2>2 DEF Extended
<1>17. Known'
  <2>1. i + 1 \in 0 .. Pages /\ (i + 1 < Pages \/ i + 1 >= Pages)
    BY <1>2, <1>6
  <2>2. pc' \in {"lv4", "done"} /\ (pc' = "lv4" => i' < Pages)
    BY <1>11 DEF LoopHead
  <2> QED BY <1>1, <1>2, <1>6, <1>11, <1>14, <2>1, <2>2, GuestStepKnown
<1> HIDE DEF r
<1>18. \A u \in npt .. Len(tables), j \in Index : GuestEntry(w, u, j)'
  <2> SUFFICES ASSUME NEW u \in npt .. Len(tables), NEW j \in Index
               PROVE  GuestEntry(w, u, j)'
    OBVIOUS
  <2>0. u \in DOMAIN tables /\ GuestEntry(w, u, j)
    BY <1>3, <1>6 DEF GuestTables
  <2>1. CASE u = t /\ j = k
    <3>1. w[t][1] = 2 /\ Number(w[t][2], w[t][3], k) = q
      <4>1. Number(A(r), B(r), C(r)) = r
        <5>1. 0 \in 0 .. Entries - 1
          BY Constants
        <5> QED BY <1>2, <5>1, GuestIndices
      <4> QED BY <1>7, <1>8, <1>9, <4>1
    <3>2. q \in guest_start' .. guest_start' + i' - 1
      BY <1>2, <1>5, <1>6, <1>8, <1>11 DEF r
    <3>3. tables'[t][k] = npt_page_entry(Page(host_start' + (q - guest_start')))
      BY <1>5, <1>12, <1>14
    <3> QED BY <2>1, <3>1, <3>2, <3>3 DEF GuestEntry
  <2>2. CASE ~(u = t /\ j = k)
    <3>1. tables'[u][j] = tables[u][j]
      <4>1. CASE u = t
        BY <1>14, <2>2, <4>1
      <4>2. CASE u # t
        BY <1>14, <2>0, <4>2
      <4> QED BY <4>1, <4>2
    <3>2. \A p : p \in guest_start .. guest_start + i - 1 => p \in guest_start' .. guest_start' + i' - 1
      BY <1>2, <1>5, <1>6, <1>11
    <3>3. CASE tables[u][j] = NoEntry
      BY <3>1, <3>3 DEF GuestEntry
    <3>4. ASSUME NEW c \in npt + 1 .. Len(tables), tables[u][j] = npt_table_entry(c),
                 \/ w[u][1] = 4 /\ w[c] = <<3, j, 0>>
                 \/ w[u][1] = 3 /\ w[c] = <<2, w[u][2], j>>
          PROVE  GuestEntry(w, u, j)'
      BY <1>5, <1>14, <3>1, <3>4 DEF GuestEntry
    <3>5. CASE LET p == Number(w[u][2], w[u][3], j)
               IN  /\ w[u][1] = 2
                   /\ p \in guest_start .. guest_start + i - 1
                   /\ tables[u][j] = npt_page_entry(Page(host_start + (p - guest_start)))
      <4>1. PICK p : p = Number(w[u][2], w[u][3], j)
        OBVIOUS
      <4>2. /\ w[u][1] = 2 /\ p \in guest_start' .. guest_start' + i' - 1
            /\ tables'[u][j] = npt_page_entry(Page(host_start' + (p - guest_start')))
        BY <1>5, <3>1, <3>2, <3>5, <4>1
      <4> QED BY <4>1, <4>2 DEF GuestEntry
    <3> QED BY <2>0, <3>3, <3>4, <3>5 DEF GuestEntry
  <2> QED BY <2>1, <2>2
<1>19. GuestTables(w)' /\ w \in [npt' .. Len(tables') -> Place]
  BY <1>3, <1>5, <1>14, <1>18 DEF GuestTables
<1>20. ASSUME NEW p \in guest_start .. guest_start + i
       PROVE  Present(G4(p)') /\ Present(G3(p)') /\ Present(G2(p)')
  <2>1. p \in Nat /\ p < Space
    BY <1>2, <1>6, NextPage
  <2>2. CASE p = q
    <3>1. Present(G4(p)) /\ Present(G3(p)) /\ G3(p).phys = t /\ C(p) = k
      BY <1>2, <1>4, <1>7, <1>8, <1>9, <2>2
    <3>2. G4(p)' = G4(p) /\ G3(p)' = G3(p)
      BY <1>2, <1>5, <1>15, <2>1, <3>1, GuestPagesStay
    <3>3. G2(p)' = tables'[t][k]
      BY <3>1, <3>2 DEF G2
    <3> QED BY <1>12, <1>14, <3>1, <3>2, <3>3, NewEntries
  <2>3. CASE p # q
    <3>1. p \in guest_start .. guest_start + i - 1
      BY <1>2, <1>6, <1>8, <2>3 DEF r
    <3>2. Present(G4(p)) /\ Present(G3(p)) /\ Present(G2(p))
      BY <1>2, <3>1 DEF GuestTree
    <3>3. G4(p)' = G4(p) /\ G3(p)' = G3(p) /\ G2(p)' = G2(p)
      BY <1>2, <1>5, <1>15, <2>1, <3>2, GuestPagesStay
    <3> QED BY <3>2, <3>3
  <2> QED BY <2>2, <2>3
<1>21. GuestTree'
  <2>1. pc' \notin {"lv3", "lv2", "panic_mapped"}
    BY <1>11 DEF LoopHead
  <2>2. \A p \in guest_start' .. guest_start' + i' - 1 :
            Present(G4(p)') /\ Present(G3(p)') /\ Present(G2(p)')
    <3>1. \A p \in guest_start' .. guest_start' + i' - 1 : p \in guest_start .. guest_start + i
      BY <1>2, <1>5, <1>6, <1>11
    <3> QED BY <1>20, <3>1
  <2> QED BY <1>19, <2>1, <2>2 DEF GuestTree, Present
<1> QED BY <1>16, <1>17, <1>21

\* The root of the guest's tables.
LEMMA AllocateLv4Keeps ==
    ASSUME Known, AllocateLv4, UNCHANGED host_vars
    PROVE  Known' /\ GuestTree' /\ Extended(Len(tables)) /\ npt = 0
           /\ npt' \in {0, Len(tables) + 1}
<1> DEFINE n == Len(tables) + 1
           new == Append(tables, EmptyTable)
<1> USE DEF TypeOK, NestedTypeOK, nested_vars, arguments, host_vars
<1>1. pc = "init_npt" /\ i' = 0 /\ UNCHANGED arguments
  BY DEF AllocateLv4
<1>2. /\ npt = 0 /\ tables \in Seq(Table) /\ Len(tables) \in Nat /\ DOMAIN tables = 1 .. Len(tables)
      /\ guest_start \in GuestStarts /\ host_start \in HostStarts /\ size \in Sizes
  BY <1>1 DEF Known, Stages, GuestStage
<1>3. /\ new \in Seq(Table) /\ Len(new) = n /\ DOMAIN new = DOMAIN tables \cup {n}
      /\ \A u \in DOMAIN tables : new[u] = tables[u]
      /\ new[n] = EmptyTable
  BY <1>2, NewEntries, AppendIs
<1>4. Pages \in Nat /\ Pages' = Pages /\ guest_start \in Nat
  <2>1. size \in Nat /\ guest_start \in Nat
    BY <1>2, NestedAssumption
  <2>2. Pages \in Nat
    BY <2>1, Spans, Parts DEF Pages
  <2> QED BY <1>1, <2>1, <2>2 DEF Pages
<1>5. \/ tables' = new /\ pc' = LoopHead(0) /\ npt' = n
      \/ tables' = tables /\ pc' = "panic" /\ npt' = 0
  <2>1. LoopHead(0) # "panic"
    BY DEF LoopHead
  <2> QED BY <2>1 DEF AllocateLv4, allocate_table
<1>6. pc' \in {"lv4", "done", "panic"} /\ (pc' = "lv4" => 0 < Pages /\ npt' = n)
      /\ (pc' = "panic" <=> npt' = 0)
  BY <1>2, <1>5 DEF LoopHead
<1> HIDE DEF new
<1>7. Extended(Len(tables))
  BY <1>2, <1>3, <1>5 DEF Extended
<1>8. Len(tables') \in Nat /\ DOMAIN tables' = 1 .. Len(tables') /\ npt' \in {0} \cup DOMAIN tables'
      /\ Len(tables') >= Len(tables) /\ (npt' = n => Len(tables') = n)
  BY <1>2, <1>3, <1>5
<1>a. /\ UNCHANGED <<memory, kernel, cr3, boot_tables, lv4tbl, old_lv4tbl, mapping_reconstructed>>
      /\ UNCHANGED <<guest_start, host_start, size>>
  BY <1>1
<1>b. /\ memory \in Memory /\ kernel \in Kernels /\ cr3 \in 1 .. Len(tables)
      /\ boot_tables \in 1 .. Len(tables)
      /\ {lv4tbl, old_lv4tbl} \subseteq {0} \cup 1 .. Len(tables)
      /\ mapping_reconstructed \in BOOLEAN
  BY <1>1, <1>2 DEF Known, Stages, KernelStage, LoaderPlaces
<1>c. PICK l \in Nat, m \in Nat : /\ l = Len(tables) /\ m = Len(tables') /\ l <= m
                                  /\ DOMAIN tables' = 1 .. m
  BY <1>2, <1>8
<1>9. TypeOK'
  <2>1. NestedTypeOK'
    <3>1. npt' # 0 => i' \in 0 .. Pages'
      BY <1>1, <1>4
    <3>2. npt' \in {0} \cup DOMAIN tables'
      BY <1>8
    <3>3. guest_start' \in GuestStarts /\ host_start' \in HostStarts /\ size' \in Sizes
      BY <1>2, <1>a
    <3> QED BY <3>1, <3>2, <3>3
  <2>2. tables' \in Seq(Table)
    BY <1>7 DEF Extended
  <2>3. /\ cr3' \in DOMAIN tables' /\ boot_tables' \in 0 .. Len(tables')
        /\ {lv4tbl', old_lv4tbl'} \subseteq {0} \cup DOMAIN tables'
    BY <1>a, <1>b, <1>c
  <2>4. pc' \in LoaderPlaces \cup KernelPlaces
    BY <1>6 DEF KernelPlaces, NestedPlaces
  <2> HIDE DEF NestedTypeOK
  <2> QED BY <1>1, <1>a, <1>b, <2>1, <2>2, <2>3, <2>4
<1>10. Stages'
  <2>0. Root' = Root
    BY DEF Root
  <2>1. LoaderStage'
    BY <1>6 DEF LoaderStage, LoaderPlaces
  <2>a. /\ Root \in 1 .. boot_tables /\ cr3 = lv4tbl /\ mapping_reconstructed
        /\ old_lv4tbl # 0 /\ (lv4tbl # 0 => lv4tbl \in boot_tables + 1 .. Len(tables))
    BY <1>1 DEF Known, Stages, KernelStage, RootStage, LoaderPlaces, SwitchedPlaces, NestedPlaces
  <2>2. KernelStage'
    <3>1. boot_tables' \in 1 .. Len(tables') /\ Root' \in 1 .. boot_tables'
      BY <1>a, <1>b, <1>c, <2>0, <2>a
    <3> QED BY <1>6, <1>a, <2>a, <3>1 DEF KernelStage
  <2>3. RootStage'
    <3>1. lv4tbl' # 0 => lv4tbl' \in boot_tables' + 1 .. Len(tables')
      BY <1>a, <1>b, <1>c, <2>a
    <3> QED BY <1>a, <2>0, <2>a, <3>1 DEF RootStage
  <2>4. GuestStage'
    <3>1. npt' # 0 => lv4tbl < n /\ boot_tables < n /\ cr3 = lv4tbl /\ mapping_reconstructed
      BY <1>1, <1>2 DEF Known, Stages, KernelStage, LoaderPlaces, SwitchedPlaces, NestedPlaces
    <3> QED BY <1>1, <1>2, <1>4, <1>6, <1>5, <3>1 DEF GuestStage, NestedPlaces
  <2> QED BY <2>1, <2>2, <2>3, <2>4 DEF Stages
<1>11. GuestTree'
  <2> SUFFICES ASSUME npt' # 0
               PROVE  GuestTree'
    BY DEF GuestTree
  <2>1. tables' = new /\ npt' = n /\ Len(tables') = n
    BY <1>3, <1>5
  <2>2. PICK w \in [n .. n -> Place] : w[n] = <<4, 0, 0>>
    <3> DEFINE y == [u \in n .. n |-> <<4, 0, 0>>]
    <3>1. <<4, 0, 0>> \in Place /\ n \in n .. n
      BY <1>2, Constants DEF Place, Index
    <3>2. y \in [n .. n -> Place] /\ y[n] = <<4, 0, 0>>
      BY <3>1
    <3> HIDE DEF y
    <3> QED BY <3>2
  <2>3. ASSUME NEW t \in n .. n, NEW k \in Index
        PROVE  GuestEntry(w, t, k)'
    <3>1. t = n /\ tables'[t] = EmptyTable
      BY <1>2, <1>3, <2>1
    <3> QED BY <3>1, NewEntries DEF GuestEntry
  <2>4. GuestTables(w)' /\ w \in [npt' .. Len(tables') -> Place]
    BY <2>1, <2>2, <2>3 DEF GuestTables
  <2>5. guest_start' .. guest_start' + i' - 1 = {}
    BY <1>1, <1>4
  <2> QED BY <1>6, <2>4, <2>5 DEF GuestTree
<1> QED BY <1>2, <1>5, <1>7, <1>9, <1>10, <1>11 DEF Known

-----------------------------------------------------------------------------
(* Walks through the host's tables.                                        *)

\* The tables that a walk from the root comes to.
LEMMA WalkTables ==
    ASSUME NEW tbls, NEW root, NEW l3, NEW l2, NEW l1, Levels(tbls, root, l3, l2, l1),
           NEW v \in Nat
    PROVE  /\ IndexAt(v, 4) \in Index /\ IndexAt(v, 3) \in Index
           /\ IndexAt(v, 2) \in Index /\ IndexAt(v, 1) \in Index
           /\ Present(E4(tbls, root, v)) => LeadsOn(E4(tbls, root, v))
           /\ LeadsOn(E4(tbls, root, v)) => E4(tbls, root, v).phys \in l3
           /\ LeadsOn(E4(tbls, root, v)) /\ LeadsOn(E3(tbls, root, v)) =>
                 E3(tbls, root, v).phys \in l2
           /\ Deep(tbls, root, v) => E2(tbls, root, v).phys \in l1
<1>1. /\ IndexAt(v, 4) \in Index /\ IndexAt(v, 3) \in Index
      /\ IndexAt(v, 2) \in Index /\ IndexAt(v, 1) \in Index
  BY IndexType
<1>2. /\ Present(E4(tbls, root, v)) => LeadsOn(E4(tbls, root, v))
      /\ LeadsOn(E4(tbls, root, v)) => E4(tbls, root, v).phys \in l3
  BY <1>1 DEF Levels, E4, LeadsOn
<1>3. LeadsOn(E4(tbls, root, v)) /\ LeadsOn(E3(tbls, root, v)) => E3(tbls, root, v).phys \in l2
  BY <1>1, <1>2 DEF Levels, E3
<1>4. Deep(tbls, root, v) => E2(tbls, root, v).phys \in l1
  BY <1>1, <1>3 DEF Levels, E2, Deep
<1> QED BY <1>1, <1>2, <1>3, <1>4

\* When no table of a tree changes, neither does a walk.
LEMMA WalkKept ==
    ASSUME NEW tbls, NEW new, NEW root, NEW l3, NEW l2, NEW l1,
           Levels(tbls, root, l3, l2, l1),
           \A t \in {root} \cup l3 \cup l2 \cup l1 : new[t] = tbls[t], NEW v \in Nat
    PROVE  /\ E4(new, root, v) = E4(tbls, root, v)
           /\ LeadsOn(E4(tbls, root, v)) => E3(new, root, v) = E3(tbls, root, v)
           /\ LeadsOn(E4(tbls, root, v)) /\ LeadsOn(E3(tbls, root, v)) =>
                 E2(new, root, v) = E2(tbls, root, v)
           /\ Deep(tbls, root, v) => E1(new, root, v) = E1(tbls, root, v)
           /\ Deep(new, root, v) <=> Deep(tbls, root, v)
           /\ WalkEnd(new, root, v) = WalkEnd(tbls, root, v)
           /\ Translate(new, root, v) = Translate(tbls, root, v)
<1>1. E4(new, root, v) = E4(tbls, root, v)
  BY DEF E4
<1>2. LeadsOn(E4(tbls, root, v)) => E3(new, root, v) = E3(tbls, root, v)
  BY <1>1, WalkTables DEF E3
<1>3. LeadsOn(E4(tbls, root, v)) /\ LeadsOn(E3(tbls, root, v)) =>
         E2(new, root, v) = E2(tbls, root, v)
  BY <1>2, WalkTables DEF E2
<1>4. Deep(tbls, root, v) => E1(new, root, v) = E1(tbls, root, v)
  BY <1>3, WalkTables DEF E1, Deep
<1>5. Deep(new, root, v) <=> Deep(tbls, root, v)
  BY <1>1, <1>2, <1>3 DEF Deep
<1>6. WalkEnd(new, root, v) = WalkEnd(tbls, root, v)
  BY <1>1, <1>2, <1>3, <1>4, WalkIs DEF Deep
<1>7. Translate(new, root, v) = Translate(tbls, root, v)
  BY <1>6 DEF Translate
<1> QED BY <1>1, <1>2, <1>3, <1>4, <1>5, <1>6, <1>7

\* When entries are only added, a walk that ends in a page stays.
LEMMA WalkStays ==
    ASSUME NEW tbls, NEW new, NEW root, NEW l3, NEW l2, NEW l1,
           Levels(tbls, root, l3, l2, l1), Grows(tbls, new), NEW v \in Nat
    PROVE  /\ Present(E4(tbls, root, v)) => E4(new, root, v) = E4(tbls, root, v)
           /\ LeadsOn(E4(tbls, root, v)) /\ Present(E3(tbls, root, v)) =>
                 E3(new, root, v) = E3(tbls, root, v)
           /\ LeadsOn(E4(tbls, root, v)) /\ LeadsOn(E3(tbls, root, v))
                 /\ Present(E2(tbls, root, v)) => E2(new, root, v) = E2(tbls, root, v)
           /\ Deep(tbls, root, v) /\ Present(E1(tbls, root, v)) =>
                 Deep(new, root, v) /\ E1(new, root, v) = E1(tbls, root, v)
           /\ Translate(tbls, root, v) # Fault =>
                 Translate(new, root, v) = Translate(tbls, root, v)
<1>0. /\ root \in DOMAIN tbls
      /\ l3 \subseteq DOMAIN tbls /\ l2 \subseteq DOMAIN tbls /\ l1 \subseteq DOMAIN tbls
  BY DEF Levels
<1>1. Present(E4(tbls, root, v)) => E4(new, root, v) = E4(tbls, root, v)
  BY <1>0, WalkTables DEF E4, Grows
<1>2. LeadsOn(E4(tbls, root, v)) /\ Present(E3(tbls, root, v)) =>
         E3(new, root, v) = E3(tbls, root, v)
  BY <1>0, <1>1, WalkTables DEF E3, Grows, LeadsOn
<1>3. LeadsOn(E4(tbls, root, v)) /\ LeadsOn(E3(tbls, root, v))
         /\ Present(E2(tbls, root, v)) => E2(new, root, v) = E2(tbls, root, v)
  BY <1>0, <1>2, WalkTables DEF E2, Grows, LeadsOn
<1>4. Deep(tbls, root, v) => Deep(new, root, v) /\ E2(new, root, v) = E2(tbls, root, v)
  BY <1>1, <1>2, <1>3 DEF Deep, LeadsOn
<1>5. Deep(tbls, root, v) /\ Present(E1(tbls, root, v)) => E1(new, root, v) = E1(tbls, root, v)
  BY <1>0, <1>4, WalkTables DEF E1, Grows
<1>6. ASSUME Translate(tbls, root, v) # Fault
      PROVE  Translate(new, root, v) = Translate(tbls, root, v)
  <2>1. CASE ~LeadsOn(E4(tbls, root, v))
    <3>1. Present(E4(tbls, root, v))
      BY <1>6, <2>1, TranslateIs
    <3> QED BY <2>1, <3>1, WalkTables
  <2>2. CASE LeadsOn(E4(tbls, root, v)) /\ ~LeadsOn(E3(tbls, root, v))
    <3>1. Present(E3(tbls, root, v)) /\ Present(E4(tbls, root, v))
      BY <1>6, <2>2, TranslateIs DEF LeadsOn
    <3> QED BY <1>1, <1>2, <2>2, <3>1, TranslateIs
  <2>3. CASE /\ LeadsOn(E4(tbls, root, v)) /\ LeadsOn(E3(tbls, root, v))
             /\ ~LeadsOn(E2(tbls, root, v))
    <3>1. /\ Present(E2(tbls, root, v)) /\ Present(E3(tbls, root, v))
          /\ Present(E4(tbls, root, v))
      BY <1>6, <2>3, TranslateIs DEF LeadsOn
    <3> QED BY <1>1, <1>2, <1>3, <2>3, <3>1, TranslateIs
  <2>4. CASE Deep(tbls, root, v)
    <3>1. Present(E1(tbls, root, v))
      BY <1>6, <2>4, TranslateIs DEF Deep
    <3> QED BY <1>4, <1>5, <2>4, <3>1, TranslateIs DEF Deep
  <2> QED BY <2>1, <2>2, <2>3, <2>4 DEF Deep
<1> QED BY <1>1, <1>2, <1>3, <1>4, <1>5, <1>6

-----------------------------------------------------------------------------
(* map_4k_to.                                                              *)

\* A root and the tables below it.
Tree(tbls, root) ==
    \E l3, l2, l1 : Levels(tbls, root, l3, l2, l1) /\ root \notin l3 \cup l2 \cup l1

\* An entry that was not present leads to a new table, which is empty.
NewTable(tbls, new, t, k) ==
    LET n == Len(tbls) + 1
    IN  /\ DOMAIN new = DOMAIN tbls \cup {n} /\ n \notin DOMAIN tbls
        /\ ~Present(tbls[t][k])
        /\ LeadsOn(new[t][k]) /\ new[t][k].phys = n
        /\ \A j \in Index : new[n][j] = NoEntry
        /\ \A u \in DOMAIN tbls, j \in Index : (u = t /\ j = k) \/ new[u][j] = tbls[u][j]

\* What WithTable does.
LEMMA WithTableIs ==
    ASSUME NEW tbls \in Seq(Table), NEW t \in DOMAIN tbls, NEW k \in Index
    PROVE  LET new == WithTable(tbls, t, k)
           IN  /\ new \in Seq(Table) /\ Len(new) >= Len(tbls) /\ Grows(tbls, new)
               /\ \/ new = tbls /\ Present(tbls[t][k])
                  \/ NewTable(tbls, new, t, k)
<1> DEFINE n == Len(tbls) + 1
           longer == Append(tbls, EmptyTable)
           e == initialize_table_reference_entry(n)
           new == SetEntry(longer, t, k, e)
<1>1. n \in Nat /\ DOMAIN tbls = 1 .. Len(tbls) /\ Len(tbls) \in Nat
  OBVIOUS
<1>2. /\ longer \in Seq(Table) /\ Len(longer) = n /\ DOMAIN longer = DOMAIN tbls \cup {n}
      /\ n \notin DOMAIN tbls
      /\ \A u \in DOMAIN tbls : longer[u] = tbls[u]
      /\ longer[n] = EmptyTable
  BY NewEntries, AppendIs
<1>3. e \in Entry /\ LeadsOn(e) /\ e.phys = n /\ t \in DOMAIN longer
  BY <1>1, <1>2, NewEntries DEF initialize_table_reference_entry
<1> HIDE DEF longer, e
<1>0. longer \in Seq(Table) /\ t \in DOMAIN longer /\ e \in Entry
  BY <1>2, <1>3
<1>4. /\ new \in Seq(Table) /\ Len(new) = Len(longer) /\ DOMAIN new = DOMAIN longer
      /\ \A u \in DOMAIN longer \ {t} : new[u] = longer[u]
      /\ new[t][k] = e
      /\ \A j \in Index \ {k} : new[t][j] = longer[t][j]
  BY <1>0, SetEntryIs
<1> HIDE DEF new
<1>5. CASE Present(tbls[t][k])
  <2>1. WithTable(tbls, t, k) = tbls
    BY <1>5 DEF WithTable
  <2>2. Grows(tbls, tbls)
    BY DEF Grows
  <2> QED BY <1>1, <1>5, <2>1, <2>2
<1>6. CASE ~Present(tbls[t][k])
  <2>1. WithTable(tbls, t, k) = new
    BY <1>6 DEF WithTable, new, longer, e
  <2>2. \A j \in Index : new[n][j] = NoEntry
    <3>1. n \in DOMAIN longer \ {t}
      BY <1>2
    <3> QED BY <1>2, <1>4, <3>1, NewEntries
  <2>3. \A u \in DOMAIN tbls, j \in Index : (u = t /\ j = k) \/ new[u][j] = tbls[u][j]
    <3> SUFFICES ASSUME NEW u \in DOMAIN tbls, NEW j \in Index, ~(u = t /\ j = k)
                 PROVE  new[u][j] = tbls[u][j]
      OBVIOUS
    <3>1. CASE u = t
      BY <1>2, <1>4, <3>1
    <3>2. CASE u # t
      BY <1>2, <1>4, <3>2
    <3> QED BY <3>1, <3>2
  <2>4. NewTable(tbls, new, t, k)
    BY <1>2, <1>3, <1>4, <1>6, <2>2, <2>3 DEF NewTable
  <2>5. Grows(tbls, new)
    BY <1>2, <1>4, <1>6, <2>3 DEF Grows
  <2>6. Len(new) >= Len(tbls)
    BY <1>1, <1>2, <1>4
  <2> QED BY <1>4, <2>1, <2>4, <2>5, <2>6
<1> QED BY <1>5, <1>6

\* A new table joins the level below that of its entry.
LEMMA NewTableTree ==
    ASSUME NEW tbls, NEW new, NEW root, NEW l3, NEW l2, NEW l1,
           Levels(tbls, root, l3, l2, l1), root \notin l3 \cup l2 \cup l1,
           NEW t \in {root} \cup l3 \cup l2, NEW k \in Index, NewTable(tbls, new, t, k)
    PROVE  Tree(new, root)
<1> DEFINE n == Len(tbls) + 1
<1>1. /\ DOMAIN new = DOMAIN tbls \cup {n} /\ n \notin DOMAIN tbls
      /\ ~Present(tbls[t][k]) /\ LeadsOn(new[t][k]) /\ new[t][k].phys = n
      /\ \A j \in Index : new[n][j] = NoEntry
      /\ \A u \in DOMAIN tbls, j \in Index : (u = t /\ j = k) \/ new[u][j] = tbls[u][j]
  BY DEF NewTable
<1> HIDE DEF n
<1>2. ~LeadsOn(NoEntry)
  BY NewEntries DEF LeadsOn
<1>3. CASE t = root
  <2>1. Levels(new, root, l3 \cup {n}, l2, l1)
    BY <1>1, <1>2, <1>3 DEF Levels
  <2>2. root \notin (l3 \cup {n}) \cup l2 \cup l1
    BY <1>1 DEF Levels
  <2> QED BY <2>1, <2>2 DEF Tree
<1>4. CASE t \in l3
  <2>1. Levels(new, root, l3, l2 \cup {n}, l1)
    BY <1>1, <1>2, <1>4 DEF Levels
  <2>2. root \notin l3 \cup (l2 \cup {n}) \cup l1
    BY <1>1 DEF Levels
  <2> QED BY <2>1, <2>2 DEF Tree
<1>5. CASE t \in l2
  <2>1. Levels(new, root, l3, l2, l1 \cup {n})
    BY <1>1, <1>2, <1>5 DEF Levels
  <2>2. root \notin l3 \cup l2 \cup (l1 \cup {n})
    BY <1>1 DEF Levels
  <2> QED BY <2>1, <2>2 DEF Tree
<1> QED BY <1>3, <1>4, <1>5

\* No large page comes into a way.
LEMMA NewTableClear ==
    ASSUME NEW tbls, NEW new, NEW root, Tree(tbls, root),
           NEW t, NEW k \in Index, NewTable(tbls, new, t, k),
           NEW v \in Nat, Clear(tbls, root, v)
    PROVE  Clear(new, root, v)
<1> DEFINE n == Len(tbls) + 1
<1>1. PICK l3, l2, l1 : Levels(tbls, root, l3, l2, l1)
  BY DEF Tree
<1>2. /\ LeadsOn(new[t][k]) /\ new[t][k].phys = n
      /\ \A j \in Index : new[n][j] = NoEntry
      /\ \A u \in DOMAIN tbls, j \in Index : (u = t /\ j = k) \/ new[u][j] = tbls[u][j]
  BY DEF NewTable
<1> HIDE DEF n
<1>3. ~LeadsOn(NoEntry) /\ ~Present(NoEntry)
  BY NewEntries DEF LeadsOn
<1>4. /\ IndexAt(v, 4) \in Index /\ IndexAt(v, 3) \in Index /\ IndexAt(v, 2) \in Index
      /\ root \in DOMAIN tbls /\ l3 \subseteq DOMAIN tbls /\ l2 \subseteq DOMAIN tbls
  <2>1. root \in DOMAIN tbls /\ l3 \subseteq DOMAIN tbls /\ l2 \subseteq DOMAIN tbls
    BY <1>1 DEF Levels
  <2> QED BY <2>1, IndexType
<1>5. \/ E4(new, root, v) = E4(tbls, root, v)
      \/ LeadsOn(E4(new, root, v)) /\ E3(new, root, v) = NoEntry
  BY <1>2, <1>4 DEF E4, E3
<1>6. CASE LeadsOn(E4(new, root, v)) /\ E3(new, root, v) = NoEntry
  BY <1>3, <1>6 DEF Clear
<1>7. CASE E4(new, root, v) = E4(tbls, root, v) /\ ~LeadsOn(E4(tbls, root, v))
  BY <1>7 DEF Clear
<1>8. CASE E4(new, root, v) = E4(tbls, root, v) /\ LeadsOn(E4(tbls, root, v))
  <2>1. \/ E3(new, root, v) = E3(tbls, root, v)
        \/ LeadsOn(E3(new, root, v)) /\ E2(new, root, v) = NoEntry
    <3>1. E4(tbls, root, v).phys \in DOMAIN tbls
      BY <1>1, <1>4, <1>8, WalkTables
    <3> QED BY <1>2, <1>4, <1>8, <3>1 DEF E3, E2
  <2>2. CASE LeadsOn(E3(new, root, v)) /\ E2(new, root, v) = NoEntry
    BY <1>3, <1>8, <2>2 DEF Clear
  <2>3. CASE E3(new, root, v) = E3(tbls, root, v) /\ ~LeadsOn(E3(tbls, root, v))
    BY <1>8, <2>3 DEF Clear
  <2>4. CASE E3(new, root, v) = E3(tbls, root, v) /\ LeadsOn(E3(tbls, root, v))
    <3>1. E3(tbls, root, v).phys \in DOMAIN tbls
      BY <1>1, <1>4, <1>8, <2>4, WalkTables
    <3>2. E2(new, root, v) = E2(tbls, root, v) \/ LeadsOn(E2(new, root, v))
      BY <1>2, <1>4, <2>4, <3>1 DEF E2
    <3> QED BY <1>8, <2>4, <3>2 DEF Clear
  <2> QED BY <2>1, <2>2, <2>3, <2>4
<1> QED BY <1>5, <1>6, <1>7, <1>8

\* WithTable, for an entry above level 1 of a tree.
LEMMA EnsureHost ==
    ASSUME NEW tbls \in Seq(Table), NEW root, NEW l3, NEW l2, NEW l1,
           Levels(tbls, root, l3, l2, l1), root \notin l3 \cup l2 \cup l1,
           NEW t \in {root} \cup l3 \cup l2, NEW k \in Index
    PROVE  LET new == WithTable(tbls, t, k)
           IN  /\ new \in Seq(Table) /\ Len(new) >= Len(tbls) /\ Grows(tbls, new)
               /\ Tree(new, root) /\ Present(new[t][k])
               /\ \A v \in Nat : Clear(tbls, root, v) => Clear(new, root, v)
<1> DEFINE new == WithTable(tbls, t, k)
<1>1. t \in DOMAIN tbls
  BY DEF Levels
<1>2. /\ new \in Seq(Table) /\ Len(new) >= Len(tbls) /\ Grows(tbls, new)
      /\ \/ new = tbls /\ Present(tbls[t][k])
         \/ NewTable(tbls, new, t, k)
  BY <1>1, WithTableIs
<1> HIDE DEF new
<1>3. Tree(tbls, root)
  BY DEF Tree
<1>4. CASE new = tbls /\ Present(tbls[t][k])
  BY <1>2, <1>3, <1>4 DEF new
<1>5. CASE NewTable(tbls, new, t, k)
  <2>1. Tree(new, root)
    BY <1>5, NewTableTree
  <2>2. Present(new[t][k])
    BY <1>5 DEF NewTable, LeadsOn
  <2>3. \A v \in Nat : Clear(tbls, root, v) => Clear(new, root, v)
    BY <1>3, <1>5, NewTableClear
  <2> QED BY <1>2, <2>1, <2>2, <2>3 DEF new
<1> QED BY <1>2, <1>4, <1>5

\* The tables in which map_4k_to sets the entry of the page, and the last table
\* above them.
T4(tbls, root, v) == WithTable(tbls, root, IndexAt(v, 4))
L3(tbls, root, v) == T4(tbls, root, v)[root][IndexAt(v, 4)].phys
T3(tbls, root, v) == WithTable(T4(tbls, root, v), L3(tbls, root, v), IndexAt(v, 3))
L2(tbls, root, v) == T3(tbls, root, v)[L3(tbls, root, v)][IndexAt(v, 3)].phys
T2(tbls, root, v) == WithTable(T3(tbls, root, v), L2(tbls, root, v), IndexAt(v, 2))

\* Tables were added, so that the walk to an address gets down to level 1.
Descended(tbls, new, root, v) ==
    /\ new \in Seq(Table) /\ Len(new) >= Len(tbls) /\ Grows(tbls, new)
    /\ Tree(new, root) /\ Deep(new, root, v)
    /\ \A u \in Nat : Clear(tbls, root, u) => Clear(new, root, u)

\* The way down of map_4k_to, for an address that no large page is in the way of.
LEMMA Descend ==
    ASSUME NEW tbls \in Seq(Table), NEW root, Tree(tbls, root), NEW v \in Nat,
           Clear(tbls, root, v)
    PROVE  /\ Descended(tbls, T2(tbls, root, v), root, v)
           /\ E2(T2(tbls, root, v), root, v) = T2(tbls, root, v)[L2(tbls, root, v)][IndexAt(v, 2)]
<1>a. PICK t4 : t4 = T4(tbls, root, v)
  OBVIOUS
<1>b. PICK lv3 : lv3 = L3(tbls, root, v)
  OBVIOUS
<1>c. PICK t3 : t3 = T3(tbls, root, v)
  OBVIOUS
<1>d. PICK lv2 : lv2 = L2(tbls, root, v)
  OBVIOUS
<1>e. PICK t2 : t2 = T2(tbls, root, v)
  OBVIOUS
<1>f. t4 = WithTable(tbls, root, IndexAt(v, 4)) /\ lv3 = t4[root][IndexAt(v, 4)].phys
  BY <1>a, <1>b DEF T4, L3
<1>g. t3 = WithTable(t4, lv3, IndexAt(v, 3)) /\ lv2 = t3[lv3][IndexAt(v, 3)].phys
  BY <1>a, <1>b, <1>c, <1>d DEF T3, L2
<1>h. t2 = WithTable(t3, lv2, IndexAt(v, 2))
  BY <1>c, <1>d, <1>e DEF T2
<1>0. IndexAt(v, 4) \in Index /\ IndexAt(v, 3) \in Index /\ IndexAt(v, 2) \in Index
      /\ v \in Nat
  BY IndexType
<1>1. PICK l3, l2, l1 : Levels(tbls, root, l3, l2, l1) /\ root \notin l3 \cup l2 \cup l1
  BY DEF Tree
<1>2. /\ t4 \in Seq(Table) /\ Len(t4) >= Len(tbls) /\ Grows(tbls, t4)
      /\ Tree(t4, root) /\ Present(t4[root][IndexAt(v, 4)])
      /\ \A u \in Nat : Clear(tbls, root, u) => Clear(t4, root, u)
  BY <1>0, <1>1, <1>f, EnsureHost
<1>3. PICK m3, m2, m1 : Levels(t4, root, m3, m2, m1) /\ root \notin m3 \cup m2 \cup m1
  BY <1>2 DEF Tree
<1>4. LeadsOn(E4(t4, root, v)) /\ lv3 = E4(t4, root, v).phys /\ lv3 \in m3
  <2>1. Present(E4(t4, root, v)) /\ lv3 = E4(t4, root, v).phys
    BY <1>2, <1>f DEF E4
  <2> QED BY <1>3, <2>1, WalkTables
<1>5. /\ t3 \in Seq(Table) /\ Len(t3) >= Len(t4) /\ Grows(t4, t3)
      /\ Tree(t3, root) /\ Present(t3[lv3][IndexAt(v, 3)])
      /\ \A u \in Nat : Clear(t4, root, u) => Clear(t3, root, u)
  BY <1>0, <1>2, <1>3, <1>4, <1>g, EnsureHost
<1>6. PICK n3, n2, n1 : Levels(t3, root, n3, n2, n1) /\ root \notin n3 \cup n2 \cup n1
  BY <1>5 DEF Tree
<1>7. E4(t3, root, v) = E4(t4, root, v)
  BY ONLY <1>0, <1>3, <1>4, <1>5, WalkStays DEF LeadsOn
<1>8. /\ LeadsOn(E4(t3, root, v)) /\ LeadsOn(E3(t3, root, v)) /\ lv2 = E3(t3, root, v).phys
      /\ lv2 \in n2
  <2>1. Present(E3(t3, root, v)) /\ lv2 = E3(t3, root, v).phys
    BY <1>4, <1>5, <1>7, <1>g DEF E3
  <2>2. LeadsOn(E3(t3, root, v))
    BY <1>2, <1>4, <1>5, <1>7, <2>1 DEF Clear
  <2>3. E3(t3, root, v).phys \in n2
    BY ONLY <1>0, <1>4, <1>6, <1>7, <2>2, WalkTables
  <2> QED BY ONLY <1>4, <1>7, <2>1, <2>2, <2>3
<1>9. /\ t2 \in Seq(Table) /\ Len(t2) >= Len(t3) /\ Grows(t3, t2)
      /\ Tree(t2, root) /\ Present(t2[lv2][IndexAt(v, 2)])
      /\ \A u \in Nat : Clear(t3, root, u) => Clear(t2, root, u)
  <2>1. lv2 \in {root} \cup n3 \cup n2
    BY <1>8
  <2> QED BY ONLY <1>0, <1>5, <1>6, <1>h, <2>1, EnsureHost
<1>10. E4(t2, root, v) = E4(t3, root, v) /\ E3(t2, root, v) = E3(t3, root, v)
  BY ONLY <1>0, <1>6, <1>8, <1>9, WalkStays DEF LeadsOn
<1>11. Deep(t2, root, v) /\ E2(t2, root, v) = t2[lv2][IndexAt(v, 2)]
  <2>1. E2(t2, root, v) = t2[lv2][IndexAt(v, 2)]
    BY <1>8, <1>10 DEF E2
  <2>2. Clear(t2, root, v)
    BY <1>2, <1>5, <1>9
  <2> QED BY <1>8, <1>9, <1>10, <2>1, <2>2 DEF Clear, Deep
<1>12. Grows(tbls, t2)
  <2>1. Grows(tbls, t4) /\ Grows(t4, t3) /\ Grows(t3, t2)
    BY <1>2, <1>5, <1>9
  <2> QED BY ONLY <2>1 DEF Grows
<1>13. Len(t2) >= Len(tbls)
  <2>1. Len(tbls) \in Nat /\ Len(t4) \in Nat /\ Len(t3) \in Nat /\ Len(t2) \in Nat
    BY ONLY <1>2, <1>5, <1>9, tbls \in Seq(Table)
  <2> QED BY ONLY <1>2, <1>5, <1>9, <2>1
<1>14. Descended(tbls, t2, root, v)
  BY <1>2, <1>5, <1>9, <1>11, <1>12, <1>13 DEF Descended
<1> QED BY <1>11, <1>14, <1>d, <1>e

\* Only the entry of level 1 for an address was set.
Lv1Changed(tbls, new, root, v, e) ==
    /\ new \in Seq(Table) /\ Len(new) = Len(tbls) /\ Tree(new, root)
    /\ E1(new, root, v) = e
    /\ ~Present(E1(tbls, root, v)) => Grows(tbls, new)
    /\ \A u \in Nat :
          /\ E4(new, root, u) = E4(tbls, root, u)
          /\ LeadsOn(E4(tbls, root, u)) => E3(new, root, u) = E3(tbls, root, u)
          /\ LeadsOn(E4(tbls, root, u)) /\ LeadsOn(E3(tbls, root, u)) =>
                E2(new, root, u) = E2(tbls, root, u)
          /\ Deep(new, root, u) <=> Deep(tbls, root, u)
          /\ Clear(tbls, root, u) => Clear(new, root, u)
          /\ Deep(tbls, root, u) =>
                \/ E1(new, root, u) = E1(tbls, root, u)
                \/ E1(new, root, u) = e /\ E1(tbls, root, u) = E1(tbls, root, v)

\* An entry of level 1 is set: nothing changes above it.
LEMMA Lv1Set ==
    ASSUME NEW tbls \in Seq(Table), NEW root, Tree(tbls, root), NEW v \in Nat,
           Deep(tbls, root, v), NEW e \in Entry
    PROVE  Lv1Changed(tbls, SetEntry(tbls, E2(tbls, root, v).phys, IndexAt(v, 1), e), root, v, e)
<1>0. PICK new : new = SetEntry(tbls, E2(tbls, root, v).phys, IndexAt(v, 1), e)
  OBVIOUS
<1>1. PICK l3, l2, l1 : Levels(tbls, root, l3, l2, l1) /\ root \notin l3 \cup l2 \cup l1
  BY DEF Tree
<1>2. PICK t \in l1 : t = E2(tbls, root, v).phys
  BY <1>1, WalkTables
<1>3. PICK k \in Index : k = IndexAt(v, 1)
  BY IndexType
<1>4. t \in DOMAIN tbls /\ t # root /\ t \notin l3 /\ t \notin l2
  BY <1>1, <1>2 DEF Levels
<1>5. /\ new \in Seq(Table) /\ Len(new) = Len(tbls) /\ DOMAIN new = DOMAIN tbls
      /\ \A u \in DOMAIN tbls \ {t} : new[u] = tbls[u]
      /\ new[t][k] = e
      /\ \A j \in Index \ {k} : new[t][j] = tbls[t][j]
  BY <1>0, <1>2, <1>3, <1>4, SetEntryIs
<1>6. new[root] = tbls[root] /\ \A u \in l3 \cup l2 : new[u] = tbls[u]
  BY <1>1, <1>4, <1>5 DEF Levels
<1>7. Tree(new, root)
  <2>1. Levels(new, root, l3, l2, l1)
    BY <1>1, <1>5, <1>6 DEF Levels
  <2> QED BY <1>1, <2>1 DEF Tree
<1>8. ASSUME NEW u \in Nat
      PROVE  /\ E4(new, root, u) = E4(tbls, root, u)
             /\ LeadsOn(E4(tbls, root, u)) => E3(new, root, u) = E3(tbls, root, u)
             /\ LeadsOn(E4(tbls, root, u)) /\ LeadsOn(E3(tbls, root, u)) =>
                   E2(new, root, u) = E2(tbls, root, u)
             /\ Deep(new, root, u) <=> Deep(tbls, root, u)
             /\ Clear(tbls, root, u) => Clear(new, root, u)
             /\ Deep(tbls, root, u) =>
                   \/ E1(new, root, u) = E1(tbls, root, u)
                   \/ E1(new, root, u) = e /\ E1(tbls, root, u) = E1(tbls, root, v)
  <2>1. E4(new, root, u) = E4(tbls, root, u)
    BY <1>6 DEF E4
  <2>2. LeadsOn(E4(tbls, root, u)) => E3(new, root, u) = E3(tbls, root, u)
    BY <1>1, <1>6, <2>1, WalkTables DEF E3
  <2>3. LeadsOn(E4(tbls, root, u)) /\ LeadsOn(E3(tbls, root, u)) =>
           E2(new, root, u) = E2(tbls, root, u)
    BY <1>1, <1>6, <2>2, WalkTables DEF E2
  <2>4. Deep(new, root, u) <=> Deep(tbls, root, u)
    BY <2>1, <2>2, <2>3 DEF Deep
  <2>5. Clear(tbls, root, u) => Clear(new, root, u)
    BY <2>1, <2>2, <2>3 DEF Clear
  <2>6. ASSUME Deep(tbls, root, u)
        PROVE  \/ E1(new, root, u) = E1(tbls, root, u)
               \/ E1(new, root, u) = e /\ E1(tbls, root, u) = E1(tbls, root, v)
    <3>1. E2(tbls, root, u).phys \in l1 /\ IndexAt(u, 1) \in Index
      BY <1>1, <2>6, WalkTables
    <3>2. E2(new, root, u) = E2(tbls, root, u) /\ l1 \subseteq DOMAIN tbls
      BY <1>1, <2>3, <2>6 DEF Deep, Levels
    <3>3. CASE E2(tbls, root, u).phys = t /\ IndexAt(u, 1) = k
      BY <1>2, <1>3, <1>5, <3>2, <3>3 DEF E1
    <3>4. CASE ~(E2(tbls, root, u).phys = t /\ IndexAt(u, 1) = k)
      BY <1>5, <3>1, <3>2, <3>4 DEF E1
    <3> QED BY <3>3, <3>4
  <2> QED BY <2>1, <2>2, <2>3, <2>4, <2>5, <2>6
<1>9. E1(new, root, v) = e
  <2>1. E2(new, root, v) = E2(tbls, root, v)
    BY <1>8 DEF Deep
  <2> QED BY <1>2, <1>3, <1>5, <2>1 DEF E1
<1>10. ~Present(E1(tbls, root, v)) => Grows(tbls, new)
  <2>1. E1(tbls, root, v) = tbls[t][k]
    BY <1>2, <1>3 DEF E1
  <2> SUFFICES ASSUME ~Present(tbls[t][k]), NEW u \in DOMAIN tbls, NEW j \in Index,
                      Present(tbls[u][j])
               PROVE  new[u][j] = tbls[u][j]
    BY <1>5, <2>1 DEF Grows
  <2>2. CASE u = t
    BY <1>5, <2>2
  <2>3. CASE u # t
    BY <1>5, <2>3
  <2> QED BY <2>2, <2>3
<1>11. Lv1Changed(tbls, new, root, v, e)
  BY <1>5, <1>7, <1>8, <1>9, <1>10 DEF Lv1Changed
<1> QED BY <1>0, <1>11

-----------------------------------------------------------------------------
(* The loader.                                                             *)

\* Where the image is.
LEMMA ImageFacts ==
    ASSUME Known
    PROVE  /\ Len(kernel.attrs) \in Nat /\ ImagePages = 1 .. Len(kernel.attrs)
           /\ \A p \in ImagePages :
                 /\ ImagePhys(p) \in Nat /\ ImageVirt(p) \in Nat
                 /\ ImageVirt(p) = KERNEL_BASE + ImagePhys(p)
                 /\ ImagePhys(p) = kernel.start + p - 1
                 /\ KERNEL_BASE \in Nat /\ lv4idx_end * Span(4) <= KERNEL_BASE
                 /\ ImageVirt(p) < Entries * Span(4)
                 /\ kernel.attrs[p] \in Attributes
<1>1. /\ kernel.start \in Nat /\ kernel.attrs \in Seq(Attributes)
      /\ KERNEL_BASE + kernel.start + Len(kernel.attrs) <= Entries * Span(4)
  BY HostAssumption DEF Known, TypeOK
<1>2. Len(kernel.attrs) \in Nat /\ ImagePages = 1 .. Len(kernel.attrs)
  BY <1>1 DEF ImagePages
<1>3. PICK x \in Nat, y \in Nat : x = lv4idx_end * Span(4) /\ y = Entries * Span(4)
  BY Constants, Spans
<1>4. KERNEL_BASE \in x .. y - 1
  BY <1>3, HostAssumption
<1>5. KERNEL_BASE \in Nat /\ x <= KERNEL_BASE
  BY <1>4
<1>6. ASSUME NEW p \in ImagePages
      PROVE  /\ ImagePhys(p) \in Nat /\ ImageVirt(p) \in Nat
             /\ ImageVirt(p) = KERNEL_BASE + ImagePhys(p)
             /\ ImagePhys(p) = kernel.start + p - 1
             /\ ImageVirt(p) < y
             /\ kernel.attrs[p] \in Attributes
  <2>1. KERNEL_BASE + kernel.start + Len(kernel.attrs) <= y
    BY <1>1, <1>3
  <2>2. p \in 1 .. Len(kernel.attrs)
    BY <1>2
  <2>3. kernel.attrs[p] \in Attributes
    BY <1>1, <2>2
  <2>4. /\ kernel.start + p - 1 \in Nat
        /\ KERNEL_BASE + kernel.start + p - 1 = KERNEL_BASE + (kernel.start + p - 1)
        /\ KERNEL_BASE + kernel.start + p - 1 \in Nat
        /\ KERNEL_BASE + kernel.start + p - 1 < y
    BY <1>1, <1>2, <1>5, <2>1, <2>2
  <2> QED BY <2>3, <2>4 DEF ImagePhys, ImageVirt
<1> QED BY <1>2, <1>3, <1>5, <1>6

\* A step of the loader keeps what is known, if it keeps the tables and the loops.
LEMMA LoaderStepKnown ==
    ASSUME Known, pc \in LoaderPlaces, pc' \in LoaderPlaces,
           tables' \in Seq(Table), Len(tables') >= Len(tables), cr3' \in DOMAIN tables',
           UNCHANGED <<memory, kernel, boot_tables, lv4tbl, old_lv4tbl,
                       mapping_reconstructed, nested_vars>>,
           i' \in Nat,
           pc' \in {"map_4k_to", "change_map_4k"} => i' \in 1 .. Len(kernel.attrs) + 1
    PROVE  Known' /\ Root' = cr3' /\ Root = cr3
<1> USE DEF TypeOK, NestedTypeOK, nested_vars, arguments
<1>1. /\ boot_tables = 0 /\ lv4tbl = 0 /\ old_lv4tbl = 0 /\ npt = 0
      /\ ~mapping_reconstructed
  BY DEF Known, Stages, LoaderStage
<1>2. pc' \notin NestedPlaces \cup {"done", "panic"} /\ pc' \notin KernelPlaces
  BY DEF LoaderPlaces, KernelPlaces, NestedPlaces
<1>3. Len(tables') \in Nat /\ DOMAIN tables' = 1 .. Len(tables')
  OBVIOUS
<1>4. TypeOK'
  BY <1>1, <1>3 DEF Known
<1>5. Stages'
  <2>1. LoaderStage'
    BY <1>1 DEF LoaderStage
  <2>2. KernelStage'
    BY DEF KernelStage
  <2>3. RootStage'
    BY <1>1, <1>3 DEF RootStage, Root
  <2>4. GuestStage'
    BY <1>1, <1>2 DEF GuestStage, NestedPlaces
  <2> QED BY <2>1, <2>2, <2>3, <2>4 DEF Stages
<1> QED BY <1>1, <1>4, <1>5 DEF Known, Root

\* The tree of a root is what HostTree asks for while the loader runs.
LEMMA LoaderTree ==
    ASSUME Known, pc \in {"map_4k_to", "change_map_4k"}, HostTree
    PROVE  Tree(tables, cr3)
<1>1. Root = cr3
  BY DEF Known, Stages, LoaderStage, LoaderPlaces, Root
<1> QED BY <1>1 DEF HostTree, Tree

\* ... and after a step.
LEMMA LoaderTreeNext ==
    ASSUME Known', pc' \in LoaderPlaces, Tree(tables', cr3')
    PROVE  HostTree'
<1>1. Root' = cr3' /\ Top' = Len(tables') /\ DOMAIN tables' = 1 .. Len(tables')
  BY DEF Known, Stages, LoaderStage, Root, Top, TypeOK
<1>2. PICK l3, l2, l1 : Levels(tables', cr3', l3, l2, l1) /\ cr3' \notin l3 \cup l2 \cup l1
  BY DEF Tree
<1>3. l3 \in SUBSET (1 .. Top') /\ l2 \in SUBSET (1 .. Top') /\ l1 \in SUBSET (1 .. Top')
  BY <1>1, <1>2 DEF Levels
<1>4. Levels(tables, Root, l3, l2, l1)'
  BY <1>1, <1>2 DEF Levels
<1> QED BY <1>1, <1>2, <1>3, <1>4 DEF HostTree

\* Walks from two roots with the same entries are the same.
LEMMA SameRoot ==
    ASSUME NEW tbls, NEW r, NEW s, tbls[r] = tbls[s], NEW v
    PROVE  /\ E4(tbls, r, v) = E4(tbls, s, v) /\ E3(tbls, r, v) = E3(tbls, s, v)
           /\ E2(tbls, r, v) = E2(tbls, s, v) /\ E1(tbls, r, v) = E1(tbls, s, v)
           /\ Translate(tbls, r, v) = Translate(tbls, s, v)
<1>1. E4(tbls, r, v) = E4(tbls, s, v)
  BY DEF E4
<1>2. E3(tbls, r, v) = E3(tbls, s, v)
  BY <1>1 DEF E3
<1>3. E2(tbls, r, v) = E2(tbls, s, v)
  BY <1>2 DEF E2
<1>4. E1(tbls, r, v) = E1(tbls, s, v)
  BY <1>3 DEF E1
<1>5. WalkEnd(tbls, r, v) = WalkEnd(tbls, s, v)
  BY DEF WalkEnd
<1> QED BY <1>1, <1>2, <1>3, <1>4, <1>5 DEF Translate

\* What is known of the tables that the loader leaves.
HostMap == HostTree /\ Loaded /\ Identity

\* The loader's root is a copy of the firmware's.
LEMMA WritableKeeps ==
    ASSUME Known, HostMap, set_lv4table_writable
    PROVE  Known' /\ HostMap'
<1> DEFINE n == Len(tables) + 1
           new == Append(tables, tables[cr3])
<1>1. pc = "set_lv4table_writable" /\ i' = 1
      /\ UNCHANGED <<memory, kernel, boot_tables, lv4tbl, old_lv4tbl, mapping_reconstructed, nested_vars>>
  BY DEF set_lv4table_writable
<1>2. /\ tables \in Seq(Table) /\ cr3 \in DOMAIN tables /\ tables[cr3] \in Table
      /\ Len(tables) \in Nat /\ DOMAIN tables = 1 .. Len(tables)
  BY DEF Known, TypeOK
<1>3. /\ new \in Seq(Table) /\ Len(new) = n /\ DOMAIN new = DOMAIN tables \cup {n}
      /\ n \notin DOMAIN tables
      /\ \A u \in DOMAIN tables : new[u] = tables[u]
      /\ new[n] = tables[cr3]
  BY <1>2, AppendIs
<1>4. \/ tables' = new /\ pc' = "map_4k_to" /\ cr3' = n
      \/ tables' = tables /\ pc' = "exit" /\ cr3' = cr3
  BY <1>2, Allocated DEF set_lv4table_writable
<1>5. Known' /\ Root' = cr3' /\ Root = cr3
  <2>1. 1 \in 1 .. Len(kernel.attrs) + 1
    BY ImageFacts
  <2>2. tables' \in Seq(Table) /\ Len(tables') >= Len(tables) /\ cr3' \in DOMAIN tables'
    BY <1>2, <1>3, <1>4
  <2>3. pc \in LoaderPlaces /\ pc' \in LoaderPlaces
    BY <1>1, <1>4 DEF LoaderPlaces
  <2> QED BY <1>1, <2>1, <2>2, <2>3, LoaderStepKnown
<1> HIDE DEF new
<1>6. CASE tables' = tables /\ pc' = "exit" /\ cr3' = cr3
  <2>1. HostTree'
    <3>1. Top = Len(tables) /\ Top' = Len(tables)
      BY <1>1, <1>6 DEF Top, LoaderPlaces
    <3> QED BY <1>5, <1>6, <3>1 DEF HostMap, HostTree
  <2>2. Loaded'
    BY <1>6 DEF Loaded, InKernel, KernelPlaces, NestedPlaces
  <2>3. Identity'
    BY <1>5, <1>6 DEF HostMap, Identity
  <2> QED BY <1>5, <2>1, <2>2, <2>3 DEF HostMap
<1>7. CASE tables' = new /\ pc' = "map_4k_to" /\ cr3' = n
  <2>1. PICK l3, l2, l1 \in SUBSET (1 .. Top) : Levels(tables, cr3, l3, l2, l1)
    BY <1>5 DEF HostMap, HostTree
  <2>2. Top = Len(tables)
    BY <1>1 DEF Top, LoaderPlaces
  <2>3. \A t \in {cr3} \cup l3 \cup l2 \cup l1 : t \in DOMAIN tables /\ new[t] = tables[t]
    BY <1>2, <1>3, <2>1, <2>2
  <2>4. Tree(new, n)
    <3>1. Levels(new, n, l3, l2, l1)
      BY <1>3, <2>1, <2>3 DEF Levels
    <3>2. n \notin l3 \cup l2 \cup l1
      BY <1>3, <2>3
    <3> QED BY <3>1, <3>2 DEF Tree
  <2>5. HostTree'
    <3>1. pc' \in LoaderPlaces /\ Tree(tables', cr3')
      BY <1>7, <2>4 DEF LoaderPlaces
    <3> QED BY <1>5, <3>1, LoaderTreeNext
  <2>6. ASSUME NEW v \in Nat
        PROVE  /\ Translate(new, n, v) = Translate(tables, cr3, v)
               /\ Clear(tables, cr3, v) => Clear(new, n, v)
    <3>1. new[n] = new[cr3]
      BY <1>2, <1>3
    <3>2. /\ E4(new, cr3, v) = E4(tables, cr3, v)
          /\ LeadsOn(E4(tables, cr3, v)) => E3(new, cr3, v) = E3(tables, cr3, v)
          /\ LeadsOn(E4(tables, cr3, v)) /\ LeadsOn(E3(tables, cr3, v)) =>
                E2(new, cr3, v) = E2(tables, cr3, v)
          /\ Translate(new, cr3, v) = Translate(tables, cr3, v)
      BY <2>1, <2>3, WalkKept
    <3>3. Clear(tables, cr3, v) => Clear(new, cr3, v)
      BY <3>2 DEF Clear
    <3>4. /\ E4(new, n, v) = E4(new, cr3, v) /\ E3(new, n, v) = E3(new, cr3, v)
          /\ E2(new, n, v) = E2(new, cr3, v)
          /\ Translate(new, n, v) = Translate(new, cr3, v)
      BY <3>1, SameRoot
    <3> QED BY <3>2, <3>3, <3>4 DEF Clear
  <2>7. Loaded'
    <3>1. ImagePages' = ImagePages /\ \A p \in ImagePages : ImageVirt(p)' = ImageVirt(p)
      BY <1>1 DEF ImagePages, ImageVirt
    <3>2. \A p \in ImagePages : Clear(tables, cr3, ImageVirt(p)) /\ ImageVirt(p) \in Nat
      BY <1>1, ImageFacts DEF HostMap, Loaded
    <3>3. \A p \in ImagePages : Clear(new, n, ImageVirt(p))
      BY <2>6, <3>2
    <3>4. 1 .. i' - 1 = {}
      BY <1>1
    <3>5. ~InKernel'
      BY <1>7 DEF InKernel, KernelPlaces, NestedPlaces
    <3> QED BY <1>7, <3>1, <3>3, <3>4, <3>5 DEF Loaded
  <2>8. Identity'
    <3>1. \A a \in Installed : a \in Nat /\ Translate(tables, cr3, a) = a
      BY <1>5, Constants DEF HostMap, Identity
    <3>2. \A a \in Installed : Translate(new, n, a) = a
      BY <2>6, <3>1
    <3> QED BY <1>5, <1>7, <3>2 DEF Identity
  <2> QED BY <1>5, <2>5, <2>7, <2>8 DEF HostMap
<1> QED BY <1>4, <1>6, <1>7

\* What a loader that exits leaves.
LEMMA ExitKeeps ==
    ASSUME Known, HostMap, pc \in LoaderPlaces, pc' = "exit", UNCHANGED <<tables, cr3>>,
           Root' = cr3', Root = cr3
    PROVE  HostMap'
<1>1. HostTree'
  <2>1. Top = Len(tables) /\ Top' = Len(tables)
    BY DEF Top, LoaderPlaces
  <2> QED BY <2>1 DEF HostMap, HostTree
<1>2. Loaded'
  BY DEF Loaded, InKernel, KernelPlaces, NestedPlaces
<1>3. Identity'
  BY DEF HostMap, Identity
<1> QED BY <1>1, <1>2, <1>3 DEF HostMap

\* Entries that are added leave the identity map and the pages of the image.
LEMMA GrowsKeeps ==
    ASSUME Known, HostMap, Tree(tables, cr3), Root = cr3, Root' = cr3', cr3' = cr3,
           Grows(tables, tables'), UNCHANGED kernel
    PROVE  /\ Identity'
           /\ \A p \in ImagePages : ImageThere(p) => ImageThere(p)'
<1>1. PICK l3, l2, l1 : Levels(tables, cr3, l3, l2, l1)
  BY DEF Tree
<1>2. Identity'
  <2> SUFFICES ASSUME NEW a \in Installed
               PROVE  Translate(tables', cr3, a) = a
    BY DEF Identity
  <2>1. a \in Nat /\ Translate(tables, cr3, a) = a
    BY Constants DEF HostMap, Identity
  <2>2. Translate(tables, cr3, a) # Fault
    BY <2>1 DEF Fault
  <2> QED BY <1>1, <2>1, <2>2, WalkStays
<1>3. ASSUME NEW p \in ImagePages, ImageThere(p)
      PROVE  ImageThere(p)'
  <2>1. PICK v \in Nat : v = ImageVirt(p)
    BY ImageFacts
  <2>2. ImageVirt(p)' = v /\ ImagePhys(p)' = ImagePhys(p)
    BY <2>1 DEF ImageVirt, ImagePhys
  <2>3. Deep(tables, cr3, v) /\ Present(E1(tables, cr3, v)) /\ E1(tables, cr3, v).phys = ImagePhys(p)
    BY <1>3, <2>1 DEF ImageThere
  <2>4. Deep(tables', cr3, v) /\ E1(tables', cr3, v) = E1(tables, cr3, v)
    BY <1>1, <2>3, WalkStays
  <2> QED BY <2>2, <2>3, <2>4 DEF ImageThere
<1> QED BY <1>2, <1>3

\* One page of the image is mapped.
LEMMA MapPageKeeps ==
    ASSUME Known, HostMap, map_4k_to
    PROVE  Known' /\ HostMap'
<1> DEFINE virt == ImageVirt(i)
           t2 == T2(tables, cr3, virt)
           lv1 == t2[L2(tables, cr3, virt)][IndexAt(virt, 2)].phys
           k == IndexAt(virt, 1)
           e == initialize_page_reference_entry(ImagePhys(i))
           new == SetEntry(t2, lv1, k, e)
<1>1. /\ pc = "map_4k_to" /\ i \in ImagePages
      /\ UNCHANGED <<memory, kernel, cr3, boot_tables, lv4tbl, old_lv4tbl,
                     mapping_reconstructed, nested_vars>>
      /\ \/ /\ ~Present(t2[lv1][k])
            /\ Allocate(new, "map_4k_to", "exit")
            /\ i' = i + 1
         \/ /\ pc' = "exit"
            /\ UNCHANGED <<tables, i>>
  BY DEF map_4k_to, T2, L2, T3, L3, T4
<1> HIDE DEF new
<1>2. tables \in Seq(Table) /\ cr3 \in DOMAIN tables /\ Len(tables) \in Nat
  BY DEF Known, TypeOK
<1>3. \/ ~Present(t2[lv1][k]) /\ tables' = new /\ pc' = "map_4k_to" /\ i' = i + 1
      \/ tables' = tables /\ pc' = "exit" /\ i' \in {i, i + 1}
  BY <1>1, <1>2, Allocated
<1>4. /\ Len(kernel.attrs) \in Nat /\ i \in 1 .. Len(kernel.attrs) /\ virt \in Nat
      /\ ImagePhys(i) \in Nat
  BY <1>1, ImageFacts
<1>5. pc \in LoaderPlaces /\ pc' \in LoaderPlaces
  BY <1>1, <1>3 DEF LoaderPlaces
<1>6. i' \in Nat /\ (pc' = "map_4k_to" => i' \in 1 .. Len(kernel.attrs) + 1) /\ pc' # "change_map_4k"
  <2>1. i \in Nat /\ i + 1 \in 1 .. Len(kernel.attrs) + 1
    BY <1>4
  <2>2. CASE pc' = "map_4k_to" /\ i' = i + 1
    BY <2>1, <2>2
  <2>3. CASE pc' = "exit" /\ i' \in {i, i + 1}
    BY <2>1, <2>3
  <2> QED BY <1>3, <2>2, <2>3
<1>7. Tree(tables, cr3)
  BY <1>1, LoaderTree DEF HostMap
<1>8. Clear(tables, cr3, virt)
  BY <1>1 DEF HostMap, Loaded
<1>9. virt = ImageVirt(i)
  OBVIOUS
<1> HIDE DEF virt
<1>10. /\ t2 \in Seq(Table) /\ Len(t2) >= Len(tables) /\ Grows(tables, t2)
       /\ Tree(t2, cr3)
       /\ \A u \in Nat : Clear(tables, cr3, u) => Clear(t2, cr3, u)
       /\ Deep(t2, cr3, virt) /\ E2(t2, cr3, virt) = t2[L2(tables, cr3, virt)][IndexAt(virt, 2)]
  BY <1>2, <1>4, <1>7, <1>8, Descend DEF Descended
<1>11. new = SetEntry(t2, E2(t2, cr3, virt).phys, IndexAt(virt, 1), e) /\ e \in Entry
       /\ t2[lv1][k] = E1(t2, cr3, virt) /\ e.phys = ImagePhys(i) /\ Present(e)
  <2>1. lv1 = E2(t2, cr3, virt).phys
    BY <1>10
  <2>2. e \in Entry /\ e.phys = ImagePhys(i) /\ Present(e)
    BY <1>4, NewEntries DEF initialize_page_reference_entry
  <2> HIDE DEF t2, lv1, e
  <2> QED BY <2>1, <2>2 DEF new, E1
<1> HIDE DEF t2, lv1, k, e
<1>12. /\ new \in Seq(Table) /\ Len(new) = Len(t2) /\ Tree(new, cr3)
       /\ E1(new, cr3, virt) = e
       /\ ~Present(E1(t2, cr3, virt)) => Grows(t2, new)
       /\ \A u \in Nat : /\ Deep(new, cr3, u) <=> Deep(t2, cr3, u)
                         /\ Clear(t2, cr3, u) => Clear(new, cr3, u)
  <2>1. /\ t2 \in Seq(Table) /\ Tree(t2, cr3) /\ virt \in Nat /\ Deep(t2, cr3, virt) /\ e \in Entry
        /\ new = SetEntry(t2, E2(t2, cr3, virt).phys, IndexAt(virt, 1), e)
    BY <1>4, <1>10, <1>11
  <2> QED BY <2>1, Lv1Set DEF Lv1Changed
<1>13. tables' \in Seq(Table) /\ Len(tables') >= Len(tables) /\ cr3' \in DOMAIN tables'
  <2>1. Len(new) >= Len(tables)
    BY <1>2, <1>10, <1>12
  <2>2. new \in Seq(Table) /\ cr3 \in DOMAIN new
    BY <1>2, <1>12, <2>1
  <2> QED BY <1>1, <1>2, <1>3, <2>1, <2>2
<1>14. Known' /\ Root' = cr3' /\ Root = cr3
  BY <1>1, <1>5, <1>6, <1>13, LoaderStepKnown
<1>15. CASE tables' = tables /\ pc' = "exit"
  BY <1>1, <1>5, <1>14, <1>15, ExitKeeps
<1>16. CASE ~Present(t2[lv1][k]) /\ tables' = new /\ pc' = "map_4k_to" /\ i' = i + 1
  <2>1. Grows(tables, tables')
    <3>1. Grows(tables, t2) /\ Grows(t2, new)
      BY <1>10, <1>11, <1>12, <1>16
    <3>2. Grows(tables, new)
      BY ONLY <3>1 DEF Grows
    <3> QED BY <1>16, <3>2
  <2>2. HostTree'
    BY <1>1, <1>5, <1>12, <1>14, <1>16, LoaderTreeNext
  <2>3. /\ Identity'
        /\ \A p \in ImagePages : ImageThere(p) => ImageThere(p)'
    BY <1>1, <1>7, <1>14, <2>1, GrowsKeeps
  <2>4. Loaded'
    <3>1. ImagePages' = ImagePages /\ \A p \in ImagePages : ImageVirt(p)' = ImageVirt(p)
      BY <1>1 DEF ImagePages, ImageVirt
    <3>2. \A p \in ImagePages : Clear(tables, cr3, ImageVirt(p)) /\ ImageVirt(p) \in Nat
      BY <1>1, ImageFacts DEF HostMap, Loaded
    <3>3. \A p \in ImagePages : Clear(new, cr3, ImageVirt(p))
      BY <1>10, <1>12, <3>2
    <3>4. ASSUME NEW p \in 1 .. i' - 1
          PROVE  ImageThere(p)'
      <4>1. p \in ImagePages
        BY <1>4, <1>16, ImageFacts
      <4>2. CASE p = i
        <5>1. ImageVirt(p)' = virt /\ ImagePhys(p)' = ImagePhys(i)
          BY <1>1, <1>9, <4>2 DEF ImageVirt, ImagePhys
        <5>2. Deep(new, cr3, virt) /\ E1(new, cr3, virt) = e
          BY <1>4, <1>10, <1>12
        <5> QED BY <1>1, <1>11, <1>14, <1>16, <5>1, <5>2 DEF ImageThere
      <4>3. CASE p # i
        <5>1. p \in 1 .. i - 1
          BY <1>4, <1>16, <4>3
        <5> QED BY <1>1, <2>3, <4>1, <5>1 DEF HostMap, Loaded
      <4> QED BY <4>2, <4>3
    <3>5. ~InKernel'
      BY <1>16 DEF InKernel, KernelPlaces, NestedPlaces
    <3> QED BY <1>1, <1>16, <3>1, <3>3, <3>4, <3>5 DEF Loaded
  <2> QED BY <1>14, <2>2, <2>3, <2>4 DEF HostMap
<1> QED BY <1>3, <1>15, <1>16

\* The whole image is mapped.
LEMMA ImageMappedKeeps ==
    ASSUME Known, HostMap, ImageMapped
    PROVE  Known' /\ HostMap'
<1>1. /\ pc = "map_4k_to" /\ i \notin ImagePages /\ i' = 1 /\ pc' = "change_map_4k"
      /\ UNCHANGED <<tables, memory, kernel, cr3, boot_tables, lv4tbl, old_lv4tbl,
                     mapping_reconstructed, nested_vars>>
  BY DEF ImageMapped
<1>2. pc \in LoaderPlaces /\ pc' \in LoaderPlaces
  BY <1>1 DEF LoaderPlaces
<1>3. /\ Len(kernel.attrs) \in Nat /\ ImagePages = 1 .. Len(kernel.attrs)
      /\ i \in 1 .. Len(kernel.attrs) + 1
  BY <1>1, <1>2, ImageFacts DEF Known, Stages, LoaderStage
<1>4. 1 .. i - 1 = ImagePages
  BY <1>1, <1>3
<1>5. Known' /\ Root' = cr3' /\ Root = cr3
  <2>1. tables' \in Seq(Table) /\ Len(tables') >= Len(tables) /\ cr3' \in DOMAIN tables'
    BY <1>1 DEF Known, TypeOK
  <2>2. i' \in Nat /\ i' \in 1 .. Len(kernel.attrs) + 1
    BY <1>1, <1>3
  <2> QED BY <1>1, <1>2, <2>1, <2>2, LoaderStepKnown
<1>6. HostTree'
  BY <1>1, <1>2, <1>5, LoaderTree, LoaderTreeNext DEF HostMap
<1>7. Identity'
  BY <1>1, <1>5 DEF HostMap, Identity
<1>8. Loaded'
  <2>1. \A p \in ImagePages : ImageThere(p)
    BY <1>1, <1>4 DEF HostMap, Loaded
  <2>2. ImagePages' = ImagePages /\ \A p \in ImagePages : ImageThere(p)'
    BY <1>1, <1>5, <2>1 DEF ImagePages, ImageThere, ImageVirt, ImagePhys
  <2>3. 1 .. i' - 1 = {} /\ ~InKernel'
    BY <1>1 DEF InKernel, KernelPlaces, NestedPlaces
  <2> QED BY <1>1, <2>2, <2>3 DEF Loaded
<1> QED BY <1>5, <1>6, <1>7, <1>8 DEF HostMap

\* The flags that change_map_4k leaves.
LEMMA AttributeIs ==
    ASSUME NEW flags \in SUBSET Flags, NEW attr \in Attributes
    PROVE  /\ WithAttribute(flags, attr) \in SUBSET Flags
           /\ "PRESENT" \in flags => "PRESENT" \in WithAttribute(flags, attr)
           /\ Rights(WithAttribute(flags, attr), attr)
BY DEF WithAttribute, Flags, Attributes, Rights

\* An entry of level 1 that only gets other flags leaves translations alone.
LEMMA FlagsChanged ==
    ASSUME NEW tbls, NEW new, NEW root, NEW v \in Nat, NEW e, Lv1Changed(tbls, new, root, v, e),
           Present(E1(tbls, root, v)), Present(e), e.phys = E1(tbls, root, v).phys,
           NEW u \in Nat
    PROVE  Translate(new, root, u) = Translate(tbls, root, u)
<1>1. /\ E4(new, root, u) = E4(tbls, root, u)
      /\ LeadsOn(E4(tbls, root, u)) => E3(new, root, u) = E3(tbls, root, u)
      /\ LeadsOn(E4(tbls, root, u)) /\ LeadsOn(E3(tbls, root, u)) =>
            E2(new, root, u) = E2(tbls, root, u)
      /\ Deep(tbls, root, u) =>
            \/ E1(new, root, u) = E1(tbls, root, u)
            \/ E1(new, root, u) = e /\ E1(tbls, root, u) = E1(tbls, root, v)
  BY DEF Lv1Changed
<1>2. CASE ~LeadsOn(E4(tbls, root, u))
  BY <1>1, <1>2, TranslateIs
<1>3. CASE LeadsOn(E4(tbls, root, u)) /\ ~LeadsOn(E3(tbls, root, u))
  BY <1>1, <1>3, TranslateIs
<1>4. CASE LeadsOn(E4(tbls, root, u)) /\ LeadsOn(E3(tbls, root, u)) /\ ~LeadsOn(E2(tbls, root, u))
  BY <1>1, <1>4, TranslateIs
<1>5. CASE Deep(tbls, root, u)
  <2>1. /\ Present(E1(new, root, u)) <=> Present(E1(tbls, root, u))
        /\ Present(E1(new, root, u)) => E1(new, root, u).phys = E1(tbls, root, u).phys
    BY <1>1, <1>5
  <2>2. /\ LeadsOn(E4(tbls, root, u)) /\ LeadsOn(E3(tbls, root, u)) /\ LeadsOn(E2(tbls, root, u))
        /\ LeadsOn(E4(new, root, u)) /\ LeadsOn(E3(new, root, u)) /\ LeadsOn(E2(new, root, u))
    BY <1>1, <1>5 DEF Deep
  <2> QED BY <2>1, <2>2, TranslateIs
<1> QED BY <1>2, <1>3, <1>4, <1>5 DEF Deep

\* One page of the image is protected.
LEMMA ProtectKeeps ==
    ASSUME Known, HostMap, change_map_4k
    PROVE  Known' /\ HostMap'
<1> DEFINE virt == ImageVirt(i)
           old == E1(tables, cr3, virt)
           e == [old EXCEPT !.flags = WithAttribute(old.flags, kernel.attrs[i])]
<1>1. /\ pc = "change_map_4k" /\ i \in ImagePages /\ i' = i + 1
      /\ UNCHANGED <<memory, kernel, cr3, pc, boot_tables, lv4tbl, old_lv4tbl,
                     mapping_reconstructed, nested_vars>>
      /\ tables' = SetEntry(tables, E2(tables, cr3, virt).phys, IndexAt(virt, 1), e)
  BY DEF change_map_4k, Lv1Table, E1, E2, E3, E4
<1>2. pc \in LoaderPlaces /\ pc' \in LoaderPlaces
  BY <1>1 DEF LoaderPlaces
<1>3. /\ Len(kernel.attrs) \in Nat /\ ImagePages = 1 .. Len(kernel.attrs)
      /\ i \in 1 .. Len(kernel.attrs) /\ virt \in Nat /\ kernel.attrs[i] \in Attributes
  BY <1>1, ImageFacts
<1>4. tables \in Seq(Table) /\ Len(tables) \in Nat /\ cr3 \in DOMAIN tables
      /\ DOMAIN tables = 1 .. Len(tables)
  BY DEF Known, TypeOK
<1>5. Root = cr3
  BY <1>2 DEF Known, Stages, LoaderStage, Root
<1>6. Tree(tables, cr3)
  BY <1>1, LoaderTree DEF HostMap
<1>7. ImageThere(i) /\ \A p \in ImagePages : ImageThere(p)
  BY <1>1 DEF HostMap, Loaded
<1>8. Deep(tables, cr3, virt) /\ Present(old) /\ old.phys = ImagePhys(i)
  BY <1>5, <1>7 DEF ImageThere
<1>9. old \in Entry
  <2>1. PICK l3, l2, l1 : Levels(tables, cr3, l3, l2, l1)
    BY <1>6 DEF Tree
  <2>2. E2(tables, cr3, virt).phys \in DOMAIN tables /\ IndexAt(virt, 1) \in Index
    <3>1. E2(tables, cr3, virt).phys \in l1 /\ IndexAt(virt, 1) \in Index
      BY <1>3, <1>8, <2>1, WalkTables
    <3> QED BY <2>1, <3>1 DEF Levels
  <2> QED BY <1>4, <2>2, EntryType DEF E1
<1> HIDE DEF virt, old
<1>10. /\ e \in Entry /\ Present(e) /\ e.phys = old.phys /\ Rights(e.flags, kernel.attrs[i])
  <2>1. old.flags \in SUBSET Flags /\ "PRESENT" \in old.flags
    BY <1>8, <1>9 DEF Entry, Present
  <2>2. /\ WithAttribute(old.flags, kernel.attrs[i]) \in SUBSET Flags
        /\ "PRESENT" \in WithAttribute(old.flags, kernel.attrs[i])
        /\ Rights(WithAttribute(old.flags, kernel.attrs[i]), kernel.attrs[i])
    BY <1>3, <2>1, AttributeIs
  <2> QED BY <1>9, <2>2 DEF Entry, Present
<1> HIDE DEF e
<1>11. Lv1Changed(tables, tables', cr3, virt, e)
  BY <1>1, <1>3, <1>4, <1>6, <1>8, <1>10, Lv1Set
<1>12. /\ tables' \in Seq(Table) /\ Len(tables') = Len(tables) /\ Tree(tables', cr3)
       /\ E1(tables', cr3, virt) = e
       /\ \A u \in Nat :
             /\ Deep(tables', cr3, u) <=> Deep(tables, cr3, u)
             /\ Deep(tables, cr3, u) =>
                   \/ E1(tables', cr3, u) = E1(tables, cr3, u)
                   \/ E1(tables', cr3, u) = e /\ E1(tables, cr3, u) = E1(tables, cr3, virt)
  BY <1>11 DEF Lv1Changed
<1>13. Known' /\ Root' = cr3'
  <2>1. Len(tables') >= Len(tables) /\ cr3' \in DOMAIN tables'
    BY <1>1, <1>4, <1>12
  <2>2. i' \in Nat /\ i' \in 1 .. Len(kernel.attrs) + 1
    BY <1>1, <1>3
  <2> QED BY <1>1, <1>2, <1>12, <2>1, <2>2, LoaderStepKnown
<1>14. HostTree'
  BY <1>1, <1>2, <1>12, <1>13, LoaderTreeNext
<1>15. Identity'
  <2> SUFFICES ASSUME NEW a \in Installed
               PROVE  Translate(tables', cr3, a) = a
    BY <1>1, <1>13 DEF Identity
  <2>1. a \in Nat /\ Translate(tables, cr3, a) = a
    BY <1>5, Constants DEF HostMap, Identity
  <2> QED BY <1>3, <1>8, <1>10, <1>11, <2>1, FlagsChanged DEF old
<1>16. ASSUME NEW p \in ImagePages
       PROVE  /\ ImageThere(p)'
              /\ p = i => ImageRights(p)'
              /\ p # i /\ ImageRights(p) => ImageRights(p)'
  <2>1. PICK u \in Nat : u = ImageVirt(p)
    BY ImageFacts
  <2>2. ImageVirt(p)' = u /\ ImagePhys(p)' = ImagePhys(p) /\ kernel' = kernel
    BY <1>1, <2>1 DEF ImageVirt, ImagePhys
  <2>3. /\ Deep(tables, cr3, u) /\ Present(E1(tables, cr3, u))
        /\ E1(tables, cr3, u).phys = ImagePhys(p)
    BY <1>5, <1>7, <2>1 DEF ImageThere
  <2>4. Deep(tables', cr3, u)
    BY <1>12, <2>3
  <2>5. CASE p = i
    <3>1. u = virt
      BY <2>1, <2>5 DEF virt
    <3>2. E1(tables', cr3, u) = e
      BY <1>12, <3>1
    <3> QED BY <1>1, <1>8, <1>10, <1>13, <2>2, <2>4, <2>5, <3>2 DEF ImageThere, ImageRights
  <2>6. CASE p # i
    <3>1. ImagePhys(p) # ImagePhys(i)
      <4>1. kernel.start \in Nat
        BY HostAssumption DEF Known, TypeOK
      <4>2. p \in 1 .. Len(kernel.attrs)
        BY <1>3
      <4> QED BY <1>3, <2>6, <4>1, <4>2 DEF ImagePhys
    <3>2. E1(tables', cr3, u) = E1(tables, cr3, u)
      BY <1>8, <1>12, <2>3, <3>1 DEF old
    <3>3. ImageThere(p)'
      BY <1>1, <1>13, <2>2, <2>3, <2>4, <3>2 DEF ImageThere
    <3>4. ImageRights(p) => ImageRights(p)'
      BY <1>1, <1>5, <1>13, <2>1, <2>2, <3>2 DEF ImageRights
    <3> QED BY <2>6, <3>3, <3>4
  <2> QED BY <2>5, <2>6
<1>17. Loaded'
  <2>1. ImagePages' = ImagePages
    BY <1>1 DEF ImagePages
  <2>2. ASSUME NEW p \in 1 .. i' - 1
        PROVE  ImageRights(p)'
    <3>1. p \in ImagePages /\ (p # i => p \in 1 .. i - 1)
      BY <1>1, <1>3
    <3>2. p # i => ImageRights(p)
      BY <1>1, <3>1 DEF HostMap, Loaded
    <3> QED BY <1>16, <3>1, <3>2
  <2>3. ~InKernel'
    BY <1>1 DEF InKernel, KernelPlaces, NestedPlaces
  <2> QED BY <1>1, <1>16, <2>1, <2>2, <2>3 DEF Loaded
<1> QED BY <1>13, <1>14, <1>15, <1>17 DEF HostMap

\* SurtrC hands over.
LEMMA JumpKeeps ==
    ASSUME Known, HostMap, JumpToKernel
    PROVE  Known' /\ HostMap'
<1> USE DEF TypeOK, NestedTypeOK, nested_vars, arguments
<1>1. /\ pc = "change_map_4k" /\ i \notin ImagePages /\ pc' = "reconstruct" /\ boot_tables' = Len(tables)
      /\ UNCHANGED <<tables, memory, kernel, cr3, i, lv4tbl, old_lv4tbl, mapping_reconstructed>>
      /\ UNCHANGED nested_vars
  BY DEF JumpToKernel
<1>2. /\ boot_tables = 0 /\ lv4tbl = 0 /\ old_lv4tbl = 0 /\ npt = 0
      /\ ~mapping_reconstructed /\ i \in 1 .. Len(kernel.attrs) + 1
  BY <1>1 DEF Known, Stages, LoaderStage, LoaderPlaces
<1>3. Root = cr3 /\ Root' = cr3 /\ cr3 \in 1 .. Len(tables) /\ Len(tables) \in Nat
  BY <1>1, <1>2 DEF Root, Known
<1>4. TypeOK'
  BY <1>1, <1>2, <1>3 DEF Known, KernelPlaces
<1>5. Stages'
  <2>1. LoaderStage'
    BY <1>1 DEF LoaderStage, LoaderPlaces
  <2>2. KernelStage'
    BY <1>1, <1>2, <1>3 DEF KernelStage, SwitchedPlaces, NestedPlaces
  <2>3. RootStage'
    BY <1>1, <1>2, <1>3 DEF RootStage
  <2>4. GuestStage'
    BY <1>1, <1>2 DEF GuestStage
  <2> QED BY <2>1, <2>2, <2>3, <2>4 DEF Stages
<1>6. HostTree'
  <2>1. Top = Len(tables) /\ Top' = Len(tables)
    BY <1>1 DEF Top, LoaderPlaces
  <2> QED BY <1>1, <1>3, <2>1 DEF HostMap, HostTree
<1>7. Identity'
  BY <1>1, <1>3 DEF HostMap, Identity
<1>8. Loaded'
  <2>1. 1 .. i - 1 = ImagePages /\ ImagePages' = ImagePages
    BY <1>1, <1>2, ImageFacts DEF ImagePages
  <2>2. \A p \in ImagePages : ImageThere(p) /\ ImageRights(p)
    BY <1>1, <2>1 DEF HostMap, Loaded
  <2>3. \A p \in ImagePages : ImageThere(p)' /\ ImageRights(p)'
    BY <1>1, <1>3, <2>2 DEF ImageThere, ImageRights, ImageVirt, ImagePhys
  <2> QED BY <1>1, <2>1, <2>3 DEF Loaded
<1> QED BY <1>4, <1>5, <1>6, <1>7, <1>8 DEF Known, HostMap

-----------------------------------------------------------------------------
(* The kernel's steps and the tables that the loader left.                 *)

\* The kernel leaves the loader's tables alone.
LEMMA HostMapKept ==
    ASSUME Known, HostMap, pc \notin LoaderPlaces, pc' \notin LoaderPlaces,
           Extended(boot_tables), Root' = Root, UNCHANGED <<boot_tables, kernel>>
    PROVE  HostMap'
<1>1. PICK l3, l2, l1 \in SUBSET (1 .. Top) :
          Levels(tables, Root, l3, l2, l1) /\ Root \notin l3 \cup l2 \cup l1
  BY DEF HostMap, HostTree, LoaderPlaces
<1>2. Top = boot_tables /\ Top' = boot_tables
  BY DEF Top
<1>3. /\ Root \in 1 .. boot_tables /\ boot_tables \in 1 .. Len(tables)
      /\ Len(tables) \in Nat /\ DOMAIN tables = 1 .. Len(tables)
      /\ Len(tables') \in Nat /\ DOMAIN tables' = 1 .. Len(tables') /\ Len(tables') >= Len(tables)
  BY DEF Known, TypeOK, Stages, KernelStage, Extended
<1>4. PICK root : root = Root /\ root \in 1 .. boot_tables
  BY <1>3
<1>5. \A t \in {root} \cup l3 \cup l2 \cup l1 : tables'[t] = tables[t]
  BY <1>1, <1>2, <1>4 DEF Extended
<1>6. Levels(tables, root, l3, l2, l1)
  BY <1>1, <1>4
<1>7. Levels(tables', root, l3, l2, l1)
  <2>1. DOMAIN tables \subseteq DOMAIN tables'
    BY <1>3
  <2> QED BY <1>5, <1>6, <2>1 DEF Levels
<1>8. HostTree'
  BY <1>1, <1>2, <1>4, <1>7 DEF HostTree
<1>9. ASSUME NEW v \in Nat
      PROVE  /\ Deep(tables', root, v) <=> Deep(tables, root, v)
             /\ Deep(tables, root, v) => E1(tables', root, v) = E1(tables, root, v)
             /\ Translate(tables', root, v) = Translate(tables, root, v)
  BY <1>5, <1>6, WalkKept
<1>10. Identity'
  <2> SUFFICES ASSUME NEW a \in Installed
               PROVE  Translate(tables', root, a) = a
    BY <1>4 DEF Identity
  <2>1. a \in Nat /\ Translate(tables, root, a) = a
    BY <1>4, Constants DEF HostMap, Identity
  <2> QED BY <1>9, <2>1
<1>11. Loaded'
  <2>1. InKernel
    BY DEF Known, TypeOK, InKernel
  <2>2. ASSUME NEW p \in ImagePages
        PROVE  ImageThere(p)' /\ ImageRights(p)'
    <3>1. ImageThere(p) /\ ImageRights(p)
      BY <2>1 DEF HostMap, Loaded
    <3>2. PICK u \in Nat : u = ImageVirt(p)
      BY ImageFacts
    <3>3. ImageVirt(p)' = u /\ ImagePhys(p)' = ImagePhys(p) /\ kernel' = kernel
      BY <3>2 DEF ImageVirt, ImagePhys
    <3>4. /\ Deep(tables, root, u) /\ Present(E1(tables, root, u))
          /\ E1(tables, root, u).phys = ImagePhys(p) /\ Rights(E1(tables, root, u).flags, kernel.attrs[p])
      BY <1>4, <3>1, <3>2 DEF ImageThere, ImageRights
    <3>5. Deep(tables', root, u) /\ E1(tables', root, u) = E1(tables, root, u)
      BY <1>9, <3>4
    <3> QED BY <1>4, <3>3, <3>4, <3>5 DEF ImageThere, ImageRights
  <2>3. ImagePages' = ImagePages /\ pc' \notin {"set_lv4table_writable", "map_4k_to", "change_map_4k"}
    BY DEF ImagePages, LoaderPlaces
  <2> QED BY <2>2, <2>3 DEF Loaded
<1> QED BY <1>8, <1>10, <1>11 DEF HostMap

-----------------------------------------------------------------------------
(* The new root.                                                           *)

\* A link holds as long as the tables up to hi stay, the root's entries apart.
LEMMA LinkedKept ==
    ASSUME NEW tbls, NEW new, NEW lo \in Nat, NEW hi \in Nat, NEW hi2 \in Nat, hi <= hi2,
           NEW root, \A t \in lo + 1 .. hi : t # root => new[t] = tbls[t],
           NEW e, NEW tbl, Linked(tbls, lo, hi, root, e, tbl)
    PROVE  Linked(new, lo, hi2, root, e, tbl)
<1>1. PICK c \in lo + 1 .. hi :
          c # root /\ e = initialize_table_reference_entry(c) /\ tbls[c] = tbl
  BY DEF Linked
<1>2. c \in lo + 1 .. hi2 /\ new[c] = tbl
  BY <1>1
<1> QED BY <1>1, <1>2 DEF Linked

\* ... and so do all links of the direct map,
LEMMA DirectKept ==
    ASSUME NEW tbls, NEW new, NEW lo \in Nat, NEW hi \in Nat, NEW hi2 \in Nat, hi <= hi2,
           NEW root, \A t \in lo + 1 .. hi : t # root => new[t] = tbls[t],
           NEW n, \A d \in 0 .. n - 1 : new[root][DirectMapIndex + d] = tbls[root][DirectMapIndex + d],
           DirectPart(tbls, lo, hi, root, n)
    PROVE  DirectPart(new, lo, hi2, root, n)
<1> SUFFICES ASSUME NEW d \in 0 .. n - 1
             PROVE  Linked(new, lo, hi2, root, new[root][DirectMapIndex + d], DirectTable(d))
  BY DEF DirectPart
<1> DEFINE e == tbls[root][DirectMapIndex + d]
           tbl == DirectTable(d)
<1>1. Linked(tbls, lo, hi, root, e, tbl)
  BY DEF DirectPart
<1>2. new[root][DirectMapIndex + d] = e
  OBVIOUS
<1> HIDE DEF e, tbl
<1>3. Linked(new, lo, hi2, root, e, tbl)
  BY <1>1, LinkedKept
<1> QED BY <1>2, <1>3 DEF tbl

\* ... and those of the kernel region.
LEMMA CloneKept ==
    ASSUME NEW tbls, NEW new, NEW lo \in Nat, NEW hi \in Nat, NEW hi2 \in Nat, hi <= hi2,
           NEW root, \A t \in lo + 1 .. hi : t # root => new[t] = tbls[t],
           NEW old, new[old] = tbls[old], NEW n,
           \A k \in lv4idx_end .. n - 1 : new[root][k] = tbls[root][k],
           \A k \in lv4idx_end .. n - 1 : Present(tbls[old][k]) =>
               new[tbls[old][k].phys] = tbls[tbls[old][k].phys],
           ClonePart(tbls, lo, hi, root, old, n)
    PROVE  ClonePart(new, lo, hi2, root, old, n)
<1> SUFFICES ASSUME NEW k \in lv4idx_end .. n - 1
             PROVE  IF Present(new[old][k])
                    THEN Linked(new, lo, hi2, root, new[root][k], new[new[old][k].phys])
                    ELSE new[root][k] = NoEntry
  BY DEF ClonePart
<1>1. CASE Present(tbls[old][k])
  <2> DEFINE e == tbls[root][k]
             tbl == tbls[tbls[old][k].phys]
  <2>1. Linked(tbls, lo, hi, root, e, tbl)
    BY <1>1 DEF ClonePart
  <2>2. new[root][k] = e /\ new[old][k] = tbls[old][k] /\ new[new[old][k].phys] = tbl
    BY <1>1
  <2> HIDE DEF e, tbl
  <2>3. Linked(new, lo, hi2, root, e, tbl)
    BY <2>1, LinkedKept
  <2> QED BY <1>1, <2>2, <2>3
<1>2. CASE ~Present(tbls[old][k])
  BY <1>2 DEF ClonePart
<1> QED BY <1>1, <1>2

\* Where the host's tables are.
LEMMA HostTables ==
    ASSUME Known, HostMap, pc \notin LoaderPlaces
    PROVE  /\ Len(tables) \in Nat /\ DOMAIN tables = 1 .. Len(tables)
           /\ boot_tables \in Nat /\ Root \in 1 .. boot_tables
           /\ HostTop \in boot_tables .. Len(tables)
           /\ lv4tbl # 0 => lv4tbl \in boot_tables + 1 .. HostTop
           /\ \A k \in Index : Present(tables[Root][k]) =>
                 LeadsOn(tables[Root][k]) /\ tables[Root][k].phys \in 1 .. boot_tables
<1>1. /\ Len(tables) \in Nat /\ DOMAIN tables = 1 .. Len(tables)
      /\ boot_tables \in Nat /\ Root \in 1 .. boot_tables /\ boot_tables \in 1 .. Len(tables)
      /\ npt \in {0} \cup 1 .. Len(tables)
      /\ lv4tbl # 0 => lv4tbl \in boot_tables + 1 .. Len(tables)
      /\ npt # 0 => boot_tables < npt /\ lv4tbl < npt
  BY DEF Known, TypeOK, NestedTypeOK, Stages, KernelStage, RootStage, GuestStage
<1>2. /\ HostTop \in boot_tables .. Len(tables)
      /\ lv4tbl # 0 => lv4tbl \in boot_tables + 1 .. HostTop
  BY <1>1 DEF HostTop
<1>3. PICK l3, l2, l1 \in SUBSET (1 .. Top) : Levels(tables, Root, l3, l2, l1)
  BY DEF HostMap, HostTree
<1>4. Top = boot_tables
  BY DEF Top
<1>5. \A k \in Index : Present(tables[Root][k]) =>
          LeadsOn(tables[Root][k]) /\ tables[Root][k].phys \in 1 .. boot_tables
  BY <1>3, <1>4 DEF Levels
<1> QED BY <1>1, <1>2, <1>5

\* A root that is complete stays so, when only tables behind it change.
LEMMA CompleteKept ==
    ASSUME Known, HostMap, pc \notin LoaderPlaces, Extended(HostTop), lv4tbl # 0,
           Complete(tables, boot_tables, HostTop, lv4tbl, Root), HostTop' \in Nat, HostTop' >= HostTop,
           UNCHANGED <<boot_tables, lv4tbl>>, Root' = Root
    PROVE  Complete(tables, boot_tables, HostTop, lv4tbl, Root)'
<1>1. PICK lo, hi, root, old :
          /\ lo = boot_tables /\ hi = HostTop /\ root = lv4tbl /\ old = Root
  OBVIOUS
<1>2. PICK hi2 : hi2 = HostTop'
  OBVIOUS
<1>3. /\ lo \in Nat /\ hi \in Nat /\ hi2 \in Nat /\ hi <= hi2 /\ lo <= hi
      /\ root \in 1 .. hi /\ old \in 1 .. hi
      /\ \A t \in 1 .. hi : tables'[t] = tables[t]
      /\ \A k \in Index : Present(tables[old][k]) => tables[old][k].phys \in 1 .. hi
  BY <1>1, <1>2, HostTables DEF Extended
<1>4. \A t \in lo + 1 .. hi : t # root => tables'[t] = tables[t]
  BY <1>3
<1>5. tables'[root] = tables[root] /\ tables'[old] = tables[old]
  BY <1>3
<1>6. \A k \in lv4idx_end .. Entries - 1 : Present(tables[old][k]) =>
          tables'[tables[old][k].phys] = tables[tables[old][k].phys]
  <2>1. \A k \in lv4idx_end .. Entries - 1 : k \in Index
    BY Constants DEF Index
  <2> QED BY <1>3, <2>1
<1>7. /\ DirectPart(tables, lo, hi, root, DirectMapEntries)
      /\ ClonePart(tables, lo, hi, root, old, Entries)
      /\ EmptyPart(tables, root, 0 .. DirectMapIndex - 1)
  BY <1>1 DEF Complete
<1>8. DirectPart(tables', lo, hi2, root, DirectMapEntries)
  BY <1>3, <1>4, <1>5, <1>7, DirectKept
<1>9. ClonePart(tables', lo, hi2, root, old, Entries)
  BY <1>3, <1>4, <1>5, <1>6, <1>7, CloneKept
<1>10. EmptyPart(tables', root, 0 .. DirectMapIndex - 1)
  BY <1>5, <1>7 DEF EmptyPart
<1>11. Complete(tables', lo, hi2, root, old)
  BY <1>8, <1>9, <1>10 DEF Complete
<1>12. lo = boot_tables' /\ hi2 = HostTop' /\ root = lv4tbl' /\ old = Root'
  BY <1>1, <1>2
<1> QED BY <1>11, <1>12

\* So steps of the guest's part leave it.
LEMMA BuiltKept ==
    ASSUME Known, Known', HostMap, Built, pc \notin LoaderPlaces, cr3 = lv4tbl, cr3' = lv4tbl',
           pc' \notin {"direct_map", "clone"}, Extended(HostTop),
           HostTop' \in Nat, HostTop' >= HostTop, UNCHANGED <<boot_tables, lv4tbl>>, Root' = Root
    PROVE  Built'
<1>1. lv4tbl # 0
  BY DEF Known, TypeOK
<1>2. Complete(tables, boot_tables, HostTop, lv4tbl, Root)
  BY DEF Built
<1>3. Complete(tables, boot_tables, HostTop, lv4tbl, Root)'
  BY <1>1, <1>2, CompleteKept
<1> QED BY <1>3 DEF Built

\* The new root is empty.
LEMMA ReconstructBuilt ==
    ASSUME Known, Known', Reconstruct
    PROVE  Built'
<1>1. pc' \in {"direct_map", "panic"} /\ i' = 0 /\ old_lv4tbl' = 0
  <2>1. pc = "reconstruct" /\ i' = 0 /\ old_lv4tbl' = old_lv4tbl
    BY DEF Reconstruct
  <2>2. pc' \in {"direct_map", "panic"}
    BY DEF Reconstruct, Allocate
  <2> QED BY <2>1, <2>2 DEF Known, Stages, KernelStage, LoaderPlaces
<1>2. cr3' # lv4tbl'
  BY <1>1 DEF Known, Stages, RootStage
<1>3. ASSUME pc' = "direct_map"
      PROVE  /\ DirectPart(tables, boot_tables, HostTop, lv4tbl, i)'
             /\ EmptyPart(tables, lv4tbl, Index \ (DirectMapIndex .. DirectMapIndex + i - 1))'
  <2>1. tables' = Append(tables, EmptyTable) /\ lv4tbl' = Len(tables) + 1
    BY <1>3 DEF Reconstruct, Allocate
  <2>2. tables'[lv4tbl'] = EmptyTable
    <3>1. tables \in Seq(Table)
      BY DEF Known, TypeOK
    <3>2. Append(tables, EmptyTable)[Len(tables) + 1] = EmptyTable
      BY <3>1, NewEntries, AppendIs
    <3> QED BY <2>1, <3>2
  <2>3. DirectPart(tables, boot_tables, HostTop, lv4tbl, i)'
    BY <1>1 DEF DirectPart
  <2>4. EmptyPart(tables, lv4tbl, Index \ (DirectMapIndex .. DirectMapIndex + i - 1))'
    BY <2>2, NewEntries DEF EmptyPart
  <2> QED BY <2>3, <2>4
<1> QED BY <1>1, <1>2, <1>3 DEF Built

\* One more entry of the direct map.
LEMMA DirectMapBuilt ==
    ASSUME Known, Known', HostMap, Built, DirectMap
    PROVE  Built'
<1>1. /\ pc = "direct_map" /\ i < DirectMapEntries /\ i' = i + 1 /\ i \in Nat /\ pc' \in {"direct_map", "panic"}
      /\ UNCHANGED <<boot_tables, lv4tbl, old_lv4tbl, nested_vars>>
  BY DEF DirectMap, Known, TypeOK, Allocate
<1>2. pc \notin LoaderPlaces /\ old_lv4tbl = 0 /\ npt = 0 /\ npt' = 0 /\ lv4tbl # 0
  BY <1>1 DEF Known, Stages, KernelStage, GuestStage, LoaderPlaces, NestedPlaces, nested_vars
<1>3. cr3' # lv4tbl'
  BY <1>1, <1>2 DEF Known, Stages, RootStage
<1>4. ASSUME pc' = "direct_map"
      PROVE  /\ DirectPart(tables, boot_tables, HostTop, lv4tbl, i)'
             /\ EmptyPart(tables, lv4tbl, Index \ (DirectMapIndex .. DirectMapIndex + i - 1))'
  <2>1. PICK n, lo, hi, root, old :
          /\ n = i /\ lo = boot_tables /\ hi = Len(tables) /\ root = lv4tbl /\ old = Root
    OBVIOUS
  <2>2. /\ n \in Nat /\ lo \in Nat /\ hi \in Nat /\ DOMAIN tables = 1 .. hi /\ root \in lo + 1 .. hi
        /\ HostTop = hi /\ tables \in Seq(Table)
    BY <1>1, <1>2, <2>1, HostTables DEF HostTop, Known, TypeOK
  <2> DEFINE e == initialize_table_reference_entry(hi + 1)
             longer == Append(tables, DirectTable(n))
             new == SetEntry(longer, root, DirectMapIndex + n, e)
  <2>3. DirectMapIndex + n \in Index /\ e \in Entry /\ DirectTable(n) \in Table
    <3>1. DirectMapIndex + n \in Index
      BY <1>1, <2>1, <2>2, Constants DEF Index
    <3>2. hi + 1 \in Nat
      BY <2>2
    <3> QED BY <2>2, <3>1, <3>2, NewEntries, DirectTableType
  <2>4. /\ longer \in Seq(Table) /\ Len(longer) = hi + 1 /\ DOMAIN longer = DOMAIN tables \cup {hi + 1}
        /\ hi + 1 \notin DOMAIN tables
        /\ \A u \in DOMAIN tables : longer[u] = tables[u]
        /\ longer[hi + 1] = DirectTable(n)
    BY <2>1, <2>2, <2>3, AppendIs
  <2> HIDE DEF e, longer
  <2>5. /\ new \in Seq(Table) /\ Len(new) = Len(longer) /\ DOMAIN new = DOMAIN longer
        /\ \A u \in DOMAIN longer \ {root} : new[u] = longer[u]
        /\ new[root][DirectMapIndex + n] = e
        /\ \A j \in Index \ {DirectMapIndex + n} : new[root][j] = longer[root][j]
    <3>1. longer \in Seq(Table) /\ root \in DOMAIN longer
      BY <2>2, <2>4
    <3> QED BY <2>3, <3>1, SetEntryIs
  <2>6. tables' = new
    BY <1>4, <2>1 DEF DirectMap, Allocate, longer, e
  <2> HIDE DEF new
  <2>7. /\ \A u \in 1 .. hi : u # root => tables'[u] = tables[u]
        /\ tables'[root][DirectMapIndex + n] = e /\ tables'[hi + 1] = DirectTable(n)
        /\ \A j \in Index \ {DirectMapIndex + n} : tables'[root][j] = tables[root][j]
        /\ Len(tables') = hi + 1
    <3>1. /\ \A u \in 1 .. hi : u \in DOMAIN longer /\ u \in DOMAIN tables
          /\ hi + 1 \in DOMAIN longer \ {root} /\ root \in DOMAIN tables
      BY <2>2, <2>4
    <3>2. \A u \in 1 .. hi : u # root => new[u] = tables[u]
      BY <2>4, <2>5, <3>1
    <3>3. new[hi + 1] = DirectTable(n) /\ longer[root] = tables[root] /\ Len(new) = hi + 1
      BY <2>4, <2>5, <3>1
    <3> QED BY <2>5, <2>6, <3>2, <3>3
  <2>8. DirectPart(tables, lo, hi, root, n)
        /\ EmptyPart(tables, root, Index \ (DirectMapIndex .. DirectMapIndex + n - 1))
    BY <1>1, <2>1, <2>2 DEF Built
  <2>9. DirectPart(tables', lo, hi + 1, root, n)
    <3>1. \A d \in 0 .. n - 1 : tables'[root][DirectMapIndex + d] = tables[root][DirectMapIndex + d]
      <4> SUFFICES ASSUME NEW d \in 0 .. n - 1
                   PROVE  tables'[root][DirectMapIndex + d] = tables[root][DirectMapIndex + d]
        OBVIOUS
      <4>1. DirectMapIndex + d \in Index /\ DirectMapIndex + d # DirectMapIndex + n
        BY <1>1, <2>1, <2>2, Constants DEF Index
      <4> QED BY <2>7, <4>1
    <3>2. \A t \in lo + 1 .. hi : t # root => tables'[t] = tables[t]
      BY <2>2, <2>7
    <3>3. hi + 1 \in Nat /\ hi <= hi + 1
      BY <2>2
    <3> QED BY <2>2, <2>8, <3>1, <3>2, <3>3, DirectKept
  <2>10. Linked(tables', lo, hi + 1, root, tables'[root][DirectMapIndex + n], DirectTable(n))
    <3>1. hi + 1 \in lo + 1 .. hi + 1 /\ hi + 1 # root
      BY <2>2
    <3> QED BY <2>7, <3>1 DEF Linked, e
  <2>11. DirectPart(tables', lo, hi + 1, root, n + 1)
    <3>1. \A d \in 0 .. n : d = n \/ d \in 0 .. n - 1
      BY <2>2
    <3>2. (n + 1) - 1 = n
      BY <2>2
    <3> QED BY <2>9, <2>10, <3>1, <3>2 DEF DirectPart
  <2>12. EmptyPart(tables', root, Index \ (DirectMapIndex .. DirectMapIndex + (n + 1) - 1))
    <3> SUFFICES ASSUME NEW k \in Index \ (DirectMapIndex .. DirectMapIndex + (n + 1) - 1)
                 PROVE  tables'[root][k] = NoEntry
      BY DEF EmptyPart
    <3>1. k \in Index \ {DirectMapIndex + n}
          /\ k \in Index \ (DirectMapIndex .. DirectMapIndex + n - 1)
      BY <2>2, Constants DEF Index
    <3> QED BY <2>7, <2>8, <3>1 DEF EmptyPart
  <2>13. /\ boot_tables' = lo /\ HostTop' = hi + 1 /\ lv4tbl' = root /\ i' = n + 1
    BY <1>1, <1>2, <2>1, <2>7 DEF HostTop
  <2> QED BY <2>11, <2>12, <2>13
<1> QED BY <1>1, <1>3, <1>4 DEF Built

\* The direct map is complete, nothing of the kernel region is there yet.
LEMMA DirectMapDoneBuilt ==
    ASSUME Known, Known', Built, DirectMapDone
    PROVE  Built'
<1>1. /\ pc = "direct_map" /\ i = DirectMapEntries /\ i' = lv4idx_end /\ old_lv4tbl' = cr3 /\ pc' = "clone"
      /\ UNCHANGED <<tables, cr3, boot_tables, lv4tbl, nested_vars>>
  BY DEF DirectMapDone, FirstCloned
<1>2. cr3' # lv4tbl' /\ UNCHANGED npt
  BY <1>1 DEF Known, Stages, KernelStage, LoaderPlaces, nested_vars
<1>3. HostTop' = HostTop
  BY <1>1, <1>2 DEF HostTop
<1>4. /\ DirectPart(tables, boot_tables, HostTop, lv4tbl, DirectMapEntries)
      /\ EmptyPart(tables, lv4tbl, Index \ (DirectMapIndex .. DirectMapIndex + DirectMapEntries - 1))
  BY <1>1 DEF Built
<1>5. DirectPart(tables, boot_tables, HostTop, lv4tbl, DirectMapEntries)'
  BY <1>1, <1>3, <1>4
<1>6. ClonePart(tables, boot_tables, HostTop, lv4tbl, Root, i)'
  <2>1. lv4idx_end .. i' - 1 = {}
    BY <1>1, Constants
  <2> QED BY <2>1 DEF ClonePart
<1>7. EmptyPart(tables, lv4tbl, (0 .. DirectMapIndex - 1) \cup (i .. Entries - 1))'
  <2>1. (0 .. DirectMapIndex - 1) \cup (i' .. Entries - 1)
           \subseteq Index \ (DirectMapIndex .. DirectMapIndex + DirectMapEntries - 1)
    BY <1>1, Constants DEF Index
  <2> QED BY <1>1, <1>4, <2>1 DEF EmptyPart
<1> QED BY <1>1, <1>2, <1>5, <1>6, <1>7 DEF Built

\* One more entry of the kernel region.
LEMMA CloneEntryBuilt ==
    ASSUME Known, Known', HostMap, Built, CloneEntry
    PROVE  Built'
<1>1. /\ pc = "clone" /\ i < Entries /\ i' = i + 1 /\ i \in Nat /\ pc' \in {"clone", "panic"}
      /\ UNCHANGED <<boot_tables, cr3, lv4tbl, old_lv4tbl, nested_vars>>
  BY DEF CloneEntry, Known, TypeOK, Allocate
<1>2. /\ pc \notin LoaderPlaces /\ npt = 0 /\ npt' = 0 /\ lv4tbl # 0 /\ cr3' # lv4tbl'
      /\ Root = old_lv4tbl /\ Root' = Root /\ i \in lv4idx_end .. Entries
  BY <1>1 DEF Known, Stages, KernelStage, GuestStage, LoaderPlaces, NestedPlaces, nested_vars, Root
<1>3. PICK n, lo, hi, root, old :
        /\ n = i /\ lo = boot_tables /\ hi = Len(tables) /\ root = lv4tbl /\ old = Root
  OBVIOUS
<1>4. /\ n \in Nat /\ lo \in Nat /\ hi \in Nat /\ DOMAIN tables = 1 .. hi /\ root \in lo + 1 .. hi
      /\ HostTop = hi /\ tables \in Seq(Table) /\ old \in 1 .. lo /\ n \in lv4idx_end .. Entries - 1
      /\ \A k \in Index : Present(tables[old][k]) =>
             LeadsOn(tables[old][k]) /\ tables[old][k].phys \in 1 .. lo
  <2>1. HostTop = Len(tables) /\ tables \in Seq(Table)
    BY <1>2 DEF HostTop, Known, TypeOK
  <2>2. i \in lv4idx_end .. Entries - 1
    BY <1>1, <1>2, Constants
  <2> QED BY <1>1, <1>2, <1>3, <2>1, <2>2, HostTables
<1>5. n \in Index /\ n \notin 0 .. DirectMapIndex + DirectMapEntries - 1
  BY <1>4, Constants DEF Index
<1>6. /\ DirectPart(tables, lo, hi, root, DirectMapEntries)
      /\ ClonePart(tables, lo, hi, root, old, n)
      /\ EmptyPart(tables, root, (0 .. DirectMapIndex - 1) \cup (n .. Entries - 1))
  BY <1>1, <1>3, <1>4 DEF Built
<1>7. ASSUME Present(tables[old][n]), pc' = "clone"
      PROVE  /\ hi <= Len(tables') /\ Len(tables') \in Nat
             /\ \A u \in 1 .. hi : u # root => tables'[u] = tables[u]
             /\ \A j \in Index \ {n} : tables'[root][j] = tables[root][j]
             /\ Linked(tables', lo, Len(tables'), root, tables'[root][n], tables[tables[old][n].phys])
  <2> DEFINE e == initialize_table_reference_entry(hi + 1)
             more == clone_lv3_table(tables[old][n].phys)
             new == SetEntry(tables \o more, root, n, e)
  <2>1. PICK l3, l2, l1 \in SUBSET (1 .. Top) : Levels(tables, Root, l3, l2, l1)
    BY DEF HostMap, HostTree
  <2>2. tables[old][n].phys \in l3
    BY <1>3, <1>5, <1>7, <2>1 DEF Levels
  <2>3. more \in Seq(Table) /\ Len(more) >= 1 /\ more[1] = tables[tables[old][n].phys]
    BY <1>4, <2>1, <2>2, CloneType
  <2>4. e \in Entry
    <3>1. hi + 1 \in Nat
      BY <1>4
    <3> QED BY <3>1, NewEntries
  <2> HIDE DEF e, more
  <2>5. /\ new \in Seq(Table) /\ Len(new) = Len(tables) + Len(more)
        /\ \A u \in DOMAIN tables \ {root} : new[u] = tables[u]
        /\ new[root][n] = e
        /\ \A j \in Index \ {n} : new[root][j] = tables[root][j]
        /\ \A j \in DOMAIN more : new[Len(tables) + j] = more[j]
    <3>1. root \in DOMAIN tables /\ tables \in Seq(Table) /\ n \in Index
      BY <1>4, <1>5
    <3>2. more \in Seq(Table)
      BY <2>3
    <3> QED BY <2>4, <3>1, <3>2, AddedIs
  <2>6. tables' = new
    BY <1>2, <1>3, <1>7 DEF CloneEntry, Allocate, more, e
  <2> HIDE DEF new
  <2>7. 1 \in DOMAIN more /\ Len(more) \in Nat
    BY <2>3
  <2>8. tables'[hi + 1] = tables[tables[old][n].phys] /\ Len(tables') = hi + Len(more)
    BY <1>3, <2>3, <2>5, <2>6, <2>7
  <2>9. hi + 1 \in lo + 1 .. Len(tables') /\ hi + 1 # root /\ hi <= Len(tables') /\ Len(tables') \in Nat
    BY <1>4, <2>3, <2>7, <2>8
  <2>10. Linked(tables', lo, Len(tables'), root, tables'[root][n], tables[tables[old][n].phys])
    BY <2>5, <2>6, <2>8, <2>9 DEF Linked, e
  <2> QED BY <1>4, <2>5, <2>6, <2>9, <2>10
<1>8. ASSUME ~Present(tables[old][n])
      PROVE  tables' = tables /\ pc' = "clone"
  BY <1>1, <1>2, <1>3, <1>8 DEF CloneEntry
<1>9. ASSUME pc' = "clone"
      PROVE  /\ hi <= Len(tables') /\ Len(tables') \in Nat
             /\ \A u \in 1 .. hi : u # root => tables'[u] = tables[u]
             /\ \A j \in Index \ {n} : tables'[root][j] = tables[root][j]
             /\ IF Present(tables[old][n])
                THEN Linked(tables', lo, Len(tables'), root, tables'[root][n], tables[tables[old][n].phys])
                ELSE tables'[root][n] = NoEntry
  <2>1. CASE Present(tables[old][n])
    BY <1>7, <1>9, <2>1
  <2>2. CASE ~Present(tables[old][n])
    <3>1. n \in n .. Entries - 1
      BY <1>4
    <3>2. tables[root][n] = NoEntry
      BY <1>6, <3>1 DEF EmptyPart
    <3> QED BY <1>3, <1>4, <1>8, <2>2, <3>2
  <2> QED BY <2>1, <2>2
<1>10. ASSUME pc' = "clone"
       PROVE  /\ DirectPart(tables, boot_tables, HostTop, lv4tbl, DirectMapEntries)'
              /\ ClonePart(tables, boot_tables, HostTop, lv4tbl, Root, i)'
              /\ EmptyPart(tables, lv4tbl, (0 .. DirectMapIndex - 1) \cup (i .. Entries - 1))'
  <2>1. PICK hi2 : hi2 = Len(tables')
    OBVIOUS
  <2>2. /\ hi2 \in Nat /\ hi <= hi2 /\ \A u \in 1 .. hi : u # root => tables'[u] = tables[u]
        /\ \A j \in Index \ {n} : tables'[root][j] = tables[root][j]
        /\ IF Present(tables[old][n])
           THEN Linked(tables', lo, hi2, root, tables'[root][n], tables[tables[old][n].phys])
           ELSE tables'[root][n] = NoEntry
    BY <1>9, <1>10, <2>1
  <2>3. \A t \in lo + 1 .. hi : t # root => tables'[t] = tables[t]
    BY <1>4, <2>2
  <2>4. tables'[old] = tables[old]
        /\ \A k \in Index : Present(tables[old][k]) =>
               tables'[tables[old][k].phys] = tables[tables[old][k].phys]
    <3>1. \A t \in 1 .. lo : t \in 1 .. hi /\ t # root
      BY <1>4
    <3> QED BY <1>4, <2>2, <3>1
  <2>5. DirectPart(tables', lo, hi2, root, DirectMapEntries)
    <3>1. \A d \in 0 .. DirectMapEntries - 1 :
              tables'[root][DirectMapIndex + d] = tables[root][DirectMapIndex + d]
      <4> SUFFICES ASSUME NEW d \in 0 .. DirectMapEntries - 1
                   PROVE  tables'[root][DirectMapIndex + d] = tables[root][DirectMapIndex + d]
        OBVIOUS
      <4>1. DirectMapIndex + d \in Index /\ DirectMapIndex + d # n
        BY <1>4, Constants DEF Index
      <4> QED BY <2>2, <4>1
    <3> QED BY <1>4, <1>6, <2>2, <2>3, <3>1, DirectKept
  <2>6. ClonePart(tables', lo, hi2, root, old, n)
    <3>1. \A k \in lv4idx_end .. n - 1 : k \in Index /\ k # n
      BY <1>4, Constants DEF Index
    <3>2. \A k \in lv4idx_end .. n - 1 : tables'[root][k] = tables[root][k]
      BY <2>2, <3>1
    <3>3. \A k \in lv4idx_end .. n - 1 : Present(tables[old][k]) =>
              tables'[tables[old][k].phys] = tables[tables[old][k].phys]
      BY <2>4, <3>1
    <3> QED BY <1>4, <1>6, <2>2, <2>3, <2>4, <3>2, <3>3, CloneKept
  <2>7. IF Present(tables'[old][n])
        THEN Linked(tables', lo, hi2, root, tables'[root][n], tables'[tables'[old][n].phys])
        ELSE tables'[root][n] = NoEntry
    BY <1>5, <2>2, <2>4
  <2>8. ClonePart(tables', lo, hi2, root, old, n + 1)
    <3>1. \A k \in lv4idx_end .. (n + 1) - 1 : k = n \/ k \in lv4idx_end .. n - 1
      BY <1>4, Constants
    <3> QED BY <2>6, <2>7, <3>1 DEF ClonePart
  <2>9. EmptyPart(tables', root, (0 .. DirectMapIndex - 1) \cup (n + 1 .. Entries - 1))
    <3> SUFFICES ASSUME NEW k \in (0 .. DirectMapIndex - 1) \cup (n + 1 .. Entries - 1)
                 PROVE  tables'[root][k] = NoEntry
      BY DEF EmptyPart
    <3>1. k \in Index \ {n} /\ k \in (0 .. DirectMapIndex - 1) \cup (n .. Entries - 1)
      BY <1>4, Constants DEF Index
    <3> QED BY <1>6, <2>2, <3>1 DEF EmptyPart
  <2>10. /\ boot_tables' = lo /\ HostTop' = hi2 /\ lv4tbl' = root /\ Root' = old /\ i' = n + 1
    BY <1>1, <1>2, <1>3, <2>1 DEF HostTop
  <2> QED BY <2>5, <2>8, <2>9, <2>10
<1> QED BY <1>1, <1>2, <1>10 DEF Built

\* The whole region is cloned, and the root goes into force.
LEMMA SwitchBuilt ==
    ASSUME Known, Known', HostMap, Built, CloneDone \/ LoadCr3
    PROVE  Built'
<1>1. /\ pc \in {"clone", "load_cr3"} /\ pc' \in {"load_cr3", "set_mem_reconstructed"}
      /\ UNCHANGED <<tables, boot_tables, lv4tbl, old_lv4tbl, npt>>
      /\ pc = "clone" => i = Entries
  BY DEF CloneDone, LoadCr3, nested_vars
<1>2. Root' = Root /\ HostTop' = HostTop
  BY <1>1 DEF Root, HostTop, Known, Stages, KernelStage, LoaderPlaces, TypeOK
<1>3. Complete(tables, boot_tables, HostTop, lv4tbl, Root)
  <2>1. CASE pc = "clone"
    BY <1>1, <2>1 DEF Built, Complete, EmptyPart
  <2>2. CASE pc = "load_cr3"
    BY <2>2 DEF Built
  <2> QED BY <1>1, <2>1, <2>2
<1>4. Complete(tables, boot_tables, HostTop, lv4tbl, Root)'
  BY <1>1, <1>2, <1>3
<1> QED BY <1>1, <1>4 DEF Built

-----------------------------------------------------------------------------
(* The invariant holds.                                                    *)

\* The inductive invariant.
Invariant == Known /\ HostMap /\ Built /\ GuestTree

\* Below gives what the entries lead to.
LEMMA BelowHas ==
    ASSUME NEW tbls, NEW ts, NEW t \in ts, NEW k \in Index, LeadsOn(tbls[t][k])
    PROVE  tbls[t][k].phys \in Below(tbls, ts)
<1>1. <<t, k>> \in {x \in ts \X Index : LeadsOn(tbls[x[1]][x[2]])}
  OBVIOUS
<1> QED BY <1>1 DEF Below

\* What the firmware leaves.
LEMMA InitInvariant ==
    ASSUME Init
    PROVE  Invariant
<1>1. /\ tables \in Firmware /\ kernel \in Kernels /\ memory \in Memory
      /\ cr3 = 1 /\ i = 0 /\ pc = "set_lv4table_writable" /\ boot_tables = 0
      /\ lv4tbl = 0 /\ old_lv4tbl = 0 /\ mapping_reconstructed = FALSE
      /\ guest_start = 0 /\ host_start = 0 /\ size = 0 /\ npt = 0
  BY DEF Init, NestedInit
<1>2. /\ tables \in Seq(Table) /\ tables # <<>> /\ Len(tables) \in Nat /\ DOMAIN tables = 1 .. Len(tables)
      /\ 1 \in DOMAIN tables
  BY <1>1, HostAssumption
<1>3. Known
  <2>1. TypeOK
    <3>1. NestedTypeOK
      BY <1>1 DEF NestedTypeOK
    <3>2. mapping_reconstructed \in BOOLEAN /\ pc \in LoaderPlaces \cup KernelPlaces
      BY <1>1 DEF LoaderPlaces
    <3>3. i \in Nat /\ boot_tables \in 0 .. Len(tables) /\ {lv4tbl, old_lv4tbl} \subseteq {0} \cup DOMAIN tables
      BY <1>1, <1>2
    <3> QED BY <1>1, <1>2, <3>1, <3>2, <3>3 DEF TypeOK
  <2>2. Stages
    BY <1>1
       DEF Stages, LoaderStage, KernelStage, RootStage, GuestStage, LoaderPlaces, NestedPlaces, Root
  <2> QED BY <2>1, <2>2 DEF Known
<1>4. Root = 1 /\ Top = Len(tables)
  BY <1>1 DEF Root, Top, LoaderPlaces
<1> DEFINE l3 == Below(tables, {1})
           l2 == Below(tables, l3)
           l1 == Below(tables, l2)
<1>5. /\ l3 \cup l2 \cup l1 \subseteq DOMAIN tables
      /\ l3 \cap l2 = {} /\ l3 \cap l1 = {} /\ l2 \cap l1 = {}
      /\ \A k \in Index : Present(tables[1][k]) => LeadsOn(tables[1][k])
      /\ \A a \in Installed : Translate(tables, 1, a) = a
      /\ \A p \in DOMAIN kernel.attrs :
            LET m == WalkEnd(tables, 1, KERNEL_BASE + kernel.start + p - 1)
            IN  Present(m.entry) => m.level = 1
  BY <1>1, FirmwareAssumption
<1>6. HostTree
  <2>1. /\ \A k \in Index : Present(tables[1][k]) => tables[1][k].phys \in l3
        /\ \A t \in l3, k \in Index : LeadsOn(tables[t][k]) => tables[t][k].phys \in l2
        /\ \A t \in l2, k \in Index : LeadsOn(tables[t][k]) => tables[t][k].phys \in l1
    <3>1. 1 \in {1}
      OBVIOUS
    <3> QED BY <1>5, <3>1, BelowHas
  <2> HIDE DEF l3, l2, l1
  <2>2. Levels(tables, 1, l3, l2, l1)
    BY <1>2, <1>5, <2>1 DEF Levels
  <2>3. l3 \in SUBSET (1 .. Top) /\ l2 \in SUBSET (1 .. Top) /\ l1 \in SUBSET (1 .. Top)
    BY <1>2, <1>4, <1>5
  <2> QED BY <1>1, <1>4, <2>2, <2>3 DEF HostTree
<1>7. Loaded
  <2>1. ASSUME NEW p \in ImagePages
        PROVE  Clear(tables, cr3, ImageVirt(p))
    <3>1. PICK v : v = ImageVirt(p)
      OBVIOUS
    <3>2. v \in Nat
      BY <1>3, <3>1, ImageFacts
    <3>3. Present(WalkEnd(tables, 1, v).entry) => WalkEnd(tables, 1, v).level = 1
      BY <1>5, <3>1 DEF ImagePages, ImageVirt
    <3>4. IndexAt(v, 4) \in Index
      BY <3>2, IndexType
    <3>5. Present(E4(tables, 1, v)) => LeadsOn(E4(tables, 1, v))
      BY <1>5, <3>4 DEF E4
    <3>6. ASSUME LeadsOn(E4(tables, 1, v)), ~LeadsOn(E3(tables, 1, v))
          PROVE  ~Present(E3(tables, 1, v))
      <4>1. WalkEnd(tables, 1, v) = Met(E3(tables, 1, v), 3)
        BY <3>6, WalkIs
      <4> QED BY <3>3, <4>1 DEF Met
    <3>7. ASSUME LeadsOn(E4(tables, 1, v)), LeadsOn(E3(tables, 1, v)), ~LeadsOn(E2(tables, 1, v))
          PROVE  ~Present(E2(tables, 1, v))
      <4>1. WalkEnd(tables, 1, v) = Met(E2(tables, 1, v), 2)
        BY <3>7, WalkIs
      <4> QED BY <3>3, <4>1 DEF Met
    <3> QED BY <1>1, <3>1, <3>5, <3>6, <3>7 DEF Clear
  <2>2. ~InKernel
    BY <1>1 DEF InKernel, KernelPlaces, NestedPlaces
  <2> QED BY <1>1, <2>1, <2>2 DEF Loaded
<1>8. Identity
  BY <1>4, <1>5 DEF Identity
<1>9. Built /\ GuestTree
  BY <1>1 DEF Built, GuestTree
<1> QED BY <1>3, <1>6, <1>7, <1>8, <1>9 DEF Invariant, HostMap

\* A step within the loader says nothing of the new root and of the guest's tables.
LEMMA LoaderOnly ==
    ASSUME Known', pc' \in LoaderPlaces \cup {"reconstruct"}
    PROVE  Built' /\ GuestTree'
<1>1. npt' = 0 /\ cr3' # lv4tbl'
  BY DEF Known, Stages, LoaderStage, KernelStage, RootStage, GuestStage, LoaderPlaces, NestedPlaces
<1> QED BY <1>1 DEF Built, GuestTree, LoaderPlaces

\* The steps of the loader.
LEMMA LoaderStep ==
    ASSUME Invariant,
           set_lv4table_writable \/ map_4k_to \/ ImageMapped \/ change_map_4k \/ JumpToKernel
    PROVE  Invariant'
<1>1. Known' /\ HostMap'
  BY WritableKeeps, MapPageKeeps, ImageMappedKeeps, ProtectKeeps, JumpKeeps DEF Invariant
<1>2. pc' \in LoaderPlaces \cup {"reconstruct"}
  BY DEF set_lv4table_writable, map_4k_to, ImageMapped, change_map_4k, JumpToKernel,
         Allocate, LoaderPlaces
<1> QED BY <1>1, <1>2, LoaderOnly DEF Invariant

\* The steps of reconstruct.
LEMMA ReconstructStep ==
    ASSUME Invariant,
           Reconstruct \/ DirectMap \/ DirectMapDone \/ CloneEntry \/ CloneDone \/ LoadCr3
    PROVE  Invariant'
<1>1. HostTree
  BY DEF Invariant, HostMap
<1>2. Known' /\ Extended(boot_tables)
  BY <1>1, ReconstructKnown, DirectMapKnown, UnchangedKnown, CloneEntryKnown DEF Invariant
<1>3. /\ pc \in {"reconstruct", "direct_map", "clone", "load_cr3"}
      /\ pc' \in {"direct_map", "clone", "load_cr3", "set_mem_reconstructed", "panic"}
      /\ UNCHANGED <<boot_tables, kernel, npt>>
  BY
     DEF Reconstruct, DirectMap, DirectMapDone, CloneEntry, CloneDone, LoadCr3, Allocate,
         nested_vars
<1>4. Root' = Root
  <2>1. CASE Reconstruct \/ DirectMap \/ CloneEntry \/ CloneDone
    BY <2>1 DEF Reconstruct, DirectMap, CloneEntry, CloneDone, Root
  <2>2. CASE DirectMapDone
    BY <2>2 DEF DirectMapDone, Root, Invariant, Known, Stages, KernelStage, LoaderPlaces
  <2>3. CASE LoadCr3
    BY <2>3 DEF LoadCr3, Root, Invariant, Known, Stages, KernelStage, LoaderPlaces, TypeOK
  <2> QED BY <2>1, <2>2, <2>3
<1>5. HostMap'
  BY <1>2, <1>3, <1>4, HostMapKept DEF Invariant, LoaderPlaces
<1>6. Built'
  BY <1>2, ReconstructBuilt, DirectMapBuilt, DirectMapDoneBuilt, CloneEntryBuilt, SwitchBuilt
     DEF Invariant
<1>7. GuestTree'
  BY <1>3 DEF GuestTree, Invariant, Known, Stages, GuestStage, NestedPlaces
<1> QED BY <1>2, <1>5, <1>6, <1>7 DEF Invariant

\* The steps behind it, with the new root in force.
LEMMA GuestStep ==
    ASSUME Invariant, set_mem_reconstructed \/ setup_guest_memory \/ InitNpt
    PROVE  Invariant'
<1>1. /\ pc \in SwitchedPlaces /\ UNCHANGED <<kernel, cr3, boot_tables, lv4tbl, old_lv4tbl>>
      /\ pc' \notin {"direct_map", "clone"}
  BY DEF set_mem_reconstructed, setup_guest_memory, InitNpt, NestedNext, CallInitNpt, AllocateLv4,
         MapLv4, MapLv3, MapLv2, EnsureTable, NewTableFor, allocate_table, LoopHead, host_vars,
         SwitchedPlaces, NestedPlaces
<1>2. cr3 = lv4tbl /\ Root' = Root /\ pc \notin LoaderPlaces
  BY <1>1, NotLoading DEF Invariant, Known, Stages, KernelStage, Root
<1>3. /\ Len(tables) \in Nat /\ boot_tables \in Nat /\ HostTop \in boot_tables .. Len(tables)
  BY <1>2, HostTables DEF Invariant
<1>4. /\ Known' /\ GuestTree' /\ Extended(HostTop) /\ HostTop' \in Nat /\ HostTop' >= HostTop
  <2>1. CASE set_mem_reconstructed \/ setup_guest_memory
    <3>1. Known' /\ UNCHANGED tables
      BY <2>1, UnchangedKnown DEF Invariant
    <3>2. npt = 0 /\ npt' = 0
      BY <2>1 DEF set_mem_reconstructed, setup_guest_memory, CallInitNpt, nested_vars, Invariant,
                  Known, Stages, GuestStage, NestedPlaces
    <3> QED BY <1>3, <3>1, <3>2 DEF GuestTree, HostTop, Extended, Known, TypeOK
  <2>2. CASE AllocateLv4 /\ UNCHANGED host_vars
    <3>1. /\ Known' /\ GuestTree' /\ Extended(Len(tables)) /\ npt = 0
          /\ npt' \in {0, Len(tables) + 1}
      BY <2>2, AllocateLv4Keeps DEF Invariant
    <3>2. Len(tables') \in Nat /\ Len(tables') >= Len(tables)
      BY <3>1 DEF Extended
    <3>3. HostTop = Len(tables)
      BY <3>1 DEF HostTop
    <3>4. HostTop' = Len(tables') \/ HostTop' = (Len(tables) + 1) - 1
      BY <3>1 DEF HostTop
    <3>5. HostTop' \in Nat /\ HostTop' >= HostTop
      BY <1>3, <3>2, <3>3, <3>4
    <3> QED BY <3>1, <3>3, <3>5
  <2>3. CASE (MapLv4 \/ MapLv3 \/ MapLv2) /\ UNCHANGED host_vars
    <3>1. /\ Known' /\ GuestTree' /\ Extended(npt - 1)
      BY <2>3, MapLv4Keeps, MapLv3Keeps, MapLv2Keeps DEF Invariant
    <3>2. npt # 0 /\ npt' = npt
      BY <2>3 DEF MapLv4, MapLv3, MapLv2, nested_vars, Invariant, Known, Stages, GuestStage
    <3> QED BY <1>3, <3>1, <3>2 DEF HostTop
  <2> QED BY <2>1, <2>2, <2>3 DEF InitNpt, NestedNext
<1>5. pc' \notin LoaderPlaces
  BY <1>1
     DEF set_mem_reconstructed, setup_guest_memory, InitNpt, NestedNext, CallInitNpt, AllocateLv4,
         MapLv4, MapLv3, MapLv2, EnsureTable, NewTableFor, allocate_table, LoopHead, LoaderPlaces
<1>6. Extended(boot_tables)
  BY <1>3, <1>4 DEF Extended
<1>7. HostMap'
  BY <1>1, <1>2, <1>5, <1>6, HostMapKept DEF Invariant
<1>8. Built'
  BY <1>1, <1>2, <1>4, BuiltKept DEF Invariant
<1> QED BY <1>4, <1>7, <1>8 DEF Invariant

\* A step that changes nothing.
LEMMA StutterStep ==
    ASSUME Invariant, UNCHANGED vars
    PROVE  Invariant'
<1> USE DEF vars, nested_vars, arguments, Invariant
<1>1. TypeOK'
  BY DEF Known, TypeOK, NestedTypeOK, Pages
<1>2. Stages'
  BY DEF Known, Stages, LoaderStage, KernelStage, RootStage, GuestStage, Root, Pages
<1>3. HostTree' /\ Identity'
  BY DEF HostMap, HostTree, Identity, Root, Top
<1>4. Loaded'
  BY DEF HostMap, Loaded, ImagePages, InKernel, ImageThere, ImageRights, ImageVirt, ImagePhys, Root
<1>5. Built'
  BY DEF Built, HostTop, Root
<1>6. GuestTree'
  <2>1. ASSUME npt # 0
        PROVE  \E w \in [npt' .. Len(tables') -> Place] : GuestTables(w)'
    <3>1. PICK w \in [npt .. Len(tables) -> Place] : GuestTables(w)
      BY <2>1 DEF GuestTree
    <3>2. GuestTables(w)'
      BY <3>1 DEF GuestTables, GuestEntry
    <3> QED BY <3>1, <3>2
  <2>2. \A q : G4(q)' = G4(q) /\ G3(q)' = G3(q) /\ G2(q)' = G2(q)
    BY DEF G4, G3, G2
  <2> QED BY <2>1, <2>2 DEF GuestTree
<1> QED BY <1>1, <1>2, <1>3, <1>4, <1>5, <1>6 DEF Known, HostMap

\* The invariant is inductive.
THEOREM InvariantHolds == Spec => []Invariant
<1>1. Init => Invariant
  BY InitInvariant
<1>2. Invariant /\ [Next]_vars => Invariant'
  <2> SUFFICES ASSUME Invariant, [Next]_vars
               PROVE  Invariant'
    OBVIOUS
  <2>1. CASE UNCHANGED vars \/ Stopped
    BY <2>1, StutterStep DEF Stopped
  <2> QED BY <2>1, LoaderStep, ReconstructStep, GuestStep DEF Next
<1> QED BY <1>1, <1>2, PTL DEF Spec

-----------------------------------------------------------------------------
(* What it says.                                                           *)

\* Comparing an address with a bound of level 4 is comparing indices.
LEMMA Cut ==
    ASSUME NEW a \in Nat, NEW b \in Nat, NEW s \in Nat \ {0}, NEW r \in 0 .. s - 1
    PROVE  a * s + r < b * s <=> a < b
<1>1. \A x, y \in Nat : x <= y => x * s <= y * s
  <2> SUFFICES ASSUME NEW x \in Nat, NEW y \in Nat, x <= y
               PROVE  x * s <= y * s
    OBVIOUS
  <2>1. PICK c \in Nat : y = x + c
    <3>1. y - x \in Nat /\ y = x + (y - x)
      OBVIOUS
    <3> QED BY <3>1
  <2>2. y * s = x * s + c * s /\ c * s \in Nat /\ x * s \in Nat
    BY <2>1
  <2> QED BY <2>2
<1>2. a < b => (a + 1) * s <= b * s
  BY <1>1
<1>3. b <= a => b * s <= a * s
  BY <1>1
<1>4. (a + 1) * s = a * s + s /\ a * s \in Nat /\ b * s \in Nat
  OBVIOUS
<1> QED BY <1>2, <1>3, <1>4

\* The index of an address at level 4.
LEMMA TopIndex ==
    ASSUME NEW v \in Nat, v < Entries * Span(4)
    PROVE  LET k == IndexAt(v, 4)
           IN  /\ k \in Index /\ k \in Nat
               /\ v = k * Span(4) + (v % Span(4))
               /\ \A b \in Nat : v < b * Span(4) <=> k < b
<1>1. PICK s \in Nat \ {0} : s = Span(4)
  BY Spans
<1>2. v = (v \div s) * s + (v % s) /\ v \div s \in Nat /\ v % s \in 0 .. s - 1
  BY Parts
<1>3. PICK q \in Nat : q = v \div s
  BY <1>2
<1>4. PICK r \in 0 .. s - 1 : r = v % s
  BY <1>2
<1>5. v = q * s + r
  BY <1>2, <1>3, <1>4
<1>6. \A b \in Nat : v < b * s <=> q < b
  BY <1>5, Cut
<1>7. q < Entries /\ Entries \in Nat \ {0}
  BY <1>1, <1>6, Spans
<1>8. q % Entries = q
  BY <1>7
<1>9. IndexAt(v, 4) = q
  BY <1>1, <1>3, <1>8 DEF IndexAt
<1>10. q \in Index
  BY <1>7 DEF Index
<1> QED BY <1>1, <1>4, <1>5, <1>6, <1>9, <1>10

\* In the kernel region the new root gives what the old one gives.
LEMMA RegionSame ==
    ASSUME Known, HostMap, Built, pc \notin LoaderPlaces, cr3 = lv4tbl,
           NEW v \in Nat, IndexAt(v, 4) \in lv4idx_end .. Entries - 1
    PROVE  /\ Deep(tables, Root, v) =>
                 Deep(tables, cr3, v) /\ E1(tables, cr3, v) = E1(tables, Root, v)
           /\ Translate(tables, cr3, v) = Translate(tables, Root, v)
<1>1. PICK k : k = IndexAt(v, 4)
  OBVIOUS
<1>2. k \in Index /\ k \in lv4idx_end .. Entries - 1
  BY <1>1, IndexType
<1>3. IF Present(tables[Root][k])
      THEN Linked(tables, boot_tables, HostTop, lv4tbl, tables[lv4tbl][k],
                  tables[tables[Root][k].phys])
      ELSE tables[lv4tbl][k] = NoEntry
  BY <1>2 DEF Built, Complete, ClonePart
<1>4. E4(tables, cr3, v) = tables[lv4tbl][k] /\ E4(tables, Root, v) = tables[Root][k]
  BY <1>1 DEF E4
<1>5. CASE Present(tables[Root][k])
  <2>1. LeadsOn(E4(tables, Root, v))
    BY <1>2, <1>4, <1>5, HostTables
  <2>2. PICK c \in boot_tables + 1 .. HostTop :
            /\ tables[lv4tbl][k] = initialize_table_reference_entry(c)
            /\ tables[c] = tables[tables[Root][k].phys]
    BY <1>3, <1>5 DEF Linked
  <2>3. c \in Nat
    BY <2>2, HostTables
  <2>4. LeadsOn(E4(tables, cr3, v)) /\ E4(tables, cr3, v).phys = c
    <3>1. LeadsOn(initialize_table_reference_entry(c)) /\ initialize_table_reference_entry(c).phys = c
      BY <2>3, NewEntries DEF initialize_table_reference_entry
    <3> QED BY <1>4, <2>2, <3>1
  <2>5. E3(tables, cr3, v) = E3(tables, Root, v)
    BY <1>4, <2>2, <2>4 DEF E3
  <2>6. E2(tables, cr3, v) = E2(tables, Root, v)
    BY <2>5 DEF E2
  <2>7. E1(tables, cr3, v) = E1(tables, Root, v)
    BY <2>6 DEF E1
  <2>8. Translate(tables, cr3, v) = Translate(tables, Root, v)
    BY <2>1, <2>4, <2>5, <2>6, <2>7, TranslateIs
  <2> QED BY <2>4, <2>5, <2>6, <2>7, <2>8 DEF Deep
<1>6. CASE ~Present(tables[Root][k])
  <2>1. ~Present(E4(tables, cr3, v)) /\ ~Present(E4(tables, Root, v))
    BY <1>3, <1>4, <1>6, NewEntries
  <2>2. ~LeadsOn(E4(tables, cr3, v)) /\ ~LeadsOn(E4(tables, Root, v))
    BY <2>1 DEF LeadsOn
  <2>3. Translate(tables, cr3, v) = Fault /\ Translate(tables, Root, v) = Fault
    BY <2>1, <2>2, TranslateIs
  <2> QED BY <2>2, <2>3 DEF Deep
<1> QED BY <1>5, <1>6

\* The new root's direct map.
LEMMA DirectSame ==
    ASSUME Known, HostMap, Built, pc \notin LoaderPlaces, cr3 = lv4tbl,
           NEW v \in Nat, NEW d \in 0 .. DirectMapEntries - 1, IndexAt(v, 4) = DirectMapIndex + d
    PROVE  Translate(tables, cr3, v) = d * Span(4) + (v % Span(4))
<1>1. Linked(tables, boot_tables, HostTop, lv4tbl, tables[lv4tbl][DirectMapIndex + d], DirectTable(d))
  BY DEF Built, Complete, DirectPart
<1>2. PICK c \in boot_tables + 1 .. HostTop :
          /\ tables[lv4tbl][DirectMapIndex + d] = initialize_table_reference_entry(c)
          /\ tables[c] = DirectTable(d)
  BY <1>1 DEF Linked
<1>3. c \in Nat
  BY <1>2, HostTables
<1>4. LeadsOn(E4(tables, cr3, v)) /\ E4(tables, cr3, v).phys = c
  <2>1. LeadsOn(initialize_table_reference_entry(c)) /\ initialize_table_reference_entry(c).phys = c
    BY <1>3, NewEntries DEF initialize_table_reference_entry
  <2> QED BY <1>2, <2>1 DEF E4
<1>5. PICK k \in Index : k = IndexAt(v, 3)
  BY IndexType
<1>6. PICK n \in Nat : n = d * Span(4) + k * Span(3)
  <2>1. PICK s \in Nat : s = Span(4)
    BY Spans
  <2>2. PICK u \in Nat : u = Span(3)
    BY Spans
  <2>3. d \in Nat /\ k \in Nat
    BY DEF Index
  <2>4. d * s + k * u \in Nat
    BY <2>3
  <2> QED BY <2>1, <2>2, <2>4
<1>7. E3(tables, cr3, v) = initialize_page_reference_entry(n)
  BY <1>2, <1>4, <1>5, <1>6 DEF E3, DirectTable
<1>8. Present(E3(tables, cr3, v)) /\ ~LeadsOn(E3(tables, cr3, v)) /\ E3(tables, cr3, v).phys = n
  <2>1. /\ Present(initialize_page_reference_entry(n)) /\ ~LeadsOn(initialize_page_reference_entry(n))
        /\ initialize_page_reference_entry(n).phys = n
    BY NewEntries DEF initialize_page_reference_entry
  <2> QED BY <1>7, <2>1
<1>9. Translate(tables, cr3, v) = n + (v % Span(3))
  BY <1>4, <1>8, TranslateIs
<1>10. v % Span(4) = k * Span(3) + (v % Span(3))
  BY <1>5, Digits
<1>11. PICK x, y, z \in Nat : x = d * Span(4) /\ y = k * Span(3) /\ z = v % Span(3)
  <2>1. PICK s \in Nat \ {0} : s = Span(4)
    BY Spans
  <2>2. PICK u \in Nat \ {0} : u = Span(3)
    BY Spans
  <2>3. d * s \in Nat /\ k * u \in Nat
    BY DEF Index
  <2>4. v % u \in Nat
    BY Parts
  <2> QED BY <2>1, <2>2, <2>3, <2>4
<1> QED BY <1>6, <1>9, <1>10, <1>11

\* What the new root maps, address by address.
LEMMA NewRootMaps ==
    ASSUME Known, HostMap, Built, pc \notin LoaderPlaces, cr3 = lv4tbl,
           NEW v \in 0 .. Entries * Span(4) - 1
    PROVE  Translate(tables, cr3, v) =
               IF v < DIRECT_MAP_BASE THEN Fault
               ELSE IF v < DIRECT_MAP_BASE + DIRECT_MAP_SIZE
                    THEN v - DIRECT_MAP_BASE
                    ELSE Translate(tables, Root, v)
<1>1. v \in Nat /\ v < Entries * Span(4)
  BY Spans
<1>2. PICK k : k = IndexAt(v, 4)
  OBVIOUS
<1>3. /\ k \in Index /\ k \in Nat /\ v = k * Span(4) + (v % Span(4))
      /\ \A b \in Nat : v < b * Span(4) <=> k < b
  BY <1>1, <1>2, TopIndex
<1>4. DIRECT_MAP_BASE = DirectMapIndex * Span(4)
      /\ DIRECT_MAP_BASE + DIRECT_MAP_SIZE = lv4idx_end * Span(4)
  <2>1. PICK s \in Nat : s = Span(4)
    BY Spans
  <2>2. DirectMapIndex * s + DirectMapEntries * s = (DirectMapIndex + DirectMapEntries) * s
    BY Constants
  <2> QED BY <2>1, <2>2, Constants DEF DIRECT_MAP_BASE, DIRECT_MAP_SIZE
<1>5. /\ v < DIRECT_MAP_BASE <=> k < DirectMapIndex
      /\ v < DIRECT_MAP_BASE + DIRECT_MAP_SIZE <=> k < lv4idx_end
  BY <1>3, <1>4, Constants
<1>6. CASE k < DirectMapIndex
  <2>1. k \in 0 .. DirectMapIndex - 1
    BY <1>3, <1>6, Constants
  <2>2. tables[lv4tbl][k] = NoEntry
    BY <2>1 DEF Built, Complete, EmptyPart
  <2>3. ~Present(E4(tables, cr3, v)) /\ ~LeadsOn(E4(tables, cr3, v))
    BY <1>2, <2>2, NewEntries DEF E4, LeadsOn
  <2>4. Translate(tables, cr3, v) = Fault
    BY <2>3, TranslateIs
  <2> QED BY <1>5, <1>6, <2>4
<1>7. CASE ~(k < DirectMapIndex) /\ k < lv4idx_end
  <2>1. PICK d \in 0 .. DirectMapEntries - 1 : k = DirectMapIndex + d
    <3>1. k - DirectMapIndex \in 0 .. DirectMapEntries - 1 /\ k = DirectMapIndex + (k - DirectMapIndex)
      BY <1>3, <1>7, Constants
    <3> QED BY <3>1
  <2>2. Translate(tables, cr3, v) = d * Span(4) + (v % Span(4))
    BY <1>1, <1>2, <2>1, DirectSame
  <2>3. v - DIRECT_MAP_BASE = d * Span(4) + (v % Span(4))
    <3>1. PICK s \in Nat \ {0} : s = Span(4)
      BY Spans
    <3>2. PICK r \in Nat : r = v % s
      <4>1. v % s \in Nat
        BY <1>1, Parts
      <4> QED BY <4>1
    <3>3. v = (DirectMapIndex + d) * s + r
      BY <1>3, <2>1, <3>1, <3>2
    <3>4. (DirectMapIndex + d) * s = DirectMapIndex * s + d * s
          /\ DirectMapIndex * s \in Nat /\ d * s \in Nat
      BY Constants
    <3> QED BY <1>4, <3>1, <3>2, <3>3, <3>4
  <2> QED BY <1>5, <1>7, <2>2, <2>3
<1>8. CASE ~(k < lv4idx_end)
  <2>1. IndexAt(v, 4) \in lv4idx_end .. Entries - 1 /\ ~(k < DirectMapIndex)
    BY <1>2, <1>3, <1>8, Constants DEF Index
  <2>2. Translate(tables, cr3, v) = Translate(tables, Root, v)
    BY <1>1, <2>1, RegionSame
  <2> QED BY <1>5, <1>8, <2>1, <2>2
<1> QED BY <1>6, <1>7, <1>8

\* Where a page of the image is, on both sides of the change of CR3.
LEMMA ImageInForce ==
    ASSUME Known, HostMap, Built, InKernel, NEW p \in ImagePages
    PROVE  /\ Translate(tables, cr3, ImageVirt(p)) = ImagePhys(p)
           /\ Rights(WalkEnd(tables, cr3, ImageVirt(p)).entry.flags, kernel.attrs[p])
<1>1. pc \notin LoaderPlaces /\ (cr3 = lv4tbl \/ cr3 = Root)
  BY NotLoading DEF InKernel, Known, Stages, RootStage
<1>2. PICK v : v = ImageVirt(p)
  OBVIOUS
<1>3. /\ v \in Nat /\ ImagePhys(p) \in Nat /\ v = KERNEL_BASE + ImagePhys(p)
      /\ KERNEL_BASE \in Nat /\ lv4idx_end * Span(4) <= KERNEL_BASE /\ v < Entries * Span(4)
  BY <1>2, ImageFacts
<1>4. /\ Deep(tables, Root, v) /\ Present(E1(tables, Root, v))
      /\ E1(tables, Root, v).phys = ImagePhys(p) /\ Rights(E1(tables, Root, v).flags, kernel.attrs[p])
  BY <1>2 DEF HostMap, Loaded, ImageThere, ImageRights
<1>5. IndexAt(v, 4) \in lv4idx_end .. Entries - 1
  <2>1. /\ IndexAt(v, 4) \in Index
        /\ v < lv4idx_end * Span(4) <=> IndexAt(v, 4) < lv4idx_end
    BY <1>3, TopIndex, Constants
  <2>2. ~(v < lv4idx_end * Span(4))
    <3>1. PICK s \in Nat : s = lv4idx_end * Span(4)
      <4>1. PICK u \in Nat : u = Span(4)
        BY Spans
      <4>2. lv4idx_end * u \in Nat
        BY Constants
      <4> QED BY <4>1, <4>2
    <3> QED BY <1>3, <3>1
  <2> QED BY <2>1, <2>2, Constants DEF Index
<1>6. Deep(tables, cr3, v) /\ E1(tables, cr3, v) = E1(tables, Root, v)
  <2>1. CASE cr3 = Root
    BY <1>4, <2>1
  <2>2. CASE cr3 = lv4tbl
    BY <1>1, <1>3, <1>4, <1>5, <2>2, RegionSame
  <2> QED BY <1>1, <2>1, <2>2
<1>7. WalkEnd(tables, cr3, v).entry = E1(tables, cr3, v)
  <2>1. WalkEnd(tables, cr3, v) = Met(E1(tables, cr3, v), 1)
    BY <1>6, WalkIs DEF Deep
  <2> QED BY <2>1 DEF Met
<1>8. Translate(tables, cr3, v) = E1(tables, cr3, v).phys + (v % Span(1))
  BY <1>4, <1>6, TranslateIs DEF Deep
<1>9. Translate(tables, cr3, v) = ImagePhys(p)
  BY <1>3, <1>4, <1>6, <1>8, Digits
<1> QED BY <1>2, <1>4, <1>6, <1>7, <1>9

-----------------------------------------------------------------------------

\* Every variable keeps its type, and CR3 and the two roots always name tables:
\* no failed allocation leaves a root that is not there.
THEOREM TypeCorrect == Spec => []TypeOK
<1>1. Invariant => TypeOK
  BY DEF Invariant, Known
<1> QED BY <1>1, InvariantHolds, PTL

\* In every reachable state the guest's tables map exactly the pages that init_npt
\* has come to, for every start, size and host memory, and map2m never meets a
\* page that is mapped (svm_npt.c:64-141).
THEOREM GuestMapCorrect == Spec => []MapsGuestExactly
<1>1. Invariant => MapsGuestExactly
  BY GuestExact DEF Invariant
<1> QED BY <1>1, InvariantHolds, PTL

\* The tables that reconstruct builds map the direct map and the kernel region as
\* it was, and nothing below, wherever the firmware had mapped something
\* (page.c:97-170).
THEOREM MappingExactCorrect == Spec => []MappingExact
<1>1. Invariant => MappingExact
  <2> SUFFICES ASSUME Invariant, mapping_reconstructed, NEW v \in 0 .. Entries * Span(4) - 1
               PROVE  Translate(tables, cr3, v) =
                          IF v < DIRECT_MAP_BASE THEN Fault
                          ELSE IF v < DIRECT_MAP_BASE + DIRECT_MAP_SIZE
                               THEN v - DIRECT_MAP_BASE
                               ELSE Translate(tables, old_lv4tbl, v)
    BY DEF MappingExact
  <2>1. cr3 = lv4tbl /\ pc \notin LoaderPlaces /\ Root = old_lv4tbl
    BY DEF Invariant, Known, Stages, LoaderStage, RootStage, Root
  <2> QED BY <2>1, NewRootMaps DEF Invariant
<1> QED BY <1>1, InvariantHolds, PTL

\* Every page of the kernel image stays where it was linked, with its rights, from
\* the jump to the kernel on (surtrc/arch/x86/page.c:115-165, page.c:97-170).
THEOREM KernelStaysMappedCorrect == Spec => []KernelStaysMapped
<1>1. Invariant => KernelStaysMapped
  BY ImageInForce DEF Invariant, KernelStaysMapped, Rights
<1> QED BY <1>1, InvariantHolds, PTL

\* phys2virt and virt2phys agree with the tables in force, with the firmware's
\* before reconstruct and with the direct map after it (mem.c:5-26).
THEOREM AddressesConvertCorrect == Spec => []AddressesConvert
<1>1. Invariant => AddressesConvert
  <2> SUFFICES ASSUME Invariant
               PROVE  AddressesConvert
    OBVIOUS
  <2>1. PICK s \in Nat \ {0} : s = Span(4)
    BY Spans
  <2>2. PICK base, length, top, all \in Nat :
            /\ base = DIRECT_MAP_BASE /\ length = DIRECT_MAP_SIZE /\ top = base + length
            /\ all = Entries * Span(4) /\ top <= all /\ top <= KERNEL_BASE /\ KERNEL_BASE \in Nat
    <3>1. /\ DirectMapIndex * s \in Nat /\ DirectMapEntries * s \in Nat /\ Entries * s \in Nat
          /\ lv4idx_end * s = DirectMapIndex * s + DirectMapEntries * s
      BY Constants
    <3>2. lv4idx_end * s <= Entries * s
      <4>1. 0 \in 0 .. s - 1
        OBVIOUS
      <4>2. lv4idx_end * s + 0 < Entries * s
        BY <4>1, Constants, Cut
      <4> QED BY <3>1, <4>2
    <3>3. KERNEL_BASE \in lv4idx_end * s .. Entries * s - 1
      BY <2>1, HostAssumption
    <3> QED BY <2>1, <3>1, <3>2, <3>3 DEF DIRECT_MAP_BASE, DIRECT_MAP_SIZE
  <2>3. ASSUME InKernel, pc # "set_mem_reconstructed", 
               NEW p \in IF mapping_reconstructed THEN 0 .. DIRECT_MAP_SIZE - 1 ELSE Installed
        PROVE  /\ Translate(tables, cr3, phys2virt(p)) = p
               /\ virt2phys(phys2virt(p)) = p
    <3>1. pc \notin LoaderPlaces /\ (cr3 = lv4tbl \/ cr3 = Root)
          /\ (mapping_reconstructed <=> cr3 = lv4tbl)
      BY <2>3, NotLoading DEF Invariant, InKernel, Known, Stages, RootStage
    <3>2. p \in 0 .. length - 1
      BY <2>2, <2>3, HostAssumption
    <3>3. CASE ~mapping_reconstructed
      <4>1. cr3 = Root /\ phys2virt(p) = p /\ virt2phys(p) = p
        BY <3>1, <3>3 DEF phys2virt, virt2phys
      <4>2. Translate(tables, Root, p) = p
        BY <2>3, <3>3 DEF Invariant, HostMap, Identity
      <4> QED BY <4>1, <4>2
    <3>4. CASE mapping_reconstructed
      <4>1. PICK v \in Nat : v = p + base
        BY <3>2
      <4>2. /\ v \in 0 .. all - 1 /\ v < KERNEL_BASE /\ ~(v < base) /\ v < base + length
            /\ v - base = p
        BY <2>2, <3>2, <4>1
      <4>3. phys2virt(p) = v /\ virt2phys(v) = p
        BY <2>2, <3>4, <4>1, <4>2 DEF phys2virt, virt2phys
      <4>4. v \in 0 .. Entries * Span(4) - 1 /\ ~(v < DIRECT_MAP_BASE)
            /\ v < DIRECT_MAP_BASE + DIRECT_MAP_SIZE /\ v - DIRECT_MAP_BASE = p
        BY <2>2, <4>2
      <4>5. Translate(tables, cr3, v) = p
        BY <3>1, <3>4, <4>4, NewRootMaps DEF Invariant
      <4> QED BY <4>3, <4>5
    <3> QED BY <3>3, <3>4
  <2>4. ASSUME mapping_reconstructed, NEW p \in ImagePages
        PROVE  virt2phys(ImageVirt(p)) = Translate(tables, cr3, ImageVirt(p))
    <3>1. InKernel
      BY <2>4 DEF Invariant, Known, TypeOK, Stages, LoaderStage, InKernel
    <3>2. Translate(tables, cr3, ImageVirt(p)) = ImagePhys(p)
      BY <3>1, ImageInForce DEF Invariant
    <3>3. ImagePhys(p) \in Nat /\ ImageVirt(p) = KERNEL_BASE + ImagePhys(p) /\ KERNEL_BASE \in Nat
      BY ImageFacts DEF Invariant
    <3>4. virt2phys(ImageVirt(p)) = ImageVirt(p) - KERNEL_BASE
      BY <2>4, <3>3 DEF virt2phys
    <3> QED BY <3>2, <3>3, <3>4
  <2> QED BY <2>3, <2>4 DEF AddressesConvert
<1> QED BY <1>1, InvariantHolds, PTL

=============================================================================
