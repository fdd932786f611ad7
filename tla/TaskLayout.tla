----------------------------- MODULE TaskLayout -----------------------------
(***************************************************************************)
(* The address space of a new task: TaskLayout::validate (task.rs), then   *)
(* VSpace::map_translation_tables (vspace.rs), which maps the intermediate *)
(* tables of all its pages, level by level, each table once.  The kernel   *)
(* refuses a table that is already there, that has no parent, or that lies *)
(* beyond the user's part of the address space, which validate lets pass.  *)
(***************************************************************************)
EXTENDS Naturals, Sequences

CONSTANTS
    Width,      \* bits of usize
    UserTop,    \* kernel: the first address that is not the user's
    SpanBits,   \* span_bits(level) for level 1 .. NUM_LEVELS - 1
    Config      \* configurations given to create_task

(* What create_task hands to validate; pages are the code, private memory,  *)
(* stack and IPC buffer addresses, in this order.                           *)
ASSUME LayoutAssumption ==
    /\ Width \in Nat /\ UserTop \in Nat
    /\ SpanBits \in Seq(0..(Width - 1))
    /\ \A i, j \in 1..Len(SpanBits) : i < j => SpanBits[i] > SpanBits[j]
    /\ Config \subseteq [page_size : Nat, entry : Nat, pages : Seq(Nat), reserved : Seq(Nat)]
    /\ \A c \in Config : Len(c.pages) = 4

VARIABLES
    config,     \* the configuration under construction
    outcome,    \* "none", the error of validate, "tables", "ready" or "vspace_failed"
    level,      \* the outer loop of map_translation_tables
    index,      \* its inner loop
    tables      \* kernel: tables mapped, as <<level, base>>

layoutVars == <<config, outcome, level, index, tables>>

Code(c) == c.pages[1]
AllPages(c) == c.pages \o c.reserved

-----------------------------------------------------------------------------
(***************************************************************************)
(* TaskLayout::validate                                                    *)
(***************************************************************************)
IsPowerOfTwo(n) == \E k \in 0..(Width - 1) : n = 2^k

(* create_task passes Frame::BYTES: whole instructions, of four bytes, fit. *)
ASSUME PageSizeAssumption ==
    \A c \in Config : IsPowerOfTwo(c.page_size) => c.page_size % 4 = 0

(* checked_add returns None *)
Overflows(a, b) == a + b >= 2^Width

(* The three tests of one address against the ones before it. *)
PageError(size, address, prior) ==
    IF address % size # 0 THEN "UnalignedAddress"
    ELSE IF Overflows(address, size) THEN "AddressOverflow"
    ELSE IF address \in prior THEN "OverlappingPages"
    ELSE "none"

(* Mutant: reserved pages are compared with the task's pages only. *)
ErrorAtUnreserved(c, i) ==
    PageError(c.page_size, AllPages(c)[i], {AllPages(c)[j] : j \in 1..(IF i > 4 THEN 4 ELSE i - 1)})

ErrorAt(c, i) == PageError(c.page_size, AllPages(c)[i], {AllPages(c)[j] : j \in 1..(i - 1)})

EntryOutside(c) ==
    \/ c.entry < Code(c)
    \/ c.entry >= Code(c) + c.page_size
    \/ c.entry % 4 # 0

(* The first error in program order. *)
validate(c) ==
    IF ~IsPowerOfTwo(c.page_size) THEN "InvalidPageSize"
    ELSE LET bad == {i \in 1..Len(AllPages(c)) : ErrorAt(c, i) # "none"} IN
         IF bad # {} THEN ErrorAt(c, CHOOSE i \in bad : \A j \in bad : i <= j)
         ELSE IF EntryOutside(c) THEN "InvalidEntry"
         ELSE "tables"

-----------------------------------------------------------------------------
(***************************************************************************)
(* VSpace::map_translation_tables                                          *)
(***************************************************************************)
TableBase(l, address) == address \div 2^SpanBits[l]

(* Mutant: only a page at the same address counts as seen. *)
SeenAddress(c, l, i) == \E j \in 1..(i - 1) : AllPages(c)[j] = AllPages(c)[i]

(* A prior page of the iteration lies under the same table. *)
Seen(c, l, i) == \E j \in 1..(i - 1) : TableBase(l, AllPages(c)[j]) = TableBase(l, AllPages(c)[i])

(* The kernel's conditions for mapping the table of this level. *)
Mappable(l, address) ==
    /\ address < UserTop
    /\ <<l, TableBase(l, address)>> \notin tables
    /\ l > 1 => <<l - 1, TableBase(l - 1, address)>> \in tables

LayoutInit(c) ==
    /\ config = c
    /\ outcome = "none"
    /\ level = 1
    /\ index = 1
    /\ tables = {}

ValidateLayout ==
    /\ outcome = "none"
    /\ outcome' = validate(config)
    /\ UNCHANGED <<config, level, index, tables>>

(* The next page, or the first page of the next level. *)
Advance ==
    IF index < Len(AllPages(config))
    THEN index' = index + 1 /\ level' = level
    ELSE index' = 1 /\ level' = level + 1

InLoop == outcome = "tables" /\ level <= Len(SpanBits)

SkipTable ==
    /\ InLoop
    /\ Seen(config, level, index)
    /\ Advance
    /\ UNCHANGED <<config, outcome, tables>>

MapTable ==
    /\ InLoop
    /\ ~Seen(config, level, index)
    /\ LET address == AllPages(config)[index] IN
         IF Mappable(level, address)
         THEN /\ tables' = tables \cup {<<level, TableBase(level, address)>>}
              /\ Advance
              /\ UNCHANGED outcome
         ELSE /\ outcome' = "vspace_failed"
              /\ UNCHANGED <<tables, level, index>>
    /\ UNCHANGED config

Done ==
    /\ outcome = "tables"
    /\ level > Len(SpanBits)
    /\ outcome' = "ready"
    /\ UNCHANGED <<config, level, index, tables>>

TableStep == SkipTable \/ MapTable \/ Done

-----------------------------------------------------------------------------
(***************************************************************************)
(* Properties                                                              *)
(***************************************************************************)

(* The bytes of the page at an address. *)
Bytes(c, address) == address..(address + c.page_size - 1)

(* What the code relies on after validate, stated on bytes: whole pages in  *)
(* the word range, no byte in two pages, the first instruction within the   *)
(* code page, and page ends (the stack pointer is one) that are words.      *)
WellFormedLayout(c) ==
    /\ IsPowerOfTwo(c.page_size)
    /\ \A i \in 1..Len(AllPages(c)) :
          /\ \E k \in 0..(2^Width) : AllPages(c)[i] = k * c.page_size
          /\ Bytes(c, AllPages(c)[i]) \subseteq 0..(2^Width - 1)
          /\ AllPages(c)[i] + c.page_size \in 0..(2^Width - 1)
    /\ \A i, j \in 1..Len(AllPages(c)) :
          i # j => Bytes(c, AllPages(c)[i]) \cap Bytes(c, AllPages(c)[j]) = {}
    /\ c.entry % 4 = 0
    /\ c.entry..(c.entry + 3) \subseteq Bytes(c, Code(c))

(* validate accepts exactly the well-formed layouts, though it compares     *)
(* only start addresses and stops at the first error.                       *)
AcceptsWellFormed ==
    outcome # "none" => (outcome \in {"tables", "ready", "vspace_failed"} <=> WellFormedLayout(config))

(* The kernel refuses a table only for a page the user cannot have: none is *)
(* mapped twice, and its parent was mapped on an earlier level ("Maps each  *)
(* distinct intermediate translation table once").                          *)
RefusedOnlyAboveTop == outcome = "vspace_failed" => AllPages(config)[index] >= UserTop

(* When construction goes on to map frames every page, the reserved ones    *)
(* included, has a table on every level.                                    *)
EveryPageCovered ==
    outcome = "ready" =>
        \A i \in 1..Len(AllPages(config)), l \in 1..Len(SpanBits) :
            <<l, TableBase(l, AllPages(config)[i])>> \in tables

(* No table is refused that the code could have avoided asking for, and     *)
(* when the loops end construction can map frames at every page.            *)
TablesComplete == RefusedOnlyAboveTop /\ EveryPageCovered

=============================================================================
