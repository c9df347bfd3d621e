----------------------------- MODULE AddressMap -----------------------------
(***************************************************************************)
(* Address decoding: the table of common/util/range_lut.h as router.h       *)
(* builds and uses it for b_transport and get_direct_mem_ptr.               *)
(*                                                                          *)
(* Targets are configured one after the other; what the router does with an *)
(* access is a function of the configuration reached.                       *)
(***************************************************************************)
EXTENDS Integers, FiniteSets, FiniteSetsExt

CONSTANTS
    AddressSpace,   \* number of values of uint64_t
    Targets,
    Sizes,          \* sizes of address ranges
    Bases,          \* bases of initiators, set with set_initiator_base
    NoTarget,       \* null_entry, and the default_idx that is not set
    MaxRanges       \* bound: calls of set_target_range or add_target_range

Addr == 0 .. AddressSpace - 1

ASSUME AddressAssumption ==
    /\ AddressSpace \in Nat \ {0} /\ MaxRanges \in Nat
    /\ Sizes \subseteq Addr \ {0} /\ Bases \subseteq Addr
    /\ NoTarget \notin Targets

VARIABLES
    m_lut,          \* entry at every address, or Empty
    m_size,
    tranges,        \* of every target: base, size and remap
    default_idx,
    check_overlap_on_add_target,
    ranges,         \* history: the ranges that addEntry accepted
    failed          \* a call has thrown: elaboration ends

vars == <<m_lut, m_size, tranges, default_idx, check_overlap_on_add_target, ranges, failed>>

Empty == [index |-> NoTarget, type |-> "none"]

Init ==
    /\ m_lut = [a \in Addr |-> Empty]
    /\ m_size = 0
    /\ tranges = [t \in Targets |-> [base |-> 0, size |-> 0, remap |-> FALSE]]
    /\ default_idx = NoTarget
    /\ check_overlap_on_add_target \in BOOLEAN
    /\ ranges = {}
    /\ failed = FALSE

-----------------------------------------------------------------------------
(* range_lut *)

Eaddr(base, size) == (base + size - 1) % AddressSpace

\* range already mapped, or address wrap-around
AddEntryThrows(base, size) ==
    m_lut[base].index # NoTarget \/ Eaddr(base, size) < base

\* The table with a new range: its begin, then its end.
WithEntry(i, base, size) ==
    IF size > 1
    THEN [m_lut EXCEPT ![base] = [index |-> i, type |-> "BEGIN_RANGE"],
                       ![Eaddr(base, size)] = [index |-> i, type |-> "END_RANGE"]]
    ELSE [m_lut EXCEPT ![base] = [index |-> i, type |-> "SINGLE_BYTE_RANGE"]]

LowerBound(a) == {x \in Addr : x >= a /\ m_lut[x] # Empty}

GetEntryAnyType(a) ==
    IF m_size = 0 \/ LowerBound(a) = {} THEN NoTarget ELSE m_lut[Min(LowerBound(a))].index

\* getEntry: the next entry at or above the address decides.
GetEntry(a) ==
    IF m_size = 0 \/ LowerBound(a) = {} THEN NoTarget
    ELSE LET x == Min(LowerBound(a))
         IN  IF m_lut[x].type = "END_RANGE" \/ x = a THEN m_lut[x].index ELSE NoTarget

\* validate: mapped, when its loop arrives at x
Mapped(x) ==
    LET before == {y \in Addr : y < x /\ m_lut[y].type \in {"BEGIN_RANGE", "END_RANGE"}}
    IN  before # {} /\ m_lut[Max(before)].type = "BEGIN_RANGE"

Validates ==
    \A x \in Addr :
        /\ m_lut[x].type \in {"BEGIN_RANGE", "SINGLE_BYTE_RANGE"} => ~Mapped(x)
        /\ m_lut[x].type = "END_RANGE" => Mapped(x)

-----------------------------------------------------------------------------
(* router *)

\* set_target_range, and add_target_range for a named target
SetTargetRange(idx, base, size, remap) ==
    /\ ~failed /\ Cardinality(ranges) < MaxRanges
    /\ tranges' = [tranges EXCEPT ![idx] = [base |-> base, size |-> size, remap |-> remap]]
    /\ IF AddEntryThrows(base, size)
       THEN /\ failed' = TRUE
            /\ UNCHANGED <<m_lut, m_size, ranges>>
       ELSE /\ m_lut' = WithEntry(idx, base, size)
            /\ m_size' = m_size + 1
            /\ ranges' = ranges \cup {[index |-> idx, base |-> base, size |-> size]}
            /\ failed' = (check_overlap_on_add_target /\ ~Validates')
    /\ UNCHANGED <<default_idx, check_overlap_on_add_target>>

SetDefaultTarget(idx) ==
    /\ ~failed
    /\ default_idx' = idx
    /\ UNCHANGED <<m_lut, m_size, tranges, check_overlap_on_add_target, ranges, failed>>

Offset(idx) == IF tranges[idx].remap THEN tranges[idx].base ELSE 0

\* b_transport: the target and the address it sees; NoTarget is the address error.
Route(ibase, a) ==
    LET address == (a + ibase) % AddressSpace
        idx == GetEntry(address)
    IN  IF idx = NoTarget
        THEN [target |-> default_idx, address |-> address]
        ELSE [target |-> idx, address |-> (address - Offset(idx)) % AddressSpace]

UnclippedEnd(idx, end) == end

\* "make sure end address does not exceed size"
ClippedEnd(idx, end) ==
    LET remap_base == IF tranges[idx].remap THEN 0 ELSE tranges[idx].base
        remap_end == (remap_base + tranges[idx].size) % AddressSpace
    IN  IF tranges[idx].size # 0 /\ remap_end >= remap_base /\ end >= remap_end
        THEN remap_end - 1
        ELSE end

\* get_direct_mem_ptr, for a region start .. end the target grants in its own
\* addresses: the region in addresses of the initiator.
DmiRegion(ibase, idx, start, end) ==
    ((start - ibase + Offset(idx)) % AddressSpace)
        .. ((ClippedEnd(idx, end) - ibase + Offset(idx)) % AddressSpace)

Next ==
    \/ \E idx \in Targets, base \in Addr, size \in Sizes, remap \in BOOLEAN :
           SetTargetRange(idx, base, size, remap)
    \/ \E idx \in Targets : SetDefaultTarget(idx)

Spec == Init /\ [][Next]_vars

-----------------------------------------------------------------------------
Covers(r, a) == a \in r.base .. r.base + r.size - 1

Disjoint ==
    \A r, s \in ranges : r # s => \A a \in Addr : ~(Covers(r, a) /\ Covers(s, a))

\* getEntry finds for an address only a target that was mapped to it, although the
\* entries of one range may overwrite those of another.  If no two ranges overlap, it
\* finds one for every mapped address, and validate() accepts the table.
DecodesToOwner ==
    /\ Disjoint => Validates
    /\ Disjoint => \A a \in Addr : (\E r \in ranges : Covers(r, a)) => GetEntry(a) # NoTarget
    /\ \A a \in Addr :
           GetEntry(a) # NoTarget => \E r \in ranges : r.index = GetEntry(a) /\ Covers(r, a)

\* A target behind one remapped range grants DMI for all its memory: within the
\* region that the router returns, direct access and b_transport meet in the same
\* byte of the same target.
DmiMatchesRoute ==
    Disjoint /\ ~failed =>
        \A r \in ranges, ibase \in Bases :
            (tranges[r.index].remap /\ \A s \in ranges : s.index = r.index => s = r) =>
                \A start \in 0 .. r.size - 1 : \A end \in start .. AddressSpace - 1 :
                    \A x \in DmiRegion(ibase, r.index, start, end) :
                        LET first == (start - ibase + Offset(r.index)) % AddressSpace
                        IN  Route(ibase, x) = [target |-> r.index, address |-> start + (x - first)]
=============================================================================
