-------------------------- MODULE AddressMapProofs ---------------------------
(***************************************************************************)
(* Proofs about AddressMap, for every size of the address space, all targets *)
(* and all sequences of configuration calls.                                 *)
(*                                                                           *)
(* What getEntry and validate compute depends on where the entries of the    *)
(* table come from.  Inv records it: each entry is the begin or the end of   *)
(* some range (Stems), the begin and the end of each range hold some entry   *)
(* (Marked), and if no two ranges overlap they hold the range's own (Exact). *)
(***************************************************************************)
EXTENDS AddressMap, NaturalSets, TLAPS

Ranges == [index : Targets, base : Addr, size : Sizes]

End(r) == r.base + r.size - 1

BeginOf(r) ==
    [index |-> r.index, type |-> IF r.size > 1 THEN "BEGIN_RANGE" ELSE "SINGLE_BYTE_RANGE"]

EndOf(r) ==
    [index |-> r.index, type |-> IF r.size > 1 THEN "END_RANGE" ELSE "SINGLE_BYTE_RANGE"]

Types ==
    /\ DOMAIN m_lut = Addr
    /\ m_lut = [a \in Addr |-> m_lut[a]]
    /\ m_size \in Nat
    /\ tranges \in [Targets -> [base : Addr, size : Nat, remap : BOOLEAN]]
    /\ ranges \subseteq Ranges

Fits == \A r \in ranges : End(r) \in Addr

\* The entry at x is the begin or the end of range r.
EntryOf(x, r) ==
    \/ x = r.base /\ m_lut[x] = BeginOf(r)
    \/ x = End(r) /\ m_lut[x] = EndOf(r)

Stems == \A x \in Addr : m_lut[x] # Empty => \E r \in ranges : EntryOf(x, r)

Marked == \A r \in ranges : m_lut[r.base] # Empty /\ m_lut[End(r)] # Empty

Counted == ranges # {} => m_size # 0

Exact == Disjoint => \A r \in ranges : m_lut[r.base] = BeginOf(r) /\ m_lut[End(r)] = EndOf(r)

\* The router remembers for a target one of the ranges mapped to it.
Remembered ==
    ~failed => \A r \in ranges : \E s \in ranges :
        /\ s.index = r.index
        /\ tranges[r.index].base = s.base /\ tranges[r.index].size = s.size

Inv == Types /\ Fits /\ Stems /\ Marked /\ Counted /\ Exact /\ Remembered

-----------------------------------------------------------------------------
(* Arithmetic and entries *)

\* A range that addEntry does not reject ends where it should, in the address space.
LEMMA NoWrap ==
    ASSUME NEW base \in Addr, NEW size \in Sizes, ~(Eaddr(base, size) < base)
    PROVE  Eaddr(base, size) = base + size - 1 /\ base + size - 1 \in Addr /\ size \in Nat \ {0}
  <1> DEFINE n == AddressSpace
             e == base + size - 1
  <1>1. n \in Nat \ {0} /\ base \in 0 .. n - 1 /\ size \in 1 .. n - 1
    BY AddressAssumption DEF Addr
  <1>2. e \in Int /\ e \in 0 .. 2 * n - 1
    BY <1>1
  <1>3. Eaddr(base, size) = e % n
    BY DEF Eaddr
  <1> HIDE DEF n
  <1>4. e \in n .. 2 * n - 1 => e % n = e - n
    BY <1>1, <1>2, Remainder
  <1>5. e \in 0 .. n - 1 => e % n = e
    BY <1>1, <1>2, Remainder
  <1>6. e \in 0 .. n - 1
    <2>1. CASE e \in n .. 2 * n - 1
      <3>1. e % n < base
        BY <1>1, <1>4, <2>1
      <3> QED
        BY <1>3, <3>1
    <2> QED
      BY <1>1, <1>2, <2>1
  <1> QED
    BY <1>1, <1>3, <1>5, <1>6 DEF Addr, n

\* A range lies in the address space, from its base to its end.
LEMMA RangeFacts ==
    ASSUME Types, Fits, NEW r \in ranges
    PROVE  /\ r.index \in Targets /\ r.index # NoTarget
           /\ r.base \in Addr /\ r.base \in Nat /\ r.size \in Nat \ {0}
           /\ End(r) \in Addr /\ End(r) \in Nat /\ r.base <= End(r)
           /\ r.size > 1 => r.base < End(r)
           /\ ~(r.size > 1) => r.base = End(r)
           /\ Covers(r, r.base) /\ Covers(r, End(r))
           /\ \A a \in Addr : Covers(r, a) <=> r.base <= a /\ a <= End(r)
  <1>1. r \in Ranges
    BY DEF Types
  <1>2. r.index \in Targets /\ r.base \in Addr /\ r.size \in Sizes
    BY <1>1 DEF Ranges
  <1>3. AddressSpace \in Nat /\ r.base \in Nat /\ r.size \in Nat \ {0} /\ r.index # NoTarget
    <2>1. r.size \in Addr \ {0} /\ r.index # NoTarget
      BY <1>2, AddressAssumption
    <2> QED
      BY <1>2, <2>1, AddressAssumption DEF Addr
  <1>4. End(r) \in Addr
    BY DEF Fits
  <1> QED
    BY <1>2, <1>3, <1>4 DEF End, Covers, Addr

\* The type of an entry tells which end of the range it is.
LEMMA EntryFacts ==
    ASSUME Types, Fits, NEW r \in ranges, NEW x \in Addr, EntryOf(x, r)
    PROVE  /\ m_lut[x].index = r.index /\ m_lut[x].index # NoTarget /\ Covers(r, x)
           /\ m_lut[x] # Empty
           /\ m_lut[x].type = "BEGIN_RANGE" => x = r.base /\ r.size > 1
           /\ m_lut[x].type = "END_RANGE" => x = End(r) /\ r.size > 1
           /\ m_lut[x].type = "SINGLE_BYTE_RANGE" => x = r.base /\ x = End(r)
           /\ m_lut[x].type \in {"BEGIN_RANGE", "END_RANGE", "SINGLE_BYTE_RANGE"}
  BY RangeFacts DEF EntryOf, BeginOf, EndOf, Empty

\* An address without target is an address without entry.
LEMMA NoTargetEmpty ==
    ASSUME Types, Fits, Stems, NEW x \in Addr
    PROVE  m_lut[x].index = NoTarget <=> m_lut[x] = Empty
  <1>1. ASSUME m_lut[x] # Empty  PROVE m_lut[x].index # NoTarget
    <2>1. PICK r \in ranges : EntryOf(x, r)
      BY <1>1 DEF Stems
    <2> QED
      BY <2>1, EntryFacts
  <1> QED
    BY <1>1 DEF Empty

\* Two ranges that meet in an address are the same if none overlap.
LEMMA SameRange ==
    ASSUME Disjoint, NEW r \in ranges, NEW s \in ranges, NEW a \in Addr,
           Covers(r, a), Covers(s, a)
    PROVE  r = s
  BY DEF Disjoint

\* Addresses are natural numbers below AddressSpace.
LEMMA AddrNat == Addr \subseteq Nat /\ AddressSpace - 1 \in Nat /\ \A a \in Addr : a <= AddressSpace - 1
  BY AddressAssumption DEF Addr
-----------------------------------------------------------------------------
(* The invariant *)

\* The empty table satisfies Inv.
LEMMA InitInv ==
    ASSUME Init
    PROVE  Inv
  <1>1. Types
    BY AddressAssumption DEF Init, Types, Addr
  <1> QED
    BY <1>1 DEF Init, Inv, Fits, Stems, Marked, Counted, Exact, Remembered

\* The calls that leave the table alone.
LEMMA TableKept ==
    ASSUME Inv, UNCHANGED <<m_lut, m_size, ranges>>
    PROVE  /\ (DOMAIN m_lut = Addr /\ m_lut = [a \in Addr |-> m_lut[a]])'
           /\ (m_size \in Nat /\ ranges \subseteq Ranges)'
           /\ Fits' /\ Stems' /\ Marked' /\ Counted' /\ Exact'
  BY DEF Inv, Types, Fits, Stems, EntryOf, Marked, Counted, Exact, Disjoint

\* What a range that is accepted does to the table.
LEMMA TableWith ==
    ASSUME Inv, NEW idx \in Targets, NEW base \in Addr, NEW size \in Sizes,
           ~AddEntryThrows(base, size), m_lut' = WithEntry(idx, base, size),
           NEW n, n = [index |-> idx, base |-> base, size |-> size]
    PROVE  /\ n \in Ranges /\ n \notin ranges /\ End(n) \in Addr /\ size \in Nat \ {0}
           /\ \A r \in ranges : r.base # base
           /\ DOMAIN m_lut' = Addr /\ m_lut' = [a \in Addr |-> m_lut'[a]]
           /\ m_lut'[base] = BeginOf(n) /\ m_lut'[End(n)] = EndOf(n)
           /\ \A x \in Addr \ {base, End(n)} : m_lut'[x] = m_lut[x]
  <1>1. /\ Eaddr(base, size) = base + size - 1
        /\ base + size - 1 \in Addr /\ size \in Nat \ {0}
    BY NoWrap DEF AddEntryThrows
  <1>2. /\ n \in Ranges /\ End(n) = base + size - 1
        /\ n.index = idx /\ n.base = base /\ n.size = size
    BY DEF Ranges, End
  <1>3. m_lut[base] = Empty
    BY NoTargetEmpty DEF AddEntryThrows, Inv
  <1>4. \A r \in ranges : r.base # base
    BY <1>3 DEF Inv, Marked
  <1>5. base \in Int /\ size \in Int /\ (size > 1 => base # End(n)) /\ (~(size > 1) => base = End(n))
    BY <1>1, <1>2, AddrNat
  <1>6. DOMAIN m_lut = Addr /\ m_lut = [a \in Addr |-> m_lut[a]]
    BY DEF Inv, Types
  <1>7. CASE size > 1
    <2>1. m_lut' = [m_lut EXCEPT ![base] = [index |-> idx, type |-> "BEGIN_RANGE"],
                                 ![End(n)] = [index |-> idx, type |-> "END_RANGE"]]
      BY <1>1, <1>2, <1>7 DEF WithEntry
    <2>2. BeginOf(n) = [index |-> idx, type |-> "BEGIN_RANGE"]
          /\ EndOf(n) = [index |-> idx, type |-> "END_RANGE"]
      BY <1>2, <1>7 DEF BeginOf, EndOf
    <2> QED
      BY <1>1, <1>2, <1>4, <1>5, <1>6, <1>7, <2>1, <2>2
  <1>8. CASE ~(size > 1)
    <2>1. m_lut' = [m_lut EXCEPT ![base] = [index |-> idx, type |-> "SINGLE_BYTE_RANGE"]]
      BY <1>1, <1>2, <1>8 DEF WithEntry
    <2>2. BeginOf(n) = [index |-> idx, type |-> "SINGLE_BYTE_RANGE"] /\ EndOf(n) = BeginOf(n)
      BY <1>2, <1>8 DEF BeginOf, EndOf
    <2> QED
      BY <1>1, <1>2, <1>4, <1>5, <1>6, <1>8, <2>1, <2>2
  <1> QED
    BY <1>7, <1>8

\* addEntry, when it accepts a range, keeps what Inv says of the table.
LEMMA AddKeeps ==
    ASSUME Inv, NEW idx \in Targets, NEW base \in Addr, NEW size \in Sizes,
           ~AddEntryThrows(base, size), m_lut' = WithEntry(idx, base, size),
           m_size' = m_size + 1,
           ranges' = ranges \cup {[index |-> idx, base |-> base, size |-> size]}
    PROVE  /\ (DOMAIN m_lut = Addr /\ m_lut = [a \in Addr |-> m_lut[a]])'
           /\ (m_size \in Nat /\ ranges \subseteq Ranges)'
           /\ Fits' /\ Stems' /\ Marked' /\ Counted' /\ Exact'
  <1>0. PICK n : n = [index |-> idx, base |-> base, size |-> size]
    OBVIOUS
  <1>1. /\ n \in Ranges /\ n \notin ranges /\ End(n) \in Addr /\ size \in Nat \ {0}
        /\ \A r \in ranges : r.base # base
        /\ DOMAIN m_lut' = Addr /\ m_lut' = [a \in Addr |-> m_lut'[a]]
        /\ m_lut'[base] = BeginOf(n) /\ m_lut'[End(n)] = EndOf(n)
        /\ \A x \in Addr \ {base, End(n)} : m_lut'[x] = m_lut[x]
    BY <1>0, TableWith
  <1>2. n.base = base /\ n.index = idx /\ n.size = size /\ idx # NoTarget
        /\ ranges' = ranges \cup {n} /\ n \in ranges'
    BY <1>0, AddressAssumption
  <1>3. ranges' \subseteq Ranges /\ m_size' \in Nat /\ m_size' # 0
    BY <1>1, <1>2 DEF Inv, Types
  <1>4. Fits'
    BY <1>1, <1>2 DEF Inv, Fits
  <1>5. BeginOf(n) # Empty /\ EndOf(n) # Empty
    BY <1>2 DEF BeginOf, EndOf, Empty
  <1>6. Marked'
    <2> SUFFICES ASSUME NEW r \in ranges'  PROVE m_lut'[r.base] # Empty /\ m_lut'[End(r)] # Empty
      BY DEF Marked
    <2>1. CASE r = n
      BY <1>1, <1>2, <1>5, <2>1
    <2>2. CASE r \in ranges
      <3>1. r.base \in Addr /\ End(r) \in Addr /\ m_lut[r.base] # Empty /\ m_lut[End(r)] # Empty
        BY <2>2, RangeFacts DEF Inv, Marked
      <3> QED
        BY <1>1, <1>5, <3>1
    <2> QED
      BY <1>2, <2>1, <2>2
  <1>7. Stems'
    <2> SUFFICES ASSUME NEW x \in Addr, m_lut'[x] # Empty
                 PROVE  \E r \in ranges' : EntryOf(x, r)'
      BY DEF Stems
    <2>1. CASE x \in {base, End(n)}
      <3>1. EntryOf(x, n)'
        BY <1>1, <1>2, <2>1 DEF EntryOf
      <3> QED
        BY <1>2, <3>1
    <2>2. CASE x \notin {base, End(n)}
      <3>1. m_lut'[x] = m_lut[x] /\ m_lut[x] # Empty
        BY <1>1, <2>2
      <3>2. PICK r \in ranges : EntryOf(x, r)
        BY <3>1 DEF Inv, Stems
      <3>3. EntryOf(x, r)'
        BY <3>1, <3>2 DEF EntryOf
      <3> QED
        BY <1>2, <3>3
    <2> QED
      BY <2>1, <2>2
  <1>8. Exact'
    <2> SUFFICES ASSUME Disjoint', NEW r \in ranges'
                 PROVE  m_lut'[r.base] = BeginOf(r) /\ m_lut'[End(r)] = EndOf(r)
      BY DEF Exact
    <2>1. Disjoint
      BY <1>2 DEF Disjoint
    <2>2. CASE r = n
      BY <1>1, <1>2, <2>2
    <2>3. CASE r \in ranges /\ r # n
      <3>1. /\ r.base \in Addr /\ End(r) \in Addr
            /\ Covers(r, r.base) /\ Covers(r, End(r))
        BY <2>3, RangeFacts DEF Inv
      <3>2. m_lut[r.base] = BeginOf(r) /\ m_lut[End(r)] = EndOf(r)
        BY <2>1, <2>3 DEF Inv, Exact
      <3>3. Covers(n, base) /\ Covers(n, End(n))
        BY <1>1, <1>2, AddrNat DEF Covers, End
      <3>4. \A a \in Addr : ~(Covers(r, a) /\ Covers(n, a))
        BY <1>2, <2>3 DEF Disjoint
      <3> QED
        BY <1>1, <3>1, <3>2, <3>3, <3>4
    <2> QED
      BY <1>2, <2>2, <2>3
  <1> QED
    BY <1>1, <1>3, <1>4, <1>6, <1>7, <1>8 DEF Counted

\* Every configuration call keeps Inv.
LEMMA StepInv ==
    ASSUME Inv, [Next]_vars
    PROVE  Inv'
  <1>1. ASSUME NEW idx \in Targets, NEW base \in Addr, NEW size \in Sizes, NEW remap \in BOOLEAN,
               SetTargetRange(idx, base, size, remap)
        PROVE  Inv'
    <2>1. tranges' = [tranges EXCEPT ![idx] = [base |-> base, size |-> size, remap |-> remap]]
      BY <1>1 DEF SetTargetRange
    <2>2. size \in Nat
      BY AddressAssumption DEF Addr
    <2>3. tranges \in [Targets -> [base : Addr, size : Nat, remap : BOOLEAN]]
      BY DEF Inv, Types
    <2>4. tranges' \in [Targets -> [base : Addr, size : Nat, remap : BOOLEAN]]
      BY <2>1, <2>2, <2>3
    <2>5. CASE AddEntryThrows(base, size)
      <3>1. UNCHANGED <<m_lut, m_size, ranges>> /\ failed'
        BY <1>1, <2>5 DEF SetTargetRange
      <3> QED
        BY <2>4, <3>1, TableKept DEF Inv, Types, Remembered
    <2>6. CASE ~AddEntryThrows(base, size)
      <3> DEFINE n == [index |-> idx, base |-> base, size |-> size]
      <3>1. /\ m_lut' = WithEntry(idx, base, size) /\ m_size' = m_size + 1
            /\ ranges' = ranges \cup {n} /\ ~failed
        BY <1>1, <2>6 DEF SetTargetRange
      <3>2. Remembered'
        <4> SUFFICES ASSUME NEW r \in ranges'
                     PROVE  \E s \in ranges' :
                                /\ s.index = r.index /\ tranges'[r.index].base = s.base
                                /\ tranges'[r.index].size = s.size
          BY DEF Remembered
        <4>1. CASE r.index = idx
          <5>1. tranges'[r.index].base = n.base /\ tranges'[r.index].size = n.size
                /\ n.index = r.index /\ n \in ranges'
            BY <2>1, <2>3, <3>1, <4>1
          <5> QED
            BY <5>1
        <4>2. CASE r.index # idx
          <5>1. r \in ranges /\ r.index \in Targets
            BY <3>1, <4>2, RangeFacts DEF Inv
          <5>2. PICK s \in ranges : /\ s.index = r.index /\ tranges[r.index].base = s.base
                                     /\ tranges[r.index].size = s.size
            BY <3>1, <5>1 DEF Inv, Remembered
          <5>3. tranges'[r.index] = tranges[r.index]
            BY <2>1, <2>3, <4>2, <5>1
          <5> QED
            BY <3>1, <5>2, <5>3
        <4> QED
          BY <4>1, <4>2
      <3> QED
        BY <2>4, <2>6, <3>1, <3>2, AddKeeps DEF Inv, Types
    <2> QED
      BY <2>5, <2>6
  <1>2. ASSUME UNCHANGED <<m_lut, m_size, tranges, ranges, failed>>
        PROVE  Inv'
    BY <1>2, TableKept DEF Inv, Types, Remembered
  <1> QED
    BY <1>1, <1>2 DEF Next, vars, SetDefaultTarget

\* In every configuration that a sequence of calls can reach the entries of the table
\* are those of the ranges that were added.
LEMMA Invariance == Spec => []Inv
  <1>1. Init => Inv
    BY InitInv
  <1>2. Inv /\ [Next]_vars => Inv'
    BY StepInv
  <1> QED
    BY <1>1, <1>2, PTL DEF Spec
-----------------------------------------------------------------------------
(* Decoding *)

\* Without overlaps the first entry at or above an address in a range is the
\* range's own: getEntry returns its target.
LEMMA OwnerFound ==
    ASSUME Inv, Disjoint, NEW r \in ranges, NEW a \in Addr, Covers(r, a)
    PROVE  GetEntry(a) = r.index
  <1> DEFINE L == LowerBound(a)
  <1>0. Types /\ Fits /\ Stems /\ Marked /\ Counted /\ Exact
    BY DEF Inv
  <1>1. /\ r.base \in Nat /\ End(r) \in Addr /\ End(r) \in Nat /\ a \in Nat
        /\ r.base <= a /\ a <= End(r)
    BY <1>0, RangeFacts, AddrNat
  <1>2. End(r) \in L /\ L \in SUBSET Nat
    BY <1>0, <1>1, AddrNat DEF LowerBound, Marked
  <1>3. PICK x : x = Min(L)
    OBVIOUS
  <1>4. x \in L /\ \A y \in L : x <= y
    BY <1>2, <1>3, MinNat
  <1>5. x \in Addr /\ x \in Nat /\ a <= x /\ x <= End(r) /\ m_lut[x] # Empty
    BY <1>2, <1>4, AddrNat DEF LowerBound
  <1>6. PICK s \in ranges : EntryOf(x, s)
    BY <1>0, <1>5 DEF Stems
  <1>7. Covers(s, x)
    BY <1>0, <1>5, <1>6, EntryFacts
  <1>8. Covers(r, x)
    BY <1>0, <1>1, <1>5, RangeFacts
  <1>9. s = r
    BY <1>5, <1>7, <1>8, SameRange
  <1>10. m_lut[x].index = r.index
    BY <1>0, <1>5, <1>6, <1>9, EntryFacts
  <1>11. m_lut[x].type = "END_RANGE" \/ x = a
    <2>1. x # r.base => m_lut[x].type = "END_RANGE"
      BY <1>0, <1>5, <1>6, <1>9, EntryFacts
    <2> QED
      BY <1>1, <1>5, <2>1
  <1>12. m_size # 0 /\ LowerBound(a) # {}
    BY <1>0, <1>2 DEF Counted
  <1> QED
    BY <1>3, <1>10, <1>11, <1>12 DEF GetEntry

\* What getEntry returns, overlaps or not, is a target mapped to the address.
LEMMA FoundOwns ==
    ASSUME Inv, NEW a \in Addr, GetEntry(a) # NoTarget
    PROVE  \E r \in ranges : r.index = GetEntry(a) /\ Covers(r, a)
  <1> DEFINE L == LowerBound(a)
  <1>0. Types /\ Fits /\ Stems /\ Marked
    BY DEF Inv
  <1>1. PICK x : x = Min(L)
    OBVIOUS
  <1>2. L # {} /\ (m_lut[x].type = "END_RANGE" \/ x = a) /\ GetEntry(a) = m_lut[x].index
    BY <1>1 DEF GetEntry
  <1>3. L \in SUBSET Nat /\ a \in Nat
    BY AddrNat DEF LowerBound
  <1>4. x \in L /\ \A y \in L : x <= y
    BY <1>1, <1>2, <1>3, MinNat
  <1>5. x \in Addr /\ x \in Nat /\ a <= x /\ m_lut[x] # Empty
    BY <1>4, AddrNat DEF LowerBound
  <1>6. PICK r \in ranges : EntryOf(x, r)
    BY <1>0, <1>5 DEF Stems
  <1>7. r.index = GetEntry(a) /\ Covers(r, x)
    BY <1>0, <1>2, <1>5, <1>6, EntryFacts
  <1>8. CASE x = a
    BY <1>7, <1>8
  <1>9. CASE m_lut[x].type = "END_RANGE"
    <2>1. x = End(r) /\ r.base < x /\ r.base \in Addr /\ r.base \in Nat /\ m_lut[r.base] # Empty
      BY <1>0, <1>5, <1>6, <1>9, EntryFacts, RangeFacts DEF Marked
    <2>2. ~(r.base >= a)
      <3>1. r.base >= a => r.base \in L
        BY <2>1 DEF LowerBound
      <3> QED
        BY <1>4, <1>5, <2>1, <3>1
    <2>3. Covers(r, a)
      BY <1>0, <1>3, <1>5, <2>1, <2>2, RangeFacts
    <2> QED
      BY <1>7, <2>3
  <1> QED
    BY <1>2, <1>8, <1>9

\* The loop of validate finds the begin of each range before its end and nothing
\* between the two, if no two ranges overlap.
LEMMA DisjointValidates ==
    ASSUME Inv, Disjoint
    PROVE  Validates
  <1> SUFFICES ASSUME NEW x \in Addr
               PROVE  /\ m_lut[x].type \in {"BEGIN_RANGE", "SINGLE_BYTE_RANGE"} => ~Mapped(x)
                      /\ m_lut[x].type = "END_RANGE" => Mapped(x)
    BY DEF Validates
  <1> DEFINE before == {y \in Addr : y < x /\ m_lut[y].type \in {"BEGIN_RANGE", "END_RANGE"}}
  <1>0. Types /\ Fits /\ Stems /\ Marked /\ Exact
    BY DEF Inv
  <1>1. before \in SUBSET Nat /\ x \in Nat /\ \A y \in before : y <= x
    <2>1. x \in Nat /\ before \subseteq Nat
      BY AddrNat
    <2>2. \A y \in Nat : y < x => y <= x
      BY <2>1
    <2> QED
      BY <2>1, <2>2
  <1>2. PICK m : m = Max(before)
    OBVIOUS
  <1>3. before # {} => m \in before /\ \A y \in before : y <= m
    <2> HIDE DEF before
    <2> QED
      BY <1>1, <1>2, MaxNat
  <1>4. Mapped(x) <=> before # {} /\ m_lut[m].type = "BEGIN_RANGE"
    BY <1>2 DEF Mapped
  <1>5. \A y \in Addr : m_lut[y].type # "none" => m_lut[y] # Empty
    BY DEF Empty
  <1>6. ASSUME m_lut[x].type \in {"BEGIN_RANGE", "SINGLE_BYTE_RANGE"}, Mapped(x)
        PROVE  FALSE
    <2>1. PICK r \in ranges : EntryOf(x, r)
      BY <1>0, <1>5, <1>6 DEF Stems
    <2>2. x = r.base /\ Covers(r, x)
      BY <1>0, <1>6, <2>1, EntryFacts
    <2>3. m \in Addr /\ m \in Nat /\ m < x /\ m_lut[m].type = "BEGIN_RANGE"
      BY <1>3, <1>4, <1>6, AddrNat
    <2>4. PICK s \in ranges : EntryOf(m, s)
      BY <1>0, <1>5, <2>3 DEF Stems
    <2>5. m = s.base /\ s.size > 1 /\ m < End(s) /\ End(s) \in Addr /\ End(s) \in Nat
      BY <1>0, <2>3, <2>4, EntryFacts, RangeFacts
    <2>6. m_lut[End(s)].type = "END_RANGE"
      <3>1. m_lut[End(s)] = EndOf(s)
        BY <1>0 DEF Exact
      <3> QED
        BY <2>5, <3>1 DEF EndOf
    <2>7. ~(End(s) < x)
      <3>1. End(s) < x => End(s) \in before
        BY <2>5, <2>6
      <3> HIDE DEF before
      <3> QED
        BY <1>3, <2>3, <2>5, <3>1
    <2>8. Covers(s, x)
      BY <1>0, <1>1, <2>3, <2>5, <2>7, RangeFacts
    <2>9. r = s
      BY <2>2, <2>8, SameRange
    <2> QED
      BY <1>1, <2>2, <2>3, <2>5, <2>9
  <1>7. ASSUME m_lut[x].type = "END_RANGE"
        PROVE  Mapped(x)
    <2>1. PICK r \in ranges : EntryOf(x, r)
      BY <1>0, <1>5, <1>7 DEF Stems
    <2>2. /\ x = End(r) /\ r.size > 1 /\ r.base < x /\ r.base \in Addr /\ r.base \in Nat
      BY <1>0, <1>7, <2>1, EntryFacts, RangeFacts
    <2>3. m_lut[r.base].type = "BEGIN_RANGE"
      <3>1. m_lut[r.base] = BeginOf(r)
        BY <1>0 DEF Exact
      <3> QED
        BY <2>2, <3>1 DEF BeginOf
    <2>4. r.base \in before
      BY <2>2, <2>3
    <2>5. m \in before /\ r.base <= m
      <3> HIDE DEF before
      <3> QED
        BY <1>3, <2>4
    <2>6. m \in Addr /\ m \in Nat /\ m < x /\ m_lut[m].type # "none"
      BY <2>5, AddrNat
    <2>7. PICK s \in ranges : EntryOf(m, s)
      BY <1>0, <1>5, <2>6 DEF Stems
    <2>8. Covers(s, m) /\ (m = s.base \/ m = End(s))
      BY <1>0, <2>6, <2>7, EntryFacts DEF EntryOf
    <2>9. Covers(r, m)
      BY <1>0, <1>1, <2>2, <2>5, <2>6, RangeFacts
    <2>10. r = s
      BY <2>6, <2>8, <2>9, SameRange
    <2>11. m = r.base
      BY <1>1, <2>2, <2>6, <2>8, <2>10
    <2> HIDE DEF before
    <2> QED
      BY <1>4, <2>3, <2>4, <2>11
  <1> QED
    BY <1>6, <1>7

\* getEntry of range_lut.h never decodes an address to a target that is not mapped to
\* it; without overlaps it decodes every mapped address, and validate() does not
\* complain.
THEOREM DecodesOwner == Spec => []DecodesToOwner
  <1>1. ASSUME Inv  PROVE DecodesToOwner
    <2>1. ASSUME Disjoint, NEW a \in Addr, NEW r \in ranges, Covers(r, a)
          PROVE  GetEntry(a) # NoTarget
      BY <1>1, <2>1, OwnerFound, RangeFacts DEF Inv
    <2> QED
      BY <1>1, <2>1, FoundOwns, DisjointValidates DEF DecodesToOwner
  <1> QED
    BY <1>1, Invariance, PTL

-----------------------------------------------------------------------------
(* Direct memory access *)

\* x is byte k of the region first .. last of a target that is mapped at base b, as an
\* initiator with base i sees it; y is its address in the router.
InRegion(n, b, i, first, last, x, k, y) ==
    /\ n \in Nat \ {0} /\ b \in 0 .. n - 1 /\ i \in 0 .. n - 1
    /\ first \in Nat /\ last \in Nat /\ first <= last /\ b + last <= n - 1
    /\ x \in ((first - i + b) % n) .. ((last - i + b) % n)
    /\ k = x - ((first - i + b) % n)
    /\ y = b + first + k

\* Moving a region of a target by the distance of two bases, each end modulo the size
\* of the address space, leaves it in one piece or empty, never with a hole or a shift.
LEMMA RegionAddress ==
    ASSUME NEW n, NEW b, NEW i, NEW first, NEW last, NEW x, NEW k, NEW y,
           InRegion(n, b, i, first, last, x, k, y)
    PROVE  k \in 0 .. last - first /\ (x + i) % n = y /\ (y - b) % n = first + k
  <1>0. PICK u, v : u = first - i + b /\ v = last - i + b
    OBVIOUS
  <1> USE <1>0
  <1> SUFFICES
         ASSUME n \in Nat \ {0}, b \in 0 .. n - 1, i \in 0 .. n - 1,
                first \in Nat, last \in Nat, first <= last, b + last <= n - 1,
                x \in (u % n) .. (v % n), k = x - (u % n), y = b + first + k
         PROVE  k \in 0 .. last - first /\ (x + i) % n = y /\ (y - b) % n = first + k
    BY DEF InRegion
  <1>1. u \in Int /\ v \in Int /\ u \in -n .. n - 1 /\ v \in -n .. n - 1 /\ u <= v /\ v - u < n
    OBVIOUS
  <1>2. ASSUME NEW z \in Int, z \in -n .. n - 1
        PROVE  (z >= 0 => z % n = z) /\ (z < 0 => z % n = z + n)
    <2>1. (z >= 0 => z \in 0 .. n - 1) /\ (z < 0 => z \in -n .. -1)
      BY <1>2
    <2> QED
      BY <2>1, Remainder
  <1>3. /\ u >= 0 => u % n = u
        /\ u < 0 => u % n = u + n
        /\ v >= 0 => v % n = v
        /\ v < 0 => v % n = v + n
    BY <1>1, <1>2
  <1>4. x \in (u % n) .. (v % n)
    OBVIOUS
  <1>5. k \in 0 .. last - first /\ (x + i = y \/ x + i = y + n)
    <2>1. CASE u >= 0
      <3>1. x \in u .. v /\ k = x - u
        BY <1>1, <1>3, <1>4, <2>1
      <3>2. x \in Int /\ k \in Int /\ x = u + k /\ 0 <= k /\ k <= v - u
        BY <1>1, <3>1
      <3> QED
        BY <3>2
    <2>2. CASE u < 0 /\ v < 0
      <3>1. x \in u + n .. v + n /\ k = x - (u + n)
        BY <1>1, <1>3, <1>4, <2>2
      <3>2. x \in Int /\ k \in Int /\ x = u + n + k /\ 0 <= k /\ k <= v - u
        <4>1. PICK w \in Int : w = u + n
          BY <1>1
        <4>2. PICK w2 \in Int : w2 = v + n
          BY <1>1
        <4>3. x \in w .. w2 /\ k = x - w
          BY <3>1, <4>1, <4>2
        <4>4. x \in Int /\ w <= x /\ x <= w2
          BY <4>3
        <4>5. k \in Int /\ x = w + k /\ 0 <= k /\ k <= w2 - w
          BY <4>3, <4>4
        <4>6. w2 - w = v - u
          BY <1>1, <4>1, <4>2
        <4> QED
          BY <4>1, <4>4, <4>5, <4>6
      <3> QED
        BY <3>2
    <2>3. CASE u < 0 /\ v >= 0
      <3>1. x \in u + n .. v
        BY <1>1, <1>3, <1>4, <2>3
      <3>2. u + n \in Int /\ ~(u + n <= v)
        BY <1>1
      <3> QED
        BY <1>1, <3>1, <3>2
    <2> QED
      BY <1>1, <2>1, <2>2, <2>3
  <1>6. PICK z : z = x + i
    OBVIOUS
  <1>7. y \in 0 .. n - 1 /\ first + k \in 0 .. n - 1 /\ (z = y \/ z = y + n) /\ y - b = first + k
    BY <1>5, <1>6
  <1>8. z % n = y
    <2>1. CASE z = y
      <3>1. z \in Int /\ z \in 0 .. n - 1
        BY <1>7, <2>1
      <3> QED
        BY <2>1, <3>1, Remainder
    <2>2. CASE z = y + n
      <3>1. z \in Int /\ z \in n .. 2 * n - 1 /\ z - n = y
        BY <1>7, <2>2
      <3> QED
        BY <3>1, Remainder
    <2> QED
      BY <1>7, <2>1, <2>2
  <1>9. (y - b) % n = first + k
    <2>1. PICK w : w = first + k
      OBVIOUS
    <2>2. w \in Int /\ w \in 0 .. n - 1
      BY <1>7, <2>1
    <2>3. w % n = w
      BY <2>2, Remainder
    <2> QED
      BY <1>7, <2>1, <2>3
  <1> QED
    BY <1>5, <1>6, <1>8, <1>9

\* For a target behind one range the router clips what the target grants to the range.
LEMMA Clipped ==
    ASSUME Inv, ~failed, NEW r \in ranges, tranges[r.index].remap,
           \A s \in ranges : s.index = r.index => s = r,
           NEW first \in 0 .. r.size - 1, NEW end \in first .. AddressSpace - 1
    PROVE  /\ Offset(r.index) = r.base
           /\ ClippedEnd(r.index, end) \in first .. r.size - 1
  <1>1. tranges[r.index].base = r.base /\ tranges[r.index].size = r.size
    BY DEF Inv, Remembered
  <1>2. r.size \in Nat \ {0} /\ r.size \in 0 .. AddressSpace - 1 /\ AddressSpace \in Nat \ {0}
    <2>1. r.size \in Sizes
      BY DEF Inv, Types, Ranges
    <2>2. r.size \in Addr \ {0} /\ AddressSpace \in Nat \ {0}
      BY <2>1, AddressAssumption
    <2> QED
      BY <2>2 DEF Addr
  <1>3. (0 + r.size) % AddressSpace = r.size
    <2>1. PICK m, n : m = r.size /\ n = AddressSpace
      OBVIOUS
    <2>2. m \in Int /\ n \in Nat \ {0} /\ m \in 0 .. n - 1 /\ 0 + m = m
      BY <1>2, <2>1
    <2>3. m % n = m
      BY <2>2, Remainder
    <2> QED
      BY <2>1, <2>2, <2>3
  <1>4. ClippedEnd(r.index, end) = IF end >= r.size THEN r.size - 1 ELSE end
    BY <1>1, <1>2, <1>3 DEF ClippedEnd
  <1> QED
    BY <1>1, <1>2, <1>4 DEF Offset

\* get_direct_mem_ptr of router.h: an initiator that uses the region it got reaches
\* the bytes it would reach with b_transport.
THEOREM DmiAgrees == Spec => []DmiMatchesRoute
  <1>1. ASSUME Inv  PROVE DmiMatchesRoute
    <2> SUFFICES ASSUME Disjoint, ~failed, NEW r \in ranges, NEW ibase \in Bases,
                        tranges[r.index].remap, \A s \in ranges : s.index = r.index => s = r,
                        NEW start \in 0 .. r.size - 1, NEW end \in start .. AddressSpace - 1,
                        NEW x \in DmiRegion(ibase, r.index, start, end)
                 PROVE  Route(ibase, x) =
                            [target |-> r.index,
                             address |->
                                 start + (x - ((start - ibase + Offset(r.index)) % AddressSpace))]
      BY DEF DmiMatchesRoute
    <2>1. PICK last : last = ClippedEnd(r.index, end)
      OBVIOUS
    <2>2. Offset(r.index) = r.base /\ last \in start .. r.size - 1
      BY <1>1, <2>1, Clipped
    <2>3. /\ r.base \in Addr /\ r.base \in Nat /\ End(r) \in Addr /\ r.size \in Nat \ {0}
          /\ r.index # NoTarget
      BY <1>1, RangeFacts DEF Inv
    <2>4. AddressSpace \in Nat \ {0} /\ ibase \in 0 .. AddressSpace - 1
      BY AddressAssumption DEF Addr
    <2>5. /\ start \in Nat /\ last \in Nat /\ start <= last /\ r.base + last <= AddressSpace - 1
          /\ r.base \in 0 .. AddressSpace - 1
      BY <2>2, <2>3, <2>4 DEF Addr, End
    <2>6. /\ x \in ((start - ibase + r.base) % AddressSpace)
                     .. ((last - ibase + r.base) % AddressSpace)
      BY <2>1, <2>2 DEF DmiRegion
    <2>7. PICK k, a : /\ k = x - ((start - ibase + r.base) % AddressSpace)
                      /\ a = r.base + start + k
      OBVIOUS
    <2>8. InRegion(AddressSpace, r.base, ibase, start, last, x, k, a)
      BY <2>4, <2>5, <2>6, <2>7 DEF InRegion
    <2>9. /\ k \in 0 .. last - start
          /\ (x + ibase) % AddressSpace = a
          /\ (a - r.base) % AddressSpace = start + k
      BY <2>8, RegionAddress
    <2>10. a \in Addr /\ Covers(r, a)
      BY <2>2, <2>3, <2>4, <2>5, <2>7, <2>9 DEF Addr, Covers
    <2>11. GetEntry(a) = r.index
      BY <1>1, <2>10, OwnerFound
    <2>12. Route(ibase, x) = [target |-> r.index, address |-> (a - r.base) % AddressSpace]
      BY <2>2, <2>3, <2>9, <2>11 DEF Route
    <2>13. k = x - ((start - ibase + Offset(r.index)) % AddressSpace)
      BY <2>2, <2>7
    <2> QED
      BY <2>9, <2>12, <2>13
  <1> QED
    BY <1>1, Invariance, PTL
=============================================================================
