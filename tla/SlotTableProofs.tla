-------------------------- MODULE SlotTableProofs ---------------------------
(***************************************************************************)
(* Facts about probing and about well-formed tables, for every number of   *)
(* slots, every set of keys and every hash function.                       *)
(***************************************************************************)
EXTENDS SlotTable, TLAPS

\* Probing stays inside the table and Dist counts the probes that lead to a
\* slot: the address arithmetic of both sides.
LEMMA ProbeDist ==
  ASSUME NEW h \in Positions
  PROVE  /\ \A i \in Positions : Probe(h, i) \in Positions /\ Dist(h, Probe(h, i)) = i
         /\ \A p \in Positions : Dist(h, p) \in Positions /\ Probe(h, Dist(h, p)) = p
BY NumSlotsAssumption DEF Positions, Probe, Dist

LEMMA HashType == \A k \in Keys : Hash[k] \in Positions
BY HashAssumption DEF Positions

\* In a table whose chains are unbroken, a search that ends at an empty slot
\* has proved the key absent.
LEMMA EndIsAbsence ==
  ASSUME NEW t, NEW k \in Keys, NEW i \in Positions,
         ChainsUnbroken(t), EndsAt(t, k, i)
  PROVE  ~Present(t, k)
<1> SUFFICES ASSUME NEW p \in Positions, Holds(t[p], k)
             PROVE  FALSE
  BY DEF Present
<1> DEFINE h == Hash[k]
           d == Dist(h, p)
<1>1. h \in Positions /\ d \in Positions /\ Probe(h, d) = p
  BY HashType, ProbeDist
<1>2. ~(d < i)
  <2> SUFFICES ASSUME d < i PROVE FALSE
    OBVIOUS
  <2>1. d \in 0 .. i - 1
    BY <1>1 DEF Positions
  <2>2. Passes(t, k, d)
    BY <2>1 DEF EndsAt, PassesAllBefore
  <2> QED BY <1>1, <2>2 DEF Passes, ProbedSlot
<1>3. ~(i < d)
  <2> SUFFICES ASSUME i < d PROVE FALSE
    OBVIOUS
  <2>1. i \in 0 .. d - 1
    BY <1>1 DEF Positions
  <2>2. t[Probe(h, i)].occupied # Empty
    BY <2>1 DEF ChainsUnbroken, Holds
  <2> QED BY <2>2 DEF EndsAt, ProbedSlot
<1>4. i # d
  BY <1>1 DEF EndsAt, ProbedSlot, Holds, Empty, Valid
<1> QED BY <1>1, <1>2, <1>3, <1>4 DEF Positions

\* A search that went round the whole table has proved the key absent.
LEMMA ExhaustionIsAbsence ==
  ASSUME NEW t, NEW k \in Keys, Exhausted(t, k)
  PROVE  ~Present(t, k)
<1> SUFFICES ASSUME NEW p \in Positions, Holds(t[p], k)
             PROVE  FALSE
  BY DEF Present
<1> DEFINE h == Hash[k]
           d == Dist(h, p)
<1>1. d \in 0 .. NumSlots - 1 /\ Probe(h, d) = p
  BY HashType, ProbeDist DEF Positions
<1>2. Passes(t, k, d)
  BY <1>1 DEF Exhausted, PassesAllBefore
<1> QED BY <1>1, <1>2 DEF Passes, ProbedSlot

\* In a table without duplicates, the contents at a stored key are the value of
\* the slot that holds it.
LEMMA ContentsAtHolder ==
  ASSUME NEW t, NEW k \in Keys, NEW p \in Positions, KeysUnique(t), Holds(t[p], k)
  PROVE  Contents(t)[k] = t[p].value
<1>1. \A q \in Positions : Holds(t[q], k) => q = p
  BY DEF KeysUnique, Holds
<1>2. (CHOOSE q \in Positions : Holds(t[q], k)) = p
  BY <1>1
<1> QED BY <1>2 DEF Contents, Present

LEMMA ContentsAtAbsent ==
  ASSUME NEW t, NEW k \in Keys, ~Present(t, k)
  PROVE  Contents(t)[k] = NoValue
BY DEF Contents

\* Two tables without duplicates that hold k in the same slot, with the same
\* value, have the same contents at k.
LEMMA ContentsFrame ==
  ASSUME NEW t, NEW u, NEW k \in Keys, KeysUnique(t), KeysUnique(u),
         \A p \in Positions : /\ Holds(u[p], k) <=> Holds(t[p], k)
                              /\ Holds(t[p], k) => u[p].value = t[p].value
  PROVE  Contents(u)[k] = Contents(t)[k]
<1>1. CASE Present(t, k)
  <2>1. PICK p \in Positions : Holds(t[p], k)
    BY <1>1 DEF Present
  <2>2. Contents(t)[k] = t[p].value
    BY <2>1, ContentsAtHolder
  <2>3. Contents(u)[k] = u[p].value
    BY <2>1, ContentsAtHolder
  <2> QED BY <2>1, <2>2, <2>3
<1>2. CASE ~Present(t, k)
  <2>1. ~Present(u, k)
    BY <1>2 DEF Present
  <2> QED BY <1>2, <2>1, ContentsAtAbsent
<1> QED BY <1>1, <1>2

\* The key field of a slot in use is never the zeroed one.
HoldsRealKeys(t) == \A q \in Positions : t[q].occupied = Valid => t[q].key \in Keys

\* The chain of a stored key lies inside the table.
LEMMA ChainInside ==
  ASSUME NEW t, HoldsRealKeys(t), NEW q \in Positions, t[q].occupied = Valid,
         NEW i \in 0 .. Dist(Hash[t[q].key], q) - 1
  PROVE  Probe(Hash[t[q].key], i) \in Positions
<1>1. Hash[t[q].key] \in Positions
  BY HashType DEF HoldsRealKeys
<1>2. Dist(Hash[t[q].key], q) \in Positions
  BY <1>1, ProbeDist
<1>3. i \in Positions
  BY <1>2, NumSlotsAssumption DEF Positions
<1> QED BY <1>1, <1>3, ProbeDist

\* Table u is t with slot p replaced by s.
ReplacedAt(t, u, p, s) ==
  u[p] = s /\ \A q \in Positions : q # p => u[q] = t[q]

-----------------------------------------------------------------------------
(* The three ways a table changes keep it well-formed, and change its      *)
(* contents at one key only.                                               *)

\* Replacing the slot that holds k by one that still holds k.
LEMMA OverwriteKeeps ==
  ASSUME NEW t \in [Positions -> Slot], NEW k \in Keys, NEW p \in Positions,
         NEW s \in Slot, KeysUnique(t), ChainsUnbroken(t), HoldsRealKeys(t),
         Holds(t[p], k), Holds(s, k),
         NEW u, ReplacedAt(t, u, p, s)
  PROVE  /\ KeysUnique(u) /\ ChainsUnbroken(u)
         /\ Contents(u) = [Contents(t) EXCEPT ![k] = s.value]
<1>1. \A q \in Positions : u[q].occupied = t[q].occupied /\ u[q].key = t[q].key
  BY DEF Holds, ReplacedAt
<1>2. KeysUnique(u)
  BY <1>1 DEF KeysUnique
<1>3. ChainsUnbroken(u)
  <2> SUFFICES ASSUME NEW q \in Positions, u[q].occupied = Valid,
                      NEW i \in 0 .. Dist(Hash[u[q].key], q) - 1
               PROVE  u[Probe(Hash[u[q].key], i)].occupied # Empty
    BY DEF ChainsUnbroken
  <2>1. t[Probe(Hash[t[q].key], i)].occupied # Empty
    BY <1>1 DEF ChainsUnbroken
  <2>2. Probe(Hash[t[q].key], i) \in Positions
    BY <1>1, ChainInside
  <2> QED BY <1>1, <2>1, <2>2
<1>4. ASSUME NEW l \in Keys
      PROVE  Contents(u)[l] = [Contents(t) EXCEPT ![k] = s.value][l]
  <2>1. CASE l = k
    <3>1. Contents(u)[k] = u[p].value
      BY <1>1, <1>2, ContentsAtHolder DEF Holds
    <3> QED BY <2>1, <3>1 DEF Contents, ReplacedAt
  <2>2. CASE l # k
    <3>1. Contents(u)[l] = Contents(t)[l]
      <4>1. \A q \in Positions : /\ Holds(u[q], l) <=> Holds(t[q], l)
                                 /\ Holds(t[q], l) => u[q].value = t[q].value
        BY <2>2, <1>1 DEF Holds, ReplacedAt
      <4> QED BY ONLY KeysUnique(t), l \in Keys, <4>1, <1>2, ContentsFrame
    <3> QED BY <2>2, <3>1 DEF Contents
  <2> QED BY <2>1, <2>2
<1> QED BY <1>2, <1>3, <1>4 DEF Contents

\* Putting an absent key k in a slot that holds no key, j probes after its hash
\* position, when no empty slot lies before it.
LEMMA InsertKeeps ==
  ASSUME NEW t \in [Positions -> Slot], NEW k \in Keys, NEW j \in Positions,
         NEW s \in Slot, KeysUnique(t), ChainsUnbroken(t), HoldsRealKeys(t),
         ~Present(t, k), ProbedSlot(t, k, j).occupied # Valid,
         \A m \in 0 .. j - 1 : ProbedSlot(t, k, m).occupied # Empty,
         Holds(s, k),
         NEW u, ReplacedAt(t, u, Probe(Hash[k], j), s)
  PROVE  /\ KeysUnique(u) /\ ChainsUnbroken(u)
         /\ Contents(u) = [Contents(t) EXCEPT ![k] = s.value]
<1> DEFINE p == Probe(Hash[k], j)
<1>1. p \in Positions /\ Dist(Hash[k], p) = j
  BY HashType, ProbeDist
<1>2. u[p] = s /\ \A q \in Positions : q # p => u[q] = t[q]
  BY DEF ReplacedAt
<1>3. KeysUnique(u)
  BY <1>1, <1>2 DEF KeysUnique, Present, Holds
<1>4. \A q \in Positions : t[q].occupied # Empty => u[q].occupied # Empty
  BY <1>2 DEF Holds, Empty, Valid
<1>5. ChainsUnbroken(u)
  <2> SUFFICES ASSUME NEW q \in Positions, u[q].occupied = Valid,
                      NEW i \in 0 .. Dist(Hash[u[q].key], q) - 1
               PROVE  u[Probe(Hash[u[q].key], i)].occupied # Empty
    BY DEF ChainsUnbroken
  <2>1. CASE q = p
    <3>1. u[q].key = k /\ i \in 0 .. j - 1 /\ i \in Positions
      <4>1. u[q].key = k
        BY <2>1, <1>2, <1>1 DEF Holds
      <4>2. i \in 0 .. j - 1
        BY <2>1, <4>1, <1>1
      <4> QED BY <4>1, <4>2, NumSlotsAssumption DEF Positions
    <3>2. Probe(Hash[k], i) \in Positions
      BY <3>1, HashType, ProbeDist
    <3> QED BY <3>1, <3>2, <1>4 DEF ProbedSlot
  <2>2. CASE q # p
    <3>1. u[q] = t[q]
      BY <2>2, <1>2
    <3>2. Probe(Hash[t[q].key], i) \in Positions
      BY <3>1, ChainInside
    <3>3. t[Probe(Hash[t[q].key], i)].occupied # Empty
      BY <3>1 DEF ChainsUnbroken
    <3> QED BY <3>1, <3>2, <3>3, <1>4
  <2> QED BY <2>1, <2>2
<1>6. ASSUME NEW l \in Keys
      PROVE  Contents(u)[l] = [Contents(t) EXCEPT ![k] = s.value][l]
  <2>1. CASE l = k
    <3>1. Contents(u)[k] = s.value
      BY <1>1, <1>2, <1>3, ContentsAtHolder
    <3> QED BY <2>1, <3>1 DEF Contents
  <2>2. CASE l # k
    <3>1. \A q \in Positions : /\ Holds(u[q], l) <=> Holds(t[q], l)
                               /\ Holds(t[q], l) => u[q].value = t[q].value
      BY <2>2, <1>1, <1>2 DEF Holds, ProbedSlot
    <3>2. Contents(u)[l] = Contents(t)[l]
      BY ONLY KeysUnique(t), l \in Keys, <3>1, <1>3, ContentsFrame
    <3> QED BY <2>2, <3>2 DEF Contents
  <2> QED BY <2>1, <2>2
<1> QED BY <1>3, <1>5, <1>6 DEF Contents

\* Turning the slot that holds k into a tombstone.
LEMMA EraseKeeps ==
  ASSUME NEW t \in [Positions -> Slot], NEW k \in Keys, NEW p \in Positions,
         KeysUnique(t), ChainsUnbroken(t), HoldsRealKeys(t), Holds(t[p], k),
         NEW u, u = [t EXCEPT ![p].occupied = Tombstone]
  PROVE  /\ KeysUnique(u) /\ ChainsUnbroken(u)
         /\ Contents(u) = [Contents(t) EXCEPT ![k] = NoValue]
<1>1. /\ u[p].occupied = Tombstone
      /\ \A q \in Positions : q # p => u[q] = t[q]
  BY DEF Slot
<1>2. KeysUnique(u)
  BY <1>1 DEF KeysUnique, Tombstone, Valid
<1>3. \A q \in Positions : t[q].occupied # Empty => u[q].occupied # Empty
  BY <1>1 DEF Tombstone, Empty
<1>4. ChainsUnbroken(u)
  <2> SUFFICES ASSUME NEW q \in Positions, u[q].occupied = Valid,
                      NEW i \in 0 .. Dist(Hash[u[q].key], q) - 1
               PROVE  u[Probe(Hash[u[q].key], i)].occupied # Empty
    BY DEF ChainsUnbroken
  <2>1. u[q] = t[q]
    BY <1>1 DEF Tombstone, Valid
  <2>2. Probe(Hash[t[q].key], i) \in Positions
    BY <2>1, ChainInside
  <2>3. t[Probe(Hash[t[q].key], i)].occupied # Empty
    BY <2>1 DEF ChainsUnbroken
  <2> QED BY <2>1, <2>2, <2>3, <1>3
<1>5. ASSUME NEW l \in Keys
      PROVE  Contents(u)[l] = [Contents(t) EXCEPT ![k] = NoValue][l]
  <2>1. CASE l = k
    <3>1. ~Present(u, k)
      BY <1>1 DEF Present, Holds, KeysUnique, Tombstone, Valid
    <3>2. Contents(u)[k] = NoValue
      BY <3>1, ContentsAtAbsent
    <3>3. k \in DOMAIN Contents(t)
      BY DEF Contents
    <3> QED BY <2>1, <3>2, <3>3
  <2>2. CASE l # k
    <3>1. \A q \in Positions : /\ Holds(u[q], l) <=> Holds(t[q], l)
                               /\ Holds(t[q], l) => u[q].value = t[q].value
      BY <2>2, <1>1 DEF Holds, Tombstone, Valid
    <3>2. Contents(u)[l] = Contents(t)[l]
      BY ONLY KeysUnique(t), l \in Keys, <3>1, <1>2, ContentsFrame
    <3>3. l \in DOMAIN Contents(t)
      BY DEF Contents
    <3> QED BY <2>2, <3>2, <3>3
  <2> QED BY <2>1, <2>2
<1> QED BY <1>2, <1>4, <1>5 DEF Contents
=============================================================================
