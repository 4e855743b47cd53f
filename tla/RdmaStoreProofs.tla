-------------------------- MODULE RdmaStoreProofs ---------------------------
(***************************************************************************)
(* RdmaStore: its type invariant, its two table invariants, and that it    *)
(* implements CacheMap, for every number of slots, every set of keys and   *)
(* values and every hash function.                                         *)
(*                                                                         *)
(* TypeOK is inductive by itself.  UniqueKeys is not: an insertion knows   *)
(* only that the key is not on the way to an empty slot, and it takes      *)
(* ProbeReachable to conclude that it is nowhere.  The two are proved      *)
(* together, over TypeOK.                                                  *)
(***************************************************************************)
EXTENDS RdmaStore, SlotTableProofs

IInv == TypeOK /\ UniqueKeys /\ ProbeReachable

\* The slot an insertion writes.
NewSlot(k, v) == [occupied |-> Valid, access_count |-> 0, key |-> k, value |-> v]

-----------------------------------------------------------------------------
(* Types.                                                                  *)

LEMMA InitType == Init => TypeOK
BY DEF Init, TypeOK, EmptyTable, EmptySlot, Slot, Empty, Reply

\* One step of each operation keeps the types.
LEMMA StepType == TypeOK /\ [Next]_vars => TypeOK'
<1> SUFFICES ASSUME TypeOK, [Next]_vars
             PROVE  TypeOK'
  OBVIOUS
<1>1. ASSUME NEW k \in Keys, NEW v \in Values, SetRejected(k, v) \/ SetFull(k, v)
      PROVE  TypeOK'
  <2>1. reply' \in Reply /\ slots' = slots
    <3>1. CASE SetRejected(k, v)
      BY <3>1 DEF SetRejected, SetReturns, Reply
    <3>2. CASE SetFull(k, v)
      BY <3>2 DEF SetFull, SetReturns, Reply
    <3> QED BY <1>1, <3>1, <3>2
  <2> QED BY <2>1 DEF TypeOK
<1>2. ASSUME NEW k \in Keys, NEW v \in Values, SetOverwrites(k, v)
      PROVE  TypeOK'
  <2>1. PICK i \in Positions : /\ FoundAt(slots, k, i)
                               /\ slots' = [slots EXCEPT ![Probe(Hash[k], i)].value = v]
    BY <1>2 DEF SetOverwrites
  <2>2. Probe(Hash[k], i) \in Positions
    BY HashType, ProbeDist
  <2>3. v \in Values \ LongValues
    BY <1>2 DEF SetOverwrites, Fits
  <2>4. reply' \in Reply
    BY <1>2 DEF SetOverwrites, SetReturns, Reply
  <2> QED BY <2>1, <2>2, <2>3, <2>4 DEF TypeOK, Slot
<1>3. ASSUME NEW k \in Keys, NEW v \in Values, SetInserts(k, v)
      PROVE  TypeOK'
  <2>1. PICK j \in Positions : slots' = [slots EXCEPT ![Probe(Hash[k], j)] = NewSlot(k, v)]
    BY <1>3 DEF SetInserts, NewSlot
  <2>2. Probe(Hash[k], j) \in Positions
    BY HashType, ProbeDist
  <2>3. k \in Keys \ LongKeys /\ v \in Values \ LongValues
    BY <1>3 DEF SetInserts, Fits
  <2>4. reply' \in Reply
    BY <1>3 DEF SetInserts, SetReturns, Reply
  <2>5. NewSlot(k, v) \in Slot
    BY DEF NewSlot, Slot, Valid
  <2> QED BY <2>1, <2>2, <2>3, <2>4, <2>5 DEF TypeOK, NewSlot
<1>4. ASSUME NEW k \in Keys, GetHits(k)
      PROVE  TypeOK'
  <2>1. PICK i \in Positions :
          reply' = [op |-> "get", key |-> k, ret |-> TRUE,
                    value |-> ProbedSlot(slots, k, i).value]
    BY <1>4 DEF GetHits
  <2>2. ProbedSlot(slots, k, i) \in Slot
    BY HashType, ProbeDist DEF ProbedSlot, TypeOK
  <2>3. reply' \in Reply /\ slots' = slots
    BY <1>4, <2>1, <2>2 DEF GetHits, Reply, Slot
  <2> QED BY <2>3 DEF TypeOK
<1>5. ASSUME NEW k \in Keys, GetMisses(k) \/ EraseMisses(k)
      PROVE  TypeOK'
  <2>1. reply' \in Reply /\ slots' = slots
    <3>1. CASE GetMisses(k)
      BY <3>1 DEF GetMisses, Reply
    <3>2. CASE EraseMisses(k)
      BY <3>2 DEF EraseMisses, Reply
    <3> QED BY <1>5, <3>1, <3>2
  <2> QED BY <2>1 DEF TypeOK
<1>6. ASSUME NEW k \in Keys, EraseHits(k)
      PROVE  TypeOK'
  <2>1. PICK i \in Positions :
          /\ FoundAt(slots, k, i)
          /\ slots' = [slots EXCEPT ![Probe(Hash[k], i)].occupied = Tombstone]
    BY <1>6 DEF EraseHits
  <2>2. Probe(Hash[k], i) \in Positions
    BY HashType, ProbeDist
  <2>3. slots[Probe(Hash[k], i)].occupied # Empty
    BY <2>1 DEF FoundAt, Holds, ProbedSlot, Valid, Empty
  <2>4. reply' \in Reply
    BY <1>6 DEF EraseHits, Reply
  <2> QED BY <2>1, <2>2, <2>3, <2>4 DEF TypeOK, Slot
<1>7. CASE UNCHANGED vars
  BY <1>7 DEF TypeOK, vars
<1> QED BY <1>1, <1>2, <1>3, <1>4, <1>5, <1>6, <1>7 DEF Next, Set, Get, Erase

\* Every reachable state of the store has the types of the layout, and no slot
\* in use ever holds a key or a value that is too long for its field.
THEOREM TypeCorrect == Spec => []TypeOK
BY InitType, StepType, PTL DEF Spec

-----------------------------------------------------------------------------
(* One lemma per outcome of an operation: the table stays well-formed and  *)
(* the step is one of CacheMap's.                                          *)

WellFormed(t) == KeysUnique(t) /\ ChainsUnbroken(t)

LEMMA RealKeys == TypeOK => HoldsRealKeys(slots)
BY DEF TypeOK, HoldsRealKeys, Empty, Valid

LEMMA SetRejectedStep ==
  ASSUME IInv, NEW k \in Keys, NEW v \in Values, SetRejected(k, v)
  PROVE  WellFormed(slots') /\ Cache!Refuse(k, v)
<1>1. slots' = slots /\ Contents(slots)' = Contents(slots)
  BY DEF SetRejected
<1> QED
  BY <1>1 DEF SetRejected, SetReturns, IInv, UniqueKeys, ProbeReachable, WellFormed,
              Cache!Refuse, Cache!Fits, Fits

LEMMA SetFullStep ==
  ASSUME IInv, NEW k \in Keys, NEW v \in Values, SetFull(k, v)
  PROVE  WellFormed(slots') /\ Cache!Refuse(k, v)
<1>1. slots' = slots /\ Contents(slots)' = Contents(slots)
  BY DEF SetFull
<1>2. Contents(slots)[k] = NoValue
  BY ExhaustionIsAbsence, ContentsAtAbsent DEF SetFull
<1> QED
  BY <1>1, <1>2 DEF SetFull, SetReturns, IInv, UniqueKeys, ProbeReachable, WellFormed,
                    Cache!Refuse

LEMMA SetOverwritesStep ==
  ASSUME IInv, NEW k \in Keys, NEW v \in Values, SetOverwrites(k, v)
  PROVE  WellFormed(slots') /\ Cache!Store(k, v)
<1>1. PICK i \in Positions : /\ FoundAt(slots, k, i)
                             /\ slots' = [slots EXCEPT ![Probe(Hash[k], i)].value = v]
  BY DEF SetOverwrites
<1> DEFINE p == Probe(Hash[k], i)
           s == [slots[p] EXCEPT !.value = v]
<1>2. p \in Positions /\ Holds(slots[p], k)
  BY <1>1, HashType, ProbeDist DEF FoundAt, ProbedSlot
<1>3. slots \in [Positions -> Slot]
  BY DEF IInv, TypeOK
<1>4. s \in Slot /\ Holds(s, k) /\ s.value = v
  BY <1>2, <1>3 DEF Slot, Holds
<1>5. ReplacedAt(slots, slots', p, s)
  BY <1>1, <1>2, <1>3 DEF ReplacedAt
<1>6. KeysUnique(slots) /\ ChainsUnbroken(slots) /\ HoldsRealKeys(slots)
  BY RealKeys DEF IInv, UniqueKeys, ProbeReachable
<1> HIDE DEF p, s
<1>7. /\ KeysUnique(slots') /\ ChainsUnbroken(slots')
      /\ Contents(slots') = [Contents(slots) EXCEPT ![k] = s.value]
  BY <1>2, <1>3, <1>4, <1>5, <1>6, OverwriteKeeps
<1> QED
  BY <1>4, <1>7 DEF SetOverwrites, SetReturns, WellFormed, Cache!Store, Cache!Fits, Fits

LEMMA SetInsertsStep ==
  ASSUME IInv, NEW k \in Keys, NEW v \in Values, SetInserts(k, v)
  PROVE  WellFormed(slots') /\ Cache!Store(k, v)
<1>1. PICK i \in Positions, j \in Positions :
        /\ EndsAt(slots, k, i)
        /\ InsertsAt(slots, k, i, j)
        /\ slots' = [slots EXCEPT ![Probe(Hash[k], j)] = NewSlot(k, v)]
  BY DEF SetInserts, NewSlot
<1>2. slots \in [Positions -> Slot] /\ KeysUnique(slots) /\ ChainsUnbroken(slots)
      /\ HoldsRealKeys(slots)
  BY RealKeys DEF IInv, TypeOK, UniqueKeys, ProbeReachable
<1>3. ~Present(slots, k)
  BY <1>1, <1>2, EndIsAbsence
<1>4. /\ ProbedSlot(slots, k, j).occupied # Valid
      /\ \A m \in 0 .. j - 1 : ProbedSlot(slots, k, m).occupied # Empty
  <2>1. j <= i
    BY <1>1 DEF InsertsAt, FirstTombstone, Positions
  <2>2. \A m \in 0 .. j - 1 : m \in 0 .. i - 1
    BY <2>1, NumSlotsAssumption DEF Positions
  <2>3. \A m \in 0 .. j - 1 : ProbedSlot(slots, k, m).occupied # Empty
    BY <2>2, <1>1 DEF EndsAt, PassesAllBefore, Passes
  <2>4. ProbedSlot(slots, k, j).occupied # Valid
    BY <1>1 DEF EndsAt, InsertsAt, FirstTombstone, Empty, Valid, Tombstone
  <2> QED BY <2>3, <2>4
<1>5. NewSlot(k, v) \in Slot /\ Holds(NewSlot(k, v), k) /\ NewSlot(k, v).value = v
  BY DEF NewSlot, Slot, Holds, Valid
<1>6. /\ KeysUnique(slots') /\ ChainsUnbroken(slots')
      /\ Contents(slots') = [Contents(slots) EXCEPT ![k] = NewSlot(k, v).value]
  <2>1. ReplacedAt(slots, slots', Probe(Hash[k], j), NewSlot(k, v))
    BY <1>1, <1>2, HashType, ProbeDist DEF ReplacedAt
  <2> QED BY <1>2, <1>3, <1>4, <1>5, <2>1, InsertKeeps
<1> QED
  BY <1>5, <1>6 DEF SetInserts, SetReturns, WellFormed, Cache!Store, Cache!Fits, Fits

LEMMA MissIsAbsence ==
  ASSUME IInv, NEW k \in Keys, Misses(slots, k)
  PROVE  Contents(slots)[k] = NoValue
BY EndIsAbsence, ExhaustionIsAbsence, ContentsAtAbsent DEF Misses, IInv, ProbeReachable

LEMMA HitIsContents ==
  ASSUME IInv, NEW k \in Keys, NEW i \in Positions, FoundAt(slots, k, i)
  PROVE  /\ Contents(slots)[k] = ProbedSlot(slots, k, i).value
         /\ Contents(slots)[k] # NoValue
<1> DEFINE p == Probe(Hash[k], i)
<1>1. p \in Positions /\ Holds(slots[p], k)
  BY HashType, ProbeDist DEF FoundAt, ProbedSlot
<1>2. KeysUnique(slots)
  BY DEF IInv, UniqueKeys
<1>3. Contents(slots)[k] = slots[p].value
  BY <1>1, <1>2, ContentsAtHolder
<1>4. slots[p].value \in Values
  BY <1>1 DEF IInv, TypeOK, Holds, Empty, Valid
<1> QED BY <1>3, <1>4, SentinelAssumption DEF ProbedSlot

LEMMA GetStep ==
  ASSUME IInv, NEW k \in Keys, Get(k)
  PROVE  WellFormed(slots') /\ Cache!Get(k)
<1>1. slots' = slots /\ Contents(slots)' = Contents(slots)
  BY DEF Get, GetHits, GetMisses
<1>2. WellFormed(slots')
  BY <1>1 DEF IInv, UniqueKeys, ProbeReachable, WellFormed
<1>3. CASE GetHits(k)
  <2>1. PICK i \in Positions :
          /\ FoundAt(slots, k, i)
          /\ reply' = [op |-> "get", key |-> k, ret |-> TRUE,
                       value |-> ProbedSlot(slots, k, i).value]
    BY <1>3 DEF GetHits
  <2> QED BY <1>1, <1>2, <2>1, HitIsContents DEF Cache!Get
<1>4. CASE GetMisses(k)
  BY <1>1, <1>2, <1>4, MissIsAbsence DEF GetMisses, Cache!Get
<1> QED BY <1>3, <1>4 DEF Get

LEMMA EraseHitsStep ==
  ASSUME IInv, NEW k \in Keys, EraseHits(k)
  PROVE  WellFormed(slots') /\ Cache!Erase(k)
<1>1. PICK i \in Positions :
        /\ FoundAt(slots, k, i)
        /\ slots' = [slots EXCEPT ![Probe(Hash[k], i)].occupied = Tombstone]
  BY DEF EraseHits
<1>2. Probe(Hash[k], i) \in Positions /\ Holds(slots[Probe(Hash[k], i)], k)
  BY <1>1, HashType, ProbeDist DEF FoundAt, ProbedSlot
<1>3. slots \in [Positions -> Slot] /\ KeysUnique(slots) /\ ChainsUnbroken(slots)
      /\ HoldsRealKeys(slots)
  BY RealKeys DEF IInv, TypeOK, UniqueKeys, ProbeReachable
<1>4. /\ KeysUnique(slots') /\ ChainsUnbroken(slots')
      /\ Contents(slots') = [Contents(slots) EXCEPT ![k] = NoValue]
  BY <1>1, <1>2, <1>3, EraseKeeps
<1>5. Contents(slots)[k] # NoValue
  BY <1>1, HitIsContents
<1> QED BY <1>4, <1>5 DEF EraseHits, WellFormed, Cache!Erase

LEMMA EraseMissesStep ==
  ASSUME IInv, NEW k \in Keys, EraseMisses(k)
  PROVE  WellFormed(slots') /\ Cache!Erase(k)
<1>1. slots' = slots /\ Contents(slots)' = Contents(slots)
  BY DEF EraseMisses
<1>2. Contents(slots)[k] = NoValue
  BY MissIsAbsence DEF EraseMisses
<1>3. [Contents(slots) EXCEPT ![k] = NoValue] = Contents(slots)
  BY <1>2 DEF Contents
<1> QED
  BY <1>1, <1>2, <1>3 DEF EraseMisses, IInv, UniqueKeys, ProbeReachable, WellFormed,
                          Cache!Erase

-----------------------------------------------------------------------------
(* The theorems.                                                           *)

\* The empty table is well-formed and stands for the empty map.
LEMMA InitStep == Init => IInv /\ Cache!Init
<1> SUFFICES ASSUME Init PROVE IInv /\ Cache!Init
  OBVIOUS
<1>1. \A p \in Positions : slots[p].occupied # Valid
  BY DEF Init, EmptyTable, EmptySlot, Empty, Valid
<1>2. KeysUnique(slots) /\ ChainsUnbroken(slots)
  BY <1>1 DEF KeysUnique, ChainsUnbroken
<1>3. Contents(slots) = [k \in Keys |-> NoValue]
  BY <1>1 DEF Contents, Present, Holds
<1> QED BY <1>2, <1>3, InitType DEF Init, IInv, UniqueKeys, ProbeReachable, Cache!Init

\* One step keeps the invariant and is a step of CacheMap or leaves it alone.
LEMMA NextStep == IInv /\ [Next]_vars => IInv' /\ [Cache!Next]_(Cache!vars)
<1> SUFFICES ASSUME IInv, [Next]_vars
             PROVE  WellFormed(slots') /\ [Cache!Next]_(Cache!vars)
  BY StepType DEF IInv, UniqueKeys, ProbeReachable, WellFormed
<1>1. ASSUME NEW k \in Keys, NEW v \in Values, Set(k, v)
      PROVE  WellFormed(slots') /\ Cache!Next
  BY <1>1, SetRejectedStep, SetFullStep, SetOverwritesStep, SetInsertsStep
     DEF Set, Cache!Next
<1>2. ASSUME NEW k \in Keys, Get(k)
      PROVE  WellFormed(slots') /\ Cache!Next
  BY <1>2, GetStep DEF Cache!Next
<1>3. ASSUME NEW k \in Keys, Erase(k)
      PROVE  WellFormed(slots') /\ Cache!Next
  BY <1>3, EraseHitsStep, EraseMissesStep DEF Erase, Cache!Next
<1>4. CASE UNCHANGED vars
  <2>1. UNCHANGED Cache!vars
    BY <1>4 DEF vars, Cache!vars
  <2>2. WellFormed(slots')
    BY <1>4 DEF vars, IInv, UniqueKeys, ProbeReachable, WellFormed
  <2> QED BY <2>1, <2>2
<1> QED BY <1>1, <1>2, <1>3, <1>4 DEF Next

LEMMA InvariantHolds == Spec => []IInv
BY InitStep, NextStep, PTL DEF Spec

\* No sequence of set, get and erase stores a key in two slots.
THEOREM KeysStayUnique == Spec => []UniqueKeys
<1>1. IInv => UniqueKeys
  BY DEF IInv
<1> QED BY <1>1, InvariantHolds, PTL

\* Every stored key stays reachable from its hash position.
THEOREM ChainsStayUnbroken == Spec => []ProbeReachable
<1>1. IInv => ProbeReachable
  BY DEF IInv
<1> QED BY <1>1, InvariantHolds, PTL

\* The hash table implements the map: each call changes the contents, and
\* answers, as CacheMap does.
THEOREM ImplementsCacheMap == Spec => RefinesCacheMap
<1>1. Init => IInv /\ Cache!Init
  BY InitStep
<1>2. IInv /\ [Next]_vars => IInv' /\ [Cache!Next]_(Cache!vars)
  BY NextStep
<1> QED BY <1>1, <1>2, PTL DEF Spec, Cache!Spec, RefinesCacheMap

\* No call ever turns a used slot, or a tombstone, back into an empty slot.
THEOREM SlotsStayUsed == Spec => SlotsNeverEmptied
<1> DEFINE Kept == \A p \in Positions : slots[p].occupied # Empty => slots'[p].occupied # Empty
<1>1. ASSUME TypeOK, [Next]_vars
      PROVE  [Kept]_vars
  <2> SUFFICES ASSUME NEW p \in Positions, slots[p].occupied # Empty
               PROVE  slots'[p].occupied # Empty
    OBVIOUS
  <2>1. slots \in [Positions -> Slot]
    BY <1>1 DEF TypeOK
  <2>2. ASSUME NEW k \in Keys, NEW v \in Values, SetOverwrites(k, v)
        PROVE  slots'[p].occupied # Empty
    BY <2>1, <2>2 DEF SetOverwrites, Slot
  <2>3. ASSUME NEW k \in Keys, NEW v \in Values, SetInserts(k, v)
        PROVE  slots'[p].occupied # Empty
    BY <2>1, <2>3 DEF SetInserts, Valid, Empty
  <2>4. ASSUME NEW k \in Keys, EraseHits(k)
        PROVE  slots'[p].occupied # Empty
    BY <2>1, <2>4 DEF EraseHits, Slot, Tombstone, Empty
  <2>5. CASE slots' = slots
    BY <2>5
  <2> QED
    BY <1>1, <2>2, <2>3, <2>4, <2>5
       DEF Next, Set, Get, Erase, SetRejected, SetFull, GetHits, GetMisses, EraseMisses, vars
<1> QED BY <1>1, TypeCorrect, PTL DEF Spec, SlotsNeverEmptied

\* A search that gave up has looked at every slot and met no empty one.
LEMMA ExhaustionSeesAll ==
  ASSUME NEW k \in Keys, Exhausted(slots, k), NEW p \in Positions
  PROVE  slots[p].occupied # Empty
<1> DEFINE d == Dist(Hash[k], p)
<1>1. d \in 0 .. NumSlots - 1 /\ Probe(Hash[k], d) = p
  BY HashType, ProbeDist DEF Positions
<1>2. Passes(slots, k, d)
  BY <1>1 DEF Exhausted, PassesAllBefore
<1> QED BY <1>1, <1>2 DEF Passes, ProbedSlot

\* A set that fits its fields is refused only when the table has no empty slot.
THEOREM RefusalsMeanUsedUp == Spec => RefusedOnlyWhenUsedUp
<1> DEFINE Refused == reply'.op = "set" /\ reply'.ret = FALSE /\ Fits(reply'.key, reply'.value)
           UsedUp == \A p \in Positions : slots[p].occupied # Empty
<1>1. ASSUME [Next]_vars
      PROVE  [Refused => UsedUp]_vars
  <2> SUFFICES ASSUME Next, Refused
               PROVE  UsedUp
    BY <1>1
  <2>1. ASSUME NEW k \in Keys, NEW v \in Values, Set(k, v)
        PROVE  UsedUp
    <3>1. CASE SetRejected(k, v)
      BY <3>1 DEF SetRejected, SetReturns
    <3>2. CASE SetOverwrites(k, v)
      BY <3>2 DEF SetOverwrites, SetReturns
    <3>3. CASE SetInserts(k, v)
      BY <3>3 DEF SetInserts, SetReturns
    <3>4. CASE SetFull(k, v)
      BY <3>4, ExhaustionSeesAll DEF SetFull
    <3> QED BY <2>1, <3>1, <3>2, <3>3, <3>4 DEF Set
  <2>2. ASSUME NEW k \in Keys, Get(k) \/ Erase(k)
        PROVE  FALSE
    BY <2>2 DEF Get, GetHits, GetMisses, Erase, EraseHits, EraseMisses
  <2> QED BY <2>1, <2>2 DEF Next
<1> QED BY <1>1, PTL DEF Spec, RefusedOnlyWhenUsedUp

-----------------------------------------------------------------------------
(* The table that remote clients find.                                     *)

\* What only remote clients change, and the value of a slot that was never used.
Untouched(t) ==
  \A p \in Positions : /\ t[p].access_count = 0
                       /\ t[p].occupied = Empty => t[p].value = NoValue

\* No call of the server increments a counter, and none empties a slot.
LEMMA UntouchedStep == IInv /\ Untouched(slots) /\ [Next]_vars => Untouched(slots')
<1> SUFFICES ASSUME IInv, Untouched(slots), [Next]_vars, NEW p \in Positions
             PROVE  /\ slots'[p].access_count = 0
                    /\ slots'[p].occupied = Empty => slots'[p].value = NoValue
  BY DEF Untouched
<1>1. /\ slots \in [Positions -> Slot] /\ slots[p].access_count = 0
      /\ slots[p].occupied = Empty => slots[p].value = NoValue
  BY DEF IInv, TypeOK, Untouched
<1>2. ASSUME NEW k \in Keys, NEW v \in Values, SetOverwrites(k, v)
      PROVE  /\ slots'[p].access_count = 0
             /\ slots'[p].occupied = Empty => slots'[p].value = NoValue
  <2>1. PICK i \in Positions : /\ FoundAt(slots, k, i)
                               /\ slots' = [slots EXCEPT ![Probe(Hash[k], i)].value = v]
    BY <1>2 DEF SetOverwrites
  <2>2. slots[Probe(Hash[k], i)].occupied # Empty
    BY <2>1 DEF FoundAt, Holds, ProbedSlot, Valid, Empty
  <2> QED BY <1>1, <2>1, <2>2 DEF Slot
<1>3. ASSUME NEW k \in Keys, NEW v \in Values, SetInserts(k, v)
      PROVE  /\ slots'[p].access_count = 0
             /\ slots'[p].occupied = Empty => slots'[p].value = NoValue
  <2>1. PICK j \in Positions : slots' = [slots EXCEPT ![Probe(Hash[k], j)] = NewSlot(k, v)]
    BY <1>3 DEF SetInserts, NewSlot
  <2>2. NewSlot(k, v).access_count = 0 /\ NewSlot(k, v).occupied # Empty
    BY DEF NewSlot, Valid, Empty
  <2> QED BY <1>1, <2>1, <2>2
<1>4. ASSUME NEW k \in Keys, EraseHits(k)
      PROVE  /\ slots'[p].access_count = 0
             /\ slots'[p].occupied = Empty => slots'[p].value = NoValue
  BY <1>1, <1>4 DEF EraseHits, Slot, Tombstone, Empty
<1>5. CASE slots' = slots
  BY <1>1, <1>5
<1> QED
  BY <1>2, <1>3, <1>4, <1>5
     DEF Next, Set, Get, Erase, SetRejected, SetFull, GetHits, GetMisses, EraseMisses, vars

\* Whatever calls the server makes before its clients connect, they find a table
\* such as OneSided starts from: TablesAssumption is what RdmaStore guarantees.
THEOREM LeavesServerTables == Spec => []ServerTable(slots)
<1>1. Init => IInv /\ Untouched(slots)
  BY InitStep DEF Init, Untouched, EmptyTable, EmptySlot
<1>2. IInv /\ Untouched(slots) /\ [Next]_vars => IInv' /\ Untouched(slots')
  BY NextStep, UntouchedStep
<1>3. IInv /\ Untouched(slots) => ServerTable(slots)
  <2> SUFFICES ASSUME IInv, Untouched(slots), NEW p \in Positions
               PROVE  slots[p].value \notin LongValues
    BY DEF IInv, TypeOK, UniqueKeys, ProbeReachable, Untouched, ServerTable
  <2>1. CASE slots[p].occupied = Empty
    BY <2>1, SentinelAssumption DEF Untouched
  <2>2. CASE slots[p].occupied # Empty
    BY <2>2 DEF IInv, TypeOK
  <2> QED BY <2>1, <2>2
<1> DEFINE J == IInv /\ Untouched(slots)
<1>4. J /\ [Next]_vars => J'
  BY <1>2
<1> QED BY <1>1, <1>3, <1>4, PTL DEF Spec
=============================================================================
