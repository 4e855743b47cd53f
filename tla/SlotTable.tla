----------------------------- MODULE SlotTable ------------------------------
(***************************************************************************)
(* The remotely readable hash table as a piece of memory: the slot layout, *)
(* the hash and the probe arithmetic that the server (rdma_store.cpp) and  *)
(* the one-sided client (rdma_client.cpp) must agree on, since a client    *)
(* finds a key by computing addresses and not by asking the server.        *)
(*                                                                         *)
(* Open addressing with linear probing: a key hashed to h lives in the     *)
(* first suitable slot of h, h+1, h+2, ... (modulo the number of slots).   *)
(***************************************************************************)
EXTENDS Integers

CONSTANTS Keys, Values,
          LongKeys,     \* keys of RDMA_KEY_MAX bytes or more
          LongValues,   \* values of RDMA_VALUE_MAX bytes or more
          NumSlots,     \* RDMA_NUM_SLOTS
          Hash,         \* the slot index of each key (FNV-1a, masked)
          NoKey,        \* the zeroed key field
          NoValue       \* the zeroed value field, and a lookup that found nothing

ASSUME NumSlotsAssumption == NumSlots \in Nat \ {0}
ASSUME HashAssumption == Hash \in [Keys -> 0 .. NumSlots - 1]
ASSUME SentinelAssumption == NoKey \notin Keys /\ NoValue \notin Values \cup LongValues

-----------------------------------------------------------------------------
(* Layout.                                                                 *)

\* The three states of a slot's `occupied` byte.
Empty     == 0
Valid     == 1
Tombstone == 2

Positions == 0 .. NumSlots - 1

Slot == [occupied     : {Empty, Valid, Tombstone},
         access_count : Nat,
         key          : Keys \cup {NoKey},
         value        : Values \cup {NoValue}]

EmptySlot == [occupied |-> Empty, access_count |-> 0, key |-> NoKey, value |-> NoValue]

\* The constructor zeroes every slot.
EmptyTable == [p \in Positions |-> EmptySlot]

\* Fault: only the key is measured.
FitsKeyOnly(k, v) == k \notin LongKeys

\* Both sides refuse a key or a value that leaves no room for its terminator.
Fits(k, v) == k \notin LongKeys /\ v \notin LongValues

\* The key comparison of both sides, made on a valid slot only.
Holds(s, k) == s.occupied = Valid /\ s.key = k

-----------------------------------------------------------------------------
(* Probing.                                                                *)

\* The i-th position probed from h: (h + i) & (NumSlots - 1), for h and i
\* below the (power of two) number of slots.
Probe(h, i) == IF h + i < NumSlots THEN h + i ELSE h + i - NumSlots

\* How many probes after h position p is reached (the inverse of Probe).
Dist(h, p) == IF h <= p THEN p - h ELSE p - h + NumSlots

\* The i-th slot a search for k looks at in table t.
ProbedSlot(t, k, i) == t[Probe(Hash[k], i)]

\* A search for k in t walks past probe i: neither the key nor the end.
Passes(t, k, i) == /\ ProbedSlot(t, k, i).occupied # Empty
                   /\ ~Holds(ProbedSlot(t, k, i), k)

PassesAllBefore(t, k, i) == \A j \in 0 .. i - 1 : Passes(t, k, j)

\* A search for k in t stops at probe i, on the key ...
FoundAt(t, k, i) == PassesAllBefore(t, k, i) /\ Holds(ProbedSlot(t, k, i), k)

\* ... or on an empty slot ...
EndsAt(t, k, i) == /\ PassesAllBefore(t, k, i)
                   /\ ProbedSlot(t, k, i).occupied = Empty

\* ... or it goes round the whole table.
Exhausted(t, k) == PassesAllBefore(t, k, NumSlots)

\* Probe j is the first tombstone a search for k meets before probe i.
FirstTombstone(t, k, i, j) ==
  /\ j < i
  /\ ProbedSlot(t, k, j).occupied = Tombstone
  /\ \A m \in 0 .. j - 1 : ProbedSlot(t, k, m).occupied # Tombstone

-----------------------------------------------------------------------------
(* What a well-formed table is.                                            *)

\* No key is stored in two slots.
KeysUnique(t) ==
  \A p, q \in Positions :
    t[p].occupied = Valid /\ t[q].occupied = Valid /\ t[p].key = t[q].key => p = q

\* No empty slot lies between a stored key's hash position and its slot, so
\* a search for it cannot stop early.
ChainsUnbroken(t) ==
  \A p \in Positions : t[p].occupied = Valid =>
    LET h == Hash[t[p].key] IN
      \A i \in 0 .. Dist(h, p) - 1 : t[Probe(h, i)].occupied # Empty

\* The map from keys to values that a table stands for.
Present(t, k) == \E p \in Positions : Holds(t[p], k)

Contents(t) ==
  [k \in Keys |-> IF Present(t, k)
                    THEN t[CHOOSE p \in Positions : Holds(t[p], k)].value
                    ELSE NoValue]

\* What the server's own calls leave in its table: nothing too long for its field,
\* and, since only remote clients increment counters, counters at zero.
ServerTable(t) ==
  /\ t \in [Positions -> Slot] /\ KeysUnique(t) /\ ChainsUnbroken(t)
  /\ \A p \in Positions : /\ t[p].occupied # Empty => t[p].key \in Keys \ LongKeys
                          /\ t[p].value \notin LongValues
                          /\ t[p].access_count = 0
=============================================================================
