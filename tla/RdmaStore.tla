----------------------------- MODULE RdmaStore ------------------------------
(***************************************************************************)
(* kvstore::RdmaStore, the server's own interface to the slot table: set,  *)
(* get and erase run one at a time, each to its end, on local memory.      *)
(*                                                                         *)
(* Every outcome of a probe loop is an action of its own; an operation is  *)
(* the disjunction of its outcomes.                                        *)
(***************************************************************************)
EXTENDS SlotTable

VARIABLES slots,   \* slots_, the registered array
          reply    \* what the last call returned: [op, key, value, ret]

vars == <<slots, reply>>

Init == /\ slots = EmptyTable
        /\ reply = [op |-> "none", key |-> NoValue, value |-> NoValue, ret |-> FALSE]

SetReturns(k, v, ok) == reply' = [op |-> "set", key |-> k, value |-> v, ret |-> ok]

-----------------------------------------------------------------------------
(* set                                                                     *)

\* Too long a key or a value: nothing is probed.
SetRejected(k, v) ==
  /\ ~Fits(k, v)
  /\ SetReturns(k, v, FALSE)
  /\ UNCHANGED slots

\* The key is there: only its value is replaced, the counter stays.
SetOverwrites(k, v) ==
  /\ Fits(k, v)
  /\ \E i \in Positions :
       /\ FoundAt(slots, k, i)
       /\ slots' = [slots EXCEPT ![Probe(Hash[k], i)].value = v]
  /\ SetReturns(k, v, TRUE)

\* Where an insertion goes when the search ended at the empty probe i: the
\* first tombstone on the way, the empty slot when there was none.
InsertsAt(t, k, i, j) ==
  \/ FirstTombstone(t, k, i, j)
  \/ /\ j = i
     /\ \A m \in 0 .. i - 1 : ProbedSlot(t, k, m).occupied # Tombstone

\* Fault: take the first free slot without searching the rest of the chain.
EagerInsert(k, v) ==
  /\ Fits(k, v)
  /\ \E j \in Positions :
       /\ \A m \in 0 .. j - 1 : ProbedSlot(slots, k, m).occupied = Valid
       /\ ProbedSlot(slots, k, j).occupied # Valid
       /\ slots' = [slots EXCEPT ![Probe(Hash[k], j)] =
                      [occupied |-> Valid, access_count |-> 0, key |-> k, value |-> v]]
  /\ SetReturns(k, v, TRUE)

\* The key is not there and the search met an empty slot.
SetInserts(k, v) ==
  /\ Fits(k, v)
  /\ \E i, j \in Positions :
       /\ EndsAt(slots, k, i)
       /\ InsertsAt(slots, k, i, j)
       /\ slots' = [slots EXCEPT ![Probe(Hash[k], j)] =
                      [occupied |-> Valid, access_count |-> 0, key |-> k, value |-> v]]
  /\ SetReturns(k, v, TRUE)

\* Fault: one probe too few before giving up.
SetGivesUpEarly(k, v) ==
  /\ Fits(k, v)
  /\ PassesAllBefore(slots, k, NumSlots - 1)
  /\ SetReturns(k, v, FALSE)
  /\ UNCHANGED slots

\* The search went round the table and met neither the key nor an empty slot.
\* The tombstones it passed are not used.
SetFull(k, v) ==
  /\ Fits(k, v)
  /\ Exhausted(slots, k)
  /\ SetReturns(k, v, FALSE)
  /\ UNCHANGED slots

Set(k, v) == \/ SetRejected(k, v)
             \/ SetOverwrites(k, v)
             \/ SetInserts(k, v)
             \/ SetFull(k, v)

-----------------------------------------------------------------------------
(* get and erase                                                           *)

\* Fault: give up at a tombstone as if it were an empty slot.
MissesAtTombstone(t, k) ==
  \E i \in Positions : /\ PassesAllBefore(t, k, i)
                       /\ ProbedSlot(t, k, i).occupied # Valid

\* A lookup that found nothing: an empty slot ended it, or the table did.
Misses(t, k) == \/ \E i \in Positions : EndsAt(t, k, i)
                \/ Exhausted(t, k)

GetHits(k) ==
  /\ \E i \in Positions :
       /\ FoundAt(slots, k, i)
       /\ reply' = [op |-> "get", key |-> k, ret |-> TRUE,
                    value |-> ProbedSlot(slots, k, i).value]
  /\ UNCHANGED slots

GetMisses(k) ==
  /\ Misses(slots, k)
  /\ reply' = [op |-> "get", key |-> k, ret |-> FALSE, value |-> NoValue]
  /\ UNCHANGED slots

Get(k) == GetHits(k) \/ GetMisses(k)

\* Fault: free the slot outright.
EraseFrees(k) ==
  /\ \E i \in Positions :
       /\ FoundAt(slots, k, i)
       /\ slots' = [slots EXCEPT ![Probe(Hash[k], i)].occupied = Empty]
  /\ reply' = [op |-> "erase", key |-> k, value |-> NoValue, ret |-> TRUE]

\* The slot becomes a tombstone; its key, value and counter stay in memory.
EraseHits(k) ==
  /\ \E i \in Positions :
       /\ FoundAt(slots, k, i)
       /\ slots' = [slots EXCEPT ![Probe(Hash[k], i)].occupied = Tombstone]
  /\ reply' = [op |-> "erase", key |-> k, value |-> NoValue, ret |-> TRUE]

EraseMisses(k) ==
  /\ Misses(slots, k)
  /\ reply' = [op |-> "erase", key |-> k, value |-> NoValue, ret |-> FALSE]
  /\ UNCHANGED slots

Erase(k) == EraseHits(k) \/ EraseMisses(k)

-----------------------------------------------------------------------------
Next == \E k \in Keys :
          \/ \E v \in Values : Set(k, v)
          \/ Get(k)
          \/ Erase(k)

Spec == Init /\ [][Next]_vars

-----------------------------------------------------------------------------
(* Properties                                                              *)

Reply == [op : {"none", "get", "set", "erase"}, key : Keys \cup {NoValue},
          value : Values \cup {NoValue}, ret : BOOLEAN]

\* Types, and the layout's limits: a slot in use holds a real key and a real
\* value, and neither is too long for its field (RDMA_KEY_MAX, RDMA_VALUE_MAX).
TypeOK ==
  /\ slots \in [Positions -> Slot]
  /\ \A p \in Positions : slots[p].occupied # Empty =>
        slots[p].key \in Keys \ LongKeys /\ slots[p].value \in Values \ LongValues
  /\ reply \in Reply

\* No sequence of calls stores a key twice, although an insertion may land in
\* a tombstone far before the slot where the search for the key ended.
UniqueKeys == KeysUnique(slots)

\* Every stored key can be reached from its hash position without meeting an
\* empty slot: what lets get, erase and a remote reader stop at one.
ProbeReachable == ChainsUnbroken(slots)

\* Nothing ever empties a slot again: erase leaves a tombstone.  A one-sided
\* reader in the middle of a chain relies on it.
SlotsNeverEmptied ==
  [][\A p \in Positions : slots[p].occupied # Empty => slots'[p].occupied # Empty]_vars

\* A set that fits its fields is refused only when no slot of the whole table
\* is empty any more: however many keys collide, and wherever in the table they
\* hash to, the first NumSlots keys find room.  The preloading of the server,
\* which ignores what set returns, loses no key until then.
RefusedOnlyWhenUsedUp ==
  [][reply'.op = "set" /\ reply'.ret = FALSE /\ Fits(reply'.key, reply'.value) =>
       \A p \in Positions : slots[p].occupied # Empty]_vars

\* The table implements the map of CacheMap: every call changes the contents
\* and answers as the map does, for its own key and for all the others.
Cache == INSTANCE CacheMap WITH kv <- Contents(slots)
RefinesCacheMap == Cache!Spec

\* The documented contract of set: "false if the key/value is too large or the
\* table has no available slot", where a slot not holding a key is available
\* (the code's comment calls it "reusable tombstone slot").
RefusedOnlyWithoutRoom ==
  reply.op = "set" /\ reply.ret = FALSE /\ Fits(reply.key, reply.value) =>
    \A p \in Positions : slots[p].occupied = Valid
=============================================================================
