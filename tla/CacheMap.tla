------------------------------ MODULE CacheMap ------------------------------
(***************************************************************************)
(* What a store of this project promises its callers, whatever its layout: *)
(* a map from keys to values.  RdmaStore is shown to implement it.         *)
(*                                                                         *)
(* `reply` is what the caller of the last operation observed.              *)
(***************************************************************************)
CONSTANTS Keys, Values,
          LongKeys, LongValues,  \* the keys and values too long to be stored
          NoValue                \* what a lookup of a missing key yields

VARIABLES kv,     \* the value of each key, NoValue when it is missing
          reply   \* the last operation: [op, key, value, ret]

vars == <<kv, reply>>

\* A key and a value within the limits of the layout.
Fits(k, v) == k \notin LongKeys /\ v \notin LongValues

Init == /\ kv = [k \in Keys |-> NoValue]
        /\ reply = [op |-> "none", key |-> NoValue, value |-> NoValue, ret |-> FALSE]

\* An accepted set changes this key, to this value, and no other.
Store(k, v) ==
  /\ Fits(k, v)
  /\ kv' = [kv EXCEPT ![k] = v]
  /\ reply' = [op |-> "set", key |-> k, value |-> v, ret |-> TRUE]

\* A refused set changes nothing.  Only what does not fit, or a key that is
\* not there yet (no room for it), may be refused: overwriting always succeeds.
Refuse(k, v) ==
  /\ ~Fits(k, v) \/ kv[k] = NoValue
  /\ kv' = kv
  /\ reply' = [op |-> "set", key |-> k, value |-> v, ret |-> FALSE]

Get(k) ==
  /\ kv' = kv
  /\ reply' = [op |-> "get", key |-> k, value |-> kv[k], ret |-> kv[k] # NoValue]

Erase(k) ==
  /\ kv' = [kv EXCEPT ![k] = NoValue]
  /\ reply' = [op |-> "erase", key |-> k, value |-> NoValue, ret |-> kv[k] # NoValue]

Next == \E k \in Keys :
          \/ \E v \in Values : Store(k, v) \/ Refuse(k, v)
          \/ Get(k)
          \/ Erase(k)

Spec == Init /\ [][Next]_vars
=============================================================================
