----------------------------- MODULE LockedMap ------------------------------
(***************************************************************************)
(* What KeyValueStore promises the threads that call it: "all public       *)
(* methods are safe to call concurrently".  Each call takes effect at one  *)
(* moment between its beginning and its return, as if the threads took     *)
(* turns with a map.                                                       *)
(***************************************************************************)
EXTENDS FiniteSets

CONSTANTS Threads, Keys, Values,
          NoValue      \* what a missing key has, and a method without a value takes

VARIABLES kv,    \* the value of each key, NoValue when it is missing
          call   \* the call of each thread: [phase, do, ret]

vars == <<kv, call>>

\* The calls of the four methods.
Ops == [op : {"set"}, key : Keys, value : Values]
         \cup [op : {"get", "erase"}, key : Keys, value : {NoValue}]
         \cup [op : {"size"}, key : {NoValue}, value : {NoValue}]

NoOp == [op |-> "none", key |-> NoValue, value |-> NoValue]

Missing(m, k) == m[k] = NoValue
Present(m)    == {k \in Keys : m[k] # NoValue}

Bool(b) == IF b THEN 1 ELSE 0

\* What a call returns on the map m: set and erase whether the key is new, or
\* was there; get the value; size the number of keys.
Result(m, o) ==
  CASE o.op = "set"   -> Bool(Missing(m, o.key))
    [] o.op = "get"   -> m[o.key]
    [] o.op = "erase" -> Bool(~Missing(m, o.key))
    [] o.op = "size"  -> Cardinality(Present(m))

\* The map after it.
After(m, o) ==
  CASE o.op = "set"   -> [m EXCEPT ![o.key] = o.value]
    [] o.op = "erase" -> [m EXCEPT ![o.key] = NoValue]
    [] OTHER          -> m

Idle == [phase |-> "idle", do |-> NoOp, ret |-> NoValue]

Init == kv = [k \in Keys |-> NoValue] /\ call = [t \in Threads |-> Idle]

Calls(t, o) ==
  /\ call[t].phase = "idle"
  /\ call' = [call EXCEPT ![t] = [phase |-> "called", do |-> o, ret |-> NoValue]]
  /\ kv' = kv

TakesEffect(t) ==
  /\ call[t].phase = "called"
  /\ call' = [call EXCEPT ![t] = [phase |-> "done", do |-> call[t].do,
                                  ret |-> Result(kv, call[t].do)]]
  /\ kv' = After(kv, call[t].do)

Returns(t) ==
  /\ call[t].phase = "done"
  /\ call' = [call EXCEPT ![t] = Idle]
  /\ kv' = kv

Next == \E t \in Threads : (\E o \in Ops : Calls(t, o)) \/ TakesEffect(t) \/ Returns(t)

Spec == Init /\ [][Next]_vars
=============================================================================
