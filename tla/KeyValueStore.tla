--------------------------- MODULE KeyValueStore ----------------------------
(***************************************************************************)
(* KeyValueStore: an unordered_map and a mutex, called by the threads of   *)
(* the two-sided server (and by the one thread of the TCP server).         *)
(*                                                                         *)
(* A method locks the mutex, searches the map, acts on what it found, and  *)
(* unlocks as it returns.  The steps of different threads interleave; only *)
(* the mutex keeps what a search found true until it is acted upon.        *)
(***************************************************************************)
EXTENDS Integers, FiniteSets

CONSTANTS Threads, Keys, Values,
          NoValue,     \* std::nullopt
          NoThread     \* the mutex is free

ASSUME StoreAssumption ==
  /\ IsFiniteSet(Keys)
  /\ NoValue \notin Values /\ NoValue \notin Keys
  /\ NoThread \notin Threads

VARIABLES entries,   \* entries_: the value of each key, NoValue without a node
          count,     \* the number of nodes, which the map keeps for size()
          mutex,     \* the thread that holds mutex_, NoThread when it is free
          frame      \* where each thread is: [pc, do, it, ret]

vars == <<entries, count, mutex, frame>>

\* The calls of the four methods.
Ops == [op : {"set"}, key : Keys, value : Values]
         \cup [op : {"get", "erase"}, key : Keys, value : {NoValue}]
         \cup [op : {"size"}, key : {NoValue}, value : {NoValue}]

NoOp == [op |-> "none", key |-> NoValue, value |-> NoValue]

\* do is the call; it is whether the search found a node; ret is what it returns.
Outside == [pc |-> "outside", do |-> NoOp, it |-> FALSE, ret |-> NoValue]

Init ==
  /\ entries = [k \in Keys |-> NoValue] /\ count = 0
  /\ mutex = NoThread
  /\ frame = [t \in Threads |-> Outside]

Do(t)    == frame[t].do
At(t, pc) == frame[t].pc = pc

\* A thread calls a method, and has to wait for the mutex.
Calls(t, o) ==
  /\ At(t, "outside")
  /\ frame' = [frame EXCEPT ![t].pc = "locking", ![t].do = o]
  /\ UNCHANGED <<entries, count, mutex>>

\* Fault: there is no lock_guard.
LocksNothing(t) ==
  /\ At(t, "locking")
  /\ frame' = [frame EXCEPT ![t].pc = "searching"]
  /\ UNCHANGED <<entries, count, mutex>>

\* The lock_guard of every method.
Locks(t) ==
  /\ At(t, "locking") /\ mutex = NoThread
  /\ mutex' = t
  /\ frame' = [frame EXCEPT ![t].pc = "searching"]
  /\ UNCHANGED <<entries, count>>

\* find, and the searches inside insert_or_assign and erase.  size() has none.
Searches(t) ==
  /\ At(t, "searching")
  /\ frame' = [frame EXCEPT ![t].pc = "acting",
                            ![t].it = Do(t).op # "size" /\ entries[Do(t).key] # NoValue]
  /\ UNCHANGED <<entries, count, mutex>>

\* The method has its result (1 and 0 for true and false), and still the mutex.
Has(t, ret) == frame' = [frame EXCEPT ![t].pc = "returning", ![t].ret = ret]

\* insert_or_assign, where the search ended at a node: its value is replaced.
Assigns(t) ==
  /\ At(t, "acting") /\ Do(t).op = "set" /\ frame[t].it
  /\ entries' = [entries EXCEPT ![Do(t).key] = Do(t).value]
  /\ Has(t, 0)
  /\ UNCHANGED <<count, mutex>>

\* insert_or_assign, where it did not: a node is linked in.
Inserts(t) ==
  /\ At(t, "acting") /\ Do(t).op = "set" /\ ~frame[t].it
  /\ entries' = [entries EXCEPT ![Do(t).key] = Do(t).value]
  /\ count' = count + 1
  /\ Has(t, 1)
  /\ UNCHANGED mutex

\* Fault: get waits for a missing key, with the mutex.
CopiesOnceThere(t) ==
  /\ At(t, "acting") /\ Do(t).op = "get"
  /\ IF frame[t].it THEN Has(t, entries[Do(t).key])
                    ELSE frame' = [frame EXCEPT ![t].pc = "searching"]
  /\ UNCHANGED <<entries, count, mutex>>

\* get: a copy of the value, or nullopt.
Copies(t) ==
  /\ At(t, "acting") /\ Do(t).op = "get"
  /\ Has(t, IF frame[t].it THEN entries[Do(t).key] ELSE NoValue)
  /\ UNCHANGED <<entries, count, mutex>>

\* erase, where the search ended at a node: it is unlinked.
Unlinks(t) ==
  /\ At(t, "acting") /\ Do(t).op = "erase" /\ frame[t].it
  /\ entries' = [entries EXCEPT ![Do(t).key] = NoValue]
  /\ count' = count - 1
  /\ Has(t, 1)
  /\ UNCHANGED mutex

ErasesNothing(t) ==
  /\ At(t, "acting") /\ Do(t).op = "erase" /\ ~frame[t].it
  /\ Has(t, 0)
  /\ UNCHANGED <<entries, count, mutex>>

Sizes(t) ==
  /\ At(t, "acting") /\ Do(t).op = "size"
  /\ Has(t, count)
  /\ UNCHANGED <<entries, count, mutex>>

\* Leaving the scope unlocks, whichever return statement is taken.
Unlocks(t) ==
  /\ At(t, "returning")
  /\ mutex' = NoThread
  /\ frame' = [frame EXCEPT ![t] = Outside]
  /\ UNCHANGED <<entries, count>>

-----------------------------------------------------------------------------
\* The steps of a call that was begun.
Runs(t) ==
  \/ Locks(t) \/ Searches(t)
  \/ Assigns(t) \/ Inserts(t) \/ Copies(t) \/ Unlinks(t) \/ ErasesNothing(t) \/ Sizes(t)
  \/ Unlocks(t)

Next == \E t \in Threads : (\E o \in Ops : Calls(t, o)) \/ Runs(t)

Spec == Init /\ [][Next]_vars

\* Threads that have begun a call run.  The mutex owes no thread its turn.
FairSpec == Spec /\ \A t \in Threads : WF_vars(Runs(t))

-----------------------------------------------------------------------------
(* Properties                                                              *)

Frame == [pc : {"outside", "locking", "searching", "acting", "returning"},
          do : Ops \cup {NoOp}, it : BOOLEAN, ret : Values \cup {NoValue} \cup Int]

TypeOK ==
  /\ entries \in [Keys -> Values \cup {NoValue}]
  /\ count \in Int
  /\ mutex \in Threads \cup {NoThread}
  /\ frame \in [Threads -> Frame]

\* The node count that size() returns is the number of keys in the map, whenever
\* it can be read: no insertion is counted twice, no removal forgotten, however
\* sets and erases of one key race.
SizeIsExact == count = Cardinality({k \in Keys : entries[k] # NoValue})

\* What a caller can tell of a thread's call.
PhaseOf(t) == CASE At(t, "outside") -> "idle"
                [] At(t, "returning") -> "done"
                [] OTHER -> "called"

CallOf(t) == [phase |-> PhaseOf(t), do |-> Do(t), ret |-> frame[t].ret]

Abstract == INSTANCE LockedMap WITH kv <- entries, call <- [t \in Threads |-> CallOf(t)]

\* Concurrent calls take effect one after another, each between its beginning
\* and its return, and return what a map would: no two sets of a key both insert
\* it, no get returns what an erase has removed, no size counts half a change.
Linearizable == Abstract!Spec

\* Whenever some thread waits for the mutex, some call gets through: no path
\* through a method leaves the mutex locked.
CallsGetThrough ==
  \A t \in Threads : At(t, "locking") ~> \E u \in Threads : At(u, "returning")
=============================================================================
