------------------------ MODULE KeyValueStoreProofs -------------------------
(***************************************************************************)
(* KeyValueStore: the mutex makes every method atomic, for every number of *)
(* threads, keys and values.                                               *)
(*                                                                         *)
(* Neither SizeIsExact nor the refinement is inductive: that an insertion  *)
(* adds a key needs that the search which found none is still true.  It is *)
(* (SearchStillTrue) because only the thread that holds the mutex is past  *)
(* its lock_guard (OneInside).                                             *)
(***************************************************************************)
EXTENDS KeyValueStore, FiniteSetTheorems, TLAPS

Inside == {"searching", "acting", "returning"}

\* Who is past the lock_guard holds the mutex.
OneInside == \A t \in Threads : frame[t].pc \in Inside <=> mutex = t

Found(t) == Do(t).op # "size" /\ entries[Do(t).key] # NoValue

\* What the search found is so when it is acted upon.
SearchStillTrue == \A t \in Threads : At(t, "acting") => (frame[t].it <=> Found(t))

\* A thread outside has no call, and one in a call has one and no result yet.
FramesInOrder ==
  \A t \in Threads : /\ At(t, "outside") => frame[t] = Outside
                     /\ ~At(t, "outside") => Do(t) \in Ops
                     /\ ~At(t, "returning") => frame[t].ret = NoValue

IInv == TypeOK /\ OneInside /\ SearchStillTrue /\ FramesInOrder /\ SizeIsExact

-----------------------------------------------------------------------------
(* Calls and sizes.                                                        *)

LEMMA OpsShape ==
  ASSUME NEW o \in Ops
  PROVE  /\ o.op \in {"set", "get", "erase", "size"}
         /\ o.op # "size" => o.key \in Keys
         /\ o.op = "set" => o.value \in Values
BY DEF Ops

PresentIn(m) == {k \in Keys : m[k] # NoValue}

LEMMA PresentIsFinite ==
  ASSUME NEW m
  PROVE  IsFiniteSet(PresentIn(m)) /\ Cardinality(PresentIn(m)) \in Nat
<1>1. IsFiniteSet(PresentIn(m))
  BY StoreAssumption, FS_Subset DEF PresentIn
<1> QED BY <1>1, FS_CardinalityType

\* A key that gets its first value makes the map larger by one ...
LEMMA SizeAfterInsert ==
  ASSUME NEW m \in [Keys -> Values \cup {NoValue}], NEW k \in Keys, NEW v \in Values,
         m[k] = NoValue
  PROVE  Cardinality(PresentIn([m EXCEPT ![k] = v])) = Cardinality(PresentIn(m)) + 1
<1>1. PresentIn([m EXCEPT ![k] = v]) = PresentIn(m) \cup {k}
  BY StoreAssumption DEF PresentIn
<1>2. k \notin PresentIn(m)
  BY DEF PresentIn
<1> QED BY <1>1, <1>2, PresentIsFinite, FS_AddElement

\* ... another value leaves its size alone ...
LEMMA SizeAfterAssign ==
  ASSUME NEW m \in [Keys -> Values \cup {NoValue}], NEW k \in Keys, NEW v \in Values,
         m[k] # NoValue
  PROVE  PresentIn([m EXCEPT ![k] = v]) = PresentIn(m)
BY StoreAssumption DEF PresentIn

\* ... and losing its value makes it smaller by one.
LEMMA SizeAfterErase ==
  ASSUME NEW m \in [Keys -> Values \cup {NoValue}], NEW k \in Keys,
         m[k] # NoValue
  PROVE  Cardinality(PresentIn([m EXCEPT ![k] = NoValue])) = Cardinality(PresentIn(m)) - 1
<1>1. PresentIn([m EXCEPT ![k] = NoValue]) = PresentIn(m) \ {k}
  BY DEF PresentIn
<1>2. k \in PresentIn(m)
  BY DEF PresentIn
<1> QED BY <1>1, <1>2, PresentIsFinite, FS_RemoveElement

-----------------------------------------------------------------------------
(* The inductive invariant.                                                *)

LEMMA InitInv == Init => IInv
<1> SUFFICES ASSUME Init PROVE IInv
  OBVIOUS
<1>1. TypeOK
  BY DEF Init, TypeOK, Outside, Frame, NoOp
<1>2. OneInside /\ SearchStillTrue /\ FramesInOrder
  BY StoreAssumption DEF Init, OneInside, Inside, SearchStillTrue, FramesInOrder, At, Do, Outside
<1>3. {k \in Keys : entries[k] # NoValue} = {}
  BY DEF Init
<1>4. SizeIsExact
  BY <1>3, FS_EmptySet DEF Init, SizeIsExact
<1> QED BY <1>1, <1>2, <1>4 DEF IInv

\* The steps that end a call have this much in common.
LEMMA ActsShape ==
  ASSUME NEW t \in Threads,
         \/ Assigns(t) \/ Inserts(t) \/ Copies(t) \/ Unlinks(t) \/ ErasesNothing(t)
         \/ Sizes(t)
  PROVE  /\ \E ret : frame' = [frame EXCEPT ![t].pc = "returning", ![t].ret = ret]
         /\ frame[t].pc = "acting" /\ mutex' = mutex
BY DEF Assigns, Inserts, Copies, Unlinks, ErasesNothing, Sizes, Has, At

LEMMA ReturningType ==
  ASSUME NEW f \in Frame, NEW ret \in Values \cup {NoValue} \cup Int
  PROVE  [f EXCEPT !.pc = "returning", !.ret = ret] \in Frame
BY DEF Frame

LEMMA StepType == TypeOK /\ FramesInOrder /\ [Next]_vars => TypeOK'
<1> SUFFICES ASSUME TypeOK, FramesInOrder, [Next]_vars PROVE TypeOK'
  OBVIOUS
<1> USE DEF TypeOK, Do, At
<1>1. ASSUME NEW t \in Threads, NEW o \in Ops, Calls(t, o) PROVE TypeOK'
  BY <1>1 DEF Calls, Frame
<1>2. ASSUME NEW t \in Threads, Locks(t) PROVE TypeOK'
  BY <1>2 DEF Locks, Frame
<1>3. ASSUME NEW t \in Threads, Searches(t) PROVE TypeOK'
  <2> DEFINE b == Do(t).op # "size" /\ entries[Do(t).key] # NoValue
  <2>1. b \in BOOLEAN
    OBVIOUS
  <2>2. frame' = [frame EXCEPT ![t] = [frame[t] EXCEPT !.pc = "acting", !.it = b]]
    BY <1>3 DEF Searches
  <2> HIDE DEF b
  <2>3. frame' \in [Threads -> Frame]
    BY <2>1, <2>2 DEF Frame
  <2> QED BY <2>3, <1>3 DEF Searches
<1>4. ASSUME NEW t \in Threads, Assigns(t) \/ Inserts(t) PROVE TypeOK'
  <2>1. Do(t).key \in Keys /\ Do(t).value \in Values
    BY <1>4, OpsShape DEF Assigns, Inserts, FramesInOrder
  <2>2. frame' \in [Threads -> Frame]
    <3>1. PICK ret \in {0, 1} :
            frame' = [frame EXCEPT ![t] = [frame[t] EXCEPT !.pc = "returning", !.ret = ret]]
      BY <1>4 DEF Assigns, Inserts, Has
    <3>2. ret \in Values \cup {NoValue} \cup Int
      OBVIOUS
    <3>3. [frame[t] EXCEPT !.pc = "returning", !.ret = ret] \in Frame
      BY <3>2, ReturningType
    <3> QED BY <3>1, <3>3
  <2>3. entries' \in [Keys -> Values \cup {NoValue}] /\ count' \in Int /\ mutex' = mutex
    BY <1>4, <2>1 DEF Assigns, Inserts
  <2> QED BY <2>2, <2>3
<1>5. ASSUME NEW t \in Threads, Copies(t) PROVE TypeOK'
  <2>1. Do(t).key \in Keys
    BY <1>5, OpsShape DEF Copies, FramesInOrder
  <2> DEFINE ret == IF frame[t].it THEN entries[Do(t).key] ELSE NoValue
  <2>2. ret \in Values \cup {NoValue} \cup Int
    BY <2>1
  <2>3. frame' = [frame EXCEPT ![t] = [frame[t] EXCEPT !.pc = "returning", !.ret = ret]]
    BY <1>5 DEF Copies, Has
  <2> HIDE DEF ret
  <2>4. [frame[t] EXCEPT !.pc = "returning", !.ret = ret] \in Frame
    BY <2>2, ReturningType
  <2>5. frame' \in [Threads -> Frame]
    BY <2>3, <2>4
  <2> QED BY <1>5, <2>5 DEF Copies
<1>6. ASSUME NEW t \in Threads, Unlinks(t) PROVE TypeOK'
  <2>1. Do(t).key \in Keys
    BY <1>6, OpsShape DEF Unlinks, FramesInOrder
  <2>2. frame' \in [Threads -> Frame]
    <3>1. frame' = [frame EXCEPT ![t] = [frame[t] EXCEPT !.pc = "returning", !.ret = 1]]
      BY <1>6 DEF Unlinks, Has
    <3>2. 1 \in Values \cup {NoValue} \cup Int
      OBVIOUS
    <3> QED BY <3>1, <3>2, ReturningType
  <2>3. entries' \in [Keys -> Values \cup {NoValue}] /\ count' \in Int /\ mutex' = mutex
    BY <1>6, <2>1 DEF Unlinks
  <2> QED BY <2>2, <2>3
<1>7. ASSUME NEW t \in Threads, ErasesNothing(t) \/ Sizes(t) PROVE TypeOK'
  <2>1. PICK ret \in {0, count} :
          frame' = [frame EXCEPT ![t] = [frame[t] EXCEPT !.pc = "returning", !.ret = ret]]
    BY <1>7 DEF ErasesNothing, Sizes, Has
  <2>2. ret \in Values \cup {NoValue} \cup Int
    OBVIOUS
  <2>3. [frame[t] EXCEPT !.pc = "returning", !.ret = ret] \in Frame
    BY <2>2, ReturningType
  <2>4. frame' \in [Threads -> Frame]
    BY <2>1, <2>3
  <2> QED BY <1>7, <2>4 DEF ErasesNothing, Sizes
<1>8. ASSUME NEW t \in Threads, Unlocks(t) PROVE TypeOK'
  BY <1>8 DEF Unlocks, Outside, NoOp, Frame
<1>9. CASE UNCHANGED vars
  BY <1>9 DEF vars
<1> QED BY <1>1, <1>2, <1>3, <1>4, <1>5, <1>6, <1>7, <1>8, <1>9 DEF Next, Runs

LEMMA StepInside == TypeOK /\ OneInside /\ [Next]_vars => OneInside'
<1> SUFFICES ASSUME TypeOK, OneInside, [Next]_vars PROVE OneInside'
  OBVIOUS
<1> USE DEF TypeOK, OneInside, Inside, At
<1>1. ASSUME NEW t \in Threads, NEW o \in Ops, Calls(t, o) PROVE OneInside'
  BY <1>1 DEF Calls, Frame
<1>2. ASSUME NEW t \in Threads, Locks(t) PROVE OneInside'
  BY <1>2, StoreAssumption DEF Locks, Frame
<1>3. ASSUME NEW t \in Threads, Searches(t) PROVE OneInside'
  BY <1>3 DEF Searches, Frame
<1>4. ASSUME NEW t \in Threads,
             \/ Assigns(t) \/ Inserts(t) \/ Copies(t) \/ Unlinks(t) \/ ErasesNothing(t)
             \/ Sizes(t)
      PROVE  OneInside'
  <2>1. PICK ret : frame' = [frame EXCEPT ![t].pc = "returning", ![t].ret = ret]
    BY <1>4, ActsShape
  <2>2. mutex' = mutex /\ frame[t].pc = "acting"
    BY <1>4, ActsShape
  <2> QED BY <2>1, <2>2 DEF Frame
<1>5. ASSUME NEW t \in Threads, Unlocks(t) PROVE OneInside'
  BY <1>5, StoreAssumption DEF Unlocks, Outside, Frame
<1>6. CASE UNCHANGED vars
  BY <1>6 DEF vars
<1> QED BY <1>1, <1>2, <1>3, <1>4, <1>5, <1>6 DEF Next, Runs

\* Only the thread inside changes the map, so what it found stays true.
LEMMA StepSearch ==
  TypeOK /\ OneInside /\ SearchStillTrue /\ [Next]_vars => SearchStillTrue'
<1> SUFFICES ASSUME TypeOK, OneInside, SearchStillTrue, [Next]_vars,
                    NEW u \in Threads, frame'[u].pc = "acting"
             PROVE  frame'[u].it <=> Found(u)'
  BY DEF SearchStillTrue, At
<1> USE DEF TypeOK
\* u stood there before, and the map is as it was.
<1>1. ASSUME frame'[u] = frame[u], entries' = entries
      PROVE  frame'[u].it <=> Found(u)'
  BY <1>1 DEF SearchStillTrue, At, Found, Do
\* Were another thread to act, it would have the mutex, and u would not be acting.
<1>2. ASSUME NEW t \in Threads,
             \/ Assigns(t) \/ Inserts(t) \/ Copies(t) \/ Unlinks(t) \/ ErasesNothing(t)
             \/ Sizes(t)
      PROVE  FALSE
  <2>1. frame[t].pc = "acting" /\ mutex = t
    BY <1>2, ActsShape DEF OneInside, Inside
  <2>2. PICK ret : frame' = [frame EXCEPT ![t].pc = "returning", ![t].ret = ret]
    BY <1>2, ActsShape
  <2>3. u # t
    BY <2>2 DEF Frame
  <2>4. frame'[u] = frame[u]
    BY <2>2, <2>3
  <2> QED BY <2>1, <2>3, <2>4 DEF OneInside, Inside
<1>3. ASSUME NEW t \in Threads, NEW o \in Ops, Calls(t, o)
      PROVE  frame'[u].it <=> Found(u)'
  <2>1. u # t
    BY <1>3 DEF Calls, Frame
  <2>2. frame'[u] = frame[u] /\ entries' = entries
    BY <1>3, <2>1 DEF Calls
  <2> QED BY <2>2, <1>1
<1>4. ASSUME NEW t \in Threads, Locks(t) PROVE frame'[u].it <=> Found(u)'
  <2>1. u # t
    BY <1>4 DEF Locks, Frame
  <2>2. frame'[u] = frame[u] /\ entries' = entries
    BY <1>4, <2>1 DEF Locks
  <2> QED BY <2>2, <1>1
<1>5. ASSUME NEW t \in Threads, Searches(t) PROVE frame'[u].it <=> Found(u)'
  <2>1. CASE u = t
    <3> DEFINE b == Do(t).op # "size" /\ entries[Do(t).key] # NoValue
    <3>1. frame' = [frame EXCEPT ![t] = [frame[t] EXCEPT !.pc = "acting", !.it = b]]
          /\ entries' = entries
      BY <1>5 DEF Searches
    <3> HIDE DEF b
    <3>2. frame'[t].it = b /\ frame'[t].do = frame[t].do
      BY <3>1 DEF Frame
    <3> USE DEF b
    <3> QED BY <3>1, <3>2, <2>1 DEF Found, Do
  <2>2. CASE u # t
    <3>1. frame'[u] = frame[u] /\ entries' = entries
      BY <1>5, <2>2 DEF Searches
    <3> QED BY <3>1, <1>1
  <2> QED BY <2>1, <2>2
<1>6. ASSUME NEW t \in Threads, Unlocks(t) PROVE frame'[u].it <=> Found(u)'
  <2>1. u # t
    BY <1>6 DEF Unlocks, Outside
  <2>2. frame'[u] = frame[u] /\ entries' = entries
    BY <1>6, <2>1 DEF Unlocks
  <2> QED BY <2>2, <1>1
<1>7. CASE UNCHANGED vars
  BY <1>7, <1>1 DEF vars
<1> QED BY <1>2, <1>3, <1>4, <1>5, <1>6, <1>7 DEF Next, Runs

LEMMA StepFrames == TypeOK /\ FramesInOrder /\ [Next]_vars => FramesInOrder'
<1> SUFFICES ASSUME TypeOK, FramesInOrder, [Next]_vars PROVE FramesInOrder'
  OBVIOUS
<1> USE DEF TypeOK, FramesInOrder, Do, At
<1>1. ASSUME NEW t \in Threads, NEW o \in Ops, Calls(t, o) PROVE FramesInOrder'
  <2>1. frame[t].ret = NoValue
    BY <1>1 DEF Calls
  <2> QED BY <1>1, <2>1 DEF Calls, Frame
<1>2. ASSUME NEW t \in Threads, Locks(t) PROVE FramesInOrder'
  BY <1>2 DEF Locks, Frame
<1>3. ASSUME NEW t \in Threads, Searches(t) PROVE FramesInOrder'
  <2>1. PICK b : frame' = [frame EXCEPT ![t].pc = "acting", ![t].it = b]
    BY <1>3 DEF Searches
  <2>2. frame[t].pc = "searching"
    BY <1>3 DEF Searches
  <2> QED BY <2>1, <2>2 DEF Frame
<1>4. ASSUME NEW t \in Threads,
             \/ Assigns(t) \/ Inserts(t) \/ Copies(t) \/ Unlinks(t) \/ ErasesNothing(t)
             \/ Sizes(t)
      PROVE  FramesInOrder'
  <2>1. PICK ret : frame' = [frame EXCEPT ![t].pc = "returning", ![t].ret = ret]
    BY <1>4, ActsShape
  <2>2. frame[t].pc = "acting"
    BY <1>4, ActsShape
  <2> QED BY <2>1, <2>2 DEF Frame
<1>5. ASSUME NEW t \in Threads, Unlocks(t) PROVE FramesInOrder'
  BY <1>5 DEF Unlocks, Outside, Frame
<1>6. CASE UNCHANGED vars
  BY <1>6 DEF vars
<1> QED BY <1>1, <1>2, <1>3, <1>4, <1>5, <1>6 DEF Next, Runs

LEMMA StepSize ==
  TypeOK /\ SearchStillTrue /\ FramesInOrder /\ SizeIsExact /\ [Next]_vars => SizeIsExact'
<1> SUFFICES ASSUME TypeOK, SearchStillTrue, FramesInOrder, SizeIsExact, [Next]_vars
             PROVE  SizeIsExact'
  OBVIOUS
<1>1. count = Cardinality(PresentIn(entries))
  BY DEF SizeIsExact, PresentIn
<1>2. SUFFICES count' = Cardinality(PresentIn(entries'))
  BY DEF SizeIsExact, PresentIn
<1>3. ASSUME entries' = entries, count' = count
      PROVE  count' = Cardinality(PresentIn(entries'))
  BY <1>1, <1>3
<1>4. ASSUME NEW t \in Threads, Assigns(t)
      PROVE  count' = Cardinality(PresentIn(entries'))
  <2>1. Do(t).key \in Keys /\ Do(t).value \in Values /\ entries[Do(t).key] # NoValue
    BY <1>4, OpsShape DEF Assigns, FramesInOrder, SearchStillTrue, Found, At
  <2>2. PresentIn(entries') = PresentIn(entries)
    BY <2>1, <1>4, SizeAfterAssign DEF Assigns, TypeOK
  <2> QED BY <2>2, <1>1, <1>4 DEF Assigns
<1>5. ASSUME NEW t \in Threads, Inserts(t)
      PROVE  count' = Cardinality(PresentIn(entries'))
  <2>1. Do(t).key \in Keys /\ Do(t).value \in Values /\ entries[Do(t).key] = NoValue
    BY <1>5, OpsShape DEF Inserts, FramesInOrder, SearchStillTrue, Found, At
  <2>2. Cardinality(PresentIn(entries')) = Cardinality(PresentIn(entries)) + 1
    BY <2>1, <1>5, SizeAfterInsert DEF Inserts, TypeOK
  <2> QED BY <2>2, <1>1, <1>5 DEF Inserts
<1>6. ASSUME NEW t \in Threads, Unlinks(t)
      PROVE  count' = Cardinality(PresentIn(entries'))
  <2>1. Do(t).key \in Keys /\ entries[Do(t).key] # NoValue
    BY <1>6, OpsShape DEF Unlinks, FramesInOrder, SearchStillTrue, Found, At
  <2>2. Cardinality(PresentIn(entries')) = Cardinality(PresentIn(entries)) - 1
    BY <2>1, <1>6, SizeAfterErase DEF Unlinks, TypeOK
  <2> QED BY <2>2, <1>1, <1>6 DEF Unlinks
<1>7. ASSUME NEW t \in Threads,
             \/ \E o \in Ops : Calls(t, o)
             \/ Locks(t) \/ Searches(t) \/ Copies(t) \/ ErasesNothing(t) \/ Sizes(t)
             \/ Unlocks(t)
      PROVE  entries' = entries /\ count' = count
  BY <1>7 DEF Calls, Locks, Searches, Copies, ErasesNothing, Sizes, Unlocks
<1>8. CASE UNCHANGED vars
  BY <1>8, <1>3 DEF vars
<1> QED BY <1>3, <1>4, <1>5, <1>6, <1>7, <1>8 DEF Next, Runs

LEMMA StepInv == IInv /\ [Next]_vars => IInv'
BY StepType, StepInside, StepSearch, StepFrames, StepSize DEF IInv

LEMMA Inductive == Spec => []IInv
BY InitInv, StepInv, PTL DEF Spec

\* Every reachable state is well typed.
THEOREM TypeCorrect == Spec => []TypeOK
<1>1. IInv => TypeOK
  BY DEF IInv
<1> QED BY <1>1, Inductive, PTL

\* However many threads call the store: size() returns the number of keys.
THEOREM SizeStaysExact == Spec => []SizeIsExact
<1>1. IInv => SizeIsExact
  BY DEF IInv
<1> QED BY <1>1, Inductive, PTL

-----------------------------------------------------------------------------
(* The refinement.                                                         *)

\* The mapping of the abstract variable call, thread by thread.
AbstractCall == [t \in Threads |-> CallOf(t)]

LEMMA PhaseCases ==
  ASSUME NEW t
  PROVE  /\ frame[t].pc = "outside" => PhaseOf(t) = "idle"
         /\ frame[t].pc = "returning" => PhaseOf(t) = "done"
         /\ frame[t].pc \in {"locking", "searching", "acting"} => PhaseOf(t) = "called"
BY DEF PhaseOf, At

\* The same after a step.
LEMMA PhaseCasesNext ==
  ASSUME NEW t
  PROVE  /\ frame'[t].pc = "outside" => PhaseOf(t)' = "idle"
         /\ frame'[t].pc = "returning" => PhaseOf(t)' = "done"
         /\ frame'[t].pc \in {"locking", "searching", "acting"} => PhaseOf(t)' = "called"
BY DEF PhaseOf, At

\* A step of one thread changes that thread's call only.
LEMMA OthersKeepCalls ==
  ASSUME NEW t \in Threads, \A u \in Threads : u # t => frame'[u] = frame[u]
  PROVE  AbstractCall' = [AbstractCall EXCEPT ![t] = CallOf(t)']
<1>1. \A u \in Threads : u # t => CallOf(u)' = CallOf(u)
  BY DEF CallOf, PhaseOf, At, Do
<1> QED BY <1>1 DEF AbstractCall

LEMMA InitMaps == Init => Abstract!Init
<1> SUFFICES ASSUME Init PROVE Abstract!Init
  OBVIOUS
<1>1. \A t \in Threads : CallOf(t) = Abstract!Idle
  BY PhaseCases DEF Init, CallOf, Do, Outside, Abstract!Idle, NoOp, Abstract!NoOp
<1> QED BY <1>1 DEF Init, Abstract!Init

\* Steps before the call takes effect, and none of its own: a stutter.
LEMMA WaitingMaps ==
  ASSUME TypeOK, NEW t \in Threads, Locks(t) \/ Searches(t)
  PROVE  UNCHANGED <<entries, AbstractCall>>
<1>1. \A u \in Threads : u # t => frame'[u] = frame[u]
  BY DEF Locks, Searches, TypeOK
<1>2. /\ frame[t].pc \in {"locking", "searching"} /\ frame'[t].pc \in {"searching", "acting"}
      /\ frame'[t].do = frame[t].do /\ frame'[t].ret = frame[t].ret
      /\ entries' = entries
  BY DEF Locks, Searches, TypeOK, Frame, At
<1>3. CallOf(t)' = CallOf(t)
  BY <1>2, PhaseCases, PhaseCasesNext DEF CallOf, Do
<1> QED BY <1>1, <1>2, <1>3, OthersKeepCalls DEF AbstractCall

LEMMA CallsMaps ==
  ASSUME IInv, NEW t \in Threads, NEW o \in Ops, Calls(t, o)
  PROVE  o \in Abstract!Ops /\ Abstract!Calls(t, o)
<1> USE DEF IInv, TypeOK
<1>1. \A u \in Threads : u # t => frame'[u] = frame[u]
  BY DEF Calls
<1>2. /\ frame[t].pc = "outside" /\ frame'[t].pc = "locking"
      /\ frame'[t].do = o /\ frame'[t].ret = NoValue
      /\ entries' = entries
  BY DEF Calls, Frame, At, FramesInOrder
<1>3. CallOf(t)' = [phase |-> "called", do |-> o, ret |-> NoValue] /\ PhaseOf(t) = "idle"
  BY <1>2, PhaseCases, PhaseCasesNext DEF CallOf, Do
<1>4. AbstractCall[t].phase = "idle"
  BY <1>3 DEF AbstractCall, CallOf
<1>5. AbstractCall' = [AbstractCall EXCEPT ![t] =
                         [phase |-> "called", do |-> o, ret |-> NoValue]]
  BY <1>1, <1>3, OthersKeepCalls
<1> QED BY <1>2, <1>4, <1>5 DEF Abstract!Calls, Abstract!Ops, Ops, AbstractCall

LEMMA UnlocksMaps ==
  ASSUME IInv, NEW t \in Threads, Unlocks(t)
  PROVE  Abstract!Returns(t)
<1> USE DEF IInv, TypeOK
<1>1. \A u \in Threads : u # t => frame'[u] = frame[u]
  BY DEF Unlocks
<1>2. frame[t].pc = "returning" /\ frame'[t] = Outside /\ entries' = entries
  BY DEF Unlocks, At
<1>3. CallOf(t)' = Abstract!Idle /\ PhaseOf(t) = "done"
  BY <1>2, PhaseCases, PhaseCasesNext
     DEF CallOf, Do, Outside, Abstract!Idle, NoOp, Abstract!NoOp
<1>4. AbstractCall[t].phase = "done"
  BY <1>3 DEF AbstractCall, CallOf
<1>5. AbstractCall' = [AbstractCall EXCEPT ![t] = Abstract!Idle]
  BY <1>1, <1>3, OthersKeepCalls
<1> QED BY <1>2, <1>4, <1>5 DEF Abstract!Returns, AbstractCall

\* What a method does inside is what the map does at one moment.
LEMMA ResultIsTheMaps ==
  ASSUME IInv, NEW t \in Threads,
         \/ Assigns(t) \/ Inserts(t) \/ Copies(t) \/ Unlinks(t) \/ ErasesNothing(t)
         \/ Sizes(t)
  PROVE  /\ Do(t) = frame'[t].do
         /\ frame'[t].ret = Abstract!Result(entries, Do(t))
         /\ entries' = Abstract!After(entries, Do(t))
<1> USE DEF IInv, TypeOK
<1>1. Do(t) \in Ops /\ frame[t].pc = "acting"
  BY DEF FramesInOrder, Assigns, Inserts, Copies, Unlinks, ErasesNothing, Sizes, At
<1>2. frame[t].it <=> Found(t)
  BY <1>1 DEF SearchStillTrue, At
<1>3. ASSUME NEW ret, Has(t, ret)
      PROVE  frame'[t].do = Do(t) /\ frame'[t].ret = ret
  BY <1>3 DEF Has, Frame, Do
<1>4. CASE Assigns(t)
  <2>1. entries[Do(t).key] # NoValue /\ Do(t).op = "set" /\ Has(t, 0)
        /\ entries' = [entries EXCEPT ![Do(t).key] = Do(t).value]
    BY <1>4, <1>2 DEF Assigns, Found
  <2> QED BY <2>1, <1>3 DEF Abstract!Result, Abstract!After, Abstract!Missing, Abstract!Bool
<1>5. CASE Inserts(t)
  <2>1. entries[Do(t).key] = NoValue /\ Do(t).op = "set" /\ Has(t, 1)
        /\ entries' = [entries EXCEPT ![Do(t).key] = Do(t).value]
    BY <1>5, <1>2 DEF Inserts, Found
  <2> QED BY <2>1, <1>3 DEF Abstract!Result, Abstract!After, Abstract!Missing, Abstract!Bool
<1>6. CASE Copies(t)
  <2>1. Do(t).op = "get" /\ Has(t, entries[Do(t).key]) /\ entries' = entries
    BY <1>6, <1>2 DEF Copies, Found
  <2> QED BY <2>1, <1>3 DEF Abstract!Result, Abstract!After
<1>7. CASE Unlinks(t)
  <2>1. entries[Do(t).key] # NoValue /\ Do(t).op = "erase" /\ Has(t, 1)
        /\ entries' = [entries EXCEPT ![Do(t).key] = NoValue]
    BY <1>7, <1>2 DEF Unlinks, Found
  <2> QED BY <2>1, <1>3 DEF Abstract!Result, Abstract!After, Abstract!Missing, Abstract!Bool
<1>8. CASE ErasesNothing(t)
  <2>1. entries[Do(t).key] = NoValue /\ Do(t).op = "erase" /\ Has(t, 0) /\ entries' = entries
    BY <1>8, <1>2 DEF ErasesNothing, Found
  <2>2. [entries EXCEPT ![Do(t).key] = NoValue] = entries
    BY <2>1
  <2> QED BY <2>1, <2>2, <1>3 DEF Abstract!Result, Abstract!After, Abstract!Missing, Abstract!Bool
<1>9. CASE Sizes(t)
  <2>1. Do(t).op = "size" /\ Has(t, count) /\ entries' = entries
    BY <1>9 DEF Sizes
  <2>2. count = Abstract!Cardinality(Abstract!Present(entries))
    BY DEF SizeIsExact, Abstract!Present, Cardinality, Abstract!Cardinality
  <2> QED BY <2>1, <2>2, <1>3 DEF Abstract!Result, Abstract!After
<1> QED BY <1>4, <1>5, <1>6, <1>7, <1>8, <1>9

LEMMA ActsMaps ==
  ASSUME IInv, NEW t \in Threads,
         \/ Assigns(t) \/ Inserts(t) \/ Copies(t) \/ Unlinks(t) \/ ErasesNothing(t)
         \/ Sizes(t)
  PROVE  Abstract!TakesEffect(t)
<1> USE DEF IInv, TypeOK
<1>1. PICK ret : frame' = [frame EXCEPT ![t].pc = "returning", ![t].ret = ret]
  BY ActsShape
<1>2. \A u \in Threads : u # t => frame'[u] = frame[u]
  BY <1>1
<1>3. frame[t].pc = "acting" /\ frame'[t].pc = "returning"
  BY <1>1, ActsShape DEF Frame
<1>4. CallOf(t)' = [phase |-> "done", do |-> Do(t), ret |-> Abstract!Result(entries, Do(t))]
      /\ PhaseOf(t) = "called"
  BY <1>3, ResultIsTheMaps, PhaseCases, PhaseCasesNext DEF CallOf, Do
<1>5. AbstractCall[t].phase = "called" /\ AbstractCall[t].do = Do(t)
  BY <1>4 DEF AbstractCall, CallOf
<1>6. AbstractCall' = [AbstractCall EXCEPT ![t] =
        [phase |-> "done", do |-> Do(t), ret |-> Abstract!Result(entries, Do(t))]]
  BY <1>2, <1>4, OthersKeepCalls
<1> QED BY <1>5, <1>6, ResultIsTheMaps DEF Abstract!TakesEffect, AbstractCall

\* KeyValueStore is linearizable: for every number of threads, keys and values,
\* its concurrent calls behave as a map that is used in turns.
THEOREM IsLinearizable == Spec => Linearizable
<1>1. IInv /\ [Next]_vars => [Abstract!Next]_(Abstract!vars)
  <2> SUFFICES ASSUME IInv, [Next]_vars PROVE [Abstract!Next]_(Abstract!vars)
    OBVIOUS
  <2>1. ASSUME NEW t \in Threads, NEW o \in Ops, Calls(t, o) PROVE Abstract!Next
    BY <2>1, CallsMaps DEF Abstract!Next
  <2>2. ASSUME NEW t \in Threads, Locks(t) \/ Searches(t) PROVE UNCHANGED Abstract!vars
    BY <2>2, WaitingMaps DEF IInv, Abstract!vars, AbstractCall
  <2>3. ASSUME NEW t \in Threads,
               \/ Assigns(t) \/ Inserts(t) \/ Copies(t) \/ Unlinks(t) \/ ErasesNothing(t)
               \/ Sizes(t)
        PROVE  Abstract!Next
    BY <2>3, ActsMaps DEF Abstract!Next
  <2>4. ASSUME NEW t \in Threads, Unlocks(t) PROVE Abstract!Next
    BY <2>4, UnlocksMaps DEF Abstract!Next
  <2>5. CASE UNCHANGED vars
    BY <2>5 DEF vars, Abstract!vars, CallOf, PhaseOf, At, Do
  <2> QED BY <2>1, <2>2, <2>3, <2>4, <2>5 DEF Next, Runs
<1> QED BY <1>1, InitMaps, Inductive, PTL DEF Spec, Linearizable, Abstract!Spec
=============================================================================
