--------------------------- MODULE OneSidedProofs ---------------------------
(***************************************************************************)
(* The one-sided clients, for any number of clients, slots, keys and       *)
(* values, in whatever pieces slots move, and whichever queue pairs fail:  *)
(* what no race of them can break, and what they observe.                  *)
(*                                                                         *)
(* A client chooses the target of its WRITE from slots it read some verbs  *)
(* ago.  What it read may be outdated, but not in the one respect that     *)
(* matters: a slot that was in use still is (Grows), so the chain a client *)
(* has walked (Searching) stays a chain, and a key may be put at its end   *)
(* (Placing) whoever wrote there meanwhile.                                *)
(*                                                                         *)
(* The history of OneSidedHistory follows OneSided's steps, so these facts *)
(* about the clients and the table are the ground for what is observed: a  *)
(* GET overlooks only a key that no slot held all the while, whoever       *)
(* writes; and with one writer, a GET is atomic but for torn values, an    *)
(* acknowledged SET sticks, and no counter counts more, or less, than the  *)
(* GET_METAs of its key.  These four parts each add to the invariant what  *)
(* they need: Tracking; Witnessing with Steady; Aiming and Sticks; and     *)
(* last the counts.                                                        *)
(***************************************************************************)
EXTENDS OneSidedHistory, SlotTableProofs, FiniteSetTheorems

\* A search for k finds no empty slot before probe i.
InUseBefore(t, k, i) == \A j \in 0 .. i - 1 : t[Probe(Hash[k], j)].occupied # Empty

\* What a client in the middle of a probe loop knows of table t.
Searching(t, r) ==
  /\ InUseBefore(t, r.cmd.key, r.probe)
  /\ "header" \notin r.parts /\ r.local.occupied # Empty =>
       t[Probe(Hash[r.cmd.key], r.probe)].occupied # Empty
  /\ r.tomb = NumSlots \/ r.tomb <= r.probe
  /\ r.cmd.op = "set" => r.cmd.value \in Values /\ Fits(r.cmd.key, r.cmd.value)

\* What holds of a WRITE that was posted: it may arrive at any time.
Placing(t, r) ==
  /\ r.local.occupied = Valid
  /\ r.local.key \in Keys \ LongKeys /\ r.local.value \notin LongValues
  /\ InUseBefore(t, r.local.key, Dist(Hash[r.local.key], r.target))

Sound(t, r) ==
  /\ r.pc = "idle" => r.probe = 0 /\ r.tomb = NumSlots /\ r.local = EmptySlot
  /\ r.pc # "idle" => r.left > 0 /\ r.cmd.key \in Keys
  /\ r.pc = "reading" => Searching(t, r)
  /\ r.pc = "writing" => Placing(t, r)

\* Nothing in the table is too long for its field.
Fitting(t) ==
  \A p \in Positions : /\ t[p].occupied # Empty => t[p].key \in Keys \ LongKeys
                       /\ t[p].value \notin LongValues

IInv == /\ slots \in [Positions -> Slot] /\ client \in [Clients -> ClientState]
        /\ Fitting(slots) /\ ChainsUnbroken(slots)
        /\ \A c \in Clients : Sound(slots, client[c])

\* Table u comes after t: no slot was emptied.
Grows(t, u) == \A p \in Positions : t[p].occupied # Empty => u[p].occupied # Empty

-----------------------------------------------------------------------------
(* Tables.                                                                 *)

LEMMA ProbesInside ==
  ASSUME NEW k \in Keys, NEW i \in Positions
  PROVE  /\ Probe(Hash[k], i) \in Positions /\ Dist(Hash[k], Probe(Hash[k], i)) = i
         /\ \A j \in 0 .. i - 1 : j \in Positions /\ Probe(Hash[k], j) \in Positions
<1>1. \A j \in 0 .. i - 1 : j \in Positions
  BY NumSlotsAssumption DEF Positions
<1> QED BY <1>1, HashType, ProbeDist

LEMMA InUseStays ==
  ASSUME NEW t, NEW u, Grows(t, u), NEW k \in Keys, NEW i \in Positions,
         InUseBefore(t, k, i)
  PROVE  InUseBefore(u, k, i)
BY ProbesInside DEF Grows, InUseBefore

\* What a client knows stays true.
LEMMA SoundStays ==
  ASSUME NEW t, NEW u, Grows(t, u), NEW r \in ClientState, Sound(t, r)
  PROVE  Sound(u, r)
<1>1. r.probe \in Positions /\ r.target \in Positions
  BY DEF ClientState
<1>2. ASSUME r.pc = "reading" PROVE Searching(u, r)
  <2>1. r.cmd.key \in Keys /\ Searching(t, r)
    BY <1>2 DEF Sound
  <2>2. InUseBefore(u, r.cmd.key, r.probe)
    BY <2>1, <1>1, InUseStays DEF Searching
  <2>3. Probe(Hash[r.cmd.key], r.probe) \in Positions
    BY <2>1, <1>1, ProbesInside
  <2> QED BY <2>1, <2>2, <2>3 DEF Searching, Grows
<1>3. ASSUME r.pc = "writing" PROVE Placing(u, r)
  <2>1. Placing(t, r) /\ r.local.key \in Keys
    BY <1>3 DEF Sound, Placing
  <2>2. Dist(Hash[r.local.key], r.target) \in Positions
    BY <2>1, <1>1, HashType, ProbeDist
  <2> QED BY <2>1, <2>2, InUseStays DEF Placing
<1> QED BY <1>2, <1>3 DEF Sound

-----------------------------------------------------------------------------
(* Steps.                                                                  *)

\* A step of client c to record r that leaves the table alone.
LEMMA QuietStep ==
  ASSUME IInv, NEW c \in Clients, NEW r \in ClientState, Sound(slots, r),
         Becomes(c, r), UNCHANGED slots
  PROVE  IInv'
BY DEF IInv, Becomes

LEMMA InitInv == Init => IInv
<1> SUFFICES ASSUME Init PROVE IInv
  OBVIOUS
<1>1. FreshClient \in ClientState
  BY NumSlotsAssumption, CommandsAssumption
     DEF FreshClient, AtPrompt, ClientState, NoCommand, EmptySlot, Slot, Positions, Parts, Empty
<1>2. Sound(slots, FreshClient)
  BY DEF Sound, FreshClient, AtPrompt
<1> QED BY <1>1, <1>2, TablesAssumption DEF ServerTable, Init, IInv, Fitting

\* Between commands: nothing to know but that the session may be over.
LEMMA AtPromptStep ==
  ASSUME IInv, NEW c \in Clients, client[c].pc # "idle",
         NEW ok \in BOOLEAN, NEW v \in Values \cup {NoValue}, NEW qp \in {"rts", "error"},
         Becomes(c, AtPrompt(client[c].cmd, ok, v, qp, client[c].left - 1)),
         UNCHANGED slots
  PROVE  IInv'
<1> DEFINE r == AtPrompt(client[c].cmd, ok, v, qp, client[c].left - 1)
<1>1. client[c] \in ClientState /\ client[c].left > 0
  BY DEF IInv, Sound
<1>2. client[c].left - 1 \in 0 .. MaxCommands
  BY <1>1, CommandsAssumption DEF ClientState
<1>3. r \in ClientState
  BY <1>1, <1>2, NumSlotsAssumption
     DEF AtPrompt, ClientState, EmptySlot, Slot, Positions, Parts, Empty
<1>4. Sound(slots, r)
  BY DEF Sound, AtPrompt
<1> HIDE DEF r
<1> QED BY <1>3, <1>4, QuietStep DEF r

LEMMA ReturnsStep ==
  ASSUME IInv, NEW c \in Clients, client[c].pc # "idle",
         NEW ok \in BOOLEAN, NEW v \in Values \cup {NoValue},
         Returns(c, ok, v), UNCHANGED slots
  PROVE  IInv'
<1>1. client[c].qp \in {"rts", "error"}
  BY DEF IInv, ClientState
<1> QED BY <1>1, AtPromptStep DEF Returns

LEMMA BeginsStep ==
  ASSUME IInv, NEW c \in Clients, Begins(c)
  PROVE  IInv'
<1>1. PICK k \in AskedKeys :
        \/ \E op \in Gets : BeginGet(c, op, k)
        \/ \E v \in AskedValues : BeginSet(c, k, v) \/ RejectSet(c, k, v)
  BY DEF Begins
<1>2. k \in Keys /\ client[c] \in ClientState /\ Sound(slots, client[c])
  BY CommandsAssumption DEF IInv
<1>3. ASSUME NEW op \in Gets, BeginGet(c, op, k) PROVE IInv'
  <2> DEFINE r == [client[c] EXCEPT !.pc = "reading", !.parts = Parts,
                     !.cmd = [op |-> op, key |-> k, value |-> NoValue]]
  <2>1. r \in ClientState
    BY <1>2 DEF ClientState, Gets, Parts
  <2>2. client[c].pc = "idle" /\ client[c].left > 0
    BY <1>3 DEF BeginGet, MayIssue
  <2>3. Sound(slots, r)
    BY <2>2, <1>2 DEF Sound, Searching, InUseBefore, ClientState, Parts, Gets
  <2>4. Becomes(c, r) /\ UNCHANGED slots
    BY <1>3 DEF BeginGet
  <2> HIDE DEF r
  <2> QED BY <2>1, <2>3, <2>4, QuietStep
<1>4. ASSUME NEW v \in AskedValues, BeginSet(c, k, v) PROVE IInv'
  <2> DEFINE r == [client[c] EXCEPT !.pc = "reading", !.parts = Parts,
                     !.cmd = [op |-> "set", key |-> k, value |-> v]]
  <2>1. r \in ClientState
    BY <1>2, CommandsAssumption DEF ClientState, Parts
  <2>2. client[c].pc = "idle" /\ client[c].left > 0 /\ Fits(k, v)
    BY <1>4 DEF BeginSet, MayIssue
  <2>3. Sound(slots, r)
    BY <2>2, <1>2, CommandsAssumption DEF Sound, Searching, InUseBefore, ClientState, Parts
  <2>4. Becomes(c, r) /\ UNCHANGED slots
    BY <1>4 DEF BeginSet
  <2> HIDE DEF r
  <2> QED BY <2>1, <2>3, <2>4, QuietStep
<1>5. ASSUME NEW v \in AskedValues, RejectSet(c, k, v) PROVE IInv'
  <2> DEFINE r == [client[c] EXCEPT !.cmd = [op |-> "set", key |-> k, value |-> v],
                     !.ok = FALSE, !.value = NoValue, !.left = @ - 1]
  <2>1. client[c].pc = "idle" /\ client[c].left > 0
    BY <1>5 DEF RejectSet, MayIssue
  <2>2. r \in ClientState
    <3>1. client[c].left - 1 \in 0 .. MaxCommands
      BY <2>1, <1>2, CommandsAssumption DEF ClientState
    <3>2. [op |-> "set", key |-> k, value |-> v] \in
            [op : Gets \cup {"set", "none"}, key : Keys \cup {NoKey},
             value : Values \cup {NoValue}]
      BY <1>2, CommandsAssumption
    <3> QED BY <3>1, <3>2, <1>2 DEF ClientState
  <2>3. Sound(slots, r)
    BY <2>1, <1>2 DEF Sound, ClientState
  <2>4. Becomes(c, r) /\ UNCHANGED slots
    BY <1>5 DEF RejectSet
  <2> HIDE DEF r
  <2> QED BY <2>2, <2>3, <2>4, QuietStep
<1> QED BY <1>1, <1>3, <1>4, <1>5

\* The slot a READ of client c ends with, and what may be concluded from it.
LEMMA GotFacts ==
  ASSUME IInv, NEW c \in Clients, NEW ops, Received(c, ops)
  PROVE  /\ client[c] \in ClientState /\ client[c].pc = "reading" /\ client[c].cmd.op \in ops
         /\ Searching(slots, client[c]) /\ client[c].left > 0
         /\ Key(c) \in Keys /\ Here(c) \in Positions
         /\ Got(c) \in Slot
         /\ Got(c).occupied # Empty => slots[Here(c)].occupied # Empty
<1>1. client[c] \in ClientState /\ client[c].pc = "reading" /\ client[c].cmd.op \in ops
  BY DEF IInv, Received, Transfers
<1>2. Searching(slots, client[c]) /\ client[c].left > 0 /\ Key(c) \in Keys
  BY <1>1 DEF IInv, Sound, Key
<1>3. Here(c) \in Positions
  BY <1>1, <1>2, ProbesInside DEF Here, Key, ClientState
<1>4. slots[Here(c)] \in Slot /\ client[c].local \in Slot
  BY <1>1, <1>3 DEF IInv, ClientState
<1>5. Got(c) \in Slot
  BY <1>4 DEF Got, Merge, Slot
<1>6. Got(c).occupied # Empty => slots[Here(c)].occupied # Empty
  BY <1>2 DEF Got, Merge, Searching, Here, Key
<1> QED BY <1>1, <1>2, <1>3, <1>5, <1>6

LEMMA ReadPartStep ==
  ASSUME IInv, NEW c \in Clients, ReadPart(c)
  PROVE  IInv'
<1>1. PICK ps \in Chunks(client[c].parts) :
        Becomes(c, [client[c] EXCEPT !.local = Merge(@, slots[Here(c)], ps),
                                     !.parts = @ \ ps])
  BY DEF ReadPart
<1> DEFINE r == [client[c] EXCEPT !.local = Merge(@, slots[Here(c)], ps), !.parts = @ \ ps]
<1>2. client[c] \in ClientState /\ client[c].pc = "reading" /\ UNCHANGED slots
  BY DEF IInv, ReadPart, Transfers
<1>3. Searching(slots, client[c]) /\ client[c].left > 0 /\ client[c].cmd.key \in Keys
  BY <1>2 DEF IInv, Sound
<1>4. Here(c) \in Positions /\ slots[Here(c)] \in Slot
  BY <1>2, <1>3, ProbesInside DEF Here, ClientState, IInv
<1>5. Merge(client[c].local, slots[Here(c)], ps) \in Slot
  BY <1>2, <1>4 DEF Merge, Slot, ClientState
<1>6. client[c].parts \ ps \in SUBSET Parts
  BY <1>2 DEF ClientState
<1>7. r \in ClientState
  BY <1>2, <1>5, <1>6 DEF ClientState
<1>8. Searching(slots, r)
  <2>1. "header" \in ps \/ "header" \notin client[c].parts \/ "header" \in client[c].parts \ ps
    OBVIOUS
  <2> QED BY <1>2, <1>3, <2>1 DEF Searching, Merge, Here, ClientState
<1>9. Sound(slots, r)
  BY <1>2, <1>3, <1>8 DEF Sound, ClientState
<1> HIDE DEF r
<1> QED BY <1>1, <1>2, <1>7, <1>9, QuietStep DEF r

LEMMA NextProbeStep ==
  ASSUME IInv, NEW c \in Clients, NextProbe(c)
  PROVE  IInv'
<1> DEFINE r == [client[c] EXCEPT !.probe = @ + 1, !.parts = Parts, !.local = EmptySlot,
                   !.tomb = TombAfter(c)]
<1>1. Becomes(c, r) /\ UNCHANGED slots /\ GoesOn(c) /\ ~LastProbe(c)
  BY DEF NextProbe
<1>2. /\ client[c] \in ClientState /\ client[c].pc = "reading" /\ client[c].left > 0
      /\ Searching(slots, client[c]) /\ client[c].cmd.key \in Keys
      /\ slots[Here(c)].occupied # Empty
  BY <1>1, GotFacts DEF NextProbe, GoesOn, Key
<1>3. client[c].probe + 1 \in Positions /\ client[c].probe \in 0 .. NumSlots - 1
  BY <1>1, <1>2, NumSlotsAssumption DEF LastProbe, ClientState, Positions
<1>4. TombAfter(c) \in 0 .. NumSlots /\ (TombAfter(c) = NumSlots \/ TombAfter(c) <= client[c].probe)
  BY <1>2, <1>3, NumSlotsAssumption DEF TombAfter, Searching, ClientState
<1>5. r \in ClientState
  BY <1>2, <1>3, <1>4 DEF ClientState, EmptySlot, Slot, Empty, Parts
<1>6. InUseBefore(slots, client[c].cmd.key, client[c].probe + 1)
  BY <1>2, <1>3 DEF Searching, InUseBefore, Here
<1>7. Searching(slots, r)
  BY <1>2, <1>3, <1>4, <1>6 DEF Searching, ClientState, Parts
<1>8. Sound(slots, r)
  BY <1>2, <1>7 DEF Sound, ClientState
<1> HIDE DEF r
<1> QED BY <1>1, <1>5, <1>8, QuietStep

LEMMA GetMetaHitsStep ==
  ASSUME IInv, NEW c \in Clients, GetMetaHits(c)
  PROVE  IInv'
<1> DEFINE r == [client[c] EXCEPT !.pc = "touching", !.target = Here(c),
                   !.local = Got(c), !.parts = {}]
<1>1. Becomes(c, r) /\ UNCHANGED slots
  BY DEF GetMetaHits
<1>2. /\ client[c] \in ClientState /\ client[c].left > 0 /\ client[c].cmd.key \in Keys
      /\ Here(c) \in Positions /\ Got(c) \in Slot
  BY GotFacts DEF GetMetaHits, Key
<1>3. r \in ClientState
  BY <1>2 DEF ClientState
<1>4. Sound(slots, r)
  BY <1>2 DEF Sound, ClientState
<1> HIDE DEF r
<1> QED BY <1>1, <1>3, <1>4, QuietStep

\* A SET may write any slot that no empty slot separates from its hash position.
LEMMA PostsWriteStep ==
  ASSUME IInv, NEW c \in Clients, Received(c, {"set"}),
         NEW target \in Positions, NEW count \in Nat, PostsWrite(c, target, count),
         InUseBefore(slots, Key(c), Dist(Hash[Key(c)], target))
  PROVE  IInv'
<1> DEFINE local == [occupied |-> Valid, access_count |-> count,
                     key |-> Key(c), value |-> client[c].cmd.value]
           r == [client[c] EXCEPT !.pc = "writing", !.target = target, !.parts = Parts,
                   !.local = local]
<1>1. Becomes(c, r) /\ UNCHANGED slots
  BY DEF PostsWrite
<1>2. /\ client[c] \in ClientState /\ client[c].left > 0 /\ Key(c) \in Keys
      /\ client[c].cmd.key = Key(c)
      /\ client[c].cmd.value \in Values /\ Fits(Key(c), client[c].cmd.value)
  BY GotFacts DEF Key, Searching
<1>3. local \in Slot
  BY <1>2 DEF Slot
<1> HIDE DEF local
<1>4. r \in ClientState
  BY <1>2, <1>3 DEF ClientState, Parts
<1>5. local.occupied = Valid /\ local.key = Key(c) /\ local.value = client[c].cmd.value
  BY DEF local
<1>6. Placing(slots, r)
  BY <1>2, <1>5 DEF Placing, Fits, ClientState
<1>7. Sound(slots, r)
  BY <1>2, <1>6 DEF Sound, ClientState
<1> HIDE DEF r
<1> QED BY <1>1, <1>4, <1>7, QuietStep

LEMMA SetStep ==
  ASSUME IInv, NEW c \in Clients, SetOverwrites(c) \/ SetInserts(c) \/ SetReuses(c)
  PROVE  IInv'
<1> DEFINE k == Key(c)
<1>1. Received(c, {"set"})
  BY DEF SetOverwrites, SetInserts, SetReuses
<1>2. /\ k \in Keys /\ Here(c) \in Positions /\ Got(c).access_count \in Nat
      /\ client[c].probe \in Positions /\ client[c].tomb \in 0 .. NumSlots
      /\ InUseBefore(slots, k, client[c].probe)
      /\ client[c].tomb = NumSlots \/ client[c].tomb <= client[c].probe
      /\ Here(c) = Probe(Hash[k], client[c].probe)
  BY <1>1, GotFacts DEF Searching, ClientState, Slot, Here, Key
\* The slot of any probe up to the current one will do.
<1>3. ASSUME NEW i \in Positions, i <= client[c].probe
      PROVE  /\ Probe(Hash[k], i) \in Positions
             /\ InUseBefore(slots, k, Dist(Hash[k], Probe(Hash[k], i)))
  <2>1. InUseBefore(slots, k, i)
    BY <1>2, <1>3 DEF InUseBefore, Positions
  <2> QED BY <2>1, <1>2, ProbesInside
<1>4. CASE SetOverwrites(c)
  BY <1>1, <1>2, <1>3, <1>4, PostsWriteStep DEF SetOverwrites, Positions
<1>5. CASE SetInserts(c)
  <2>1. CASE client[c].tomb < NumSlots
    <3>1. client[c].tomb \in Positions /\ client[c].tomb <= client[c].probe
      BY <2>1, <1>2, NumSlotsAssumption DEF Positions
    <3>2. PostsWrite(c, Probe(Hash[k], client[c].tomb), 0)
      BY <1>5, <2>1 DEF SetInserts
    <3> QED BY <3>1, <3>2, <1>1, <1>2, <1>3, PostsWriteStep
  <2>2. CASE ~(client[c].tomb < NumSlots)
    <3>1. PostsWrite(c, Here(c), 0)
      BY <1>5, <2>2 DEF SetInserts
    <3>2. InUseBefore(slots, k, Dist(Hash[k], Here(c)))
      BY <1>2, <1>3 DEF Positions
    <3> QED BY <3>1, <3>2, <1>1, <1>2, PostsWriteStep
  <2> QED BY <2>1, <2>2
<1>6. CASE SetReuses(c)
  <2>1. PostsWrite(c, Probe(Hash[k], TombAfter(c)), 0) /\ TombAfter(c) < NumSlots
    BY <1>6 DEF SetReuses
  <2>2. TombAfter(c) \in Positions /\ TombAfter(c) <= client[c].probe
    BY <2>1, <1>2, NumSlotsAssumption DEF TombAfter, Positions
  <2> QED BY <2>1, <2>2, <1>1, <1>2, <1>3, PostsWriteStep
<1> QED BY <1>4, <1>5, <1>6

-----------------------------------------------------------------------------
(* The steps that change the table.                                        *)

\* The table becomes u, and client c's record r.
LEMMA TableStep ==
  ASSUME IInv, NEW c \in Clients, NEW r \in ClientState, Becomes(c, r),
         slots' \in [Positions -> Slot], Fitting(slots'), ChainsUnbroken(slots'),
         Grows(slots, slots'), Sound(slots', r)
  PROVE  IInv'
<1>1. \A d \in Clients : Sound(slots', client[d])
  BY SoundStays DEF IInv
<1> QED BY <1>1 DEF IInv, Becomes

LEMMA WriteLandsStep ==
  ASSUME IInv, NEW c \in Clients, WriteLands(c)
  PROVE  IInv' /\ Grows(slots, slots')
<1>1. PICK ps \in Chunks(client[c].parts) :
        /\ slots' = [slots EXCEPT ![client[c].target] = Merge(@, client[c].local, ps)]
        /\ Becomes(c, [client[c] EXCEPT !.parts = @ \ ps,
                         !.pc = IF client[c].parts = ps THEN "landed" ELSE @])
  BY DEF WriteLands
<1> DEFINE r == [client[c] EXCEPT !.parts = @ \ ps,
                   !.pc = IF client[c].parts = ps THEN "landed" ELSE @]
           p == client[c].target
           l == client[c].local
           s == Merge(slots[p], l, ps)
<1>2. client[c] \in ClientState /\ client[c].pc = "writing"
  BY DEF IInv, WriteLands
<1>3. Placing(slots, client[c]) /\ client[c].left > 0 /\ client[c].cmd.key \in Keys
  BY <1>2 DEF IInv, Sound
<1>4. p \in Positions /\ slots[p] \in Slot /\ l \in Slot
  BY <1>2 DEF ClientState, IInv
<1>5. s \in Slot
  BY <1>4 DEF Merge, Slot
<1>6. slots' = [slots EXCEPT ![p] = s] /\ slots' \in [Positions -> Slot]
  BY <1>1, <1>4, <1>5 DEF IInv
<1>7. /\ "header" \in ps => s.occupied = Valid /\ s.key = l.key
      /\ "header" \notin ps => s.occupied = slots[p].occupied /\ s.key = slots[p].key
      /\ s.value \in {l.value, slots[p].value}
  BY <1>3 DEF Merge, Placing
<1> HIDE DEF s
<1>8. slots'[p] = s /\ \A q \in Positions : q # p => slots'[q] = slots[q]
  BY <1>4, <1>6 DEF IInv
<1>9. Grows(slots, slots')
  BY <1>7, <1>8 DEF Grows, Valid, Empty
<1>10. Fitting(slots')
  BY <1>3, <1>4, <1>7, <1>8 DEF Fitting, IInv, Placing
<1>11. ChainsUnbroken(slots')
  <2> SUFFICES ASSUME NEW q \in Positions, slots'[q].occupied = Valid,
                      NEW i \in 0 .. Dist(Hash[slots'[q].key], q) - 1
               PROVE  slots'[Probe(Hash[slots'[q].key], i)].occupied # Empty
    BY DEF ChainsUnbroken
  <2>1. slots'[q].key \in Keys
    BY <1>10 DEF Fitting, Valid, Empty
  <2>2. Dist(Hash[slots'[q].key], q) \in Positions
    BY <2>1, HashType, ProbeDist
  <2>3. InUseBefore(slots, slots'[q].key, Dist(Hash[slots'[q].key], q))
    <3>1. CASE q = p /\ "header" \in ps
      BY <3>1, <1>3, <1>7, <1>8 DEF Placing
    <3>2. CASE ~(q = p /\ "header" \in ps)
      <4>1. slots[q].occupied = Valid /\ slots[q].key = slots'[q].key
        BY <3>2, <1>7, <1>8
      <4> QED BY <4>1 DEF IInv, ChainsUnbroken, InUseBefore
    <3> QED BY <3>1, <3>2
  <2>4. InUseBefore(slots', slots'[q].key, Dist(Hash[slots'[q].key], q))
    BY <2>1, <2>2, <2>3, <1>9, InUseStays
  <2> QED BY <2>4 DEF InUseBefore
<1>12. r \in ClientState
  <2>1. client[c].parts \ ps \in SUBSET Parts
    BY <1>2 DEF ClientState
  <2>2. (IF client[c].parts = ps THEN "landed" ELSE client[c].pc)
          \in {"idle", "reading", "touching", "writing", "landed"}
    BY <1>2
  <2> QED BY <2>1, <2>2, <1>2 DEF ClientState
<1>13. Sound(slots', r)
  <2>1. Placing(slots', client[c])
    BY <1>2, <1>9, SoundStays DEF IInv, Sound
  <2>2. r.pc \in {"writing", "landed"} /\ r.local = client[c].local
        /\ r.target = client[c].target /\ r.left = client[c].left /\ r.cmd = client[c].cmd
    BY <1>2 DEF ClientState
  <2> HIDE DEF r
  <2>3. Placing(slots', r)
    BY <2>1, <2>2 DEF Placing
  <2> QED BY <2>2, <2>3, <1>3 DEF Sound
<1>14. Becomes(c, r)
  BY <1>1
<1> HIDE DEF r
<1> QED BY <1>6, <1>9, <1>10, <1>11, <1>12, <1>13, <1>14, TableStep

LEMMA TouchLandsStep ==
  ASSUME IInv, NEW c \in Clients, TouchLands(c)
  PROVE  IInv' /\ Grows(slots, slots')
<1> DEFINE r == [client[c] EXCEPT !.pc = "landed"]
           p == client[c].target
<1>1. Becomes(c, r) /\ slots' = [slots EXCEPT ![p].access_count = @ + 1]
  BY DEF TouchLands
<1>2. client[c] \in ClientState /\ client[c].pc = "touching" /\ p \in Positions
  BY DEF IInv, TouchLands, Transfers, ClientState
<1>3. client[c].left > 0 /\ client[c].cmd.key \in Keys
  BY <1>2 DEF IInv, Sound
<1>4. slots' \in [Positions -> Slot]
  BY <1>1, <1>2 DEF IInv, Slot
<1>5. \A q \in Positions : /\ slots'[q].occupied = slots[q].occupied
                           /\ slots'[q].key = slots[q].key
                           /\ slots'[q].value = slots[q].value
  BY <1>1, <1>2 DEF IInv, Slot
<1>6. Grows(slots, slots')
  BY <1>5 DEF Grows
<1>7. Fitting(slots')
  BY <1>5 DEF Fitting, IInv
<1>8. ChainsUnbroken(slots')
  <2> SUFFICES ASSUME NEW q \in Positions, slots'[q].occupied = Valid,
                      NEW i \in 0 .. Dist(Hash[slots'[q].key], q) - 1
               PROVE  slots'[Probe(Hash[slots'[q].key], i)].occupied # Empty
    BY DEF ChainsUnbroken
  <2>1. slots[q].occupied = Valid /\ slots'[q].key = slots[q].key /\ slots[q].key \in Keys
    BY <1>5 DEF IInv, Fitting, Valid, Empty
  <2>2. Dist(Hash[slots[q].key], q) \in Positions
    BY <2>1, HashType, ProbeDist
  <2>3. Probe(Hash[slots[q].key], i) \in Positions
    BY <2>1, <2>2, ProbesInside
  <2>4. slots[Probe(Hash[slots[q].key], i)].occupied # Empty
    BY <2>1 DEF IInv, ChainsUnbroken
  <2> QED BY <2>1, <2>3, <2>4, <1>5
<1>9. r \in ClientState
  BY <1>2 DEF ClientState
<1>10. Sound(slots', r)
  BY <1>2, <1>3 DEF Sound, ClientState
<1> HIDE DEF r
<1> QED BY <1>1, <1>4, <1>6, <1>7, <1>8, <1>9, <1>10, TableStep

LEMMA FailsStep ==
  ASSUME IInv, NEW c \in Clients, Fails(c)
  PROVE  IInv'
<1>1. /\ Becomes(c, AtPrompt(client[c].cmd, FALSE, NoValue, "error", client[c].left - 1))
      /\ UNCHANGED slots /\ client[c].pc # "idle"
  BY DEF Fails
<1> QED BY <1>1, AtPromptStep

\* One step: the invariant, and that no slot is emptied.
LEMMA StepInv == IInv /\ [Next]_vars => IInv' /\ Grows(slots, slots')
<1> SUFFICES ASSUME IInv, [Next]_vars PROVE IInv' /\ Grows(slots, slots')
  OBVIOUS
<1>1. ASSUME UNCHANGED slots PROVE Grows(slots, slots')
  BY <1>1 DEF Grows
<1>2. ASSUME NEW c \in Clients, Begins(c) PROVE IInv' /\ UNCHANGED slots
  BY <1>2, BeginsStep DEF Begins, BeginGet, BeginSet, RejectSet
<1>3. ASSUME NEW c \in Clients, ReadPart(c) PROVE IInv' /\ UNCHANGED slots
  BY <1>3, ReadPartStep DEF ReadPart
<1>4. ASSUME NEW c \in Clients, NextProbe(c) PROVE IInv' /\ UNCHANGED slots
  BY <1>4, NextProbeStep DEF NextProbe
<1>5. ASSUME NEW c \in Clients, GetMisses(c) \/ SetFull(c) PROVE IInv' /\ UNCHANGED slots
  <2>1. client[c].pc # "idle" /\ Returns(c, FALSE, NoValue) /\ UNCHANGED slots
    BY <1>5 DEF GetMisses, SetFull, Received, Transfers
  <2> QED BY <2>1, ReturnsStep
<1>6. ASSUME NEW c \in Clients, GetHits(c) PROVE IInv' /\ UNCHANGED slots
  <2>1. client[c].pc # "idle" /\ Returns(c, TRUE, Got(c).value) /\ UNCHANGED slots
    BY <1>6 DEF GetHits, Received, Transfers
  <2>2. Got(c).value \in Values \cup {NoValue}
    BY <1>6, GotFacts DEF GetHits, Slot
  <2> QED BY <2>1, <2>2, ReturnsStep
<1>7. ASSUME NEW c \in Clients, GetMetaHits(c) PROVE IInv' /\ UNCHANGED slots
  BY <1>7, GetMetaHitsStep DEF GetMetaHits
<1>8. ASSUME NEW c \in Clients, SetOverwrites(c) \/ SetInserts(c) \/ SetReuses(c)
      PROVE  IInv' /\ UNCHANGED slots
  BY <1>8, SetStep DEF SetOverwrites, SetInserts, SetReuses, PostsWrite
<1>9. ASSUME NEW c \in Clients, Completes(c) PROVE IInv' /\ UNCHANGED slots
  <2> DEFINE v == IF client[c].cmd.op = "set" THEN NoValue ELSE client[c].local.value
  <2>1. client[c].pc # "idle" /\ Returns(c, TRUE, v) /\ UNCHANGED slots
    BY <1>9 DEF Completes, Transfers
  <2>2. v \in Values \cup {NoValue}
    BY DEF IInv, ClientState, Slot
  <2> HIDE DEF v
  <2> QED BY <2>1, <2>2, ReturnsStep
<1>10. ASSUME NEW c \in Clients, Fails(c) PROVE IInv' /\ UNCHANGED slots
  BY <1>10, FailsStep DEF Fails
<1>11. ASSUME NEW c \in Clients, WriteLands(c) \/ TouchLands(c)
       PROVE  IInv' /\ Grows(slots, slots')
  BY <1>11, WriteLandsStep, TouchLandsStep
<1>12. CASE UNCHANGED vars
  BY <1>12, <1>1 DEF vars, IInv
<1> QED BY <1>1, <1>2, <1>3, <1>4, <1>5, <1>6, <1>7, <1>8, <1>9, <1>10, <1>11, <1>12
        DEF Next, Progress

LEMMA Inductive == Spec => []IInv
BY InitInv, StepInv, PTL DEF Spec

\* Whatever clients race: slots keep their types and hold nothing too long.
THEOREM TypeCorrect == Spec => []TypeOK
<1>1. IInv => TypeOK
  BY DEF IInv, TypeOK, Fitting
<1> QED BY <1>1, Inductive, PTL

\* Whatever clients race: every key stays reachable from its hash position.
THEOREM ChainsStayUnbroken == Spec => []ProbeReachable
<1>1. IInv => ProbeReachable
  BY DEF IInv, ProbeReachable
<1> QED BY <1>1, Inductive, PTL

\* Whatever clients race: no slot is ever emptied.
THEOREM SlotsStayUsed == Spec => SlotsNeverEmptied
<1>1. IInv /\ [Next]_vars =>
        [\A p \in Positions : slots[p].occupied # Empty => slots'[p].occupied # Empty]_vars
  BY StepInv DEF Grows
<1> QED BY <1>1, Inductive, PTL DEF Spec, SlotsNeverEmptied

-----------------------------------------------------------------------------
(* A single client that sets, the use rdma_client.cpp is written for: no   *)
(* key is ever stored twice, for any number of readers, slots, keys and    *)
(* values, in whatever pieces slots move, and whichever queue pairs fail.  *)
(*                                                                         *)
(* What every race preserves (IInv) is not enough: the writer must also be *)
(* right about the slots it has passed and about the header it has in its  *)
(* buffer (Unfound), and the slot its WRITE goes to must be the only one   *)
(* that may hold the key (Alone), from the moment the WRITE is posted      *)
(* until its last part has landed.  Only another writer could make either  *)
(* untrue; a FETCH_AND_ADD moves no header.                                *)

SingleWriter ==
  \A c, d \in Clients : "set" \in Commands[c] /\ "set" \in Commands[d] => c = d

Searches(r) == r.pc = "reading" /\ r.cmd.op = "set"
Writes(r)   == r.pc = "writing"

\* What a SET in the middle of its probe loop knows of table t.
Unfound(t, r) ==
  /\ \A j \in 0 .. r.probe - 1 : ~Holds(ProbedSlot(t, r.cmd.key, j), r.cmd.key)
  /\ "header" \notin r.parts =>
       /\ r.local.occupied = ProbedSlot(t, r.cmd.key, r.probe).occupied
       /\ r.local.key = ProbedSlot(t, r.cmd.key, r.probe).key

\* No slot but p holds k.
OnlyAt(t, p, k) == \A q \in Positions : Holds(t[q], k) => q = p

Alone(t, r) == OnlyAt(t, r.target, r.local.key)

\* What client c must know of t when its record is r.
Informed(t, c, r) ==
  /\ Searches(r) => Unfound(t, r)
  /\ Writes(r) => Alone(t, r)
  /\ Searches(r) \/ Writes(r) => "set" \in Commands[c]

WInv == /\ IInv /\ KeysUnique(slots)
        /\ \A c \in Clients : Informed(slots, c, client[c])

-----------------------------------------------------------------------------
(* Steps that leave the headers of the table alone.                        *)

\* A step of client c to record r that leaves the table alone.
LEMMA QuietInformed ==
  ASSUME WInv, IInv', NEW c \in Clients, NEW r, Informed(slots, c, r),
         Becomes(c, r), UNCHANGED slots
  PROVE  WInv'
BY DEF WInv, IInv, Becomes

\* A client that neither searches for a SET nor writes needs to know nothing.
LEMMA NeedsNothing ==
  ASSUME NEW t, NEW c, NEW r, r.pc \in {"idle", "touching", "landed"}
  PROVE  Informed(t, c, r)
BY DEF Informed, Searches, Writes

LEMMA AtPromptInformed ==
  ASSUME WInv, IInv', NEW c \in Clients, NEW ok, NEW v, NEW qp, NEW left,
         Becomes(c, AtPrompt(client[c].cmd, ok, v, qp, left)), UNCHANGED slots
  PROVE  WInv'
<1> DEFINE r == AtPrompt(client[c].cmd, ok, v, qp, left)
<1>1. r.pc = "idle"
  BY DEF AtPrompt
<1> HIDE DEF r
<1>2. Informed(slots, c, r)
  BY <1>1, NeedsNothing
<1> QED BY <1>2, QuietInformed DEF r

LEMMA BeginsInformed ==
  ASSUME WInv, IInv', NEW c \in Clients, Begins(c)
  PROVE  WInv'
<1>1. PICK k \in AskedKeys :
        \/ \E op \in Gets : BeginGet(c, op, k)
        \/ \E v \in AskedValues : BeginSet(c, k, v) \/ RejectSet(c, k, v)
  BY DEF Begins
<1>2. client[c] \in ClientState /\ Sound(slots, client[c])
  BY DEF WInv, IInv
<1>3. ASSUME NEW op \in Gets, BeginGet(c, op, k) PROVE WInv'
  <2> DEFINE r == [client[c] EXCEPT !.pc = "reading", !.parts = Parts,
                     !.cmd = [op |-> op, key |-> k, value |-> NoValue]]
  <2>1. r.pc = "reading" /\ r.cmd.op # "set"
    BY <1>2 DEF ClientState, Gets
  <2>2. Becomes(c, r) /\ UNCHANGED slots
    BY <1>3 DEF BeginGet
  <2> HIDE DEF r
  <2>3. Informed(slots, c, r)
    BY <2>1 DEF Informed, Searches, Writes
  <2> QED BY <2>2, <2>3, QuietInformed
<1>4. ASSUME NEW v \in AskedValues, BeginSet(c, k, v) PROVE WInv'
  <2> DEFINE r == [client[c] EXCEPT !.pc = "reading", !.parts = Parts,
                     !.cmd = [op |-> "set", key |-> k, value |-> v]]
  <2>1. client[c].pc = "idle" /\ "set" \in Commands[c]
    BY <1>4 DEF BeginSet, MayIssue
  <2>2. r.pc = "reading" /\ r.probe = client[c].probe /\ "header" \in r.parts
    BY <1>2 DEF ClientState, Parts
  <2>3. client[c].probe = 0
    BY <1>2, <2>1 DEF Sound
  <2>4. Becomes(c, r) /\ UNCHANGED slots
    BY <1>4 DEF BeginSet
  <2> HIDE DEF r
  <2>5. Unfound(slots, r)
    BY <2>2, <2>3 DEF Unfound
  <2>6. Informed(slots, c, r)
    BY <2>1, <2>2, <2>5 DEF Informed, Searches, Writes
  <2> QED BY <2>4, <2>6, QuietInformed
<1>5. ASSUME NEW v \in AskedValues, RejectSet(c, k, v) PROVE WInv'
  <2> DEFINE r == [client[c] EXCEPT !.cmd = [op |-> "set", key |-> k, value |-> v],
                     !.ok = FALSE, !.value = NoValue, !.left = @ - 1]
  <2>1. client[c].pc = "idle"
    BY <1>5 DEF RejectSet, MayIssue
  <2>2. r.pc = client[c].pc
    BY <1>2 DEF ClientState
  <2>3. Becomes(c, r) /\ UNCHANGED slots
    BY <1>5 DEF RejectSet
  <2> HIDE DEF r
  <2>4. Informed(slots, c, r)
    BY <2>1, <2>2, NeedsNothing
  <2> QED BY <2>3, <2>4, QuietInformed
<1> QED BY <1>1, <1>3, <1>4, <1>5

LEMMA ReadPartInformed ==
  ASSUME WInv, IInv', NEW c \in Clients, ReadPart(c)
  PROVE  WInv'
<1>1. PICK ps \in Chunks(client[c].parts) :
        Becomes(c, [client[c] EXCEPT !.local = Merge(@, slots[Here(c)], ps),
                                     !.parts = @ \ ps])
  BY DEF ReadPart
<1> DEFINE s == Merge(client[c].local, slots[Here(c)], ps)
           r == [client[c] EXCEPT !.local = s, !.parts = @ \ ps]
<1>2. client[c] \in ClientState /\ UNCHANGED slots /\ client[c].pc = "reading"
  BY DEF WInv, IInv, ReadPart, Transfers
<1>3. Informed(slots, c, client[c])
  BY DEF WInv
<1>4. /\ "header" \in ps => s.occupied = slots[Here(c)].occupied /\ s.key = slots[Here(c)].key
      /\ "header" \notin ps => s.occupied = client[c].local.occupied
                               /\ s.key = client[c].local.key
  BY DEF Merge
<1> HIDE DEF s
<1>5. /\ r.pc = client[c].pc /\ r.cmd = client[c].cmd /\ r.probe = client[c].probe
      /\ r.local = s /\ r.parts = client[c].parts \ ps
  BY <1>2 DEF ClientState
<1>6. Becomes(c, r)
  BY <1>1 DEF s
<1> HIDE DEF r
<1>7. Unfound(slots, client[c]) => Unfound(slots, r)
  BY <1>4, <1>5 DEF Unfound, ProbedSlot, Here
<1>8. Informed(slots, c, r)
  BY <1>2, <1>3, <1>5, <1>7 DEF Informed, Searches, Writes
<1> QED BY <1>2, <1>6, <1>8, QuietInformed

\* The writer's READ delivers a true header, whatever the readers do meanwhile.
LEMMA GotIsTrue ==
  ASSUME WInv, NEW c \in Clients, Received(c, {"set"})
  PROVE  /\ Unfound(slots, client[c]) /\ "set" \in Commands[c]
         /\ Got(c).occupied = slots[Here(c)].occupied /\ Got(c).key = slots[Here(c)].key
<1>1. Searches(client[c])
  BY DEF Received, Transfers, Searches
<1>2. Unfound(slots, client[c]) /\ "set" \in Commands[c]
  BY <1>1 DEF WInv, Informed
<1> QED BY <1>2 DEF Unfound, Got, Merge, Here, ProbedSlot

\* A search that passes probe i has passed everything before i + 1.
LEMMA OneMorePassed ==
  ASSUME NEW t, NEW k, NEW i \in Nat, PassesAllBefore(t, k, i), Passes(t, k, i)
  PROVE  PassesAllBefore(t, k, i + 1)
<1>1. \A j \in 0 .. i + 1 - 1 : j \in 0 .. i - 1 \/ j = i
  OBVIOUS
<1> QED BY <1>1 DEF PassesAllBefore

\* So the writer is right that a slot it passes does not hold the key.
LEMMA PassesHere ==
  ASSUME WInv, NEW c \in Clients, Received(c, {"set"})
  PROVE  /\ PassesAllBefore(slots, Key(c), client[c].probe)
         /\ GoesOn(c) => PassesAllBefore(slots, Key(c), client[c].probe + 1)
<1>1. Unfound(slots, client[c]) /\ Searching(slots, client[c]) /\ client[c].probe \in Positions
  BY GotIsTrue, GotFacts DEF WInv, ClientState
<1>2. PassesAllBefore(slots, Key(c), client[c].probe)
  BY <1>1 DEF PassesAllBefore, Passes, Unfound, Searching, InUseBefore, ProbedSlot, Key
<1>3. Holds(Got(c), Key(c)) <=> Holds(slots[Here(c)], Key(c))
  BY GotIsTrue DEF Holds
<1>4. ASSUME GoesOn(c) PROVE PassesAllBefore(slots, Key(c), client[c].probe + 1)
  <2>1. slots[Here(c)].occupied # Empty /\ ~Holds(slots[Here(c)], Key(c))
    BY <1>3, <1>4, GotIsTrue DEF GoesOn
  <2>2. Passes(slots, Key(c), client[c].probe)
    BY <2>1 DEF Passes, ProbedSlot, Here, Key
  <2> QED BY <1>1, <1>2, <2>2, OneMorePassed DEF Positions
<1> QED BY <1>2, <1>3, <1>4

LEMMA NextProbeInformed ==
  ASSUME WInv, IInv', NEW c \in Clients, NextProbe(c)
  PROVE  WInv'
<1> DEFINE r == [client[c] EXCEPT !.probe = @ + 1, !.parts = Parts, !.local = EmptySlot,
                   !.tomb = TombAfter(c)]
<1>1. Becomes(c, r) /\ UNCHANGED slots /\ GoesOn(c) /\ Received(c, Gets \cup {"set"})
  BY DEF NextProbe
<1>2. client[c] \in ClientState
  BY DEF WInv, IInv
<1>3. /\ r.pc = client[c].pc /\ r.cmd = client[c].cmd /\ r.probe = client[c].probe + 1
      /\ r.parts = Parts
  BY <1>2 DEF ClientState
<1> HIDE DEF r
<1>4. ASSUME Searches(r) PROVE Unfound(slots, r) /\ "set" \in Commands[c]
  <2>1. Received(c, {"set"})
    BY <1>1, <1>3, <1>4 DEF Received, Searches
  <2>2. PassesAllBefore(slots, Key(c), r.probe) /\ "set" \in Commands[c]
    BY <2>1, <1>1, <1>3, PassesHere, GotIsTrue
  <2> QED BY <2>2, <1>3 DEF PassesAllBefore, Passes, Unfound, Key, Parts
<1>5. ~Writes(r)
  BY <1>1, <1>3 DEF Received, Transfers, Writes
<1>6. Informed(slots, c, r)
  BY <1>4, <1>5 DEF Informed
<1> QED BY <1>1, <1>6, QuietInformed

LEMMA GetMetaHitsInformed ==
  ASSUME WInv, IInv', NEW c \in Clients, GetMetaHits(c)
  PROVE  WInv'
<1> DEFINE r == [client[c] EXCEPT !.pc = "touching", !.target = Here(c),
                   !.local = Got(c), !.parts = {}]
<1>1. Becomes(c, r) /\ UNCHANGED slots
  BY DEF GetMetaHits
<1>2. r.pc = "touching"
  BY DEF WInv, IInv, ClientState
<1> HIDE DEF r
<1>3. Informed(slots, c, r)
  BY <1>2, NeedsNothing
<1> QED BY <1>1, <1>3, QuietInformed

\* A SET posts a WRITE to a slot only if no other slot holds its key.
LEMMA PostsWriteInformed ==
  ASSUME WInv, IInv', NEW c \in Clients, Received(c, {"set"}),
         NEW target, NEW count, PostsWrite(c, target, count),
         OnlyAt(slots, target, Key(c))
  PROVE  WInv'
<1> DEFINE local == [occupied |-> Valid, access_count |-> count,
                     key |-> Key(c), value |-> client[c].cmd.value]
           r == [client[c] EXCEPT !.pc = "writing", !.target = target, !.parts = Parts,
                   !.local = local]
<1>1. Becomes(c, r) /\ UNCHANGED slots
  BY DEF PostsWrite
<1>2. local.key = Key(c)
  OBVIOUS
<1> HIDE DEF local
<1>3. r.pc = "writing" /\ r.target = target /\ r.local = local
  BY DEF WInv, IInv, ClientState
<1> HIDE DEF r
<1>4. Alone(slots, r) /\ "set" \in Commands[c]
  BY <1>2, <1>3, GotIsTrue DEF Alone
<1>5. Informed(slots, c, r)
  BY <1>3, <1>4 DEF Informed, Searches, Writes
<1> QED BY <1>1, <1>5, QuietInformed

\* An absent key is alone in whatever slot it is put.
LEMMA AbsentIsAlone ==
  ASSUME NEW t, NEW k, NEW p, ~Present(t, k)
  PROVE  OnlyAt(t, p, k)
BY DEF OnlyAt, Present

LEMMA SetInformed ==
  ASSUME WInv, IInv', NEW c \in Clients,
         SetOverwrites(c) \/ SetInserts(c) \/ SetReuses(c)
  PROVE  WInv'
<1> DEFINE k == Key(c)
<1>1. Received(c, {"set"})
  BY DEF SetOverwrites, SetInserts, SetReuses
<1>2. k \in Keys /\ Here(c) \in Positions /\ client[c].probe \in Positions
  BY <1>1, GotFacts DEF WInv, ClientState
<1>3. CASE SetOverwrites(c)
  <2>1. Holds(slots[Here(c)], k) /\ PostsWrite(c, Here(c), Got(c).access_count)
    BY <1>1, <1>3, GotIsTrue DEF SetOverwrites, Holds
  <2>2. OnlyAt(slots, Here(c), k)
    BY <2>1, <1>2 DEF OnlyAt, Holds, WInv, KeysUnique
  <2> QED BY <2>1, <2>2, <1>1, PostsWriteInformed
<1>4. CASE SetInserts(c)
  <2>1. slots[Here(c)].occupied = Empty
    BY <1>1, <1>4, GotIsTrue DEF SetInserts
  <2>2. EndsAt(slots, k, client[c].probe)
    BY <1>1, <2>1, PassesHere DEF EndsAt, ProbedSlot, Here, Key
  <2>3. ~Present(slots, k)
    BY <1>2, <2>2, EndIsAbsence DEF WInv, IInv
  <2>4. PICK p : PostsWrite(c, p, 0)
    BY <1>4 DEF SetInserts
  <2> QED BY <1>1, <2>3, <2>4, AbsentIsAlone, PostsWriteInformed
<1>5. CASE SetReuses(c)
  <2>1. GoesOn(c) /\ client[c].probe + 1 = NumSlots
    BY <1>2, <1>5, NumSlotsAssumption DEF SetReuses, LastProbe, Positions
  <2>2. Exhausted(slots, k)
    BY <1>1, <2>1, PassesHere DEF Exhausted
  <2>3. ~Present(slots, k)
    BY <1>2, <2>2, ExhaustionIsAbsence
  <2>4. PICK p : PostsWrite(c, p, 0)
    BY <1>5 DEF SetReuses
  <2> QED BY <1>1, <2>3, <2>4, AbsentIsAlone, PostsWriteInformed
<1> QED BY <1>3, <1>4, <1>5

-----------------------------------------------------------------------------
(* Steps that change the table.                                            *)

SameHeaders(t, u) ==
  \A p \in Positions : u[p].occupied = t[p].occupied /\ u[p].key = t[p].key

\* Knowledge is about headers only.
LEMMA InformedStays ==
  ASSUME NEW t, NEW u, SameHeaders(t, u), NEW c, NEW r \in ClientState,
         Sound(t, r), Informed(t, c, r)
  PROVE  Informed(u, c, r)
<1>1. \A q \in Positions : \A k : Holds(u[q], k) <=> Holds(t[q], k)
  BY DEF SameHeaders, Holds
<1>2. ASSUME Searches(r) PROVE Unfound(u, r)
  <2>1. r.cmd.key \in Keys /\ r.probe \in Positions /\ Unfound(t, r)
    BY <1>2 DEF Sound, Searches, Informed, ClientState
  <2>2. /\ Probe(Hash[r.cmd.key], r.probe) \in Positions
        /\ \A j \in 0 .. r.probe - 1 : Probe(Hash[r.cmd.key], j) \in Positions
    BY <2>1, ProbesInside
  <2> QED BY <2>1, <2>2, <1>1 DEF Unfound, ProbedSlot, SameHeaders
<1>3. ASSUME Writes(r) PROVE Alone(u, r)
  BY <1>1, <1>3 DEF Informed, Alone, OnlyAt
<1> QED BY <1>2, <1>3 DEF Informed

LEMMA TouchLandsInformed ==
  ASSUME WInv, IInv', NEW c \in Clients, TouchLands(c)
  PROVE  WInv'
<1> DEFINE r == [client[c] EXCEPT !.pc = "landed"]
           p == client[c].target
<1>1. Becomes(c, r) /\ slots' = [slots EXCEPT ![p].access_count = @ + 1]
  BY DEF TouchLands
<1>2. client[c] \in ClientState
  BY DEF WInv, IInv
<1>3. SameHeaders(slots, slots')
  BY <1>1, <1>2 DEF SameHeaders, WInv, IInv, Slot, ClientState
<1>4. KeysUnique(slots')
  BY <1>3 DEF SameHeaders, KeysUnique, WInv
<1>5. r.pc = "landed"
  BY <1>2 DEF ClientState
<1> HIDE DEF r
<1>6. Informed(slots', c, r)
  BY <1>5, NeedsNothing
<1>7. \A d \in Clients : Informed(slots', d, client[d])
  BY <1>3, InformedStays DEF WInv, IInv
<1> QED BY <1>1, <1>4, <1>6, <1>7 DEF WInv, IInv, Becomes

\* The header of the WRITE may reach the target at any time, or any part of it
\* may: the key is then in that slot only.
LEMMA WriteLandsInformed ==
  ASSUME SingleWriter, WInv, IInv', NEW c \in Clients, WriteLands(c)
  PROVE  WInv'
<1>1. PICK ps \in Chunks(client[c].parts) :
        /\ slots' = [slots EXCEPT ![client[c].target] = Merge(@, client[c].local, ps)]
        /\ Becomes(c, [client[c] EXCEPT !.parts = @ \ ps,
                         !.pc = IF client[c].parts = ps THEN "landed" ELSE @])
  BY DEF WriteLands
<1> DEFINE r == [client[c] EXCEPT !.parts = @ \ ps,
                   !.pc = IF client[c].parts = ps THEN "landed" ELSE @]
           p == client[c].target
           l == client[c].local
           s == Merge(slots[p], l, ps)
<1>2. client[c] \in ClientState /\ Writes(client[c]) /\ p \in Positions
  BY DEF WInv, IInv, WriteLands, Writes, ClientState
<1>3. Alone(slots, client[c]) /\ "set" \in Commands[c]
  BY <1>2 DEF WInv, Informed
<1>4. slots'[p] = s /\ \A q \in Positions : q # p => slots'[q] = slots[q]
  BY <1>1, <1>2 DEF WInv, IInv
<1>5. /\ "header" \in ps => s.key = l.key
      /\ "header" \notin ps => s.occupied = slots[p].occupied /\ s.key = slots[p].key
  BY DEF Merge
<1> HIDE DEF s
<1>6. \A q \in Positions : q # p /\ Holds(slots'[q], l.key) => FALSE
  BY <1>3, <1>4 DEF Alone, OnlyAt
<1>7. OnlyAt(slots', p, l.key)
  BY <1>6 DEF OnlyAt
<1>8. KeysUnique(slots')
  <2>1. CASE "header" \in ps
    <3> SUFFICES ASSUME NEW x \in Positions, NEW y \in Positions,
                        slots'[x].occupied = Valid, slots'[y].occupied = Valid,
                        slots'[x].key = slots'[y].key
                 PROVE  x = y
      BY DEF KeysUnique
    <3>1. CASE x = p \/ y = p
      BY <3>1, <2>1, <1>4, <1>5, <1>7 DEF OnlyAt, Holds
    <3>2. CASE x # p /\ y # p
      BY <3>2, <1>4 DEF WInv, KeysUnique
    <3> QED BY <3>1, <3>2
  <2>2. CASE "header" \notin ps
    BY <2>2, <1>4, <1>5 DEF WInv, KeysUnique
  <2> QED BY <2>1, <2>2
<1>9. ASSUME NEW d \in Clients, d # c PROVE Informed(slots', d, client[d])
  <2>1. ~Searches(client[d]) /\ ~Writes(client[d])
    BY <1>3, <1>9 DEF SingleWriter, WInv, Informed
  <2> QED BY <2>1 DEF Informed
<1>10. r.pc \in {"writing", "landed"} /\ r.target = p /\ r.local = l
  BY <1>2 DEF ClientState, Writes
<1>11. Becomes(c, r)
  BY <1>1
<1> HIDE DEF r
<1>12. Informed(slots', c, r)
  BY <1>3, <1>7, <1>10 DEF Informed, Searches, Writes, Alone
<1> QED BY <1>8, <1>9, <1>11, <1>12 DEF WInv, IInv, Becomes

-----------------------------------------------------------------------------

LEMMA WriterInit == Init => WInv
<1> SUFFICES ASSUME Init PROVE WInv
  OBVIOUS
<1>1. KeysUnique(slots)
  BY TablesAssumption DEF ServerTable, Init
<1>2. ASSUME NEW c \in Clients PROVE Informed(slots, c, client[c])
  <2>1. client[c].pc = "idle"
    BY <1>2 DEF Init, FreshClient, AtPrompt
  <2> QED BY <2>1, NeedsNothing
<1> QED BY <1>1, <1>2, InitInv DEF WInv

LEMMA WriterStep == SingleWriter /\ WInv /\ [Next]_vars => WInv'
<1> SUFFICES ASSUME SingleWriter, WInv, [Next]_vars PROVE WInv'
  OBVIOUS
<1>1. IInv'
  BY StepInv DEF WInv
<1>2. ASSUME NEW c \in Clients, GetMisses(c) \/ SetFull(c) \/ GetHits(c) \/ Completes(c)
      PROVE  WInv'
  BY <1>1, <1>2, AtPromptInformed DEF GetMisses, SetFull, GetHits, Completes, Returns
<1>3. ASSUME NEW c \in Clients, Fails(c) PROVE WInv'
  BY <1>1, <1>3, AtPromptInformed DEF Fails
<1>4. ASSUME NEW c \in Clients, Begins(c) \/ ReadPart(c) \/ NextProbe(c) \/ GetMetaHits(c)
      PROVE  WInv'
  BY <1>1, <1>4, BeginsInformed, ReadPartInformed, NextProbeInformed, GetMetaHitsInformed
<1>5. ASSUME NEW c \in Clients, SetOverwrites(c) \/ SetInserts(c) \/ SetReuses(c)
      PROVE  WInv'
  BY <1>1, <1>5, SetInformed
<1>6. ASSUME NEW c \in Clients, WriteLands(c) \/ TouchLands(c) PROVE WInv'
  BY <1>1, <1>6, WriteLandsInformed, TouchLandsInformed
<1>7. CASE UNCHANGED vars
  BY <1>1, <1>7 DEF vars, WInv
<1> QED BY <1>2, <1>3, <1>4, <1>5, <1>6, <1>7 DEF Next, Progress

\* With one writer no key is ever stored in two slots, although the writer
\* chooses its slot from READs that are several verbs old when it writes
\* (RdmaClient::set, remote_set).
THEOREM OneWriterKeepsKeysUnique ==
  ASSUME SingleWriter PROVE Spec => []UniqueKeys
<1>1. Init => WInv
  BY WriterInit
<1>2. WInv /\ [Next]_vars => WInv'
  BY WriterStep
<1>3. WInv => UniqueKeys
  BY DEF WInv, UniqueKeys
<1> QED BY <1>1, <1>2, <1>3, PTL DEF Spec

-----------------------------------------------------------------------------
(* What the clients observe.                                               *)

\* What client c does in a step.
Acts(c) == Begins(c) \/ Progress(c)

\* A step with its record is a step of OneSided.
LEMMA HistoryStep == HNext => Records /\ \E c \in Clients : Acts(c)
<1> SUFFICES ASSUME NEW c \in Clients, HBegins(c) \/ HProgress(c)
             PROVE  Records /\ Acts(c)
  BY DEF HNext
<1>1. CASE HBegins(c)
  BY <1>1 DEF HBegins, Begins, Acts
<1>2. CASE HProgress(c)
  BY <1>2 DEF HProgress, Progress, Acts
<1> QED BY <1>1, <1>2

LEMMA HistoryInit == HInit => Init
BY DEF HInit

\* The history constrains no step: what holds of OneSided holds here.
LEMMA HistoryInductive == HSpec => []IInv
<1>1. HInit => IInv
  BY InitInv, HistoryInit
<1>2. IInv /\ [HNext]_hvars => IInv'
  <2> SUFFICES ASSUME IInv, [HNext]_hvars PROVE IInv'
    OBVIOUS
  <2>1. [Next]_vars
    BY HistoryStep DEF Acts, Next, hvars, vars
  <2> QED BY <2>1, StepInv
<1> QED BY <1>1, <1>2, PTL DEF HSpec

\* A step changes the record of one client.
LEMMA OthersStay ==
  ASSUME NEW c \in Clients, Acts(c), NEW d \in Clients, d # c, IInv
  PROVE  client'[d] = client[d]
<1>1. ASSUME NEW r, Becomes(c, r) PROVE client'[d] = client[d]
  BY <1>1 DEF Becomes, IInv
<1>2. ASSUME Begins(c) PROVE client'[d] = client[d]
  BY <1>1, <1>2 DEF Begins, BeginGet, BeginSet, RejectSet
<1>3. ASSUME ReadPart(c) \/ NextProbe(c) \/ GetMisses(c) \/ GetHits(c) \/ GetMetaHits(c)
      PROVE  client'[d] = client[d]
  BY <1>1, <1>3 DEF ReadPart, NextProbe, GetMisses, GetHits, GetMetaHits, Returns
<1>4. ASSUME SetOverwrites(c) \/ SetInserts(c) \/ SetReuses(c) \/ SetFull(c)
      PROVE  client'[d] = client[d]
  BY <1>1, <1>4 DEF SetOverwrites, SetInserts, SetReuses, SetFull, PostsWrite, Returns
<1>5. ASSUME WriteLands(c) \/ TouchLands(c) \/ Completes(c) \/ Fails(c)
      PROVE  client'[d] = client[d]
  BY <1>1, <1>5 DEF WriteLands, TouchLands, Completes, Fails, Returns
<1> QED BY <1>2, <1>3, <1>4, <1>5 DEF Acts, Progress

\* Only WRITE and FETCH_AND_ADD change the table.
LEMMA QuietSlots ==
  ASSUME NEW c \in Clients, Acts(c), ~WriteLands(c), ~TouchLands(c)
  PROVE  UNCHANGED slots
<1>1. ASSUME Begins(c) PROVE UNCHANGED slots
  BY <1>1 DEF Begins, BeginGet, BeginSet, RejectSet
<1>2. ASSUME ReadPart(c) \/ NextProbe(c) \/ GetMisses(c) \/ GetHits(c) \/ GetMetaHits(c)
             \/ Completes(c) \/ Fails(c)
      PROVE  UNCHANGED slots
  BY <1>2 DEF ReadPart, NextProbe, GetMisses, GetHits, GetMetaHits, Completes, Fails
<1>3. ASSUME SetOverwrites(c) \/ SetInserts(c) \/ SetReuses(c) \/ SetFull(c)
      PROVE  UNCHANGED slots
  BY <1>3 DEF SetOverwrites, SetInserts, SetReuses, SetFull, PostsWrite
<1> QED BY <1>1, <1>2, <1>3 DEF Acts, Progress

-----------------------------------------------------------------------------
(* The records the actions leave.                                          *)

LEMMA BecomesAt ==
  ASSUME IInv, NEW c \in Clients, NEW r, Becomes(c, r)
  PROVE  client'[c] = r
BY DEF Becomes, IInv

\* A SET that begins, or is rejected.
LEMMA SetBegins ==
  ASSUME IInv, NEW c \in Clients, NEW k, NEW v, BeginSet(c, k, v) \/ RejectSet(c, k, v)
  PROVE  /\ client'[c].cmd = [op |-> "set", key |-> k, value |-> v]
         /\ client[c].pc = "idle"
         /\ BeginSet(c, k, v) => client'[c].pc = "reading" /\ client'[c].parts = Parts
         /\ RejectSet(c, k, v) => client'[c].pc = "idle"
<1>1. client[c] \in ClientState
  BY DEF IInv
<1>2. CASE BeginSet(c, k, v)
  <2> DEFINE r == [client[c] EXCEPT !.pc = "reading", !.parts = Parts,
                     !.cmd = [op |-> "set", key |-> k, value |-> v]]
  <2>1. client'[c] = r /\ client[c].pc = "idle"
    BY <1>2, BecomesAt DEF BeginSet, MayIssue
  <2>2. r.pc = "reading" /\ r.parts = Parts /\ r.cmd = [op |-> "set", key |-> k, value |-> v]
    BY <1>1 DEF ClientState
  <2>3. ~RejectSet(c, k, v)
    BY <1>2 DEF BeginSet, RejectSet
  <2> HIDE DEF r
  <2> QED BY <2>1, <2>2, <2>3
<1>3. CASE RejectSet(c, k, v)
  <2> DEFINE r == [client[c] EXCEPT !.cmd = [op |-> "set", key |-> k, value |-> v],
                     !.ok = FALSE, !.value = NoValue, !.left = @ - 1]
  <2>1. client'[c] = r /\ client[c].pc = "idle"
    BY <1>3, BecomesAt DEF RejectSet, MayIssue
  <2>2. r.pc = client[c].pc /\ r.cmd = [op |-> "set", key |-> k, value |-> v]
    BY <1>1 DEF ClientState
  <2>3. ~BeginSet(c, k, v)
    BY <1>3 DEF BeginSet, RejectSet
  <2> HIDE DEF r
  <2> QED BY <2>1, <2>2, <2>3
<1> QED BY <1>2, <1>3

\* The steps that stay in the probe loop.
LEMMA KeepsReading ==
  ASSUME IInv, NEW c \in Clients, ReadPart(c) \/ NextProbe(c)
  PROVE  client'[c].pc = "reading" /\ client'[c].cmd = client[c].cmd
<1>1. client[c] \in ClientState /\ client[c].pc = "reading"
  BY DEF IInv, ReadPart, NextProbe, Received, Transfers
<1>2. CASE ReadPart(c)
  <2>1. PICK ps \in Chunks(client[c].parts) :
          Becomes(c, [client[c] EXCEPT !.local = Merge(@, slots[Here(c)], ps), !.parts = @ \ ps])
    BY <1>2 DEF ReadPart
  <2> DEFINE r == [client[c] EXCEPT !.local = Merge(@, slots[Here(c)], ps), !.parts = @ \ ps]
  <2>2. client'[c] = r
    BY <2>1, BecomesAt
  <2>3. r.pc = client[c].pc /\ r.cmd = client[c].cmd
    BY <1>1 DEF ClientState
  <2> HIDE DEF r
  <2> QED BY <1>1, <2>2, <2>3
<1>3. CASE NextProbe(c)
  <2> DEFINE r == [client[c] EXCEPT !.probe = @ + 1, !.parts = Parts, !.local = EmptySlot,
                     !.tomb = TombAfter(c)]
  <2>1. client'[c] = r
    BY <1>3, BecomesAt DEF NextProbe
  <2>2. r.pc = client[c].pc /\ r.cmd = client[c].cmd
    BY <1>1 DEF ClientState
  <2> HIDE DEF r
  <2> QED BY <1>1, <2>1, <2>2
<1> QED BY <1>2, <1>3

\* The commands whose verb is posted, or lands.
LEMMA GoesToVerb ==
  ASSUME IInv, NEW c \in Clients, GetMetaHits(c) \/ WriteLands(c) \/ TouchLands(c)
  PROVE  /\ client'[c].cmd = client[c].cmd
         /\ client'[c].pc \in {"touching", "writing", "landed"}
         /\ \/ /\ GetMetaHits(c) /\ client'[c].pc = "touching"
               /\ client'[c].local = Got(c) /\ client'[c].target = Here(c)
            \/ /\ TouchLands(c) /\ client[c].pc = "touching" /\ client'[c].pc = "landed"
               /\ client'[c].local = client[c].local /\ client'[c].target = client[c].target
            \/ /\ WriteLands(c) /\ client[c].pc = "writing"
               /\ client'[c].pc \in {"writing", "landed"}
               /\ client'[c].local = client[c].local /\ client'[c].target = client[c].target
<1>1. client[c] \in ClientState
  BY DEF IInv
<1>2. CASE GetMetaHits(c)
  <2> DEFINE r == [client[c] EXCEPT !.pc = "touching", !.target = Here(c),
                     !.local = Got(c), !.parts = {}]
  <2>1. client'[c] = r
    BY <1>2, BecomesAt DEF GetMetaHits
  <2>2. r.cmd = client[c].cmd /\ r.pc = "touching" /\ r.local = Got(c) /\ r.target = Here(c)
    BY <1>1 DEF ClientState
  <2> HIDE DEF r
  <2> QED BY <1>2, <2>1, <2>2
<1>3. CASE TouchLands(c)
  <2> DEFINE r == [client[c] EXCEPT !.pc = "landed"]
  <2>1. client'[c] = r /\ client[c].pc = "touching"
    BY <1>3, BecomesAt DEF TouchLands, Transfers
  <2>2. /\ r.cmd = client[c].cmd /\ r.pc = "landed" /\ r.local = client[c].local
        /\ r.target = client[c].target
    BY <1>1 DEF ClientState
  <2> HIDE DEF r
  <2> QED BY <1>3, <2>1, <2>2
<1>4. CASE WriteLands(c)
  <2>1. PICK ps \in Chunks(client[c].parts) :
          Becomes(c, [client[c] EXCEPT !.parts = @ \ ps,
                        !.pc = IF client[c].parts = ps THEN "landed" ELSE @])
    BY <1>4 DEF WriteLands
  <2> DEFINE r == [client[c] EXCEPT !.parts = @ \ ps,
                     !.pc = IF client[c].parts = ps THEN "landed" ELSE @]
  <2>2. client'[c] = r /\ client[c].pc = "writing"
    BY <1>4, <2>1, BecomesAt DEF WriteLands
  <2>3. /\ r.cmd = client[c].cmd /\ r.pc \in {client[c].pc, "landed"}
        /\ r.local = client[c].local /\ r.target = client[c].target
    BY <1>1 DEF ClientState
  <2> HIDE DEF r
  <2> QED BY <1>4, <2>2, <2>3
<1> QED BY <1>2, <1>3, <1>4

\* What one more chunk of a WRITE does to its slot and to its client.
LEMMA WriteLandsFacts ==
  ASSUME WInv, NEW c \in Clients, WriteLands(c)
  PROVE  \E ps \in Chunks(client[c].parts) :
           /\ client[c] \in ClientState /\ client[c].pc = "writing"
           /\ \A q \in Positions : q # client[c].target => slots'[q] = slots[q]
           /\ slots'[client[c].target] = Merge(slots[client[c].target], client[c].local, ps)
           /\ client'[c].parts = client[c].parts \ ps
           /\ client'[c].pc = IF client[c].parts = ps THEN "landed" ELSE "writing"
           /\ client'[c].cmd = client[c].cmd /\ client'[c].local = client[c].local
           /\ client'[c].target = client[c].target /\ client[c].target \in Positions
<1>1. PICK ps \in Chunks(client[c].parts) :
        /\ slots' = [slots EXCEPT ![client[c].target] = Merge(@, client[c].local, ps)]
        /\ Becomes(c, [client[c] EXCEPT !.parts = @ \ ps,
                         !.pc = IF client[c].parts = ps THEN "landed" ELSE @])
  BY DEF WriteLands
<1> DEFINE r == [client[c] EXCEPT !.parts = @ \ ps,
                   !.pc = IF client[c].parts = ps THEN "landed" ELSE @]
           s == Merge(slots[client[c].target], client[c].local, ps)
<1>2. client[c] \in ClientState /\ client[c].pc = "writing" /\ client[c].target \in Positions
  BY DEF WInv, IInv, WriteLands, ClientState
<1>3. client'[c] = r
  BY <1>1, BecomesAt DEF WInv
<1>4. /\ r.parts = client[c].parts \ ps /\ r.cmd = client[c].cmd
      /\ r.local = client[c].local /\ r.target = client[c].target
      /\ r.pc = IF client[c].parts = ps THEN "landed" ELSE "writing"
  BY <1>2 DEF ClientState
<1> HIDE DEF r
<1>5. slots'[client[c].target] = s
      /\ \A q \in Positions : q # client[c].target => slots'[q] = slots[q]
  BY <1>1, <1>2 DEF WInv, IInv
<1> HIDE DEF s
<1> QED BY <1>2, <1>3, <1>4, <1>5 DEF s

\* What chunks a transfer is made of.
LEMMA ChunkFacts ==
  ASSUME NEW parts \in SUBSET Parts, parts # {}, NEW ps \in Chunks(parts)
  PROVE  /\ ps # {} /\ ps \subseteq parts
         /\ parts \ ps # Parts
         /\ parts # ps => parts \ ps # {}
BY DEF Chunks

\* What a chunk carries and what it leaves.
LEMMA MergeFacts ==
  ASSUME NEW s, NEW t, NEW ps
  PROVE  /\ "header" \in ps => Merge(s, t, ps).occupied = t.occupied
                               /\ Merge(s, t, ps).key = t.key
         /\ "header" \notin ps => Merge(s, t, ps).occupied = s.occupied
                                  /\ Merge(s, t, ps).key = s.key
         /\ "value" \in ps => Merge(s, t, ps).value = t.value
         /\ "value" \notin ps => Merge(s, t, ps).value = s.value
BY DEF Merge

-----------------------------------------------------------------------------
(* A GET that overlooks a key, for any number of clients that write.       *)
(*                                                                         *)
(* A slot that has held the key since the GET began (held) is not behind   *)
(* the client's probe; and the header in the client's buffer, which may be *)
(* older than the table, is that slot's or one of a slot in use before it. *)

\* What a GET with record r knows of the slots H that have held its key.
Tracks(t, r, H) ==
  r.pc # "idle" /\ r.cmd.op # "set" =>
    \A p \in H : LET i == Dist(Hash[r.cmd.key], p) IN
      /\ p \in Positions /\ Holds(t[p], r.cmd.key)
      /\ r.pc = "reading" =>
           /\ r.probe <= i
           /\ "header" \notin r.parts => /\ r.probe < i => r.local.occupied # Empty
                                         /\ r.probe = i => Holds(r.local, r.cmd.key)

Tracking == \A c \in Clients : Tracks(slots, client[c], held[c])

\* What held becomes.
LEMMA HeldNext ==
  ASSUME Records, NEW c \in Clients
  PROVE  /\ held'[c] = HeldAfter(c)
         /\ client'[c].pc # "idle" /\ client'[c].cmd.op # "set" /\ Running(c) =>
              \A p \in held'[c] : /\ p \in held[c] /\ p \in Positions
                                  /\ Holds(slots'[p], client'[c].cmd.key)
BY DEF Records, HeldAfter, Getting, Holding

\* A client that does not act keeps track.
LEMMA OthersTrack ==
  ASSUME Tracking, Records, NEW d \in Clients, client'[d] = client[d]
  PROVE  Tracks(slots', client'[d], held'[d])
<1> SUFFICES ASSUME client[d].pc # "idle", client[d].cmd.op # "set", NEW p \in held'[d]
             PROVE  LET i == Dist(Hash[client[d].cmd.key], p) IN
      /\ p \in Positions /\ Holds(slots'[p], client[d].cmd.key)
      /\ client[d].pc = "reading" =>
           /\ client[d].probe <= i
           /\ "header" \notin client[d].parts =>
                /\ client[d].probe < i => client[d].local.occupied # Empty
                /\ client[d].probe = i => Holds(client[d].local, client[d].cmd.key)
  BY DEF Tracks
<1>1. p \in held[d] /\ p \in Positions /\ Holds(slots'[p], client[d].cmd.key)
  BY HeldNext DEF Running
<1> QED BY <1>1 DEF Tracking, Tracks

\* The header a READ ends with.
LEMMA GotHeader ==
  ASSUME NEW c
  PROVE  /\ "header" \in client[c].parts =>
              Got(c).occupied = slots[Here(c)].occupied /\ Got(c).key = slots[Here(c)].key
         /\ "header" \notin client[c].parts =>
              Got(c).occupied = client[c].local.occupied /\ Got(c).key = client[c].local.key
BY DEF Got, Merge

\* What the READ of client c delivers: the slot that has held the key, or a slot
\* in use before it.
LEMMA GotTracks ==
  ASSUME IInv, Tracking, NEW c \in Clients, NEW ops, Received(c, ops),
         client[c].cmd.op # "set", NEW p \in held[c]
  PROVE  LET i == Dist(Hash[Key(c)], p) IN
           /\ p \in Positions /\ i \in Positions /\ client[c].probe <= i
           /\ client[c].probe < i => Got(c).occupied # Empty
           /\ client[c].probe = i => Holds(Got(c), Key(c))
<1> DEFINE i == Dist(Hash[Key(c)], p)
<1>1. client[c].pc = "reading" /\ client[c].cmd.key = Key(c) /\ Key(c) \in Keys
  BY GotFacts DEF Key
<1>2. /\ p \in Positions /\ Holds(slots[p], Key(c)) /\ client[c].probe <= i
      /\ "header" \notin client[c].parts =>
           /\ client[c].probe < i => client[c].local.occupied # Empty
           /\ client[c].probe = i => Holds(client[c].local, Key(c))
  BY <1>1 DEF Tracking, Tracks
<1>3. i \in Positions /\ Probe(Hash[Key(c)], i) = p
  BY <1>1, <1>2, HashType, ProbeDist
<1>4. client[c].probe \in Positions
  BY DEF IInv, ClientState
<1>5. client[c].probe < i => slots[Here(c)].occupied # Empty
  BY <1>2, <1>3, <1>4 DEF IInv, ChainsUnbroken, Holds, Here, Key, Positions
<1>6. client[c].probe = i => Here(c) = p
  BY <1>3 DEF Here, Key
<1> HIDE DEF i
<1>7. /\ client[c].probe < i => Got(c).occupied # Empty
      /\ client[c].probe = i => Holds(Got(c), Key(c))
  <2>1. CASE "header" \in client[c].parts
    <3>1. Got(c).occupied = slots[Here(c)].occupied /\ Got(c).key = slots[Here(c)].key
      BY <2>1, GotHeader
    <3> QED BY <3>1, <1>2, <1>5, <1>6 DEF Holds
  <2>2. CASE "header" \notin client[c].parts
    <3>1. Got(c).occupied = client[c].local.occupied /\ Got(c).key = client[c].local.key
      BY <2>2, GotHeader
    <3> QED BY <3>1, <2>2, <1>2 DEF Holds
  <2> QED BY <2>1, <2>2
<1> QED BY <1>2, <1>3, <1>7 DEF i

\* A part of a slot arrives: a slot that held the key held it when it was read.
LEMMA ReadPartTracks ==
  ASSUME IInv, Tracking, Records, NEW c \in Clients, ReadPart(c)
  PROVE  Tracks(slots', client'[c], held'[c])
<1>1. PICK ps \in Chunks(client[c].parts) :
        Becomes(c, [client[c] EXCEPT !.local = Merge(@, slots[Here(c)], ps),
                                     !.parts = @ \ ps])
  BY DEF ReadPart
<1> DEFINE s == Merge(client[c].local, slots[Here(c)], ps)
           k == client[c].cmd.key
<1>2. client[c] \in ClientState /\ UNCHANGED slots /\ client[c].pc = "reading"
  BY DEF IInv, ReadPart, Transfers
<1>3. /\ "header" \in ps => s.occupied = slots[Here(c)].occupied /\ s.key = slots[Here(c)].key
      /\ "header" \notin ps => s.occupied = client[c].local.occupied
                               /\ s.key = client[c].local.key
  BY DEF Merge
<1> HIDE DEF s
<1>4. /\ client'[c].pc = "reading" /\ client'[c].cmd = client[c].cmd
      /\ client'[c].probe = client[c].probe
      /\ client'[c].local = s /\ client'[c].parts = client[c].parts \ ps
  BY <1>1, <1>2 DEF ClientState, Becomes, IInv, s
<1> SUFFICES ASSUME client[c].cmd.op # "set", NEW p \in held'[c]
             PROVE  /\ p \in Positions /\ Holds(slots'[p], k)
                    /\ client[c].probe <= Dist(Hash[k], p)
                    /\ "header" \notin client[c].parts \ ps =>
                         /\ client[c].probe < Dist(Hash[k], p) => s.occupied # Empty
                         /\ client[c].probe = Dist(Hash[k], p) => Holds(s, k)
  BY <1>4 DEF Tracks
<1>5. p \in held[c] /\ p \in Positions /\ Holds(slots[p], k)
  BY <1>2, <1>4, HeldNext DEF Running
<1>6. /\ client[c].probe <= Dist(Hash[k], p)
      /\ "header" \notin client[c].parts =>
           /\ client[c].probe < Dist(Hash[k], p) => client[c].local.occupied # Empty
           /\ client[c].probe = Dist(Hash[k], p) => Holds(client[c].local, k)
  BY <1>2, <1>5 DEF Tracking, Tracks
<1>7. k \in Keys /\ client[c].probe \in Positions
  BY <1>2 DEF IInv, Sound, ClientState
<1>8. Dist(Hash[k], p) \in Positions /\ Probe(Hash[k], Dist(Hash[k], p)) = p
  BY <1>5, <1>7, HashType, ProbeDist
<1>9. client[c].probe < Dist(Hash[k], p) => slots[Here(c)].occupied # Empty
  BY <1>5, <1>7, <1>8 DEF IInv, ChainsUnbroken, Holds, Here, Positions
<1>10. client[c].probe = Dist(Hash[k], p) => Holds(slots[Here(c)], k)
  BY <1>5, <1>8 DEF Here
<1> HIDE DEF k
<1> QED BY <1>2, <1>3, <1>5, <1>6, <1>9, <1>10 DEF Holds

\* The slot that was read is not one that held the key all the time.
LEMMA NextProbeTracks ==
  ASSUME IInv, Tracking, Records, NEW c \in Clients, NextProbe(c)
  PROVE  Tracks(slots', client'[c], held'[c])
<1> DEFINE k == client[c].cmd.key
<1>1. /\ client[c] \in ClientState /\ client[c].pc = "reading" /\ GoesOn(c)
      /\ Received(c, Gets \cup {"set"}) /\ UNCHANGED slots
  BY DEF IInv, NextProbe, Received, Transfers
<1>2. /\ client'[c].pc = "reading" /\ client'[c].cmd = client[c].cmd
      /\ client'[c].probe = client[c].probe + 1 /\ client'[c].parts = Parts
  BY <1>1 DEF ClientState, Becomes, IInv, NextProbe
<1> SUFFICES ASSUME client[c].cmd.op # "set", NEW p \in held'[c]
             PROVE  /\ p \in Positions /\ Holds(slots'[p], k)
                    /\ client[c].probe + 1 <= Dist(Hash[k], p)
  BY <1>2 DEF Tracks, Parts
<1>3. p \in held[c] /\ p \in Positions /\ Holds(slots'[p], k)
  BY <1>1, <1>2, HeldNext DEF Running
<1>4. /\ Dist(Hash[k], p) \in Positions /\ client[c].probe <= Dist(Hash[k], p)
      /\ client[c].probe = Dist(Hash[k], p) => Holds(Got(c), k)
  BY <1>1, <1>3, GotTracks DEF Key
<1>5. client[c].probe # Dist(Hash[k], p) /\ client[c].probe \in Positions
  BY <1>1, <1>4 DEF GoesOn, Key, ClientState
<1> QED BY <1>3, <1>4, <1>5 DEF Positions

\* A GET begins to keep track of every slot that holds its key.
LEMMA BeginsTracks ==
  ASSUME IInv, Tracking, Records, NEW c \in Clients, Begins(c)
  PROVE  Tracks(slots', client'[c], held'[c])
<1>1. PICK k \in AskedKeys :
        \/ \E op \in Gets : BeginGet(c, op, k)
        \/ \E v \in AskedValues : BeginSet(c, k, v) \/ RejectSet(c, k, v)
  BY DEF Begins
<1>2. k \in Keys /\ client[c] \in ClientState /\ Sound(slots, client[c])
  BY CommandsAssumption DEF IInv
<1>3. ASSUME NEW op \in Gets, BeginGet(c, op, k) PROVE Tracks(slots', client'[c], held'[c])
  <2>1. client[c].pc = "idle" /\ client[c].probe = 0
    BY <1>2, <1>3 DEF BeginGet, MayIssue, Sound
  <2>2. /\ client'[c].pc = "reading" /\ client'[c].cmd.op # "set" /\ client'[c].cmd.key = k
        /\ client'[c].probe = 0 /\ client'[c].parts = Parts
    BY <1>2, <1>3, <2>1 DEF BeginGet, Becomes, IInv, ClientState, Gets
  <2>3. \A p \in held'[c] : p \in Positions /\ Holds(slots'[p], k)
    BY <2>1, <2>2, HeldNext DEF HeldAfter, Getting, Running, Holding
  <2>4. \A p \in Positions : Dist(Hash[k], p) \in Positions
    BY <1>2, HashType, ProbeDist
  <2> QED BY <2>2, <2>3, <2>4 DEF Tracks, Parts, Positions
<1>4. ASSUME NEW v \in AskedValues, BeginSet(c, k, v) \/ RejectSet(c, k, v)
      PROVE  client'[c].cmd.op = "set"
  <2>1. client'[c].cmd = [op |-> "set", key |-> k, value |-> v]
    BY <1>4, SetBegins
  <2> QED BY <2>1
<1> QED BY <1>1, <1>3, <1>4 DEF Tracks

\* A command goes on to its WRITE or its FETCH_AND_ADD.
LEMMA LaterTracks ==
  ASSUME IInv, Tracking, Records, NEW c \in Clients,
         GetMetaHits(c) \/ WriteLands(c) \/ TouchLands(c)
  PROVE  Tracks(slots', client'[c], held'[c])
<1>1. Running(c)
  BY DEF GetMetaHits, WriteLands, TouchLands, Received, Transfers, Running
<1>2. client'[c].pc \in {"touching", "writing", "landed"}
  BY GoesToVerb
<1> QED BY <1>1, <1>2, HeldNext DEF Tracks

\* The other steps end the command or belong to a SET.
LEMMA RestTracks ==
  ASSUME IInv, NEW c \in Clients,
         \/ GetMisses(c) \/ GetHits(c) \/ SetFull(c) \/ Completes(c) \/ Fails(c)
         \/ SetOverwrites(c) \/ SetInserts(c) \/ SetReuses(c)
  PROVE  client'[c].pc = "idle" \/ client'[c].cmd.op = "set"
<1>1. ASSUME NEW ok, NEW v, NEW qp, NEW left,
             Becomes(c, AtPrompt(client[c].cmd, ok, v, qp, left))
      PROVE  client'[c].pc = "idle"
  BY <1>1 DEF Becomes, AtPrompt, IInv
<1>2. ASSUME GetMisses(c) \/ GetHits(c) \/ SetFull(c) \/ Completes(c) \/ Fails(c)
      PROVE  client'[c].pc = "idle"
  BY <1>1, <1>2 DEF GetMisses, GetHits, SetFull, Completes, Fails, Returns
<1>3. ASSUME SetOverwrites(c) \/ SetInserts(c) \/ SetReuses(c)
      PROVE  client'[c].cmd.op = "set"
  <2>1. client[c].cmd.op = "set" /\ \E p, n : PostsWrite(c, p, n)
    BY <1>3 DEF SetOverwrites, SetInserts, SetReuses, Received
  <2> QED BY <2>1 DEF PostsWrite, Becomes, IInv, ClientState
<1> QED BY <1>2, <1>3

\* Every step keeps track.
LEMMA TrackingStep ==
  ASSUME IInv, Tracking, Records, NEW c \in Clients, Acts(c)
  PROVE  Tracking'
<1>1. Tracks(slots', client'[c], held'[c])
  <2>1. CASE \/ GetMisses(c) \/ GetHits(c) \/ SetFull(c) \/ Completes(c) \/ Fails(c)
             \/ SetOverwrites(c) \/ SetInserts(c) \/ SetReuses(c)
    BY <2>1, RestTracks DEF Tracks
  <2>2. CASE GetMetaHits(c) \/ WriteLands(c) \/ TouchLands(c)
    BY <2>2, LaterTracks
  <2> QED BY <2>1, <2>2, BeginsTracks, ReadPartTracks, NextProbeTracks DEF Acts, Progress
<1>2. ASSUME NEW d \in Clients, d # c PROVE Tracks(slots', client'[d], held'[d])
  BY <1>2, OthersStay, OthersTrack
<1> QED BY <1>1, <1>2 DEF Tracking

\* How a GET can return over a connection that still works.
LEMMA Outcomes ==
  ASSUME IInv, NEW c \in Clients, Acts(c), NEW d \in Clients, NEW op \in Gets,
         Returning(d, op), client'[d].qp = "rts"
  PROVE  /\ d = c /\ client[c] \in ClientState /\ client[c].cmd.op = op
         /\ \/ GetMisses(c)
            \/ GetHits(c) /\ client'[c].ok /\ client'[c].value = Got(c).value
            \/ Completes(c) /\ client'[c].ok /\ client'[c].value = client[c].local.value
<1>1. d = c /\ client[c] \in ClientState /\ client[c].cmd.op = op /\ op # "set"
      /\ client[c].pc # "idle"
  BY OthersStay DEF Returning, Running, IInv, Gets
<1>2. ASSUME NEW ok, NEW v, NEW qp, NEW left,
             Becomes(c, AtPrompt(client[c].cmd, ok, v, qp, left))
      PROVE  client'[c].ok = ok /\ client'[c].value = v /\ client'[c].qp = qp
  BY <1>2, BecomesAt DEF AtPrompt
<1>3. ~Fails(c)
  <2> SUFFICES ASSUME Fails(c) PROVE FALSE
    OBVIOUS
  <2>1. client'[c].qp = "error"
    BY <1>2 DEF Fails
  <2> QED BY <2>1, <1>1
<1>4. GetHits(c) => client'[c].ok /\ client'[c].value = Got(c).value
  BY <1>2 DEF GetHits, Returns
<1>5. Completes(c) => client'[c].ok /\ client'[c].value = client[c].local.value
  BY <1>1, <1>2 DEF Completes, Returns
<1>6. ~(SetFull(c) \/ SetOverwrites(c) \/ SetInserts(c) \/ SetReuses(c))
  BY <1>1 DEF SetFull, SetOverwrites, SetInserts, SetReuses, Received
<1>7. ~Begins(c)
  BY <1>1 DEF Begins, BeginGet, BeginSet, RejectSet, MayIssue
<1>8. client'[c].pc = "idle"
  BY <1>1 DEF Returning
<1>9. ~(ReadPart(c) \/ NextProbe(c))
  BY <1>8, KeepsReading
<1>10. ~(GetMetaHits(c) \/ WriteLands(c) \/ TouchLands(c))
  BY <1>8, GoesToVerb
<1> QED BY <1>1, <1>3, <1>4, <1>5, <1>6, <1>7, <1>9, <1>10 DEF Acts, Progress

\* A command whose verb succeeds returns true.
LEMMA ReturnsTrue ==
  ASSUME IInv, NEW c \in Clients, GetHits(c) \/ Completes(c)
  PROVE  client'[c].ok = TRUE
<1>1. ASSUME NEW v, Returns(c, TRUE, v) PROVE client'[c].ok = TRUE
  BY <1>1, BecomesAt DEF Returns, AtPrompt
<1> QED BY <1>1 DEF GetHits, Completes

\* A GET that misses has looked at every slot that may have held its key.
LEMMA MissIsTrue ==
  ASSUME IInv, Tracking, NEW c \in Clients, GetMisses(c)
  PROVE  held[c] = {}
<1> SUFFICES ASSUME NEW p \in held[c] PROVE FALSE
  OBVIOUS
<1> DEFINE i == Dist(Hash[Key(c)], p)
<1>1. Received(c, Gets) /\ client[c].cmd.op # "set"
  BY DEF GetMisses, Received, Gets
<1>2. /\ i \in Positions /\ client[c].probe <= i
      /\ client[c].probe < i => Got(c).occupied # Empty
      /\ client[c].probe = i => Holds(Got(c), Key(c))
  BY <1>1, GotTracks
<1> HIDE DEF i
<1>3. client[c].probe \in Positions
  BY DEF IInv, ClientState
<1>4. CASE Got(c).occupied = Empty
  BY <1>2, <1>3, <1>4 DEF Holds, Empty, Valid, Positions
<1>5. CASE GoesOn(c) /\ LastProbe(c)
  BY <1>2, <1>3, <1>5 DEF GoesOn, LastProbe, Positions
<1> QED BY <1>4, <1>5 DEF GetMisses

LEMMA TrackingInit == HInit => Tracking
BY DEF HInit, Tracking, Tracks

LEMMA TrackingInductive == HSpec => [](IInv /\ Tracking)
<1>1. IInv /\ Tracking /\ [HNext]_hvars => Tracking'
  <2> SUFFICES ASSUME IInv, Tracking, [HNext]_hvars PROVE Tracking'
    OBVIOUS
  <2>1. CASE HNext
    BY <2>1, HistoryStep, TrackingStep
  <2>2. CASE UNCHANGED hvars
    BY <2>2 DEF hvars, history, Tracking
  <2> QED BY <2>1, <2>2
<1> QED BY <1>1, TrackingInit, HistoryInductive, PTL DEF HSpec

\* However many clients write, and in whatever pieces slots move, a GET does not
\* overlook a key that some slot holds from its first verb to its last
\* (RdmaClient::get, get_with_metadata).
THEOREM GetsFindPresentKeys == HSpec => PresentKeysAreFound
<1>1. IInv /\ Tracking /\ [HNext]_hvars =>
        [\A c \in Clients, op \in Gets :
           Returning(c, op) /\ client'[c].qp = "rts" /\ ~client'[c].ok => held[c] = {}]_hvars
  <2> SUFFICES ASSUME IInv, Tracking, HNext, NEW d \in Clients, NEW op \in Gets,
                      Returning(d, op), client'[d].qp = "rts", ~client'[d].ok
               PROVE  held[d] = {}
    OBVIOUS
  <2>1. PICK c \in Clients : Acts(c)
    BY HistoryStep
  <2>2. d = c /\ GetMisses(c)
    BY <2>1, Outcomes
  <2> QED BY <2>2, MissIsTrue
<1> QED BY <1>1, TrackingInductive, PTL DEF HSpec, PresentKeysAreFound

-----------------------------------------------------------------------------
(* With one writer a GET is atomic, but for values that are torn.          *)
(*                                                                         *)
(* What the GET has seen (seen) includes the absence of its key unless one *)
(* slot has held the key all the time: a key that never moves through two  *)
(* slots at once has to be absent between them.  So a miss is explained by *)
(* the theorem above.  A hit is explained by the slot it was read from:    *)
(* the header was that slot's when it was read; and unless a WRITE crossed *)
(* the READ, the slot has not changed since the first part of it was read, *)
(* so the value is the one that goes with the header (Steady).             *)

\* Whether a GET that has seen S saw its key, or saw it absent.
Absent == [ok |-> FALSE, value |-> NoValue]
SawHit(S)  == \E a \in S : a.ok = TRUE
SawMiss(S) == Absent \in S

\* What is true of a GET with record r, of what it has seen, S, of H as above, and
\* of whether it was torn.
Witnessed(t, r, S, H, isTorn) ==
  /\ r.pc # "idle" /\ r.cmd.op # "set" =>
       /\ Lookup(t, r.cmd.key) \in S
       /\ SawMiss(S) \/ H # {}
       /\ r.pc = "reading" /\ "header" \notin r.parts /\ Holds(r.local, r.cmd.key) => SawHit(S)
       /\ r.pc \in {"touching", "landed"} =>
            /\ SawHit(S)
            /\ ~isTorn => [ok |-> TRUE, value |-> r.local.value] \in S
  /\ r.pc = "writing" => r.cmd.op = "set"

Witnessing == \A c \in Clients : Witnessed(slots, client[c], seen[c], held[c], torn[c])

\* The parts in the buffer of a client with record r are those of slot s.
Agrees(r, s) ==
  /\ "header" \notin r.parts => r.local.occupied = s.occupied /\ r.local.key = s.key
  /\ "value" \notin r.parts => r.local.value = s.value

\* A READ of a GET that nothing has torn has the slot as it still is.
Steady(c) ==
  HalfDone(c, "reading") /\ client[c].cmd.op # "set" /\ ~torn[c] =>
    /\ ~Overlaps(c)
    /\ Agrees(client[c], slots[Here(c)])

AInv == WInv /\ Tracking /\ Witnessing /\ \A c \in Clients : Steady(c)

\* A step changes one slot.
LEMMA OneSlotChanges ==
  ASSUME IInv, NEW c \in Clients, Acts(c)
  PROVE  \E p \in Positions : \A q \in Positions : q # p => slots'[q] = slots[q]
<1>1. client[c].target \in Positions
  BY DEF IInv, ClientState
<1>2. ASSUME NEW s, slots' = [slots EXCEPT ![client[c].target] = s]
      PROVE  \A q \in Positions : q # client[c].target => slots'[q] = slots[q]
  BY <1>2 DEF IInv
<1>3. ASSUME WriteLands(c) \/ TouchLands(c)
      PROVE  \A q \in Positions : q # client[c].target => slots'[q] = slots[q]
  BY <1>2, <1>3 DEF WriteLands, TouchLands
<1> QED BY <1>1, <1>3, QuietSlots

\* What seen and torn become.
LEMMA SeenNext ==
  ASSUME Records, NEW c \in Clients, client'[c].pc # "idle", client'[c].cmd.op # "set"
  PROVE  /\ Lookup(slots, client'[c].cmd.key) \in seen'[c]
         /\ Lookup(slots', client'[c].cmd.key) \in seen'[c]
         /\ seen[c] \subseteq seen'[c]
         /\ ~torn'[c] => ~torn[c] /\ ~Overlaps(c)'
<1>1. /\ Lookup(slots, client'[c].cmd.key) \in seen'[c]
      /\ Lookup(slots', client'[c].cmd.key) \in seen'[c]
      /\ seen[c] \subseteq seen'[c]
  BY DEF Records, SeenAfter, Getting
<1>2. torn'[c] = TornAfter(c)
  BY DEF Records
<1>3. TornAfter(c) = (torn[c] \/ Overlaps(c)')
  BY DEF TornAfter, Getting
<1> QED BY <1>1, <1>2, <1>3

\* What the table says of a key that a slot holds, and of one that none does.
LEMMA LookupHeld ==
  ASSUME NEW t, NEW k \in Keys, NEW p \in Positions, Holds(t[p], k)
  PROVE  /\ Lookup(t, k).ok = TRUE
         /\ KeysUnique(t) => Lookup(t, k) = [ok |-> TRUE, value |-> t[p].value]
<1>1. Present(t, k)
  BY DEF Present
<1>2. KeysUnique(t) => Contents(t)[k] = t[p].value
  BY ContentsAtHolder
<1>3. Present(t, k) = TRUE
  BY <1>1 DEF Present
<1> QED BY <1>2, <1>3 DEF Lookup

LEMMA LookupAbsent ==
  ASSUME NEW t, NEW k \in Keys, ~Present(t, k)
  PROVE  Lookup(t, k) = Absent
<1>1. Contents(t)[k] = NoValue
  BY ContentsAtAbsent
<1>2. Present(t, k) = FALSE
  BY DEF Present
<1> QED BY <1>1, <1>2 DEF Lookup, Absent

\* A GET that ever saw its key still has.
LEMMA SawHitStays ==
  ASSUME NEW S, NEW T, S \subseteq T, SawHit(S)
  PROVE  SawHit(T)
BY DEF SawHit

\* A running GET still has its explanation after any step.
LEMMA StillWitnessed ==
  ASSUME WInv, WInv', Tracking, Witnessing, Records, NEW c \in Clients, Acts(c),
         NEW d \in Clients, Running(d), client'[d].pc # "idle",
         client'[d].cmd = client[d].cmd, client[d].cmd.op # "set"
  PROVE  /\ Lookup(slots', client'[d].cmd.key) \in seen'[d]
         /\ SawMiss(seen'[d]) \/ held'[d] # {}
<1> DEFINE k == client[d].cmd.key
<1>1. Lookup(slots', k) \in seen'[d] /\ seen[d] \subseteq seen'[d] /\ k \in Keys
  BY SeenNext DEF WInv, IInv, Sound, Running
<1>2. ASSUME ~SawMiss(seen'[d]) PROVE held'[d] # {}
  <2>1. PICK p \in held[d] : p \in Positions /\ Holds(slots[p], k)
    BY <1>1, <1>2 DEF Witnessing, Witnessed, Tracking, Tracks, Running, SawMiss
  <2>2. Present(slots', k)
    BY <1>1, <1>2, LookupAbsent DEF SawMiss
  <2>3. PICK q \in Positions : Holds(slots'[q], k)
    BY <2>2 DEF Present
  <2>4. PICK x \in Positions : \A y \in Positions : y # x => slots'[y] = slots[y]
    BY OneSlotChanges DEF WInv
  <2>5. Holds(slots'[p], k)
    <3>1. CASE p # x
      BY <3>1, <2>1, <2>4
    <3>2. CASE p = x /\ q # p
      BY <3>2, <2>1, <2>3, <2>4 DEF WInv, KeysUnique, Holds
    <3>3. CASE q = p
      BY <3>3, <2>3
    <3> QED BY <3>1, <3>2, <3>3
  <2>6. held'[d] = held[d] \cap Holding(slots', k)
    BY HeldNext DEF HeldAfter, Getting
  <2> QED BY <2>1, <2>5, <2>6 DEF Holding
<1> QED BY <1>1, <1>2

\* A client that does not act keeps its explanation.
LEMMA OthersWitness ==
  ASSUME AInv, WInv', Records, NEW c \in Clients, Acts(c),
         NEW d \in Clients, client'[d] = client[d]
  PROVE  Witnessed(slots', client'[d], seen'[d], held'[d], torn'[d])
<1>1. Witnessed(slots, client[d], seen[d], held[d], torn[d])
  BY DEF AInv, Witnessing
<1>2. ASSUME client[d].pc # "idle", client[d].cmd.op # "set"
      PROVE  /\ Lookup(slots', client[d].cmd.key) \in seen'[d]
             /\ SawMiss(seen'[d]) \/ held'[d] # {}
             /\ seen[d] \subseteq seen'[d]
             /\ ~torn'[d] => ~torn[d]
             /\ SawHit(seen[d]) => SawHit(seen'[d])
  BY <1>2, StillWitnessed, SeenNext, SawHitStays DEF AInv, Running
<1> QED BY <1>1, <1>2 DEF Witnessed

\* The last part of a READ completes a slot of which another part was there: what
\* nothing has torn is the slot as it is.
LEMMA GotIsSteady ==
  ASSUME AInv, NEW c \in Clients, NEW ops, Received(c, ops), client[c].cmd.op # "set", ~torn[c]
  PROVE  /\ Got(c).occupied = slots[Here(c)].occupied /\ Got(c).key = slots[Here(c)].key
         /\ Got(c).value = slots[Here(c)].value
<1>1. client[c].parts # Parts /\ client[c].pc = "reading"
  BY DEF Received, Chunks, Parts, Transfers
<1>2. Agrees(client[c], slots[Here(c)])
  BY <1>1 DEF AInv, Steady, HalfDone
<1>3. QED
  BY <1>2, MergeFacts DEF Agrees, Got

\* So a hit tells what the table says at that moment, if nothing has torn it; and in
\* any case the key was there, now or when the header was read.
LEMMA HitIsTrue ==
  ASSUME AInv, NEW c \in Clients, NEW ops, Received(c, ops), Holds(Got(c), Key(c)),
         client[c].cmd.op # "set"
  PROVE  /\ ~torn[c] => Lookup(slots, Key(c)) = [ok |-> TRUE, value |-> Got(c).value]
         /\ SawHit(seen[c]) \/ Lookup(slots, Key(c)).ok = TRUE
<1>1. /\ Key(c) \in Keys /\ Here(c) \in Positions /\ KeysUnique(slots)
      /\ client[c].pc = "reading" /\ Key(c) = client[c].cmd.key
  BY GotFacts DEF AInv, WInv, Key
<1>2. ASSUME ~torn[c] PROVE Lookup(slots, Key(c)) = [ok |-> TRUE, value |-> Got(c).value]
  <2>1. Holds(slots[Here(c)], Key(c)) /\ Got(c).value = slots[Here(c)].value
    BY <1>2, GotIsSteady DEF Holds
  <2> QED BY <1>1, <2>1, LookupHeld
<1>3. CASE "header" \in client[c].parts
  <2>1. Holds(slots[Here(c)], Key(c))
    BY <1>3, GotHeader DEF Holds
  <2>2. Lookup(slots, Key(c)).ok = TRUE
    BY <1>1, <2>1, LookupHeld
  <2> QED BY <1>2, <2>2
<1>4. CASE "header" \notin client[c].parts
  <2>1. Holds(client[c].local, Key(c))
    BY <1>4, GotHeader DEF Holds
  <2>2. SawHit(seen[c])
    BY <1>1, <1>4, <2>1 DEF AInv, Witnessing, Witnessed
  <2> QED BY <1>2, <2>2
<1> QED BY <1>3, <1>4

\* A GET that begins sees what its key holds.
LEMMA BeginsWitness ==
  ASSUME AInv, Records, NEW c \in Clients, Begins(c)
  PROVE  Witnessed(slots', client'[c], seen'[c], held'[c], torn'[c])
<1>1. PICK k \in AskedKeys :
        \/ \E op \in Gets : BeginGet(c, op, k)
        \/ \E v \in AskedValues : BeginSet(c, k, v) \/ RejectSet(c, k, v)
  BY DEF Begins
<1>2. k \in Keys /\ client[c] \in ClientState
  BY CommandsAssumption DEF AInv, WInv, IInv
<1>3. ASSUME NEW op \in Gets, BeginGet(c, op, k)
      PROVE  Witnessed(slots', client'[c], seen'[c], held'[c], torn'[c])
  <2>1. client[c].pc = "idle" /\ UNCHANGED slots
    BY <1>3 DEF BeginGet, MayIssue
  <2>2. /\ client'[c].pc = "reading" /\ client'[c].cmd.op # "set" /\ client'[c].cmd.key = k
        /\ client'[c].parts = Parts
    BY <1>2, <1>3, <2>1 DEF BeginGet, Becomes, AInv, WInv, IInv, ClientState, Gets
  <2>3. Lookup(slots', k) \in seen'[c] /\ "header" \in client'[c].parts
    BY <2>2, SeenNext DEF Parts
  <2>4. ASSUME ~SawMiss(seen'[c]) PROVE held'[c] # {}
    <3>1. Present(slots', k)
      BY <1>2, <2>3, <2>4, LookupAbsent DEF SawMiss
    <3>2. held'[c] = Holding(slots', k)
      BY <2>1, <2>2, HeldNext DEF HeldAfter, Getting, Running
    <3> QED BY <3>1, <3>2 DEF Present, Holding
  <2> QED BY <2>2, <2>3, <2>4 DEF Witnessed
<1>4. ASSUME NEW v \in AskedValues, BeginSet(c, k, v) \/ RejectSet(c, k, v)
      PROVE  client'[c].cmd.op = "set" /\ client'[c].pc # "writing"
  <2>1. client'[c].cmd = [op |-> "set", key |-> k, value |-> v]
    BY <1>4, SetBegins DEF AInv, WInv
  <2>2. client'[c].pc # "writing"
    BY <1>4, SetBegins DEF AInv, WInv
  <2> QED BY <2>1, <2>2
<1> QED BY <1>1, <1>3, <1>4 DEF Witnessed

\* Going on to the next slot explains nothing new.
LEMMA NextProbeWitness ==
  ASSUME AInv, WInv', Records, NEW c \in Clients, NextProbe(c)
  PROVE  Witnessed(slots', client'[c], seen'[c], held'[c], torn'[c])
<1>1. client[c] \in ClientState /\ client[c].pc = "reading" /\ Running(c) /\ Acts(c)
  BY DEF AInv, WInv, IInv, NextProbe, Received, Transfers, Running, Acts, Progress
<1>2. /\ client'[c].pc = "reading" /\ client'[c].cmd = client[c].cmd
      /\ client'[c].parts = Parts
  BY <1>1 DEF ClientState, Becomes, AInv, WInv, IInv, NextProbe
<1>3. client[c].cmd.op # "set" =>
        /\ Lookup(slots', client'[c].cmd.key) \in seen'[c]
        /\ SawMiss(seen'[c]) \/ held'[c] # {}
  BY <1>1, <1>2, StillWitnessed DEF AInv
<1>4. "header" \in client'[c].parts
  BY <1>2 DEF Parts
<1> QED BY <1>2, <1>3, <1>4 DEF Witnessed

\* What one part of a READ does to its client.
LEMMA ReadPartFacts ==
  ASSUME WInv, NEW c \in Clients, ReadPart(c)
  PROVE  \E ps \in Chunks(Parts) :
           /\ client'[c].pc = "reading" /\ client[c].pc = "reading"
           /\ client'[c].cmd = client[c].cmd /\ client'[c].probe = client[c].probe
           /\ client'[c].local = Merge(client[c].local, slots[Here(c)], ps)
           /\ client'[c].parts = Parts \ ps
           /\ UNCHANGED slots
<1>1. PICK ps \in Chunks(client[c].parts) :
        /\ ps # client[c].parts
        /\ Becomes(c, [client[c] EXCEPT !.local = Merge(@, slots[Here(c)], ps),
                                        !.parts = @ \ ps])
  BY DEF ReadPart
<1> DEFINE s == Merge(client[c].local, slots[Here(c)], ps)
           r == [client[c] EXCEPT !.local = s, !.parts = @ \ ps]
<1>2. client[c] \in ClientState /\ client[c].pc = "reading" /\ UNCHANGED slots
  BY DEF WInv, IInv, ReadPart, Transfers
<1>3. client'[c] = r
  BY <1>1, BecomesAt DEF WInv
<1> HIDE DEF s
<1>4. /\ r.pc = client[c].pc /\ r.cmd = client[c].cmd /\ r.probe = client[c].probe
      /\ r.local = s /\ r.parts = client[c].parts \ ps
  BY <1>2 DEF ClientState
<1> HIDE DEF r
<1>5. client[c].parts = Parts
  <2>1. client[c].parts \subseteq Parts
    BY <1>2 DEF ClientState
  <2> QED BY <1>1, <2>1 DEF Chunks, Parts
<1> QED BY <1>1, <1>2, <1>3, <1>4, <1>5 DEF s

\* A header that arrives with the key shows the key to be there.
LEMMA ReadPartWitness ==
  ASSUME AInv, WInv', Records, NEW c \in Clients, ReadPart(c)
  PROVE  Witnessed(slots', client'[c], seen'[c], held'[c], torn'[c])
<1>1. PICK ps \in Chunks(Parts) :
           /\ client'[c].pc = "reading" /\ client[c].pc = "reading"
           /\ client'[c].cmd = client[c].cmd /\ client'[c].probe = client[c].probe
           /\ client'[c].local = Merge(client[c].local, slots[Here(c)], ps)
           /\ client'[c].parts = Parts \ ps
           /\ UNCHANGED slots
  BY ReadPartFacts DEF AInv
<1>2. Acts(c) /\ Running(c)
  BY <1>1 DEF Acts, Progress, Running
<1> SUFFICES ASSUME client[c].cmd.op # "set"
             PROVE  Witnessed(slots', client'[c], seen'[c], held'[c], torn'[c])
  BY <1>1 DEF Witnessed
<1>3. /\ Lookup(slots', client'[c].cmd.key) \in seen'[c]
      /\ SawMiss(seen'[c]) \/ held'[c] # {}
  BY <1>1, <1>2, StillWitnessed DEF AInv
<1>4. ASSUME "header" \notin client'[c].parts, Holds(client'[c].local, client'[c].cmd.key)
      PROVE  SawHit(seen'[c])
  <2>1. "header" \in ps
    BY <1>1, <1>4 DEF Parts
  <2>2. Holds(slots'[Here(c)], client'[c].cmd.key)
    BY <1>1, <1>4, <2>1, MergeFacts DEF Holds
  <2>3. client'[c].cmd.key \in Keys /\ Here(c) \in Positions
    BY <1>1, ProbesInside DEF AInv, WInv, IInv, Sound, Here, ClientState
  <2>4. Lookup(slots', client'[c].cmd.key).ok = TRUE
    BY <2>2, <2>3, LookupHeld
  <2> QED BY <1>3, <2>4 DEF SawHit
<1> QED BY <1>1, <1>3, <1>4 DEF Witnessed

\* Nor does a verb that is posted or lands explain anything new.
LEMMA LaterWitness ==
  ASSUME AInv, WInv', Records, NEW c \in Clients,
         GetMetaHits(c) \/ WriteLands(c) \/ TouchLands(c)
  PROVE  Witnessed(slots', client'[c], seen'[c], held'[c], torn'[c])
<1>1. Running(c) /\ Acts(c)
  BY DEF GetMetaHits, WriteLands, TouchLands, Received, Transfers, Running, Acts, Progress
<1>2. /\ client'[c].pc \in {"touching", "writing", "landed"} /\ client'[c].cmd = client[c].cmd
      /\ \/ GetMetaHits(c) /\ client'[c].local = Got(c) /\ client'[c].pc = "touching"
         \/ /\ client[c].pc = "touching" /\ client'[c].pc = "landed"
            /\ client'[c].local = client[c].local
         \/ client[c].pc = "writing"
  BY GoesToVerb DEF AInv, WInv
<1>3. SUFFICES ASSUME client[c].cmd.op # "set"
               PROVE  Witnessed(slots', client'[c], seen'[c], held'[c], torn'[c])
  BY <1>2 DEF Witnessed, Witnessing, AInv
<1>4. /\ Lookup(slots, client'[c].cmd.key) \in seen'[c]
      /\ Lookup(slots', client'[c].cmd.key) \in seen'[c]
      /\ SawMiss(seen'[c]) \/ held'[c] # {}
      /\ seen[c] \subseteq seen'[c]
      /\ ~torn'[c] => ~torn[c]
  BY <1>1, <1>2, <1>3, StillWitnessed, SeenNext DEF AInv
<1>5. SawHit(seen[c]) => SawHit(seen'[c])
  BY <1>4, SawHitStays
<1>6. client'[c].pc \in {"touching", "landed"} =>
        /\ SawHit(seen'[c])
        /\ ~torn'[c] => [ok |-> TRUE, value |-> client'[c].local.value] \in seen'[c]
  <2>1. CASE GetMetaHits(c) /\ client'[c].local = Got(c)
    <3>1. /\ ~torn[c] => Lookup(slots, Key(c)) = [ok |-> TRUE, value |-> Got(c).value]
          /\ SawHit(seen[c]) \/ Lookup(slots, Key(c)).ok = TRUE
      BY <2>1, <1>3, HitIsTrue DEF GetMetaHits
    <3>2. Key(c) = client'[c].cmd.key
      BY <1>2 DEF Key
    <3>3. SawHit(seen'[c])
      BY <3>1, <3>2, <1>4, <1>5 DEF SawHit
    <3> QED BY <3>1, <3>2, <3>3, <2>1, <1>4
  <2>2. CASE client[c].pc = "touching" /\ client'[c].local = client[c].local
    BY <2>2, <1>2, <1>3, <1>4, <1>5 DEF Witnessing, Witnessed, AInv
  <2>3. CASE client[c].pc = "writing"
    BY <2>3, <1>3 DEF AInv, Witnessing, Witnessed
  <2> QED BY <1>2, <2>1, <2>2, <2>3
<1>7. client'[c].pc # "writing"
  BY <1>2, <1>3 DEF AInv, Witnessing, Witnessed
<1> QED BY <1>2, <1>4, <1>6, <1>7 DEF Witnessed

\* The other steps end the command or post the WRITE of a SET.
LEMMA RestEnds ==
  ASSUME IInv, NEW c \in Clients,
         \/ GetMisses(c) \/ GetHits(c) \/ SetFull(c) \/ Completes(c) \/ Fails(c)
         \/ SetOverwrites(c) \/ SetInserts(c) \/ SetReuses(c)
  PROVE  client'[c].pc = "idle" \/ (client'[c].pc = "writing" /\ client'[c].cmd.op = "set")
<1>1. ASSUME GetMisses(c) \/ GetHits(c) \/ SetFull(c) \/ Completes(c) \/ Fails(c)
      PROVE  client'[c].pc = "idle"
  <2>1. ASSUME NEW ok, NEW v, NEW qp, NEW left,
               Becomes(c, AtPrompt(client[c].cmd, ok, v, qp, left))
        PROVE  client'[c].pc = "idle"
    BY <2>1 DEF Becomes, AtPrompt, IInv
  <2> QED BY <1>1, <2>1 DEF GetMisses, GetHits, SetFull, Completes, Fails, Returns
<1>2. ASSUME SetOverwrites(c) \/ SetInserts(c) \/ SetReuses(c)
      PROVE  client'[c].cmd.op = "set" /\ client'[c].pc = "writing"
  <2>1. client[c].cmd.op = "set" /\ \E p, n : PostsWrite(c, p, n)
    BY <1>2 DEF SetOverwrites, SetInserts, SetReuses, Received
  <2> QED BY <2>1 DEF PostsWrite, Becomes, IInv, ClientState
<1> QED BY <1>1, <1>2

\* Every step leaves every running GET an explanation.
LEMMA WitnessingStep ==
  ASSUME AInv, WInv', Records, NEW c \in Clients, Acts(c)
  PROVE  Witnessing'
<1>1. Witnessed(slots', client'[c], seen'[c], held'[c], torn'[c])
  <2>1. CASE \/ GetMisses(c) \/ GetHits(c) \/ SetFull(c) \/ Completes(c) \/ Fails(c)
             \/ SetOverwrites(c) \/ SetInserts(c) \/ SetReuses(c)
    BY <2>1, RestEnds DEF AInv, WInv, Witnessed
  <2>2. CASE GetMetaHits(c) \/ WriteLands(c) \/ TouchLands(c)
    BY <2>2, LaterWitness
  <2> QED BY <2>1, <2>2, BeginsWitness, ReadPartWitness, NextProbeWitness DEF Acts, Progress
<1>2. ASSUME NEW d \in Clients, d # c
      PROVE  Witnessed(slots', client'[d], seen'[d], held'[d], torn'[d])
  BY <1>2, OthersStay, OthersWitness DEF AInv, WInv
<1> QED BY <1>1, <1>2 DEF Witnessing

\* The READ of the client that acts is half-way only when its first part arrives.
LEMMA OnlyReadPartReads ==
  ASSUME AInv, NEW c \in Clients, Acts(c), HalfDone(c, "reading")', client'[c].cmd.op # "set"
  PROVE  ReadPart(c)
<1>1. client'[c].pc = "reading" /\ client'[c].parts # Parts
  BY DEF HalfDone
<1>2. ~Begins(c)
  <2> SUFFICES ASSUME Begins(c) PROVE FALSE
    OBVIOUS
  <2>1. PICK k \in AskedKeys :
          \/ \E op \in Gets : BeginGet(c, op, k)
          \/ \E v \in AskedValues : BeginSet(c, k, v) \/ RejectSet(c, k, v)
    BY DEF Begins
  <2>2. CASE \E op \in Gets : BeginGet(c, op, k)
    BY <2>2, <1>1 DEF BeginGet, Becomes, AInv, WInv, IInv, ClientState
  <2>3. CASE \E v \in AskedValues : BeginSet(c, k, v) \/ RejectSet(c, k, v)
    BY <2>3, <1>1, SetBegins DEF AInv, WInv
  <2> QED BY <2>1, <2>2, <2>3
<1>3. ~NextProbe(c)
  BY <1>1 DEF NextProbe, Becomes, AInv, WInv, IInv, ClientState
<1>4. ~(GetMetaHits(c) \/ WriteLands(c) \/ TouchLands(c))
  BY <1>1, GoesToVerb DEF AInv, WInv
<1>5. ~(\/ GetMisses(c) \/ GetHits(c) \/ SetFull(c) \/ Completes(c) \/ Fails(c)
        \/ SetOverwrites(c) \/ SetInserts(c) \/ SetReuses(c))
  BY <1>1, RestEnds DEF AInv, WInv
<1> QED BY <1>2, <1>3, <1>4, <1>5 DEF Acts, Progress

\* What a WRITE would change of the slot a READ is half-way in, it cannot do unseen:
\* before its step or after it, it is half-way there too.
LEMMA WriteIsSeen ==
  ASSUME WInv, NEW c \in Clients, WriteLands(c), NEW d \in Clients, client'[d] = client[d],
         HalfDone(d, "reading"), ~Overlaps(d), ~Overlaps(d)'
  PROVE  slots'[Here(d)] = slots[Here(d)] \/ Here(d) \notin Positions
<1>1. PICK ps \in Chunks(client[c].parts) :
           /\ client[c] \in ClientState /\ client[c].pc = "writing"
           /\ \A q \in Positions : q # client[c].target => slots'[q] = slots[q]
           /\ client'[c].parts = client[c].parts \ ps
           /\ client'[c].pc = IF client[c].parts = ps THEN "landed" ELSE "writing"
           /\ client'[c].target = client[c].target
  BY WriteLandsFacts
<1>2. Here(d)' = Here(d) /\ HalfDone(d, "reading")'
  BY DEF Here, HalfDone
<1>3. SUFFICES ASSUME client[c].target = Here(d) PROVE FALSE
  BY <1>1
<1>4. client[c].parts = Parts
  BY <1>1, <1>3 DEF Overlaps, HalfDone
<1>5. client'[c].pc = "writing" /\ client'[c].parts # Parts
  BY <1>1, <1>4 DEF Chunks, Parts
<1>6. HalfDone(c, "writing")'
  BY <1>5 DEF HalfDone
<1> QED BY <1>1, <1>2, <1>3, <1>6 DEF Overlaps

\* A FETCH_AND_ADD changes a counter only.
LEMMA TouchIsHarmless ==
  ASSUME WInv, NEW c \in Clients, TouchLands(c), NEW p \in Positions
  PROVE  /\ slots'[p].occupied = slots[p].occupied /\ slots'[p].key = slots[p].key
         /\ slots'[p].value = slots[p].value
<1>1. slots' = [slots EXCEPT ![client[c].target].access_count = @ + 1]
  BY DEF TouchLands
<1>2. slots \in [Positions -> Slot]
  BY DEF WInv, IInv
<1> QED BY <1>1, <1>2 DEF Slot

\* A READ that nothing has torn stays steady.
LEMMA SteadyStep ==
  ASSUME AInv, WInv', Records, NEW c \in Clients, Acts(c), NEW d \in Clients
  PROVE  Steady(d)'
<1> SUFFICES ASSUME HalfDone(d, "reading")', client'[d].cmd.op # "set", ~torn'[d]
             PROVE  ~Overlaps(d)' /\ Agrees(client'[d], slots'[Here(d)'])
  BY DEF Steady
<1>1. client'[d].pc = "reading" /\ client'[d].parts # Parts
  BY DEF HalfDone
<1>2. ~torn[d] /\ ~Overlaps(d)'
  BY <1>1, SeenNext
<1>3. CASE d = c
  <2>1. ReadPart(c)
    BY <1>3, OnlyReadPartReads
  <2>2. PICK ps \in Chunks(Parts) :
           /\ client'[c].pc = "reading" /\ client[c].pc = "reading"
           /\ client'[c].cmd = client[c].cmd /\ client'[c].probe = client[c].probe
           /\ client'[c].local = Merge(client[c].local, slots[Here(c)], ps)
           /\ client'[c].parts = Parts \ ps
           /\ UNCHANGED slots
    BY <2>1, ReadPartFacts DEF AInv
  <2>3. Here(c)' = Here(c)
    BY <2>2 DEF Here
  <2>4. /\ "header" \notin client'[c].parts => "header" \in ps
        /\ "value" \notin client'[c].parts => "value" \in ps
    BY <2>2 DEF Parts
  <2>5. Agrees(client'[c], slots'[Here(c)])
    BY <2>2, <2>4, MergeFacts DEF Agrees
  <2> QED BY <1>2, <1>3, <2>3, <2>5
<1>4. CASE d # c
  <2>1. client'[d] = client[d]
    BY <1>4, OthersStay DEF AInv, WInv
  <2>2. Here(d)' = Here(d) /\ HalfDone(d, "reading")
    BY <2>1, <1>1 DEF Here, HalfDone
  <2>3. ~Overlaps(d) /\ Agrees(client[d], slots[Here(d)])
    BY <1>2, <2>1, <2>2 DEF AInv, Steady
  <2>4. Here(d) \in Positions
    BY <1>1, <2>1, ProbesInside DEF AInv, WInv, IInv, Sound, Here, ClientState
  <2>5. Agrees(client[d], slots'[Here(d)])
    <3>1. CASE WriteLands(c)
      <4>1. slots'[Here(d)] = slots[Here(d)]
        BY <3>1, <1>2, <2>1, <2>2, <2>3, <2>4, WriteIsSeen DEF AInv
      <4> QED BY <4>1, <2>3
    <3>2. CASE TouchLands(c)
      BY <3>2, <2>3, <2>4, TouchIsHarmless DEF Agrees, AInv
    <3>3. CASE ~WriteLands(c) /\ ~TouchLands(c)
      BY <3>3, <2>3, QuietSlots
    <3> QED BY <3>1, <3>2, <3>3
  <2> QED BY <1>2, <2>1, <2>2, <2>5
<1> QED BY <1>3, <1>4

\* What holds of OneSided with one writer holds here.
LEMMA HistoryWriterInit == HInit => WInv
BY WriterInit, HistoryInit

\* With one writer, OneSided's own invariant holds here too.
LEMMA HistoryWriterStep == SingleWriter /\ WInv /\ [HNext]_hvars => WInv'
<1> SUFFICES ASSUME SingleWriter, WInv, [HNext]_hvars PROVE WInv'
  OBVIOUS
<1>1. [Next]_vars
  BY HistoryStep DEF Acts, Next, hvars, vars
<1> QED BY <1>1, WriterStep

LEMMA AtomicInit == HInit => AInv
<1>1. ASSUME HInit, NEW c \in Clients
      PROVE  Witnessed(slots, client[c], seen[c], held[c], torn[c]) /\ Steady(c)
  <2>1. client[c].pc = "idle"
    BY <1>1 DEF HInit, Init, FreshClient, AtPrompt
  <2> QED BY <2>1 DEF Witnessed, Steady, HalfDone
<1> QED BY <1>1, HistoryWriterInit, TrackingInit DEF AInv, Witnessing

\* Together, the invariant of GetsAreAtomic.
LEMMA AtomicStep == SingleWriter /\ AInv /\ [HNext]_hvars => AInv'
<1> SUFFICES ASSUME SingleWriter, AInv, [HNext]_hvars PROVE AInv'
  OBVIOUS
<1>1. WInv'
  BY HistoryWriterStep DEF AInv
<1>2. CASE HNext
  <2>1. Records /\ \E c \in Clients : Acts(c)
    BY <1>2, HistoryStep
  <2>2. Tracking'
    BY <2>1, TrackingStep DEF AInv, WInv
  <2>3. Witnessing'
    BY <1>1, <2>1, WitnessingStep
  <2>4. \A d \in Clients : Steady(d)'
    BY <1>1, <2>1, SteadyStep
  <2> QED BY <1>1, <2>2, <2>3, <2>4 DEF AInv
<1>3. CASE UNCHANGED hvars
  <2>1. \A d \in Clients : Steady(d)'
    BY <1>3 DEF hvars, history, AInv, Steady, HalfDone, Overlaps, Here
  <2> QED BY <1>1, <1>3, <2>1 DEF hvars, history, AInv, Tracking, Witnessing
<1> QED BY <1>2, <1>3

\* With one writer, and whatever pieces slots move in, a GET is atomic although it
\* reads slot after slot while the writer goes on: whether it finds its key, and with
\* which value, is what the table said at some moment while the GET ran, except for
\* the value of a GET one of whose READs crossed a WRITE of the slot half-way; it may
\* mix two SETs, but that the key is there is true even then (RdmaClient::get).
THEOREM GetsAreAtomic ==
  ASSUME SingleWriter PROVE HSpec => GetIsAtomic
<1>1. AInv /\ [HNext]_hvars =>
        [\A c \in Clients, op \in Gets :
           Returning(c, op) /\ client'[c].qp = "rts" =>
             LET answer == [ok |-> client'[c].ok, value |-> client'[c].value]
                 lookups == seen[c] \cup {Lookup(slots, Key(c))}
             IN /\ \E l \in lookups : l.ok = answer.ok
                /\ (answer.ok /\ torn[c]) \/ answer \in lookups]_hvars
  <2> SUFFICES ASSUME AInv, HNext, NEW d \in Clients, NEW op \in Gets,
                      Returning(d, op), client'[d].qp = "rts"
               PROVE  LET answer == [ok |-> client'[d].ok, value |-> client'[d].value]
                          lookups == seen[d] \cup {Lookup(slots, Key(d))}
                      IN /\ \E l \in lookups : l.ok = answer.ok
                         /\ (answer.ok /\ torn[d]) \/ answer \in lookups
    OBVIOUS
  <2>1. PICK c \in Clients : Acts(c)
    BY HistoryStep
  <2>2. /\ d = c /\ client[c].cmd.op = op /\ op # "set"
        /\ \/ GetMisses(c)
           \/ GetHits(c) /\ client'[c].ok = TRUE /\ client'[c].value = Got(c).value
           \/ Completes(c) /\ client'[c].ok = TRUE /\ client'[c].value = client[c].local.value
    BY <2>1, Outcomes, ReturnsTrue DEF AInv, WInv, Gets
  <2> DEFINE lookups == seen[c] \cup {Lookup(slots, Key(c))}
  <2>3. ASSUME NEW v, SawHit(lookups), ~torn[c] => [ok |-> TRUE, value |-> v] \in lookups,
               client'[c].ok = TRUE, client'[c].value = v
        PROVE  /\ \E l \in lookups : l.ok = client'[c].ok
               /\ \/ client'[c].ok /\ torn[c]
                  \/ [ok |-> client'[c].ok, value |-> client'[c].value] \in lookups
    BY <2>3 DEF SawHit
  <2>4. CASE GetMisses(c)
    <3>1. held[c] = {} /\ client[c].pc # "idle"
      BY <2>4, MissIsTrue DEF AInv, WInv, GetMisses, Received, Transfers
    <3>2. Absent \in lookups
      BY <3>1, <2>2 DEF AInv, Witnessing, Witnessed, SawMiss
    <3>3. client'[c].value = NoValue /\ client'[c].ok = FALSE
      BY <2>4 DEF GetMisses, Returns, AtPrompt, Becomes, AInv, WInv, IInv
    <3>4. [ok |-> client'[c].ok, value |-> client'[c].value] = Absent /\ Absent.ok = FALSE
      BY <3>3 DEF Absent
    <3> QED BY <2>2, <3>2, <3>3, <3>4
  <2>5. CASE GetHits(c) /\ client'[c].ok = TRUE /\ client'[c].value = Got(c).value
    <3>1. /\ ~torn[c] => Lookup(slots, Key(c)) = [ok |-> TRUE, value |-> Got(c).value]
          /\ SawHit(seen[c]) \/ Lookup(slots, Key(c)).ok = TRUE
      BY <2>2, <2>5, HitIsTrue DEF GetHits
    <3>2. SawHit(lookups)
      BY <3>1 DEF SawHit
    <3> QED BY <2>2, <2>3, <2>5, <3>1, <3>2
  <2>6. CASE Completes(c) /\ client'[c].ok = TRUE /\ client'[c].value = client[c].local.value
    <3>1. client[c].pc = "landed"
      BY <2>6 DEF Completes, Transfers
    <3>2. SawHit(seen[c]) /\ (~torn[c] => [ok |-> TRUE, value |-> client[c].local.value] \in seen[c])
      BY <3>1, <2>2 DEF AInv, Witnessing, Witnessed
    <3>3. SawHit(lookups)
      BY <3>2, SawHitStays
    <3> QED BY <2>2, <2>3, <2>6, <3>2, <3>3
  <2> QED BY <2>2, <2>4, <2>5, <2>6
<1>2. HInit => AInv
  BY AtomicInit
<1>3. AInv /\ [HNext]_hvars => AInv'
  BY AtomicStep
<1> QED BY <1>1, <1>2, <1>3, PTL DEF HSpec, GetIsAtomic

-----------------------------------------------------------------------------
(* With one writer an acknowledged SET sticks, in whatever pieces slots    *)
(* move, and whichever queue pairs fail.                                   *)
(*                                                                         *)
(* Between the first part of a WRITE that lands and the SET's return the   *)
(* content of its key is on its way (Changing).  At all other times it is  *)
(* one that may says; and since the slot a WRITE goes to holds its own key *)
(* or none (Aims), the contents of the other keys never change.            *)

\* A WRITE of k has begun to land and has not returned.
Changing(r, k) == /\ r.cmd.op = "set" /\ r.cmd.key = k
                  /\ r.pc = "landed" \/ (r.pc = "writing" /\ r.parts # Parts)

\* Slot s is free for key k.
FreeFor(s, k) == s.occupied = Valid => s.key = k

\* What a SET with record r knows of the slot it goes to.
AimsReading(t, r) == r.tomb < NumSlots => ProbedSlot(t, r.cmd.key, r.tomb).occupied # Valid

AimsWriting(t, r) ==
  /\ r.cmd.op = "set" /\ r.parts # {}
  /\ r.local.key = r.cmd.key /\ r.local.value = r.cmd.value
  /\ "header" \in r.parts => FreeFor(t[r.target], r.cmd.key)
  /\ "header" \notin r.parts => Holds(t[r.target], r.cmd.key)
  /\ "value" \notin r.parts => t[r.target].value = r.cmd.value

AimsLanded(t, r) == Holds(t[r.target], r.cmd.key) /\ t[r.target].value = r.cmd.value

Aims(t, c, r) ==
  /\ Searches(r) => AimsReading(t, r)
  /\ r.pc = "writing" => AimsWriting(t, r)
  /\ r.pc = "landed" /\ r.cmd.op = "set" => AimsLanded(t, r) /\ "set" \in Commands[c]
  /\ r.pc = "touching" => r.cmd.op # "set"

Aiming == \A c \in Clients : Aims(slots, c, client[c])

\* The content of k is one of those that may lists.
Sticks(k) == (\A c \in Clients : ~Changing(client[c], k)) => Contents(slots)[k] \in may[k]

SInv == WInv /\ Aiming /\ \A k \in Keys : Sticks(k)

-----------------------------------------------------------------------------
(* The slot a SET goes to.                                                 *)

\* Nothing but counters differs.
SameSlots(t, u) ==
  \A p \in Positions : /\ u[p].occupied = t[p].occupied /\ u[p].key = t[p].key
                       /\ u[p].value = t[p].value

\* What a SET knows of its slot outlasts changes of counters.
LEMMA AimsStay ==
  ASSUME NEW t, NEW u, SameSlots(t, u), NEW c, NEW r \in ClientState, Sound(t, r),
         Aims(t, c, r)
  PROVE  Aims(u, c, r)
<1>1. r.target \in Positions
  BY DEF ClientState
<1>2. ASSUME Searches(r), r.tomb < NumSlots
      PROVE  ProbedSlot(u, r.cmd.key, r.tomb).occupied # Valid
  <2>1. r.cmd.key \in Keys /\ r.tomb \in Positions
    BY <1>2, NumSlotsAssumption DEF Sound, Searches, ClientState, Positions
  <2>2. Probe(Hash[r.cmd.key], r.tomb) \in Positions
    BY <2>1, ProbesInside
  <2> QED BY <2>2, <1>2 DEF Aims, AimsReading, ProbedSlot, SameSlots
<1>3. ASSUME r.pc = "writing" PROVE AimsWriting(u, r)
  BY <1>1, <1>3 DEF Aims, AimsWriting, SameSlots, FreeFor, Holds
<1>4. ASSUME r.pc = "landed", r.cmd.op = "set" PROVE AimsLanded(u, r)
  BY <1>1, <1>4 DEF Aims, AimsLanded, SameSlots, Holds
<1> QED BY <1>2, <1>3, <1>4 DEF Aims, AimsReading

\* A command that begins knows of no slot yet.
LEMMA BeginsAims ==
  ASSUME WInv, NEW c \in Clients, Begins(c)
  PROVE  Aims(slots, c, client'[c])
<1>1. PICK k \in AskedKeys :
        \/ \E op \in Gets : BeginGet(c, op, k)
        \/ \E v \in AskedValues : BeginSet(c, k, v) \/ RejectSet(c, k, v)
  BY DEF Begins
<1>2. client[c] \in ClientState /\ Sound(slots, client[c])
  BY DEF WInv, IInv
<1>3. ASSUME NEW op \in Gets, BeginGet(c, op, k) PROVE Aims(slots, c, client'[c])
  <2> DEFINE r == [client[c] EXCEPT !.pc = "reading", !.parts = Parts,
                     !.cmd = [op |-> op, key |-> k, value |-> NoValue]]
  <2>1. client'[c] = r
    BY <1>3, BecomesAt DEF BeginGet, WInv
  <2>2. r.pc = "reading" /\ r.cmd.op # "set"
    BY <1>2 DEF ClientState, Gets
  <2> HIDE DEF r
  <2> QED BY <2>1, <2>2 DEF Aims, Searches
<1>4. ASSUME NEW v \in AskedValues, BeginSet(c, k, v) PROVE Aims(slots, c, client'[c])
  <2> DEFINE r == [client[c] EXCEPT !.pc = "reading", !.parts = Parts,
                     !.cmd = [op |-> "set", key |-> k, value |-> v]]
  <2>1. client'[c] = r /\ client[c].pc = "idle"
    BY <1>4, BecomesAt DEF BeginSet, MayIssue, WInv
  <2>2. r.pc = "reading" /\ r.tomb = client[c].tomb
    BY <1>2 DEF ClientState
  <2>3. client[c].tomb = NumSlots
    BY <1>2, <2>1 DEF Sound
  <2> HIDE DEF r
  <2> QED BY <2>1, <2>2, <2>3, NumSlotsAssumption DEF Aims, AimsReading
<1>5. ASSUME NEW v \in AskedValues, RejectSet(c, k, v) PROVE Aims(slots, c, client'[c])
  <2>1. client'[c].pc = "idle"
    BY <1>5, SetBegins DEF WInv
  <2> QED BY <2>1 DEF Aims, Searches
<1> QED BY <1>1, <1>3, <1>4, <1>5

\* Reading tells a SET nothing of the slots it passed before.
LEMMA ReadPartAims ==
  ASSUME WInv, Aiming, NEW c \in Clients, ReadPart(c)
  PROVE  Aims(slots, c, client'[c])
<1>1. PICK ps \in Chunks(client[c].parts) :
        Becomes(c, [client[c] EXCEPT !.local = Merge(@, slots[Here(c)], ps), !.parts = @ \ ps])
  BY DEF ReadPart
<1> DEFINE r == [client[c] EXCEPT !.local = Merge(@, slots[Here(c)], ps), !.parts = @ \ ps]
<1>2. client'[c] = r
  BY <1>1, BecomesAt DEF WInv
<1>3. client[c] \in ClientState /\ client[c].pc = "reading"
  BY DEF WInv, IInv, ReadPart, Transfers
<1>4. r.pc = client[c].pc /\ r.cmd = client[c].cmd /\ r.tomb = client[c].tomb
  BY <1>3 DEF ClientState
<1> HIDE DEF r
<1>5. Aims(slots, c, client[c])
  BY DEF Aiming
<1> QED BY <1>2, <1>3, <1>4, <1>5 DEF Aims, AimsReading, Searches

\* The tombstone a SET remembers, this probe included, is free.
LEMMA TombIsFree ==
  ASSUME WInv, Aiming, NEW c \in Clients, Received(c, {"set"}), TombAfter(c) < NumSlots
  PROVE  ProbedSlot(slots, Key(c), TombAfter(c)).occupied # Valid
<1>1. AimsReading(slots, client[c])
  BY DEF Aiming, Aims, Searches, Received, Transfers
<1>2. Got(c).occupied = slots[Here(c)].occupied
  BY GotIsTrue
<1>3. CASE client[c].cmd.op = "set" /\ client[c].tomb = NumSlots /\ Got(c).occupied = Tombstone
  <2>1. TombAfter(c) = client[c].probe
    BY <1>3 DEF TombAfter
  <2>2. slots[Here(c)].occupied # Valid
    BY <1>2, <1>3 DEF Tombstone, Valid
  <2> QED BY <2>1, <2>2 DEF ProbedSlot, Here, Key
<1>4. CASE ~(client[c].cmd.op = "set" /\ client[c].tomb = NumSlots
             /\ Got(c).occupied = Tombstone)
  <2>1. TombAfter(c) = client[c].tomb
    BY <1>4 DEF TombAfter
  <2> QED BY <2>1, <1>1 DEF AimsReading, Key
<1> QED BY <1>3, <1>4

\* The slots a SET passed stay what they were.
LEMMA NextProbeAims ==
  ASSUME WInv, Aiming, NEW c \in Clients, NextProbe(c)
  PROVE  Aims(slots, c, client'[c])
<1> DEFINE r == [client[c] EXCEPT !.probe = @ + 1, !.parts = Parts, !.local = EmptySlot,
                   !.tomb = TombAfter(c)]
<1>1. client'[c] = r /\ client[c].pc = "reading"
  BY BecomesAt DEF NextProbe, WInv, Received, Transfers
<1>2. client[c] \in ClientState
  BY DEF WInv, IInv
<1>3. r.pc = client[c].pc /\ r.cmd = client[c].cmd /\ r.tomb = TombAfter(c)
  BY <1>2 DEF ClientState
<1> HIDE DEF r
<1>4. ASSUME client[c].cmd.op = "set", TombAfter(c) < NumSlots
      PROVE  ProbedSlot(slots, client[c].cmd.key, TombAfter(c)).occupied # Valid
  <2>1. Received(c, {"set"})
    BY <1>4 DEF NextProbe, Received
  <2> QED BY <2>1, <1>4, TombIsFree DEF Key
<1> QED BY <1>1, <1>3, <1>4 DEF Aims, AimsReading, Searches

\* A WRITE is posted to a slot that is free for its key ...
LEMMA PostsWriteAims ==
  ASSUME WInv, NEW c \in Clients, Received(c, {"set"}),
         NEW target, NEW count, PostsWrite(c, target, count),
         FreeFor(slots[target], Key(c))
  PROVE  Aims(slots, c, client'[c])
<1> DEFINE local == [occupied |-> Valid, access_count |-> count,
                     key |-> Key(c), value |-> client[c].cmd.value]
           r == [client[c] EXCEPT !.pc = "writing", !.target = target, !.parts = Parts,
                   !.local = local]
<1>1. client'[c] = r
  BY BecomesAt DEF PostsWrite, WInv
<1>2. client[c] \in ClientState /\ client[c].cmd.op = "set"
  BY DEF WInv, IInv, Received
<1>3. local.key = client[c].cmd.key /\ local.value = client[c].cmd.value
  BY DEF Key
<1> HIDE DEF local
<1>4. /\ r.pc = "writing" /\ r.cmd = client[c].cmd /\ r.target = target /\ r.parts = Parts
      /\ r.local = local
  BY <1>2 DEF ClientState
<1> HIDE DEF r
<1> QED BY <1>1, <1>2, <1>3, <1>4 DEF Aims, AimsWriting, Searches, Key, Parts

\* ... and each of a SET's three ways to choose its slot finds such a one.
LEMMA SetAims ==
  ASSUME WInv, Aiming, NEW c \in Clients,
         SetOverwrites(c) \/ SetInserts(c) \/ SetReuses(c)
  PROVE  Aims(slots, c, client'[c])
<1> DEFINE k == Key(c)
<1>1. Received(c, {"set"})
  BY DEF SetOverwrites, SetInserts, SetReuses
<1>2. Got(c).occupied = slots[Here(c)].occupied /\ Got(c).key = slots[Here(c)].key
  BY <1>1, GotIsTrue
<1>3. CASE SetOverwrites(c)
  BY <1>1, <1>2, <1>3, PostsWriteAims DEF SetOverwrites, Holds, FreeFor
<1>4. CASE SetInserts(c)
  <2>1. CASE client[c].tomb < NumSlots
    <3>1. PostsWrite(c, Probe(Hash[k], client[c].tomb), 0)
      BY <1>4, <2>1 DEF SetInserts
    <3>2. slots[Probe(Hash[k], client[c].tomb)].occupied # Valid
      BY <1>1, <2>1 DEF Aiming, Aims, AimsReading, Searches, Received, Transfers, ProbedSlot,
                        Key
    <3> QED BY <1>1, <3>1, <3>2, PostsWriteAims DEF FreeFor
  <2>2. CASE ~(client[c].tomb < NumSlots)
    <3>1. PostsWrite(c, Here(c), 0) /\ Got(c).occupied = Empty
      BY <1>4, <2>2 DEF SetInserts
    <3>2. slots[Here(c)].occupied # Valid
      BY <1>2, <3>1 DEF Empty, Valid
    <3>3. FreeFor(slots[Here(c)], k)
      BY <3>2 DEF FreeFor
    <3> QED BY <1>1, <3>1, <3>3, PostsWriteAims
  <2> QED BY <2>1, <2>2
<1>5. CASE SetReuses(c)
  <2>1. PostsWrite(c, Probe(Hash[k], TombAfter(c)), 0) /\ TombAfter(c) < NumSlots
    BY <1>5 DEF SetReuses
  <2>2. slots[Probe(Hash[k], TombAfter(c))].occupied # Valid
    BY <1>1, <2>1, TombIsFree DEF ProbedSlot
  <2> QED BY <1>1, <2>1, <2>2, PostsWriteAims DEF FreeFor
<1> QED BY <1>3, <1>4, <1>5

-----------------------------------------------------------------------------
(* The WRITE lands.                                                        *)

\* The header and the value reach the slot in either order; no other key loses it.
LEMMA WriteLandsAims ==
  ASSUME WInv, Aiming, NEW c \in Clients, WriteLands(c)
  PROVE  /\ Aims(slots', c, client'[c])
         /\ Changing(client'[c], Key(c))
         /\ client[c].cmd.op = "set" /\ "set" \in Commands[c]
         /\ \A k \in Keys, q \in Positions :
              k # Key(c) => /\ Holds(slots'[q], k) <=> Holds(slots[q], k)
                            /\ Holds(slots[q], k) => slots'[q].value = slots[q].value
<1>1. PICK ps \in Chunks(client[c].parts) :
           /\ client[c] \in ClientState /\ client[c].pc = "writing"
           /\ \A q \in Positions : q # client[c].target => slots'[q] = slots[q]
           /\ slots'[client[c].target] = Merge(slots[client[c].target], client[c].local, ps)
           /\ client'[c].parts = client[c].parts \ ps
           /\ client'[c].pc = IF client[c].parts = ps THEN "landed" ELSE "writing"
           /\ client'[c].cmd = client[c].cmd /\ client'[c].local = client[c].local
           /\ client'[c].target = client[c].target /\ client[c].target \in Positions
  BY WriteLandsFacts
<1> DEFINE parts == client[c].parts
           p == client[c].target
           l == client[c].local
           k0 == Key(c)
           v0 == client[c].cmd.value
           s == slots[p]
           u == slots'[p]
<1>2. /\ client[c].cmd.op = "set" /\ parts # {} /\ l.key = k0 /\ l.value = v0
      /\ "header" \in parts => FreeFor(s, k0)
      /\ "header" \notin parts => Holds(s, k0)
      /\ "value" \notin parts => s.value = v0
  BY <1>1 DEF Aiming, Aims, AimsWriting, Key
<1>3. l.occupied = Valid /\ "set" \in Commands[c]
  BY <1>1 DEF WInv, IInv, Sound, Placing, Informed, Writes
<1>4. /\ ps # {} /\ ps \subseteq parts /\ parts \ ps # Parts
      /\ parts # ps => parts \ ps # {}
  <2>1. parts \in SUBSET Parts
    BY <1>1 DEF ClientState
  <2> QED BY <1>2, <2>1, ChunkFacts
<1>5. /\ "header" \in ps => u.occupied = Valid /\ u.key = k0
      /\ "header" \notin ps => u.occupied = s.occupied /\ u.key = s.key
      /\ "value" \in ps => u.value = v0
      /\ "value" \notin ps => u.value = s.value
  BY <1>1, <1>2, <1>3, MergeFacts
<1>6. Changing(client'[c], k0)
  BY <1>1, <1>2, <1>4 DEF Changing, Key
<1> HIDE DEF l
<1>7. /\ "header" \in parts \ ps => FreeFor(u, k0)
      /\ "header" \notin parts \ ps => Holds(u, k0)
      /\ "value" \notin parts \ ps => u.value = v0
  BY <1>2, <1>4, <1>5 DEF FreeFor, Holds
<1>8. Aims(slots', c, client'[c])
  <2>1. CASE parts = ps
    <3>1. client'[c].pc = "landed" /\ client'[c].target = p /\ client'[c].cmd = client[c].cmd
      BY <1>1, <2>1
    <3>2. Holds(u, k0) /\ u.value = v0
      BY <1>7, <2>1
    <3> QED BY <3>1, <3>2, <1>3 DEF Aims, AimsLanded, Searches, Key
  <2>2. CASE parts # ps
    <3>1. client'[c].pc = "writing" /\ client'[c].target = p /\ client'[c].cmd = client[c].cmd
          /\ client'[c].parts = parts \ ps /\ client'[c].local = client[c].local
      BY <1>1, <2>2
    <3>2. client[c].local.key = k0 /\ client[c].local.value = v0 /\ parts \ ps # {}
      BY <1>2, <1>4, <2>2 DEF l
    <3>3. AimsWriting(slots', client'[c])
      BY <3>1, <3>2, <1>2, <1>7 DEF AimsWriting, Key
    <3> QED BY <3>1, <3>3 DEF Aims, Searches
  <2> QED BY <2>1, <2>2
<1>9. ASSUME NEW k \in Keys, NEW q \in Positions, k # k0
      PROVE  /\ Holds(slots'[q], k) <=> Holds(slots[q], k)
             /\ Holds(slots[q], k) => slots'[q].value = slots[q].value
  <2>1. CASE q = p
    <3>1. ~Holds(s, k)
      BY <1>2, <1>9 DEF FreeFor, Holds
    <3>2. ~Holds(u, k)
      BY <3>1, <1>5, <1>9 DEF Holds
    <3> QED BY <2>1, <3>1, <3>2
  <2>2. CASE q # p
    BY <1>1, <2>2
  <2> QED BY <2>1, <2>2
<1> QED BY <1>2, <1>3, <1>6, <1>8, <1>9

\* A FETCH_AND_ADD moves nothing but a counter.
LEMMA TouchLandsSame ==
  ASSUME IInv, NEW c \in Clients, TouchLands(c)
  PROVE  SameSlots(slots, slots')
<1>1. /\ slots' = [slots EXCEPT ![client[c].target].access_count = @ + 1]
      /\ client[c].target \in Positions
  BY DEF TouchLands, IInv, ClientState
<1> QED BY <1>1 DEF SameSlots, IInv, Slot

\* Every step but that of a WRITE leaves headers and values alone.
LEMMA OtherStepsSame ==
  ASSUME IInv, NEW c \in Clients, Acts(c), ~WriteLands(c)
  PROVE  SameSlots(slots, slots')
<1>1. UNCHANGED slots => SameSlots(slots, slots')
  BY DEF SameSlots
<1> QED BY <1>1, QuietSlots, TouchLandsSame

\* How a command returns.
LEMMA ReturnsIdle ==
  ASSUME IInv, NEW c \in Clients,
         GetMisses(c) \/ GetHits(c) \/ SetFull(c) \/ Completes(c) \/ Fails(c)
  PROVE  /\ client'[c].pc = "idle" /\ UNCHANGED slots
         /\ Completes(c) => client[c].pc = "landed"
         /\ ~Completes(c) /\ client[c].cmd.op = "set" => ~client'[c].ok
<1>1. ASSUME NEW ok, NEW v, NEW qp, NEW left,
             Becomes(c, AtPrompt(client[c].cmd, ok, v, qp, left))
      PROVE  client'[c].pc = "idle" /\ client'[c].ok = ok
  BY <1>1, BecomesAt DEF AtPrompt
<1>2. CASE GetMisses(c) \/ SetFull(c)
  <2>1. Becomes(c, AtPrompt(client[c].cmd, FALSE, NoValue, client[c].qp, client[c].left - 1))
        /\ UNCHANGED slots /\ client[c].pc = "reading"
    BY <1>2 DEF GetMisses, SetFull, Returns, Received, Transfers
  <2> QED BY <2>1, <1>1 DEF Completes, Transfers
<1>3. CASE GetHits(c)
  <2>1. Becomes(c, AtPrompt(client[c].cmd, TRUE, Got(c).value, client[c].qp,
                            client[c].left - 1))
        /\ UNCHANGED slots /\ client[c].pc = "reading" /\ client[c].cmd.op # "set"
    BY <1>3 DEF GetHits, Returns, Received, Transfers
  <2> QED BY <2>1, <1>1 DEF Completes, Transfers
<1>4. CASE Completes(c)
  <2>1. client[c].pc = "landed" /\ UNCHANGED slots
        /\ \E v : Becomes(c, AtPrompt(client[c].cmd, TRUE, v, client[c].qp, client[c].left - 1))
    BY <1>4 DEF Completes, Returns, Transfers
  <2> QED BY <2>1, <1>1, <1>4
<1>5. CASE Fails(c)
  <2>1. Becomes(c, AtPrompt(client[c].cmd, FALSE, NoValue, "error", client[c].left - 1))
        /\ UNCHANGED slots
    BY <1>5 DEF Fails
  <2>2. client'[c].pc = "idle" /\ client'[c].ok = FALSE
    BY <2>1, <1>1
  <2>3. Completes(c) => client[c].pc = "landed"
    BY DEF Completes, Transfers
  <2> QED BY <2>1, <2>2, <2>3
<1> QED BY <1>2, <1>3, <1>4, <1>5

\* Every step keeps the SETs' aim: with one writer nobody else takes their slot.
LEMMA AimingStep ==
  ASSUME SingleWriter, WInv, Aiming, NEW c \in Clients, Acts(c)
  PROVE  Aiming'
<1>1. CASE WriteLands(c)
  <2>1. ASSUME NEW d \in Clients, d # c PROVE Aims(slots', d, client'[d])
    <3>1. client'[d] = client[d] /\ "set" \notin Commands[d]
      BY <1>1, <2>1, OthersStay, WriteLandsAims DEF SingleWriter, WInv
    <3>2. Aims(slots, d, client[d]) /\ Informed(slots, d, client[d])
      BY DEF Aiming, WInv
    <3> QED BY <3>1, <3>2 DEF Aims, Informed, Writes
  <2> QED BY <1>1, <2>1, WriteLandsAims DEF Aiming
<1>2. CASE ~WriteLands(c)
  <2>1. SameSlots(slots, slots')
    BY <1>2, OtherStepsSame DEF WInv
  <2>2. \A d \in Clients : Aims(slots', d, client[d])
    BY <2>1, AimsStay DEF Aiming, WInv, IInv
  <2>3. \A d \in Clients : d # c => Aims(slots', d, client'[d])
    BY <2>2, OthersStay DEF WInv
  <2>4. Aims(slots', c, client'[c])
    <3>1. CASE Begins(c)
      <4>1. UNCHANGED slots
        BY <3>1 DEF Begins, BeginGet, BeginSet, RejectSet
      <4> QED BY <3>1, <4>1, BeginsAims
    <3>2. CASE ReadPart(c) \/ NextProbe(c)
      <4>1. UNCHANGED slots
        BY <3>2 DEF ReadPart, NextProbe
      <4> QED BY <3>2, <4>1, ReadPartAims, NextProbeAims
    <3>3. CASE SetOverwrites(c) \/ SetInserts(c) \/ SetReuses(c)
      <4>1. UNCHANGED slots
        BY <3>3 DEF SetOverwrites, SetInserts, SetReuses, PostsWrite
      <4> QED BY <3>3, <4>1, SetAims
    <3>4. CASE GetMisses(c) \/ GetHits(c) \/ SetFull(c) \/ Completes(c) \/ Fails(c)
      BY <3>4, ReturnsIdle DEF Aims, Searches, WInv
    <3>5. CASE GetMetaHits(c)
      <4>1. client'[c].pc = "touching" /\ client'[c].cmd = client[c].cmd
            /\ client[c].cmd.op # "set"
        <5>1. client[c].pc = "reading" /\ client[c].cmd.op = "get_meta"
          BY <3>5 DEF GetMetaHits, Received, Transfers
        <5> QED BY <3>5, <5>1, GoesToVerb DEF WInv
      <4> QED BY <4>1 DEF Aims, Searches
    <3>6. CASE TouchLands(c)
      <4>1. client[c].pc = "touching"
        BY <3>6 DEF TouchLands, Transfers
      <4>2. client'[c].pc = "landed" /\ client'[c].cmd = client[c].cmd
        <5>1. ~GetMetaHits(c)
          BY <4>1 DEF GetMetaHits, Received, Transfers
        <5> QED BY <3>6, <4>1, <5>1, GoesToVerb DEF WInv
      <4>3. client[c].cmd.op # "set"
        BY <4>1 DEF Aiming, Aims
      <4> QED BY <4>2, <4>3 DEF Aims, Searches
    <3> QED BY <1>2, <3>1, <3>2, <3>3, <3>4, <3>5, <3>6 DEF Acts, Progress
  <2> QED BY <2>3, <2>4 DEF Aiming
<1> QED BY <1>1, <1>2

-----------------------------------------------------------------------------
(* What the key holds, and what it may.                                    *)

\* What may becomes when no SET of k returns.
LEMMA MayStays ==
  ASSUME Records, NEW k \in Keys, Setting(k) = {}
  PROVE  may'[k] = may[k]
<1>1. Acknowledged(k) = {} /\ Uncertain(k) = {}
  BY DEF Acknowledged, Uncertain
<1> QED BY <1>1 DEF Records, MayAfter

\* A SET that fails takes nothing away.
LEMMA MayGrows ==
  ASSUME Records, NEW k \in Keys, \A d \in Setting(k) : ~client'[d].ok
  PROVE  /\ may[k] \subseteq may'[k]
         /\ \A d \in Setting(k) :
              client[d].pc \in {"writing", "landed"} => client[d].cmd.value \in may'[k]
<1>1. Acknowledged(k) = {}
  BY DEF Acknowledged
<1>2. may'[k] = may[k] \cup Uncertain(k)
  BY <1>1 DEF Records, MayAfter
<1> QED BY <1>2 DEF Uncertain

\* A SET that returns true adds its value.
LEMMA MayTakes ==
  ASSUME Records, NEW k \in Keys, NEW d \in Setting(k), client'[d].ok
  PROVE  client[d].cmd.value \in may'[k]
<1>1. client[d].cmd.value \in Acknowledged(k)
  BY DEF Acknowledged
<1> QED BY <1>1 DEF Records, MayAfter

\* Who returns from a SET in this step.
LEMMA OnlyActorSets ==
  ASSUME IInv, NEW c \in Clients, Acts(c), NEW k
  PROVE  \A d \in Setting(k) :
           d = c /\ client[c].cmd.op = "set" /\ Key(c) = k /\ Returning(c, "set")
BY OthersStay DEF Setting, Returning, Running

\* Steps other than the WRITE's landing move the contents of no key.
LEMMA ContentsStay ==
  ASSUME WInv, WInv', SameSlots(slots, slots'), NEW k \in Keys
  PROVE  Contents(slots')[k] = Contents(slots)[k]
<1>1. \A p \in Positions : /\ Holds(slots'[p], k) <=> Holds(slots[p], k)
                           /\ Holds(slots[p], k) => slots'[p].value = slots[p].value
  BY DEF SameSlots, Holds
<1> QED BY <1>1, ContentsFrame DEF WInv

\* A client whose SET of k is under way in the table, or returns from there.
LEMMA ChangingGoesOn ==
  ASSUME IInv, Aiming, NEW c \in Clients, Acts(c), ~WriteLands(c), NEW k,
         Changing(client[c], k), ~Changing(client'[c], k)
  PROVE  /\ client[c].pc = "landed" /\ client[c].cmd.op = "set" /\ Key(c) = k
         /\ Returning(c, "set") /\ (Completes(c) \/ Fails(c))
<1>1. client[c].pc \in {"writing", "landed"} /\ client[c].cmd.op = "set" /\ Key(c) = k
      /\ (client[c].pc = "writing" => client[c].parts # Parts)
  BY DEF Changing, Key
<1>2. ~Begins(c)
  BY <1>1 DEF Begins, BeginGet, BeginSet, RejectSet, MayIssue
<1>3. ~(ReadPart(c) \/ NextProbe(c) \/ GetMisses(c) \/ GetHits(c) \/ GetMetaHits(c))
  BY <1>1 DEF ReadPart, NextProbe, GetMisses, GetHits, GetMetaHits, Received, Transfers
<1>4. ~(SetOverwrites(c) \/ SetInserts(c) \/ SetReuses(c) \/ SetFull(c) \/ TouchLands(c))
  BY <1>1 DEF SetOverwrites, SetInserts, SetReuses, SetFull, TouchLands, Received, Transfers
<1>5. Completes(c) \/ Fails(c)
  BY <1>2, <1>3, <1>4 DEF Acts, Progress
<1>6. client[c].pc = "landed"
  BY <1>1, <1>5 DEF Completes, Fails, Transfers
<1>7. Returning(c, "set")
  BY <1>1, <1>5, ReturnsIdle DEF Returning, Running
<1> QED BY <1>1, <1>5, <1>6, <1>7

\* The steps that end a command.
LEMMA WhoReturns ==
  ASSUME IInv, NEW c \in Clients, Acts(c), client[c].pc # "idle", client'[c].pc = "idle"
  PROVE  GetMisses(c) \/ GetHits(c) \/ SetFull(c) \/ Completes(c) \/ Fails(c)
<1>1. ~Begins(c)
  BY DEF Begins, BeginGet, BeginSet, RejectSet, MayIssue
<1>2. ~(ReadPart(c) \/ NextProbe(c))
  BY KeepsReading
<1>3. ~(GetMetaHits(c) \/ WriteLands(c) \/ TouchLands(c))
  BY GoesToVerb
<1>4. ASSUME SetOverwrites(c) \/ SetInserts(c) \/ SetReuses(c)
      PROVE  client'[c].pc = "writing"
  <2>1. \E p, n : PostsWrite(c, p, n)
    BY <1>4 DEF SetOverwrites, SetInserts, SetReuses
  <2> QED BY <2>1 DEF PostsWrite, Becomes, IInv, ClientState
<1> QED BY <1>1, <1>2, <1>3, <1>4 DEF Acts, Progress

\* Every step keeps what may allows.
LEMMA SticksStep ==
  ASSUME SingleWriter, SInv, WInv', Records, NEW c \in Clients, Acts(c), NEW k \in Keys
  PROVE  Sticks(k)'
<1> SUFFICES ASSUME \A d \in Clients : ~Changing(client'[d], k)
             PROVE  Contents(slots')[k] \in may'[k]
  BY DEF Sticks
<1>1. \A d \in Setting(k) :
        d = c /\ client[c].cmd.op = "set" /\ Key(c) = k /\ Returning(c, "set")
  BY OnlyActorSets DEF SInv, WInv
<1>2. \A d \in Clients : d # c => ~Changing(client[d], k)
  BY OthersStay DEF SInv, WInv
<1>3. CASE WriteLands(c)
  <2>1. /\ Changing(client'[c], Key(c)) /\ client'[c].pc # "idle"
        /\ \A q \in Positions :
             k # Key(c) => /\ Holds(slots'[q], k) <=> Holds(slots[q], k)
                           /\ Holds(slots[q], k) => slots'[q].value = slots[q].value
    BY <1>3, WriteLandsAims DEF SInv, Changing
  <2>2. k # Key(c)
    BY <2>1
  <2>3. Contents(slots')[k] = Contents(slots)[k]
    BY <2>1, <2>2, ContentsFrame DEF SInv, WInv
  <2>4. Setting(k) = {}
    BY <1>1, <2>2
  <2>5. ~Changing(client[c], k)
    BY <2>2 DEF Changing, Key
  <2>6. Contents(slots)[k] \in may[k]
    BY <1>2, <2>5 DEF SInv, Sticks
  <2> QED BY <2>3, <2>4, <2>6, MayStays
<1>4. CASE ~WriteLands(c)
  <2>1. Contents(slots')[k] = Contents(slots)[k]
    BY <1>4, OtherStepsSame, ContentsStay DEF SInv, WInv
  <2>2. CASE Changing(client[c], k)
    <3>1. /\ client[c].pc = "landed" /\ client[c].cmd.op = "set" /\ Key(c) = k
          /\ Returning(c, "set") /\ (Completes(c) \/ Fails(c))
      BY <1>4, <2>2, ChangingGoesOn DEF SInv, WInv
    <3>2. Holds(slots[client[c].target], k) /\ slots[client[c].target].value = client[c].cmd.value
      BY <3>1 DEF SInv, Aiming, Aims, AimsLanded, Key
    <3>3. client[c].target \in Positions
      BY DEF SInv, WInv, IInv, ClientState
    <3>4. Contents(slots)[k] = client[c].cmd.value
      BY <3>2, <3>3, ContentsAtHolder DEF SInv, WInv
    <3>5. c \in Setting(k)
      BY <3>1 DEF Setting
    <3>6. CASE client'[c].ok
      BY <2>1, <3>4, <3>5, <3>6, MayTakes
    <3>7. CASE ~client'[c].ok
      <4>1. \A d \in Setting(k) : ~client'[d].ok
        BY <1>1, <3>7
      <4>2. client[c].cmd.value \in may'[k]
        BY <3>1, <3>5, <4>1, MayGrows
      <4> QED BY <2>1, <3>4, <4>2
    <3> QED BY <3>6, <3>7
  <2>3. CASE ~Changing(client[c], k)
    <3>1. Contents(slots)[k] \in may[k]
      BY <1>2, <2>3 DEF SInv, Sticks
    <3>2. CASE Setting(k) = {}
      BY <2>1, <3>1, <3>2, MayStays
    <3>3. CASE Setting(k) # {}
      <4>1. client[c].cmd.op = "set" /\ Key(c) = k /\ client[c].pc # "idle"
            /\ client'[c].pc = "idle"
        BY <1>1, <3>3 DEF Returning, Running
      <4>2. ~Completes(c)
        BY <4>1, <2>3 DEF Completes, Transfers, Changing, Key
      <4>3. GetMisses(c) \/ GetHits(c) \/ SetFull(c) \/ Completes(c) \/ Fails(c)
        BY <1>4, <4>1, WhoReturns DEF SInv, WInv
      <4>4. ~client'[c].ok
        BY <4>1, <4>2, <4>3, ReturnsIdle DEF SInv, WInv
      <4>5. \A d \in Setting(k) : ~client'[d].ok
        BY <1>1, <4>4
      <4>6. may[k] \subseteq may'[k]
        BY <4>5, MayGrows
      <4> QED BY <2>1, <3>1, <4>6
    <3> QED BY <3>2, <3>3
  <2> QED BY <2>2, <2>3
<1> QED BY <1>3, <1>4

LEMMA StickyInit == HInit => SInv
<1> SUFFICES ASSUME HInit PROVE SInv
  OBVIOUS
<1>1. \A c \in Clients : client[c].pc = "idle"
  BY DEF HInit, Init, FreshClient, AtPrompt
<1>2. Aiming
  BY <1>1 DEF Aiming, Aims, Searches
<1>3. \A k \in Keys : Contents(slots)[k] \in may[k]
  BY DEF HInit
<1> QED BY <1>2, <1>3, HistoryWriterInit DEF SInv, Sticks

\* Together, the invariant of AcknowledgedSetsStick.
LEMMA StickyStep == SingleWriter /\ SInv /\ [HNext]_hvars => SInv'
<1> SUFFICES ASSUME SingleWriter, SInv, [HNext]_hvars PROVE SInv'
  OBVIOUS
<1>1. WInv'
  BY HistoryWriterStep DEF SInv
<1>2. CASE HNext
  <2>1. PICK c \in Clients : Acts(c)
    BY <1>2, HistoryStep
  <2>2. Records
    BY <1>2, HistoryStep
  <2>3. Aiming'
    BY <2>1, AimingStep DEF SInv
  <2>4. \A k \in Keys : Sticks(k)'
    BY <1>1, <2>1, <2>2, SticksStep
  <2> QED BY <1>1, <2>3, <2>4 DEF SInv
<1>3. CASE UNCHANGED hvars
  <2>1. Aiming' /\ \A k \in Keys : Sticks(k)'
    BY <1>3 DEF hvars, history, SInv, Aiming, Sticks
  <2> QED BY <1>1, <2>1 DEF SInv
<1> QED BY <1>2, <1>3

\* With one writer, a SET that returned true, in any number of verbs and next to
\* any number of readers, is what its key holds until the next SET; so is one of
\* the SETs whose WRITE was posted and reported a failure
\* (RdmaClient::set, remote_set).
THEOREM AcknowledgedSetsStick ==
  ASSUME SingleWriter PROVE HSpec => []AcknowledgedSetSticks
<1>1. HInit => SInv
  BY StickyInit
<1>2. SInv /\ [HNext]_hvars => SInv'
  BY StickyStep
<1>3. SInv => AcknowledgedSetSticks
  <2> SUFFICES ASSUME SInv, NEW k \in AskedKeys,
                      \A c \in Clients :
                        ~(client[c].pc \in {"writing", "landed"} /\ client[c].cmd.op = "set"
                          /\ Key(c) = k)
               PROVE  Contents(slots)[k] \in may[k]
    BY DEF AcknowledgedSetSticks
  <2>1. k \in Keys
    BY CommandsAssumption
  <2>2. \A c \in Clients : ~Changing(client[c], k)
    BY DEF Changing, Key
  <2> QED BY <2>1, <2>2 DEF SInv, Sticks
<1> QED BY <1>1, <1>2, <1>3, PTL DEF HSpec

-----------------------------------------------------------------------------
(* With one writer, no counter counts more than the GET_METAs of its key.  *)
(*                                                                         *)
(* A slot that holds a key keeps it (Keeps), so the slot a FETCH_AND_ADD   *)
(* goes to still holds the key it was found under (Points); and a SET      *)
(* writes back a counter that was right when it was read and can only have *)
(* grown (Carries).                                                        *)

\* What client c's record says of the slots it has found keys in.
Points(t, r) ==
  /\ r.pc = "reading" /\ "header" \notin r.parts /\ r.local.occupied = Valid =>
       Holds(ProbedSlot(t, r.cmd.key, r.probe), r.local.key)
  /\ r.pc = "touching" => r.cmd.op = "get_meta" /\ Holds(t[r.target], r.cmd.key)

\* The counter a record carries is no more than total allows, and a SET is known.
Carries(r, total, given) ==
  /\ r.pc \in {"reading", "writing"} /\ ("header" \notin r.parts \/ r.pc = "writing")
       /\ r.local.occupied = Valid => r.local.access_count <= total[r.local.key]
  /\ r.pc # "idle" /\ r.cmd.op = "set" => given[r.cmd.key] # {}

Counted == [k \in Keys |-> hits[k] + Cardinality(Landed(k))]
Total   == [k \in Keys |-> hits[k] + Cardinality(Landed(k)) + doubt[k]]

CountTypes == /\ hits \in [Keys -> Nat] /\ doubt \in [Keys -> Nat]
              /\ \A k \in Keys : Cardinality(Landed(k)) \in Nat

\* The counter of slot s lies between lower, unless its key was given, and upper.
Between(s, lower, upper, given) ==
  s.occupied = Valid => /\ s.access_count <= upper[s.key]
                        /\ given[s.key] = {} => s.access_count >= lower[s.key]

CInv ==
  /\ SInv /\ CountTypes
  /\ \A c \in Clients : Points(slots, client[c]) /\ Carries(client[c], Total, issued)
  /\ \A p \in Positions : Between(slots[p], Counted, Total, issued)

\* A slot that holds a key goes on holding it.
Keeps(t, u) ==
  \A p \in Positions : t[p].occupied = Valid => u[p].occupied = Valid /\ u[p].key = t[p].key

\* No step takes a slot from its key: the one writer has searched the whole chain.
LEMMA SlotsKeep ==
  ASSUME SInv, NEW c \in Clients, Acts(c)
  PROVE  Keeps(slots, slots')
<1>1. CASE ~WriteLands(c)
  BY <1>1, OtherStepsSame DEF SameSlots, Keeps, SInv, WInv
<1>2. CASE WriteLands(c)
  <2>1. PICK ps \in Chunks(client[c].parts) :
           /\ client[c].pc = "writing"
           /\ \A q \in Positions : q # client[c].target => slots'[q] = slots[q]
           /\ slots'[client[c].target] = Merge(slots[client[c].target], client[c].local, ps)
           /\ client[c] \in ClientState /\ client[c].target \in Positions
    BY <1>2, WriteLandsFacts DEF SInv
  <2> DEFINE s == slots[client[c].target]
             u == slots'[client[c].target]
  <2>2. AimsWriting(slots, client[c]) /\ client[c].local.occupied = Valid
    BY <2>1 DEF SInv, Aiming, Aims, WInv, IInv, Sound, Placing
  <2>3. /\ "header" \in ps => u.occupied = Valid /\ u.key = client[c].cmd.key
        /\ "header" \notin ps => u.occupied = s.occupied /\ u.key = s.key
    BY <2>1, <2>2, MergeFacts DEF AimsWriting
  <2>4. s.occupied = Valid => s.key = client[c].cmd.key
    BY <2>2 DEF AimsWriting, FreeFor, Holds
  <2>5. s.occupied = Valid => u.occupied = Valid /\ u.key = s.key
    BY <2>3, <2>4
  <2> HIDE DEF s, u
  <2> QED BY <2>1, <2>5 DEF Keeps, s, u
<1> QED BY <1>1, <1>2

-----------------------------------------------------------------------------
(* Who is counted.                                                         *)

\* Clients are finitely many, and so are those whose FETCH_AND_ADD has landed.
LEMMA LandedFinite ==
  ASSUME NEW k
  PROVE  IsFiniteSet(Landed(k)) /\ Cardinality(Landed(k)) \in Nat
BY CommandsAssumption, FS_Subset, FS_CardinalityType DEF Landed

LEMMA LandedFiniteNext ==
  ASSUME NEW k
  PROVE  IsFiniteSet(Landed(k)') /\ Cardinality(Landed(k)') \in Nat
BY CommandsAssumption, FS_Subset, FS_CardinalityType DEF Landed

\* A set of one client, or none.
LEMMA CountOne ==
  ASSUME NEW S, NEW c, S \subseteq {c}
  PROVE  Cardinality(S) = IF c \in S THEN 1 ELSE 0
<1>1. S = {} \/ S = {c}
  OBVIOUS
<1>2. Cardinality({}) = 0
  BY FS_EmptySet
<1>3. Cardinality({c}) = 1
  BY FS_Singleton
<1> QED BY <1>1, <1>2, <1>3

\* Only the client that acts can be answered, or be left in doubt.
LEMMA OnlyActorAsks ==
  ASSUME IInv, NEW c \in Clients, Acts(c), NEW k
  PROVE  Asking(k) \subseteq {c}
BY OthersStay DEF Asking, Returning, Running

\* The FETCH_AND_ADD of one more client has landed, or of one less, or of the same.
LEMMA LandedNext ==
  ASSUME IInv, NEW c \in Clients, Acts(c), NEW k
  PROVE  LET now == client'[c].pc = "landed" /\ client'[c].cmd.op = "get_meta"
                    /\ client'[c].cmd.key = k IN
           /\ c \notin Landed(k) /\ now => Cardinality(Landed(k)') = Cardinality(Landed(k)) + 1
           /\ c \in Landed(k) /\ ~now => Cardinality(Landed(k)') = Cardinality(Landed(k)) - 1
           /\ (c \in Landed(k) <=> now) => Cardinality(Landed(k)') = Cardinality(Landed(k))
<1> DEFINE now == client'[c].pc = "landed" /\ client'[c].cmd.op = "get_meta"
                  /\ client'[c].cmd.key = k
           L == Landed(k)
           M == Landed(k)'
<1>1. \A d \in Clients : d # c => (d \in M <=> d \in L)
  BY OthersStay DEF Landed, Key
<1>2. c \in M <=> now
  BY DEF Landed, Key
<1>3. L \subseteq Clients /\ M \subseteq Clients
  BY DEF Landed
<1>4. IsFiniteSet(L)
  BY LandedFinite
<1> HIDE DEF now, L, M
<1>5. ASSUME c \notin L, now PROVE Cardinality(M) = Cardinality(L) + 1
  <2>1. M = L \cup {c}
    BY <1>1, <1>2, <1>3, <1>5
  <2> QED BY <2>1, <1>4, <1>5, FS_AddElement
<1>6. ASSUME c \in L, ~now PROVE Cardinality(M) = Cardinality(L) - 1
  <2>1. M = L \ {c}
    BY <1>1, <1>2, <1>3, <1>6
  <2> QED BY <2>1, <1>4, <1>6, FS_RemoveElement
<1>7. ASSUME c \in L <=> now PROVE M = L
  BY <1>1, <1>2, <1>3, <1>7
<1> QED BY <1>5, <1>6, <1>7 DEF now, L, M

\* A verb that has landed has nothing left but to return.
LEMMA LandedReturns ==
  ASSUME IInv, NEW c \in Clients, Acts(c), client[c].pc = "landed"
  PROVE  client'[c].pc = "idle"
<1>1. ~Begins(c)
  BY DEF Begins, BeginGet, BeginSet, RejectSet, MayIssue
<1>2. ~(ReadPart(c) \/ NextProbe(c) \/ GetMetaHits(c) \/ TouchLands(c) \/ WriteLands(c))
  BY DEF ReadPart, NextProbe, GetMetaHits, TouchLands, WriteLands, Received, Transfers
<1>3. ~(SetOverwrites(c) \/ SetInserts(c) \/ SetReuses(c))
  BY DEF SetOverwrites, SetInserts, SetReuses, Received, Transfers
<1> QED BY <1>1, <1>2, <1>3, ReturnsIdle DEF Acts, Progress

\* A GET_META is answered when its FETCH_AND_ADD has landed.
LEMMA AnsweredHasLanded ==
  ASSUME IInv, NEW c \in Clients, Acts(c), Returning(c, "get_meta"), client'[c].ok
  PROVE  client[c].pc = "landed"
<1>1. client[c].pc # "idle" /\ client'[c].pc = "idle" /\ client[c].cmd.op = "get_meta"
  BY DEF Returning, Running
<1>2. GetMisses(c) \/ GetHits(c) \/ SetFull(c) \/ Completes(c) \/ Fails(c)
  BY <1>1, WhoReturns
<1>3. ~GetHits(c) /\ ~SetFull(c)
  BY <1>1 DEF GetHits, SetFull, Received
<1>4. ASSUME NEW qp, NEW left, Becomes(c, AtPrompt(client[c].cmd, FALSE, NoValue, qp, left))
      PROVE  FALSE
  BY <1>4, BecomesAt DEF AtPrompt
<1>5. ~GetMisses(c)
  BY <1>4 DEF GetMisses, Returns
<1>6. ~Fails(c)
  BY <1>4 DEF Fails
<1> QED BY <1>2, <1>3, <1>5, <1>6 DEF Completes, Transfers

\* The FETCH_AND_ADD of a GET_META lands ...
LEMMA TouchLandsIs ==
  ASSUME IInv, NEW c \in Clients, TouchLands(c)
  PROVE  /\ client[c].pc = "touching" /\ client'[c].pc = "landed"
         /\ client'[c].cmd = client[c].cmd
<1>1. client[c].pc = "touching"
  BY DEF TouchLands, Transfers
<1>2. ~GetMetaHits(c)
  BY <1>1 DEF GetMetaHits, Received, Transfers
<1> QED BY <1>1, <1>2, GoesToVerb

\* ... and nothing else brings one there.
LEMMA LandsByTouch ==
  ASSUME WInv, Aiming, NEW c \in Clients, Acts(c),
         client'[c].pc = "landed", client'[c].cmd.op = "get_meta"
  PROVE  TouchLands(c)
<1>1. ~Begins(c)
  <2> SUFFICES ASSUME Begins(c) PROVE FALSE
    OBVIOUS
  <2>1. PICK k \in AskedKeys :
          \/ \E op \in Gets : BeginGet(c, op, k)
          \/ \E v \in AskedValues : BeginSet(c, k, v) \/ RejectSet(c, k, v)
    BY DEF Begins
  <2>2. ASSUME NEW op \in Gets, BeginGet(c, op, k) PROVE FALSE
    BY <2>2 DEF BeginGet, Becomes, WInv, IInv, ClientState
  <2>3. ASSUME NEW v \in AskedValues, BeginSet(c, k, v) \/ RejectSet(c, k, v) PROVE FALSE
    BY <2>3, SetBegins DEF WInv
  <2> QED BY <2>1, <2>2, <2>3
<1>2. ~(ReadPart(c) \/ NextProbe(c))
  BY KeepsReading DEF WInv
<1>3. ~(GetMisses(c) \/ GetHits(c) \/ SetFull(c) \/ Completes(c) \/ Fails(c))
  BY ReturnsIdle DEF WInv
<1>4. ~(SetOverwrites(c) \/ SetInserts(c) \/ SetReuses(c))
  <2> SUFFICES ASSUME SetOverwrites(c) \/ SetInserts(c) \/ SetReuses(c) PROVE FALSE
    OBVIOUS
  <2>1. \E p, n : PostsWrite(c, p, n)
    BY DEF SetOverwrites, SetInserts, SetReuses
  <2> QED BY <2>1 DEF PostsWrite, Becomes, WInv, IInv, ClientState
<1>5. ~GetMetaHits(c)
  <2> SUFFICES ASSUME GetMetaHits(c) PROVE FALSE
    OBVIOUS
  <2>1. client[c].pc = "reading"
    BY DEF GetMetaHits, Received, Transfers
  <2> QED BY <2>1, GoesToVerb DEF WInv
<1>6. ~WriteLands(c)
  <2> SUFFICES ASSUME WriteLands(c) PROVE FALSE
    OBVIOUS
  <2>1. client[c].cmd.op = "set"
    BY WriteLandsAims
  <2>2. client'[c].cmd = client[c].cmd
    BY GoesToVerb DEF WInv
  <2> QED BY <2>1, <2>2
<1> QED BY <1>1, <1>2, <1>3, <1>4, <1>5, <1>6 DEF Acts, Progress

-----------------------------------------------------------------------------
(* What a step does to the counts.                                         *)

\* Some arithmetic of the counts: h of hits, n of Landed, d of doubt, and one
\* more or less of each.
LEMMA CountArithmetic ==
  ASSUME NEW h \in Nat, NEW n \in Nat, NEW d \in Nat, NEW m \in Nat,
         NEW a \in {0, 1}, NEW b \in {0, 1}
  PROVE  /\ m = n + 1 /\ a = 0 /\ b = 0 => /\ (h + a) + m = (h + n) + 1
                                           /\ (h + a) + m + (d + b) = (h + n + d) + 1
         /\ m = n - 1 /\ a + b = 1 => /\ (h + a) + m <= h + n
                                      /\ (h + a) + m + (d + b) >= h + n + d
         /\ m = n /\ a = 0 => /\ (h + a) + m <= h + n
                              /\ (h + a) + m + (d + b) >= h + n + d
OBVIOUS

\* A step counts one more GET_META of a key, or moves one between the counts.
LEMMA CountsNext ==
  ASSUME SInv, CountTypes, Records, NEW c \in Clients, Acts(c),
         Points(slots, client[c]), NEW k \in Keys
  PROVE  /\ hits'[k] \in Nat /\ doubt'[k] \in Nat
         /\ TouchLands(c) /\ Key(c) = k =>
              Counted'[k] = Counted[k] + 1 /\ Total'[k] = Total[k] + 1
         /\ ~(TouchLands(c) /\ Key(c) = k) =>
              Counted'[k] <= Counted[k] /\ Total'[k] >= Total[k]
<1> DEFINE h == hits[k]
           d == doubt[k]
           n == Cardinality(Landed(k))
           m == Cardinality(Landed(k)')
           a == Cardinality(Answered(k))
           b == Cardinality(Doubtful(k))
           now == client'[c].pc = "landed" /\ client'[c].cmd.op = "get_meta"
                  /\ client'[c].cmd.key = k
<1>1. h \in Nat /\ d \in Nat /\ n \in Nat /\ m \in Nat
  BY LandedFiniteNext DEF CountTypes
<1>2. hits'[k] = h + a /\ doubt'[k] = d + b
  BY DEF Records
<1>3. /\ Counted[k] = h + n /\ Total[k] = h + n + d
      /\ Counted'[k] = (h + a) + m /\ Total'[k] = (h + a) + m + (d + b)
  BY <1>2 DEF Counted, Total
<1>4. a = (IF c \in Answered(k) THEN 1 ELSE 0) /\ b = (IF c \in Doubtful(k) THEN 1 ELSE 0)
  <2>1. Answered(k) \subseteq {c} /\ Doubtful(k) \subseteq {c}
    BY OnlyActorAsks DEF Answered, Doubtful, SInv, WInv
  <2> QED BY <2>1, CountOne
<1>5. /\ c \notin Landed(k) /\ now => m = n + 1
      /\ c \in Landed(k) /\ ~now => m = n - 1
      /\ (c \in Landed(k) <=> now) => m = n
  BY LandedNext DEF SInv, WInv
<1>6. c \in Answered(k) => c \in Landed(k) /\ ~now
  <2> SUFFICES ASSUME c \in Answered(k) PROVE c \in Landed(k) /\ ~now
    OBVIOUS
  <2>1. Returning(c, "get_meta") /\ client'[c].ok /\ Key(c) = k
    BY DEF Answered, Asking
  <2>2. client[c].pc = "landed"
    BY <2>1, AnsweredHasLanded DEF SInv, WInv
  <2> QED BY <2>1, <2>2 DEF Returning, Landed
<1>7. c \in Landed(k) => ~now /\ (c \in Answered(k) \/ c \in Doubtful(k))
  <2> SUFFICES ASSUME c \in Landed(k) PROVE ~now /\ (c \in Answered(k) \/ c \in Doubtful(k))
    OBVIOUS
  <2>1. client[c].pc = "landed" /\ client[c].cmd.op = "get_meta" /\ Key(c) = k
    BY DEF Landed
  <2>2. client'[c].pc = "idle"
    BY <2>1, LandedReturns DEF SInv, WInv
  <2> QED BY <2>1, <2>2 DEF Answered, Doubtful, Asking, Returning, Running
<1>8. c \in Answered(k) => c \notin Doubtful(k)
  BY DEF Answered, Doubtful
<1>9. now => c \notin Answered(k) /\ c \notin Doubtful(k)
  BY DEF Answered, Doubtful, Asking, Returning
<1>10. TouchLands(c) /\ Key(c) = k => now /\ c \notin Landed(k)
  <2> SUFFICES ASSUME TouchLands(c), Key(c) = k PROVE now /\ c \notin Landed(k)
    OBVIOUS
  <2>1. /\ client[c].pc = "touching" /\ client'[c].pc = "landed"
        /\ client'[c].cmd = client[c].cmd
    BY TouchLandsIs DEF SInv, WInv
  <2>2. client[c].cmd.op = "get_meta"
    BY <2>1 DEF Points
  <2> QED BY <2>1, <2>2 DEF Landed, Key
<1>11. now => TouchLands(c) /\ Key(c) = k
  <2> SUFFICES ASSUME now PROVE TouchLands(c) /\ Key(c) = k
    OBVIOUS
  <2>1. TouchLands(c)
    BY LandsByTouch DEF SInv
  <2> QED BY <2>1, TouchLandsIs DEF SInv, WInv, Key
<1>12. a \in {0, 1} /\ b \in {0, 1}
  BY <1>4
<1> HIDE DEF h, d, n, m, a, b, now
<1>13. CASE TouchLands(c) /\ Key(c) = k
  <2>1. m = n + 1 /\ a = 0 /\ b = 0
    BY <1>13, <1>4, <1>5, <1>9, <1>10
  <2>2. (h + a) + m = (h + n) + 1 /\ (h + a) + m + (d + b) = (h + n + d) + 1
    BY <1>1, <1>12, <2>1, CountArithmetic
  <2> QED BY <1>1, <1>2, <1>3, <1>12, <1>13, <2>2
<1>14. CASE ~(TouchLands(c) /\ Key(c) = k)
  <2>1. \/ m = n - 1 /\ a + b = 1
        \/ m = n /\ a = 0
    BY <1>14, <1>4, <1>5, <1>6, <1>7, <1>8, <1>11
  <2>2. (h + a) + m <= h + n /\ (h + a) + m + (d + b) >= h + n + d
    BY <1>1, <1>12, <2>1, CountArithmetic
  <2> QED BY <1>1, <1>2, <1>3, <1>12, <1>14, <2>2
<1> QED BY <1>13, <1>14

-----------------------------------------------------------------------------
(* Every client's knowledge stays right.                                   *)

\* A slot found under a key is found under it later.
LEMMA PointsStay ==
  ASSUME NEW t, NEW u, Keeps(t, u), NEW r \in ClientState, Sound(t, r), Points(t, r)
  PROVE  Points(u, r)
<1>1. ASSUME r.pc = "reading", "header" \notin r.parts, r.local.occupied = Valid
      PROVE  Holds(ProbedSlot(u, r.cmd.key, r.probe), r.local.key)
  <2>1. r.cmd.key \in Keys /\ r.probe \in Positions
    BY <1>1 DEF Sound, ClientState
  <2>2. Probe(Hash[r.cmd.key], r.probe) \in Positions
    BY <2>1, ProbesInside
  <2> QED BY <2>2, <1>1 DEF Points, ProbedSlot, Keeps, Holds
<1>2. ASSUME r.pc = "touching" PROVE r.cmd.op = "get_meta" /\ Holds(u[r.target], r.cmd.key)
  BY <1>2 DEF Points, Keeps, Holds, ClientState
<1> QED BY <1>1, <1>2 DEF Points

\* Only keys are stored.
LEMMA HeldKeyIsReal ==
  ASSUME IInv, NEW p \in Positions, NEW k, Holds(slots[p], k)
  PROVE  k \in Keys
BY DEF IInv, Fitting, Holds, Valid, Empty

\* What is counted is a number.
LEMMA TotalIsNat ==
  ASSUME CountTypes, NEW k \in Keys
  PROVE  Total[k] \in Nat /\ Counted[k] \in Nat
<1> DEFINE h == hits[k]
           n == Cardinality(Landed(k))
           d == doubt[k]
<1>1. h \in Nat /\ n \in Nat /\ d \in Nat
  BY DEF CountTypes
<1>2. Total[k] = h + n + d /\ Counted[k] = h + n
  BY DEF Total, Counted
<1> HIDE DEF h, n, d
<1> QED BY <1>1, <1>2

\* The header of a READ is that of a slot which still holds what it says.
LEMMA GotPoints ==
  ASSUME CInv, NEW c \in Clients, NEW ops, Received(c, ops), Got(c).occupied = Valid
  PROVE  /\ Holds(slots[Here(c)], Got(c).key) /\ Got(c).key \in Keys
         /\ Got(c).access_count \in Nat /\ Got(c).access_count <= Total[Got(c).key]
<1>1. /\ client[c] \in ClientState /\ client[c].pc = "reading" /\ Here(c) \in Positions
      /\ Got(c) \in Slot
  BY GotFacts DEF CInv, SInv, WInv
<1>2. CASE "header" \in client[c].parts
  <2>1. /\ Got(c).occupied = slots[Here(c)].occupied /\ Got(c).key = slots[Here(c)].key
        /\ Got(c).access_count = slots[Here(c)].access_count
    BY <1>2 DEF Got, Merge
  <2>2. Between(slots[Here(c)], Counted, Total, issued)
    BY <1>1 DEF CInv
  <2>3. Holds(slots[Here(c)], Got(c).key) /\ Got(c).access_count <= Total[Got(c).key]
    BY <2>1, <2>2 DEF Between, Holds
  <2> QED BY <2>3, <1>1, HeldKeyIsReal DEF Slot, CInv, SInv, WInv
<1>3. CASE "header" \notin client[c].parts
  <2>1. /\ Got(c).occupied = client[c].local.occupied /\ Got(c).key = client[c].local.key
        /\ Got(c).access_count = client[c].local.access_count
    BY <1>3 DEF Got, Merge
  <2>2. Points(slots, client[c]) /\ Carries(client[c], Total, issued)
    BY DEF CInv
  <2>3. Holds(slots[Here(c)], Got(c).key)
    BY <1>1, <1>3, <2>1, <2>2 DEF Points, ProbedSlot, Here
  <2>4. Got(c).access_count <= Total[Got(c).key]
    BY <1>1, <1>3, <2>1, <2>2 DEF Carries
  <2> QED BY <2>3, <2>4, <1>1, HeldKeyIsReal DEF Slot, CInv, SInv, WInv
<1> QED BY <1>2, <1>3

\* The header arrives, or has arrived.
LEMMA ReadPartPoints ==
  ASSUME CInv, NEW c \in Clients, ReadPart(c)
  PROVE  Points(slots, client'[c]) /\ Carries(client'[c], Total, issued)
<1>1. PICK ps \in Chunks(client[c].parts) :
        Becomes(c, [client[c] EXCEPT !.local = Merge(@, slots[Here(c)], ps), !.parts = @ \ ps])
  BY DEF ReadPart
<1> DEFINE s == Merge(client[c].local, slots[Here(c)], ps)
           r == [client[c] EXCEPT !.local = s, !.parts = @ \ ps]
<1>2. client'[c] = r
  BY <1>1, BecomesAt DEF CInv, SInv, WInv
<1>3. client[c] \in ClientState /\ client[c].pc = "reading" /\ IInv
  BY DEF CInv, SInv, WInv, IInv, ReadPart, Transfers
<1>4. /\ "header" \in ps =>
           /\ s.occupied = slots[Here(c)].occupied /\ s.key = slots[Here(c)].key
           /\ s.access_count = slots[Here(c)].access_count
      /\ "header" \notin ps =>
           /\ s.occupied = client[c].local.occupied /\ s.key = client[c].local.key
           /\ s.access_count = client[c].local.access_count
  BY DEF Merge
<1> HIDE DEF s
<1>5. /\ r.pc = "reading" /\ r.cmd = client[c].cmd /\ r.probe = client[c].probe
      /\ r.local = s /\ r.parts = client[c].parts \ ps
  BY <1>3 DEF ClientState
<1> HIDE DEF r
<1>6. Points(slots, client[c]) /\ Carries(client[c], Total, issued)
  BY DEF CInv
<1>7. Here(c) \in Positions
  BY <1>3, ProbesInside DEF Here, IInv, Sound, ClientState
<1>8. Between(slots[Here(c)], Counted, Total, issued)
  BY <1>7 DEF CInv
<1>9. ASSUME "header" \notin client[c].parts \ ps, s.occupied = Valid
      PROVE  Holds(slots[Here(c)], s.key) /\ s.access_count <= Total[s.key]
  <2>1. CASE "header" \in ps
    BY <2>1, <1>4, <1>8, <1>9 DEF Holds, Between
  <2>2. CASE "header" \notin ps
    BY <2>2, <1>3, <1>4, <1>6, <1>9 DEF Points, Carries, ProbedSlot, Here
  <2> QED BY <2>1, <2>2
<1>10. Points(slots, r)
  BY <1>5, <1>9 DEF Points, ProbedSlot, Here
<1>11. Carries(r, Total, issued)
  BY <1>3, <1>5, <1>6, <1>9 DEF Carries
<1> QED BY <1>2, <1>10, <1>11

\* The next READ starts with an empty buffer.
LEMMA NextProbePoints ==
  ASSUME CInv, NEW c \in Clients, NextProbe(c)
  PROVE  Points(slots, client'[c]) /\ Carries(client'[c], Total, issued)
<1> DEFINE r == [client[c] EXCEPT !.probe = @ + 1, !.parts = Parts, !.local = EmptySlot,
                   !.tomb = TombAfter(c)]
<1>1. client'[c] = r /\ client[c].pc = "reading"
  BY BecomesAt DEF NextProbe, CInv, SInv, WInv, Received, Transfers
<1>2. client[c] \in ClientState
  BY DEF CInv, SInv, WInv, IInv
<1>3. r.pc = client[c].pc /\ r.cmd = client[c].cmd /\ r.parts = Parts
  BY <1>2 DEF ClientState
<1> HIDE DEF r
<1>4. Carries(client[c], Total, issued)
  BY DEF CInv
<1> QED BY <1>1, <1>3, <1>4 DEF Points, Carries, Parts

\* FETCH_AND_ADD goes to the slot the key was found in.
LEMMA GetMetaPoints ==
  ASSUME CInv, NEW c \in Clients, GetMetaHits(c)
  PROVE  Points(slots, client'[c]) /\ Carries(client'[c], Total, issued)
<1>1. Received(c, {"get_meta"}) /\ Holds(Got(c), Key(c))
  BY DEF GetMetaHits
<1>2. client[c].pc = "reading" /\ client[c].cmd.op = "get_meta"
  BY <1>1 DEF Received, Transfers
<1>3. /\ client'[c].pc = "touching" /\ client'[c].cmd = client[c].cmd
      /\ client'[c].target = Here(c)
  BY <1>2, GoesToVerb DEF CInv, SInv, WInv
<1>4. Holds(slots[Here(c)], Key(c))
  BY <1>1, GotPoints DEF Holds
<1> QED BY <1>2, <1>3, <1>4 DEF Points, Carries, Key

\* The counter of a SET's WRITE.
LEMMA SetPoints ==
  ASSUME CInv, NEW c \in Clients, SetOverwrites(c) \/ SetInserts(c) \/ SetReuses(c)
  PROVE  Points(slots, client'[c]) /\ Carries(client'[c], Total, issued)
<1>1. Received(c, {"set"}) /\ IInv
  BY DEF SetOverwrites, SetInserts, SetReuses, CInv, SInv, WInv
<1>2. /\ client[c] \in ClientState /\ client[c].pc = "reading" /\ client[c].cmd.op = "set"
      /\ Key(c) \in Keys
  BY <1>1, GotFacts
<1>3. \E target, count : PostsWrite(c, target, count) /\ count <= Total[Key(c)]
  <2>1. CASE SetOverwrites(c)
    <3>1. PostsWrite(c, Here(c), Got(c).access_count) /\ Holds(Got(c), Key(c))
      BY <2>1 DEF SetOverwrites
    <3>2. Got(c).access_count <= Total[Key(c)]
      BY <3>1, <1>1, GotPoints DEF Holds
    <3> QED BY <3>1, <3>2
  <2>2. CASE SetInserts(c) \/ SetReuses(c)
    <3>1. \E target : PostsWrite(c, target, 0)
      BY <2>2 DEF SetInserts, SetReuses
    <3>2. 0 <= Total[Key(c)]
      BY <1>2, TotalIsNat DEF CInv
    <3> QED BY <3>1, <3>2
  <2> QED BY <2>1, <2>2
<1>4. PICK target, count : PostsWrite(c, target, count) /\ count <= Total[Key(c)]
  BY <1>3
<1> DEFINE local == [occupied |-> Valid, access_count |-> count,
                     key |-> Key(c), value |-> client[c].cmd.value]
           r == [client[c] EXCEPT !.pc = "writing", !.target = target, !.parts = Parts,
                   !.local = local]
<1>5. client'[c] = r
  BY <1>1, <1>4, BecomesAt DEF PostsWrite
<1>6. local.key = Key(c) /\ local.access_count = count
  OBVIOUS
<1> HIDE DEF local
<1>7. r.pc = "writing" /\ r.cmd = client[c].cmd /\ r.local = local
  BY <1>2 DEF ClientState
<1> HIDE DEF r
<1>8. Carries(client[c], Total, issued)
  BY DEF CInv
<1> QED BY <1>2, <1>4, <1>5, <1>6, <1>7, <1>8 DEF Points, Carries

\* A command that begins carries nothing; its SET is recorded.
LEMMA BeginsPoints ==
  ASSUME CInv, Records, NEW c \in Clients, Begins(c)
  PROVE  Points(slots, client'[c]) /\ Carries(client'[c], Total', issued')
<1>1. PICK k \in AskedKeys :
        \/ \E op \in Gets : BeginGet(c, op, k)
        \/ \E v \in AskedValues : BeginSet(c, k, v) \/ RejectSet(c, k, v)
  BY DEF Begins
<1>2. client[c] \in ClientState /\ IInv /\ k \in Keys
  BY CommandsAssumption DEF CInv, SInv, WInv, IInv
<1>3. ASSUME NEW op \in Gets, BeginGet(c, op, k)
      PROVE  Points(slots, client'[c]) /\ Carries(client'[c], Total', issued')
  <2> DEFINE r == [client[c] EXCEPT !.pc = "reading", !.parts = Parts,
                     !.cmd = [op |-> op, key |-> k, value |-> NoValue]]
  <2>1. client'[c] = r
    BY <1>2, <1>3, BecomesAt DEF BeginGet
  <2>2. r.pc = "reading" /\ r.parts = Parts /\ r.cmd.op # "set"
    BY <1>2 DEF ClientState, Gets
  <2> HIDE DEF r
  <2> QED BY <2>1, <2>2 DEF Points, Carries, Parts
<1>4. ASSUME NEW v \in AskedValues, BeginSet(c, k, v)
      PROVE  Points(slots, client'[c]) /\ Carries(client'[c], Total', issued')
  <2>1. client'[c].cmd = [op |-> "set", key |-> k, value |-> v]
    BY <1>2, <1>4, SetBegins
  <2>2. client'[c].pc = "reading" /\ client'[c].parts = Parts /\ client[c].pc = "idle"
    BY <1>2, <1>4, SetBegins
  <2>3. client'[c].cmd.value \in Beginning(k)
    BY <2>1, <2>2 DEF Beginning, Running
  <2>4. issued'[k] # {}
    BY <1>2, <2>3 DEF Records
  <2> QED BY <2>1, <2>2, <2>4 DEF Points, Carries, Parts
<1>5. ASSUME NEW v \in AskedValues, RejectSet(c, k, v)
      PROVE  Points(slots, client'[c]) /\ Carries(client'[c], Total', issued')
  <2>1. client'[c].pc = "idle"
    BY <1>2, <1>5, SetBegins
  <2> QED BY <2>1 DEF Points, Carries
<1> QED BY <1>1, <1>3, <1>4, <1>5

\* A verb that lands, or a command that returns, has nothing to point at.
LEMMA RestPoints ==
  ASSUME CInv, NEW c \in Clients, NEW t,
         \/ WriteLands(c) \/ TouchLands(c)
         \/ GetMisses(c) \/ GetHits(c) \/ SetFull(c) \/ Completes(c) \/ Fails(c)
  PROVE  Points(t, client'[c]) /\ Carries(client'[c], Total, issued)
<1>1. CASE GetMisses(c) \/ GetHits(c) \/ SetFull(c) \/ Completes(c) \/ Fails(c)
  <2>1. client'[c].pc = "idle"
    BY <1>1, ReturnsIdle DEF CInv, SInv, WInv
  <2> QED BY <2>1 DEF Points, Carries
<1>2. CASE TouchLands(c)
  <2>1. client'[c].pc = "landed" /\ client'[c].cmd = client[c].cmd /\ client[c].pc = "touching"
    BY <1>2, TouchLandsIs DEF CInv, SInv, WInv
  <2>2. Points(slots, client[c])
    BY DEF CInv
  <2> QED BY <2>1, <2>2 DEF Points, Carries
<1>3. CASE WriteLands(c)
  <2>1. client[c].pc = "writing"
    BY <1>3 DEF WriteLands
  <2>2. /\ client'[c].pc \in {"writing", "landed"} /\ client'[c].cmd = client[c].cmd
        /\ client'[c].local = client[c].local
    <3>1. ~GetMetaHits(c)
      BY <2>1 DEF GetMetaHits, Received, Transfers
    <3> QED BY <1>3, <2>1, <3>1, GoesToVerb DEF CInv, SInv, WInv
  <2>3. Carries(client[c], Total, issued)
    BY DEF CInv
  <2> QED BY <2>1, <2>2, <2>3 DEF Points, Carries
<1> QED BY <1>1, <1>2, <1>3

-----------------------------------------------------------------------------
(* Every counter stays right.                                              *)

\* The counts of all keys after a step of client c.
LEMMA CountsGrow ==
  ASSUME CInv, Records, NEW c \in Clients, Acts(c), NEW k \in Keys
  PROVE  /\ Counted'[k] \in Nat /\ Total'[k] \in Nat /\ Total'[k] >= Total[k]
         /\ TouchLands(c) /\ Key(c) = k =>
              Counted'[k] = Counted[k] + 1 /\ Total'[k] = Total[k] + 1
         /\ ~(TouchLands(c) /\ Key(c) = k) => Counted'[k] <= Counted[k]
         /\ issued[k] \subseteq issued'[k]
<1> DEFINE h == hits'[k]
           d == doubt'[k]
           n == Cardinality(Landed(k)')
           T == Total[k]
           U == Total'[k]
           C == Counted[k]
           D == Counted'[k]
<1>1. /\ h \in Nat /\ d \in Nat
      /\ TouchLands(c) /\ Key(c) = k => D = C + 1 /\ U = T + 1
      /\ ~(TouchLands(c) /\ Key(c) = k) => D <= C /\ U >= T
  BY CountsNext DEF CInv
<1>2. n \in Nat
  BY LandedFiniteNext
<1>3. D = h + n /\ U = h + n + d
  BY DEF Counted, Total
<1>4. T \in Nat /\ C \in Nat
  BY TotalIsNat DEF CInv
<1>5. issued[k] \subseteq issued'[k]
  BY DEF Records
<1> HIDE DEF h, d, n, T, U, C, D
<1>6. D \in Nat /\ U \in Nat
  BY <1>1, <1>2, <1>3
<1>7. U >= T
  BY <1>1, <1>4, <1>6
<1> QED BY <1>1, <1>5, <1>6, <1>7 DEF T, U, C, D

\* Numbers stay numbers.
LEMMA CountTypesNext ==
  ASSUME CInv, Records, NEW c \in Clients, Acts(c)
  PROVE  CountTypes'
<1>1. \A k \in Keys : hits'[k] \in Nat /\ doubt'[k] \in Nat
  BY CountsNext DEF CInv
<1>2. hits' = [k \in Keys |-> hits'[k]] /\ doubt' = [k \in Keys |-> doubt'[k]]
  BY DEF Records
<1>3. hits' \in [Keys -> Nat] /\ doubt' \in [Keys -> Nat]
  BY <1>1, <1>2
<1>4. \A k \in Keys : Cardinality(Landed(k)') \in Nat
  BY LandedFiniteNext
<1> QED BY <1>3, <1>4 DEF CountTypes

\* What a client carries stays allowed: nothing that is counted is taken back.
LEMMA CarriesOn ==
  ASSUME CInv, Records, NEW c \in Clients, Acts(c),
         NEW t, NEW r \in ClientState, Sound(t, r), Points(slots, r),
         Carries(r, Total, issued)
  PROVE  Carries(r, Total', issued')
<1>1. ASSUME r.pc \in {"reading", "writing"}, "header" \notin r.parts \/ r.pc = "writing",
             r.local.occupied = Valid
      PROVE  r.local.access_count <= Total'[r.local.key]
  <2>1. r.local.key \in Keys
    <3>1. CASE r.pc = "writing"
      BY <3>1 DEF Sound, Placing
    <3>2. CASE r.pc = "reading"
      <4>1. "header" \notin r.parts
        BY <1>1, <3>2
      <4>2. Holds(ProbedSlot(slots, r.cmd.key, r.probe), r.local.key)
        BY <1>1, <3>2, <4>1 DEF Points
      <4>3. r.cmd.key \in Keys /\ r.probe \in Positions
        BY <3>2 DEF Sound, ClientState
      <4>4. Probe(Hash[r.cmd.key], r.probe) \in Positions
        BY <4>3, ProbesInside
      <4> QED BY <4>2, <4>4, HeldKeyIsReal DEF ProbedSlot, CInv, SInv, WInv
    <3> QED BY <1>1, <3>1, <3>2
  <2>2. r.local.access_count <= Total[r.local.key]
    BY <1>1 DEF Carries
  <2>3. r.local.access_count \in Nat
    BY DEF ClientState, Slot
  <2> DEFINE a == r.local.access_count
             T == Total[r.local.key]
             U == Total'[r.local.key]
  <2>4. T \in Nat /\ U \in Nat /\ U >= T
    BY <2>1, CountsGrow, TotalIsNat DEF CInv
  <2>5. a \in Nat /\ a <= T
    BY <2>2, <2>3
  <2> HIDE DEF a, T, U
  <2>6. a <= U
    BY <2>4, <2>5
  <2> QED BY <2>6 DEF a, U
<1>2. ASSUME r.pc # "idle", r.cmd.op = "set" PROVE issued'[r.cmd.key] # {}
  <2>1. r.cmd.key \in Keys /\ issued[r.cmd.key] # {}
    BY <1>2 DEF Sound, Carries
  <2> QED BY <2>1, CountsGrow
<1> QED BY <1>1, <1>2 DEF Carries

\* A counter is right after a step that neither it nor the count of its key took
\* part in.
LEMMA StaysBetween ==
  ASSUME CInv, Records, NEW c \in Clients, Acts(c), NEW p \in Positions,
         slots'[p].occupied = slots[p].occupied, slots'[p].key = slots[p].key,
         slots'[p].access_count = slots[p].access_count,
         ~(TouchLands(c) /\ Holds(slots[p], Key(c)))
  PROVE  Between(slots'[p], Counted', Total', issued')
<1> SUFFICES ASSUME slots'[p].occupied = Valid
             PROVE  /\ slots'[p].access_count <= Total'[slots'[p].key]
                    /\ issued'[slots'[p].key] = {} =>
                         slots'[p].access_count >= Counted'[slots'[p].key]
  BY DEF Between
<1> DEFINE k == slots[p].key
           a == slots[p].access_count
           T == Total[k]
           U == Total'[k]
           C == Counted[k]
           D == Counted'[k]
<1>1. Holds(slots[p], k) /\ IInv
  BY DEF Holds, CInv, SInv, WInv
<1>2. k \in Keys
  BY <1>1, HeldKeyIsReal
<1>3. ~(TouchLands(c) /\ Key(c) = k)
  BY <1>1
<1>4. /\ T \in Nat /\ C \in Nat /\ D \in Nat /\ U \in Nat /\ U >= T /\ D <= C
      /\ issued[k] \subseteq issued'[k]
  BY <1>2, <1>3, CountsGrow, TotalIsNat DEF CInv
<1>5. a <= T /\ (issued[k] = {} => a >= C)
  BY DEF CInv, Between
<1>6. a \in Nat
  BY <1>1 DEF IInv, Slot
<1>7. slots'[p].access_count = a /\ slots'[p].key = k
  OBVIOUS
<1>8. issued'[k] = {} => issued[k] = {}
  BY <1>4
<1> HIDE DEF k, a, T, U, C, D
<1>9. a <= U /\ (issued'[k] = {} => a >= D)
  BY <1>4, <1>5, <1>6, <1>8
<1> QED BY <1>7, <1>9 DEF U, D

\* FETCH_AND_ADD counts one more GET_META of the key whose slot it increments.
LEMMA TouchBetween ==
  ASSUME CInv, Records, NEW c \in Clients, Acts(c), TouchLands(c), NEW p \in Positions
  PROVE  Between(slots'[p], Counted', Total', issued')
<1> DEFINE q == client[c].target
           k == Key(c)
<1>1. client[c] \in ClientState /\ q \in Positions /\ IInv /\ KeysUnique(slots)
  BY DEF CInv, SInv, WInv, IInv, ClientState
<1>2. Holds(slots[q], k)
  BY DEF CInv, Points, TouchLands, Transfers, Key
<1>3. /\ slots'[q] = [slots[q] EXCEPT !.access_count = @ + 1]
      /\ p # q => slots'[p] = slots[p]
  BY <1>1 DEF TouchLands, IInv
<1>4. CASE p # q
  <2>1. ~Holds(slots[p], k)
    BY <1>1, <1>2, <1>4 DEF KeysUnique, Holds
  <2>2. slots'[p] = slots[p]
    BY <1>3, <1>4
  <2> QED BY <2>1, <2>2, StaysBetween
<1>5. CASE p = q
  <2> DEFINE a == slots[p].access_count
             T == Total[k]
             U == Total'[k]
             C == Counted[k]
             D == Counted'[k]
  <2>1. /\ slots'[p].occupied = Valid /\ slots'[p].key = k /\ slots'[p].access_count = a + 1
        /\ slots[p].occupied = Valid /\ slots[p].key = k
    BY <1>1, <1>2, <1>3, <1>5 DEF IInv, Slot, Holds
  <2>2. k \in Keys
    BY <1>1, <1>2, HeldKeyIsReal
  <2>3. /\ T \in Nat /\ C \in Nat /\ D = C + 1 /\ U = T + 1
        /\ issued[k] \subseteq issued'[k]
    BY <2>2, CountsGrow, TotalIsNat DEF CInv
  <2>4. Between(slots[p], Counted, Total, issued)
    BY DEF CInv
  <2>5. a <= T /\ (issued[k] = {} => a >= C)
    BY <2>1, <2>4 DEF Between
  <2>6. a \in Nat
    BY <1>1 DEF IInv, Slot
  <2>7. issued'[k] = {} => issued[k] = {}
    BY <2>3
  <2> HIDE DEF a, T, U, C, D, k
  <2>8. a + 1 <= U /\ (issued'[k] = {} => a + 1 >= D)
    BY <2>3, <2>5, <2>6, <2>7
  <2> QED BY <2>1, <2>8 DEF U, D, Between
<1> QED BY <1>4, <1>5

\* A WRITE puts back a counter that counts no more than there was.
LEMMA WriteBetween ==
  ASSUME CInv, Records, NEW c \in Clients, Acts(c), WriteLands(c), NEW p \in Positions
  PROVE  Between(slots'[p], Counted', Total', issued')
<1>1. PICK ps \in Chunks(client[c].parts) :
         /\ client[c] \in ClientState /\ client[c].pc = "writing"
         /\ \A q \in Positions : q # client[c].target => slots'[q] = slots[q]
         /\ slots'[client[c].target] = Merge(slots[client[c].target], client[c].local, ps)
         /\ client[c].target \in Positions
  BY WriteLandsFacts DEF CInv, SInv
<1>2. ~TouchLands(c)
  BY <1>1 DEF TouchLands, Transfers
<1>3. CASE p # client[c].target \/ "header" \notin ps
  <2>1. /\ slots'[p].occupied = slots[p].occupied /\ slots'[p].key = slots[p].key
        /\ slots'[p].access_count = slots[p].access_count
    <3>1. CASE p # client[c].target
      BY <1>1, <3>1
    <3>2. CASE p = client[c].target /\ "header" \notin ps
      BY <1>1, <3>2 DEF Merge
    <3> QED BY <1>3, <3>1, <3>2
  <2> QED BY <1>2, <2>1, StaysBetween
<1>4. CASE p = client[c].target /\ "header" \in ps
  <2> DEFINE l == client[c].local
             u == slots'[p]
  <2>1. u.key = l.key /\ u.access_count = l.access_count /\ u.occupied = l.occupied
    BY <1>1, <1>4 DEF Merge
  <2>2. AimsWriting(slots, client[c]) /\ Sound(slots, client[c])
    BY <1>1 DEF CInv, SInv, Aiming, Aims, WInv, IInv
  <2>3. client[c].cmd.op = "set" /\ l.key = client[c].cmd.key /\ l.occupied = Valid
    BY <1>1, <2>2 DEF AimsWriting, Sound, Placing
  <2>4. Points(slots, client[c]) /\ Carries(client[c], Total, issued)
    BY DEF CInv
  <2>5. Carries(client[c], Total', issued')
    BY <1>1, <2>2, <2>4, CarriesOn
  <2>6. l.access_count <= Total'[l.key] /\ issued'[l.key] # {}
    BY <1>1, <2>3, <2>5 DEF Carries
  <2> HIDE DEF l, u
  <2>7. Between(u, Counted', Total', issued')
    BY <2>1, <2>6 DEF Between
  <2> QED BY <2>7 DEF u
<1> QED BY <1>3, <1>4

\* What every client knows, after the step of one of them.
LEMMA ClientsCarryOn ==
  ASSUME CInv, IInv', Records, NEW c \in Clients, Acts(c), NEW d \in Clients
  PROVE  Points(slots', client'[d]) /\ Carries(client'[d], Total', issued')
<1>1. /\ Keeps(slots, slots') /\ IInv
      /\ client'[d] \in ClientState /\ Sound(slots', client'[d])
  BY SlotsKeep DEF CInv, SInv, WInv, IInv
<1>2. CASE d # c
  <2>1. client'[d] = client[d]
    BY <1>1, <1>2, OthersStay
  <2>2. /\ Points(slots, client[d]) /\ Carries(client[d], Total, issued)
        /\ Sound(slots, client[d]) /\ client[d] \in ClientState
    BY <1>1 DEF CInv, IInv
  <2> QED BY <1>1, <2>1, <2>2, PointsStay, CarriesOn
<1>3. CASE d = c
  <2>1. CASE Begins(c)
    <3>1. UNCHANGED slots
      BY <2>1 DEF Begins, BeginGet, BeginSet, RejectSet
    <3> QED BY <1>3, <2>1, <3>1, BeginsPoints
  <2>2. CASE ~Begins(c)
    <3>1. Points(slots, client'[c]) /\ Carries(client'[c], Total, issued)
      <4>1. CASE \/ WriteLands(c) \/ TouchLands(c)
                 \/ GetMisses(c) \/ GetHits(c) \/ SetFull(c) \/ Completes(c) \/ Fails(c)
        BY <4>1, RestPoints
      <4>2. CASE ReadPart(c) \/ NextProbe(c) \/ GetMetaHits(c)
        BY <4>2, ReadPartPoints, NextProbePoints, GetMetaPoints
      <4>3. CASE SetOverwrites(c) \/ SetInserts(c) \/ SetReuses(c)
        BY <4>3, SetPoints
      <4> QED BY <2>2, <4>1, <4>2, <4>3 DEF Acts, Progress
    <3>2. Points(slots', client'[c])
      <4>1. CASE WriteLands(c) \/ TouchLands(c)
        BY <4>1, RestPoints
      <4>2. CASE ~(WriteLands(c) \/ TouchLands(c))
        BY <3>1, <4>2, QuietSlots
      <4> QED BY <4>1, <4>2
    <3>3. Carries(client'[c], Total', issued')
      BY <1>1, <1>3, <3>1, CarriesOn
    <3> QED BY <1>3, <3>2, <3>3
  <2> QED BY <2>1, <2>2
<1> QED BY <1>2, <1>3

\* The server's calls have left no counts.
LEMMA CountingInit == HInit => CInv
<1> SUFFICES ASSUME HInit PROVE CInv
  OBVIOUS
<1>1. \A c \in Clients : client[c].pc = "idle"
  BY DEF HInit, Init, FreshClient, AtPrompt
<1>2. SInv
  BY StickyInit
<1>3. \A k \in Keys : Landed(k) = {} /\ Cardinality(Landed(k)) = 0
  BY <1>1, FS_EmptySet DEF Landed
<1>4. hits = [k \in Keys |-> 0] /\ doubt = [k \in Keys |-> 0]
  BY DEF HInit
<1>5. CountTypes
  BY <1>3, <1>4 DEF CountTypes
<1>6. \A k \in Keys : Counted[k] = 0 /\ Total[k] = 0
  <2> SUFFICES ASSUME NEW k \in Keys PROVE Counted[k] = 0 /\ Total[k] = 0
    OBVIOUS
  <2> DEFINE h == hits[k]
             n == Cardinality(Landed(k))
             d == doubt[k]
  <2>1. h = 0 /\ n = 0 /\ d = 0
    BY <1>3, <1>4
  <2>2. Counted[k] = h + n /\ Total[k] = h + n + d
    BY DEF Counted, Total
  <2> HIDE DEF h, n, d
  <2> QED BY <2>1, <2>2
<1>7. ASSUME NEW p \in Positions PROVE Between(slots[p], Counted, Total, issued)
  <2>1. slots[p].access_count = 0 /\ (slots[p].occupied = Valid => slots[p].key \in Keys)
    BY TablesAssumption DEF ServerTable, HInit, Init, Valid, Empty
  <2> QED BY <1>6, <2>1 DEF Between
<1>8. \A c \in Clients : Points(slots, client[c]) /\ Carries(client[c], Total, issued)
  BY <1>1 DEF Points, Carries
<1> QED BY <1>2, <1>5, <1>7, <1>8 DEF CInv

\* Together, the invariant of CountersAddUp.
LEMMA CountingStep == SingleWriter /\ CInv /\ [HNext]_hvars => CInv'
<1> SUFFICES ASSUME SingleWriter, CInv, [HNext]_hvars PROVE CInv'
  OBVIOUS
<1>1. SInv' /\ IInv'
  BY StickyStep DEF CInv, SInv, WInv
<1>2. CASE HNext
  <2>1. PICK c \in Clients : Acts(c)
    BY <1>2, HistoryStep
  <2>2. Records
    BY <1>2, HistoryStep
  <2>3. CountTypes'
    BY <2>1, <2>2, CountTypesNext
  <2>4. \A d \in Clients : Points(slots', client'[d]) /\ Carries(client'[d], Total', issued')
    BY <1>1, <2>1, <2>2, ClientsCarryOn
  <2>5. \A p \in Positions : Between(slots'[p], Counted', Total', issued')
    <3> SUFFICES ASSUME NEW p \in Positions
                 PROVE  Between(slots'[p], Counted', Total', issued')
      OBVIOUS
    <3>1. CASE WriteLands(c) \/ TouchLands(c)
      BY <2>1, <2>2, <3>1, WriteBetween, TouchBetween
    <3>2. CASE ~(WriteLands(c) \/ TouchLands(c))
      <4>1. UNCHANGED slots
        BY <2>1, <3>2, QuietSlots
      <4> QED BY <2>1, <2>2, <3>2, <4>1, StaysBetween
    <3> QED BY <3>1, <3>2
  <2> QED BY <1>1, <2>3, <2>4, <2>5 DEF CInv
<1>3. CASE UNCHANGED hvars
  <2>1. CountTypes' /\ Counted' = Counted /\ Total' = Total
    BY <1>3 DEF hvars, history, CInv, CountTypes, Counted, Total, Landed, Key
  <2> QED BY <1>1, <1>3, <2>1 DEF hvars, history, CInv
<1> QED BY <1>2, <1>3

\* With one writer, a key's access_count never counts a GET_META that was not
\* answered, was not about to be and did not fail half-way; and it counts all that
\* were, until a SET of the key was begun (RdmaClient::get_with_metadata's
\* FETCH_AND_ADD, and the WRITE of set that puts back the counter it has read).
THEOREM CountersAddUp ==
  ASSUME SingleWriter PROVE HSpec => []CountsAddUp
<1>1. HInit => CInv
  BY CountingInit
<1>2. CInv /\ [HNext]_hvars => CInv'
  BY CountingStep
<1>3. CInv => CountsAddUp
  <2> SUFFICES ASSUME CInv, NEW p \in Positions, slots[p].occupied = Valid
               PROVE  LET k == slots[p].key
                          counted == hits[k] + Cardinality(Landed(k)) IN
                        /\ slots[p].access_count <= counted + doubt[k]
                        /\ issued[k] = {} => slots[p].access_count >= counted
    BY DEF CountsAddUp
  <2> DEFINE k == slots[p].key
  <2>1. k \in Keys
    BY HeldKeyIsReal DEF Holds, CInv, SInv, WInv
  <2>2. Between(slots[p], Counted, Total, issued)
    BY DEF CInv
  <2> QED BY <2>1, <2>2 DEF Between, Counted, Total
<1> QED BY <1>1, <1>2, <1>3, PTL DEF HSpec
=============================================================================
