------------------------------ MODULE OneSided ------------------------------
(***************************************************************************)
(* The one-sided data path: clients that search and change the server's    *)
(* slot table with RDMA verbs only.  The server's threads sit in pause();  *)
(* nothing but the clients touches the table.                              *)
(*                                                                         *)
(* A command is a sequence of verbs (READ, WRITE, FETCH_AND_ADD), and      *)
(* between any two verbs of one client the others may act.  The client     *)
(* posts a verb and spins on its completion queue, so it has one verb in   *)
(* flight at most.  A verb's effect and its completion are separate steps: *)
(* a WRITE may have landed although its completion reports a failure.      *)
(*                                                                         *)
(* How the NIC moves a slot is outside the program, and nothing in the     *)
(* program makes it indivisible: a READ or a WRITE moves the header        *)
(* (occupied, access_count, key) and the value in either order, and the    *)
(* verbs of others may come in between, or not.                            *)
(***************************************************************************)
EXTENDS SlotTable, FiniteSets

CONSTANTS Clients,
          Commands,       \* the commands each client issues: get, get_meta, set
          AskedKeys,      \* the keys they name,
          AskedValues,    \* and the values they set
          FailingClients, \* the clients whose queue pair may break
          MaxCommands,    \* bound: commands per client session
          InitialTables   \* what the server's own calls left in the table

ASSUME CommandsAssumption ==
  /\ IsFiniteSet(Clients)
  /\ Commands \in [Clients -> SUBSET {"get", "get_meta", "set"}]
  /\ AskedKeys \subseteq Keys /\ AskedValues \subseteq Values
  /\ FailingClients \subseteq Clients
  /\ MaxCommands \in Nat

\* RdmaStore's set and erase leave such tables (RdmaStoreProofs).
ASSUME TablesAssumption == \A t \in InitialTables : ServerTable(t)

VARIABLES slots,   \* the server's registered memory
          client   \* the state of each client, see ClientState

vars == <<slots, client>>

-----------------------------------------------------------------------------
(* The state of a client and the transfer of a slot.                       *)

Parts == {"header", "value"}

\* The pieces in which a transfer may move what it has still to move.
Chunks(ps) == {{x} : x \in ps}

\* Slot s after the given parts of slot t were copied over it.
Merge(s, t, ps) ==
  LET h == IF "header" \in ps THEN t ELSE s IN
    [occupied |-> h.occupied, access_count |-> h.access_count, key |-> h.key,
     value |-> IF "value" \in ps THEN t.value ELSE s.value]

NoCommand == [op |-> "none", key |-> NoKey, value |-> NoValue]

\* probe counts the loop; tomb is the probe of the first tombstone met, NumSlots
\* for none; local is the registered buffer, the destination of a READ and the
\* source of a WRITE; target is the slot a WRITE goes to; parts are the parts of
\* the current transfer still to move; ok and value are what the last command
\* returned; left counts the commands the session has still to issue.
AtPrompt(cmd, ok, value, qp, left) ==
  [pc |-> "idle", cmd |-> cmd, probe |-> 0, tomb |-> NumSlots,
   local |-> EmptySlot, target |-> 0, parts |-> {}, ok |-> ok,
   value |-> value, qp |-> qp, left |-> left]

FreshClient == AtPrompt(NoCommand, FALSE, NoValue, "rts", MaxCommands)

Becomes(c, r) == client' = [client EXCEPT ![c] = r]

\* The slot the client's current probe addresses.
Here(c) == Probe(Hash[client[c].cmd.key], client[c].probe)

\* The command returns and its buffers are free again.
Returns(c, ok, v) ==
  Becomes(c, AtPrompt(client[c].cmd, ok, v, client[c].qp, client[c].left - 1))

Init == /\ slots \in InitialTables
        /\ client = [c \in Clients |-> FreshClient]

-----------------------------------------------------------------------------
(* The commands of a session.                                              *)

MayIssue(c, op) ==
  client[c].pc = "idle" /\ client[c].left > 0 /\ op \in Commands[c]

\* GET and GET_META start probing, whatever the length of the key.
BeginGet(c, op, k) ==
  /\ op \in {"get", "get_meta"} /\ MayIssue(c, op)
  /\ Becomes(c, [client[c] EXCEPT !.pc = "reading", !.parts = Parts,
                   !.cmd = [op |-> op, key |-> k, value |-> NoValue]])
  /\ UNCHANGED slots

BeginSet(c, k, v) ==
  /\ MayIssue(c, "set") /\ Fits(k, v)
  /\ Becomes(c, [client[c] EXCEPT !.pc = "reading", !.parts = Parts,
                   !.cmd = [op |-> "set", key |-> k, value |-> v]])
  /\ UNCHANGED slots

\* "key too long" or "value too long": no verb is posted.
RejectSet(c, k, v) ==
  /\ MayIssue(c, "set") /\ ~Fits(k, v)
  /\ Becomes(c, [client[c] EXCEPT !.cmd = [op |-> "set", key |-> k, value |-> v],
                   !.ok = FALSE, !.value = NoValue, !.left = @ - 1])
  /\ UNCHANGED slots

-----------------------------------------------------------------------------
(* RDMA READ of the probed slot.                                           *)

Transfers(c, pc) == client[c].pc = pc /\ client[c].qp = "rts"

\* A part of the slot arrives and another is still on its way.
ReadPart(c) ==
  /\ Transfers(c, "reading")
  /\ \E ps \in Chunks(client[c].parts) :
       /\ ps # client[c].parts
       /\ Becomes(c, [client[c] EXCEPT !.local = Merge(@, slots[Here(c)], ps),
                        !.parts = @ \ ps])
  /\ UNCHANGED slots

\* The last part arrives and the completion is polled: Got(c) is in the buffer.
Received(c, ops) ==
  /\ Transfers(c, "reading")
  /\ client[c].parts \in Chunks(client[c].parts)
  /\ client[c].cmd.op \in ops

Got(c) == Merge(client[c].local, slots[Here(c)], client[c].parts)

Gets == {"get", "get_meta"}

Key(c)       == client[c].cmd.key
LastProbe(c) == client[c].probe = NumSlots - 1
GoesOn(c)    == Got(c).occupied # Empty /\ ~Holds(Got(c), Key(c))

\* For a SET, the probe of the first tombstone of the chain, this slot included.
TombAfter(c) ==
  IF /\ client[c].cmd.op = "set" /\ client[c].tomb = NumSlots
     /\ Got(c).occupied = Tombstone
    THEN client[c].probe
    ELSE client[c].tomb

\* Fault: the loop counter is not advanced.
NextProbeStuck(c) ==
  /\ Received(c, Gets \cup {"set"}) /\ GoesOn(c) /\ ~LastProbe(c)
  /\ Becomes(c, [client[c] EXCEPT !.parts = Parts, !.local = EmptySlot])
  /\ UNCHANGED slots

\* Another key, or a tombstone: READ the next slot.  A SET remembers the first
\* tombstone.
NextProbe(c) ==
  /\ Received(c, Gets \cup {"set"}) /\ GoesOn(c) /\ ~LastProbe(c)
  /\ Becomes(c, [client[c] EXCEPT !.probe = @ + 1, !.parts = Parts, !.local = EmptySlot,
                   !.tomb = TombAfter(c)])
  /\ UNCHANGED slots

\* Fault: a tombstone ends the search.
GetMissesAtTombstone(c) ==
  /\ Received(c, Gets) /\ Got(c).occupied # Valid
  /\ Returns(c, FALSE, NoValue)
  /\ UNCHANGED slots

\* An empty slot, or the end of the table: the key is taken to be absent.
GetMisses(c) ==
  /\ Received(c, Gets)
  /\ Got(c).occupied = Empty \/ (GoesOn(c) /\ LastProbe(c))
  /\ Returns(c, FALSE, NoValue)
  /\ UNCHANGED slots

GetHits(c) ==
  /\ Received(c, {"get"}) /\ Holds(Got(c), Key(c))
  /\ Returns(c, TRUE, Got(c).value)
  /\ UNCHANGED slots

\* GET_META posts a FETCH_AND_ADD on the counter of the slot it has read.
GetMetaHits(c) ==
  /\ Received(c, {"get_meta"}) /\ Holds(Got(c), Key(c))
  /\ Becomes(c, [client[c] EXCEPT !.pc = "touching", !.target = Here(c),
                   !.local = Got(c), !.parts = {}])
  /\ UNCHANGED slots

\* Fault: the cleared buffer is posted without its occupied byte.
PostsBlankWrite(c, target, count) ==
  /\ Becomes(c, [client[c] EXCEPT !.pc = "writing", !.target = target, !.parts = Parts,
                   !.local = [occupied |-> Empty, access_count |-> count,
                              key |-> Key(c), value |-> client[c].cmd.value]])
  /\ UNCHANGED slots

\* A SET posts a WRITE of a whole slot, built from the command and a counter.
PostsWrite(c, target, count) ==
  /\ Becomes(c, [client[c] EXCEPT !.pc = "writing", !.target = target, !.parts = Parts,
                   !.local = [occupied |-> Valid, access_count |-> count,
                              key |-> Key(c), value |-> client[c].cmd.value]])
  /\ UNCHANGED slots

\* The key is there: its slot is rewritten, with the counter that was read.
SetOverwrites(c) ==
  /\ Received(c, {"set"}) /\ Holds(Got(c), Key(c))
  /\ PostsWrite(c, Here(c), Got(c).access_count)

\* Fault: the first tombstone is taken at once, before the chain was searched.
SetInsertsEagerly(c) ==
  /\ Received(c, {"set"}) /\ Got(c).occupied # Valid
  /\ PostsWrite(c, Here(c), 0)

\* Fault: the slot after the empty one is written.
SetInsertsPast(c) ==
  /\ Received(c, {"set"}) /\ Got(c).occupied = Empty
  /\ PostsWrite(c, Probe(Here(c), 1), 0)

\* An empty slot ends the search: the first tombstone, or else this slot.
SetInserts(c) ==
  /\ Received(c, {"set"}) /\ Got(c).occupied = Empty
  /\ PostsWrite(c, IF client[c].tomb < NumSlots THEN Probe(Hash[Key(c)], client[c].tomb)
                                                 ELSE Here(c), 0)

\* The search went round the table: a tombstone is reused if one was met,
\* which RdmaStore's own set does not do ...
SetReuses(c) ==
  /\ Received(c, {"set"}) /\ GoesOn(c) /\ LastProbe(c)
  /\ TombAfter(c) < NumSlots
  /\ PostsWrite(c, Probe(Hash[Key(c)], TombAfter(c)), 0)

\* ... and otherwise the SET fails: "remote table full".
SetFull(c) ==
  /\ Received(c, {"set"}) /\ GoesOn(c) /\ LastProbe(c)
  /\ TombAfter(c) = NumSlots
  /\ Returns(c, FALSE, NoValue)
  /\ UNCHANGED slots

-----------------------------------------------------------------------------
(* The effects of WRITE and FETCH_AND_ADD, and their completions.          *)

\* Parts of the WRITE reach the server's memory.  A slot is one packet (the
\* path MTU is 1024 bytes), so once it has arrived the rest follows, whatever
\* becomes of the client's queue pair.
WriteLands(c) ==
  /\ client[c].pc = "writing"
  /\ client[c].parts = Parts => client[c].qp = "rts"
  /\ \E ps \in Chunks(client[c].parts) :
       /\ slots' = [slots EXCEPT ![client[c].target] = Merge(@, client[c].local, ps)]
       /\ Becomes(c, [client[c] EXCEPT !.parts = @ \ ps,
                        !.pc = IF client[c].parts = ps THEN "landed" ELSE @])

\* Fault: the counter of the key's hash position is incremented.
TouchesHashSlot(c) ==
  /\ Transfers(c, "touching")
  /\ slots' = [slots EXCEPT ![Hash[Key(c)]].access_count = @ + 1]
  /\ Becomes(c, [client[c] EXCEPT !.pc = "landed"])

\* The remote NIC increments the counter; nobody checks what the slot holds now.
TouchLands(c) ==
  /\ Transfers(c, "touching")
  /\ slots' = [slots EXCEPT ![client[c].target].access_count = @ + 1]
  /\ Becomes(c, [client[c] EXCEPT !.pc = "landed"])

\* Fault: success is reported once the WRITE is posted.
CompletesOnPost(c) ==
  /\ Transfers(c, "writing") \/ Transfers(c, "landed")
  /\ Returns(c, TRUE, IF client[c].cmd.op = "set" THEN NoValue ELSE client[c].local.value)
  /\ UNCHANGED slots

\* The completion of the WRITE or of the FETCH_AND_ADD is polled: success.
Completes(c) ==
  /\ Transfers(c, "landed")
  /\ Returns(c, TRUE, IF client[c].cmd.op = "set" THEN NoValue ELSE client[c].local.value)
  /\ UNCHANGED slots

\* The completion reports an error, or the post fails: the command returns
\* false and the queue pair is broken for the rest of the session.
Fails(c) ==
  /\ c \in FailingClients
  /\ \/ client[c].pc \in {"reading", "touching", "landed"}
     \/ client[c].pc = "writing" /\ client[c].parts = Parts
  /\ Becomes(c, AtPrompt(client[c].cmd, FALSE, NoValue, "error", client[c].left - 1))
  /\ UNCHANGED slots

-----------------------------------------------------------------------------
\* The steps of a command that was begun: the verbs always complete, so the
\* client's spinning on the completion queue ends.
Progress(c) ==
  \/ ReadPart(c) \/ NextProbe(c)
  \/ GetMisses(c) \/ GetHits(c) \/ GetMetaHits(c)
  \/ SetOverwrites(c) \/ SetInserts(c) \/ SetReuses(c) \/ SetFull(c)
  \/ WriteLands(c) \/ TouchLands(c) \/ Completes(c) \/ Fails(c)

Begins(c) ==
  \E k \in AskedKeys :
    \/ \E op \in Gets : BeginGet(c, op, k)
    \/ \E v \in AskedValues : BeginSet(c, k, v) \/ RejectSet(c, k, v)

Next == \E c \in Clients : Begins(c) \/ Progress(c)

Spec == Init /\ [][Next]_vars

FairSpec == Spec /\ \A c \in Clients : WF_vars(Progress(c))

-----------------------------------------------------------------------------
(* Properties of the data path.                                            *)

ClientState ==
  [pc : {"idle", "reading", "touching", "writing", "landed"},
   cmd : [op : Gets \cup {"set", "none"}, key : Keys \cup {NoKey},
          value : Values \cup {NoValue}],
   probe : Positions, tomb : 0 .. NumSlots, local : Slot, target : Positions,
   parts : SUBSET Parts, ok : BOOLEAN, value : Values \cup {NoValue},
   qp : {"rts", "error"}, left : 0 .. MaxCommands]

\* Types, and the layout's limits, which the clients' WRITEs must respect too.
TypeOK ==
  /\ slots \in [Positions -> Slot]
  /\ \A p \in Positions : slots[p].occupied # Empty =>
        slots[p].key \in Keys \ LongKeys /\ slots[p].value \notin LongValues
  /\ client \in [Clients -> ClientState]

\* With one writer, probing and writing in separate verbs never stores a key
\* twice, although readers and FETCH_AND_ADDs come in between.
UniqueKeys == KeysUnique(slots)

\* However many writers race, and whichever of their WRITEs is lost, no empty
\* slot ever comes between a key and its hash position.
ProbeReachable == ChainsUnbroken(slots)

\* Nor is any slot emptied under a client in the middle of a chain.
SlotsNeverEmptied ==
  [][\A p \in Positions : slots[p].occupied # Empty => slots'[p].occupied # Empty]_vars

\* Every command that was begun returns: the probe loops end, whatever the
\* other clients do to the table meanwhile.
CommandsReturn ==
  \A c \in Clients : client[c].pc # "idle" ~> client[c].pc = "idle"
=============================================================================
