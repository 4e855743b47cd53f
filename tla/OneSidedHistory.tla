-------------------------- MODULE OneSidedHistory ---------------------------
(***************************************************************************)
(* OneSided observed from outside: what the table held while each GET ran, *)
(* whether a READ of it met a WRITE of the same slot half-way, what the    *)
(* commands that have returned allow each key to hold, and how many        *)
(* metadata updates were acknowledged.  The history variables follow the   *)
(* steps of OneSided and constrain none of them.                           *)
(***************************************************************************)
EXTENDS OneSided

VARIABLES seen,    \* for each running GET, what the table said of its key so far,
          held,    \* the slots that have held its key all the time,
          torn,    \* and whether a READ of it crossed a WRITE of the same slot
          issued,  \* for each key, the values that SETs of it were begun with
          may,     \* for each key, what it may hold by the SETs that returned
          hits,    \* for each key, the GET_METAs that returned true
          doubt    \* for each key, the GET_METAs that failed after their READ

history == <<seen, held, torn, issued, may, hits, doubt>>
hvars == <<slots, client, history>>

Running(c) == client[c].pc # "idle"

\* Client c returns from op in this step.
Returning(c, op) == Running(c) /\ client'[c].pc = "idle" /\ client[c].cmd.op = op

HInit ==
  /\ Init
  /\ seen = [c \in Clients |-> {}]
  /\ held = seen
  /\ torn = [c \in Clients |-> FALSE]
  /\ issued = [k \in Keys |-> {}]
  /\ may = [k \in Keys |-> {Contents(slots)[k]}]
  /\ hits = [k \in Keys |-> 0]
  /\ doubt = hits

\* A GET or GET_META of client c is under way after this step.
Getting(c) == client'[c].pc # "idle" /\ client'[c].cmd.op # "set"

\* The slots of t that hold k.
Holding(t, k) == {p \in Positions : Holds(t[p], k)}

\* What table t says of k: whether a slot holds it, and with which value.
Lookup(t, k) == [ok |-> Present(t, k), value |-> Contents(t)[k]]

\* What a running GET has seen of its key, and the slots that held it throughout.
SeenAfter(c) ==
  IF Getting(c) THEN LET k == client'[c].cmd.key IN
                       seen[c] \cup {Lookup(slots, k), Lookup(slots', k)}
                ELSE {}

HeldAfter(c) ==
  IF Getting(c) THEN LET now == Holding(slots', client'[c].cmd.key) IN
                       IF Running(c) THEN held[c] \cap now ELSE now
                ELSE {}

\* A part of the slot has been moved, and another has not.
HalfDone(c, pc) == client[c].pc = pc /\ client[c].parts # Parts

\* The READ of client c and the WRITE of another are half-way in the same slot.
Overlaps(c) ==
  /\ HalfDone(c, "reading")
  /\ \E d \in Clients : HalfDone(d, "writing") /\ client[d].target = Here(c)

TornAfter(c) == Getting(c) /\ (torn[c] \/ Overlaps(c)')

\* The values of SETs that begin in this step on k.
Beginning(k) ==
  {client'[c].cmd.value : c \in {d \in Clients : /\ ~Running(d) /\ client'[d].pc = "reading"
                                                 /\ client'[d].cmd.op = "set"
                                                 /\ client'[d].cmd.key = k}}

\* A SET on k that returns true in this step leaves its value there; one that
\* fails once its WRITE was posted may have.
Setting(k) == {c \in Clients : Returning(c, "set") /\ Key(c) = k}
Acknowledged(k) == {client[c].cmd.value : c \in {d \in Setting(k) : client'[d].ok}}
Uncertain(k) ==
  {client[c].cmd.value : c \in {d \in Setting(k) : /\ ~client'[d].ok
                                                   /\ client[d].pc \in {"writing", "landed"}}}

MayAfter(k) ==
  (IF Acknowledged(k) = {} THEN may[k] ELSE Acknowledged(k)) \cup Uncertain(k)

\* The GET_METAs on k that return in this step with an answer, those that fail
\* once their FETCH_AND_ADD was posted, and those it has landed for.
Asking(k)   == {c \in Clients : Returning(c, "get_meta") /\ Key(c) = k}
Answered(k) == {c \in Asking(k) : client'[c].ok}
Doubtful(k) == {c \in Asking(k) : ~client'[c].ok /\ client[c].pc \in {"touching", "landed"}}
Landed(k)   == {c \in Clients : /\ client[c].pc = "landed" /\ client[c].cmd.op = "get_meta"
                                /\ Key(c) = k}

Records ==
  /\ seen' = [c \in Clients |-> SeenAfter(c)]
  /\ held' = [c \in Clients |-> HeldAfter(c)]
  /\ torn' = [c \in Clients |-> TornAfter(c)]
  /\ issued' = [k \in Keys |-> issued[k] \cup Beginning(k)]
  /\ may' = [k \in Keys |-> MayAfter(k)]
  /\ hits' = [k \in Keys |-> hits[k] + Cardinality(Answered(k))]
  /\ doubt' = [k \in Keys |-> doubt[k] + Cardinality(Doubtful(k))]

\* The steps of OneSided, each with its record.
HBegins(c) ==
  \E k \in AskedKeys :
    \/ \E op \in Gets : BeginGet(c, op, k) /\ Records
    \/ \E v \in AskedValues : BeginSet(c, k, v) /\ Records
    \/ \E v \in AskedValues : RejectSet(c, k, v) /\ Records

HProgress(c) ==
  \/ ReadPart(c)      /\ Records
  \/ NextProbe(c)     /\ Records
  \/ GetMisses(c)     /\ Records
  \/ GetHits(c)       /\ Records
  \/ GetMetaHits(c)   /\ Records
  \/ SetOverwrites(c) /\ Records
  \/ SetInserts(c)    /\ Records
  \/ SetReuses(c)     /\ Records
  \/ SetFull(c)       /\ Records
  \/ WriteLands(c)    /\ Records
  \/ TouchLands(c)    /\ Records
  \/ Completes(c)     /\ Records
  \/ Fails(c)         /\ Records

HNext == \E c \in Clients : HBegins(c) \/ HProgress(c)

HSpec == HInit /\ [][HNext]_hvars

\* The fairness of OneSided's FairSpec: a verb in flight completes.
HFairSpec == HSpec /\ \A c \in Clients : WF_hvars(HProgress(c))

-----------------------------------------------------------------------------
(* Properties                                                              *)

\* With one writer, a GET is atomic, but for values that are torn.  Whether it finds
\* its key agrees with the table at some moment between its first verb and its last,
\* in whatever pieces slots move.  So does the value it returns, unless one of its
\* READs crossed a WRITE of the same slot, each half-way when the other was.  (A GET
\* whose verb failed also returns false; it says nothing.)
GetIsAtomic ==
  [][\A c \in Clients, op \in Gets :
       Returning(c, op) /\ client'[c].qp = "rts" =>
         LET answer == [ok |-> client'[c].ok, value |-> client'[c].value]
             lookups == seen[c] \cup {Lookup(slots, Key(c))}
         IN /\ \E l \in lookups : l.ok = answer.ok
            /\ (answer.ok /\ torn[c]) \/ answer \in lookups]_hvars

\* Even if several clients write, and the NIC moves a slot in pieces, a GET
\* overlooks a key only if no slot held it during the whole of the GET.  (It may
\* have been absent at some moment, or have been stored twice and then lost the
\* slot it was first stored in.)
PresentKeysAreFound ==
  [][\A c \in Clients, op \in Gets :
       Returning(c, op) /\ client'[c].qp = "rts" /\ ~client'[c].ok => held[c] = {}]_hvars

\* With one writer, an acknowledged SET sticks: between SETs of a key, the key
\* holds the value of the last one that returned true, or of a later one whose
\* WRITE was posted and whose completion failed.
AcknowledgedSetSticks ==
  \A k \in AskedKeys :
    (\A c \in Clients : ~(client[c].pc \in {"writing", "landed"} /\ client[c].cmd.op = "set"
                          /\ Key(c) = k))
    => Contents(slots)[k] \in may[k]

\* The access_count of a key never exceeds the GET_METAs that were answered,
\* whose FETCH_AND_ADD has landed, or that failed once it was posted: counters do
\* not leak to other keys.  As long as no SET of the key was begun it is not less
\* than the first two either; a SET may undo those that land in the middle of it.
CountsAddUp ==
  \A p \in Positions : slots[p].occupied = Valid =>
    LET k       == slots[p].key
        counted == hits[k] + Cardinality(Landed(k)) IN
      /\ slots[p].access_count <= counted + doubt[k]
      /\ issued[k] = {} => slots[p].access_count >= counted
=============================================================================
