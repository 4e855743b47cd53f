--------------------------- MODULE TwoSidedProofs ---------------------------
(***************************************************************************)
(* Two-sided RDMA, for any sessions, requests, failures and queue sizes:   *)
(* the completion queue never overflows; every request is executed at most *)
(* once, in order; the client never takes another response than its own;   *)
(* nothing is left in a queue pair between two requests; and no message is *)
(* written over while it may still be sent.                                *)
(***************************************************************************)
EXTENDS TwoSided, SequenceTheorems, TLAPS

-----------------------------------------------------------------------------
(* The completion queue.                                                   *)
(*                                                                         *)
(* Every completion, every receive that waits for a message and a message  *)
(* on its way stands for a work request that was posted and is not         *)
(* retired; those are bounded by the two queues, which the completion      *)
(* queue can hold together.                                                *)

Fields == {"state", "posted", "recvs", "send", "out", "in", "cq"}

Completions == Opcodes \X BOOLEAN

\* A send that waits for its completion.
Outstanding(n) == IF n.send = "none" THEN 0 ELSE 1

Shaped(n) == DOMAIN n = Fields /\ n = [f \in Fields |-> n[f]]

Accounted(n) ==
  /\ Shaped(n)
  /\ n.posted \in [Opcodes -> Int]
  /\ \A op \in Opcodes : n.posted[op] <= MaxPosted
  /\ n.recvs \in Nat
  /\ n.cq \in Seq(Completions)
  /\ Len(n.cq) + n.recvs + Outstanding(n) <= n.posted["send"] + n.posted["recv"]

IInv == DOMAIN nic = Ends /\ nic = [e \in Ends |-> nic[e]] /\ \A e \in Ends : Accounted(nic[e])

-----------------------------------------------------------------------------
(* What the program does with a context keeps its account.                 *)

\* A new context, and a destroyed one, has nothing posted and nothing to poll.
LEMMA NewAccounted == Accounted(NewContext) /\ Accounted(Destroyed)
  BY CapacityAssumption DEF NewContext, Destroyed, Accounted, Shaped, Fields, Outstanding, Opcodes

\* So does connecting it.
LEMMA ConnectedAccounted ==
  ASSUME NEW n, Accounted(n)
  PROVE  Accounted(Connected(n))
  BY DEF Connected, Accounted, Shaped, Fields, Outstanding, Opcodes

\* A failed work request completes at once.
LEMMA Completes ==
  ASSUME NEW s \in Seq(Completions), NEW op \in Opcodes
  PROVE  /\ Append(s, <<op, FALSE>>) \in Seq(Completions)
         /\ Len(Append(s, <<op, FALSE>>)) = Len(s) + 1
  BY <<op, FALSE>> \in Completions, AppendProperties DEF Completions

\* A receive is posted only where its queue has room.
LEMMA RecvAccounted ==
  ASSUME NEW n, Accounted(n), HasRoom(n, "recv")
  PROVE  Accounted(WithRecv(n))
<1> DEFINE m == WithRecv(n)
<1>1. /\ Shaped(m)
      /\ m.posted = [n.posted EXCEPT !["recv"] = @ + 1]
      /\ Outstanding(m) = Outstanding(n)
      /\ IF n.state = "error"
         THEN m.recvs = n.recvs /\ m.cq = Append(n.cq, <<"recv", FALSE>>)
         ELSE m.recvs = n.recvs + 1 /\ m.cq = n.cq
  BY DEF WithRecv, Accounted, Shaped, Fields, Outstanding
<1>2. m.posted["recv"] = n.posted["recv"] + 1 /\ m.posted["send"] = n.posted["send"]
      /\ m.posted \in [Opcodes -> Int]
  BY <1>1 DEF Accounted, Opcodes
<1>3. "recv" \in Opcodes
  BY DEF Opcodes
<1>4. m.cq \in Seq(Completions) /\ m.recvs \in Nat
      /\ Len(m.cq) + m.recvs = Len(n.cq) + n.recvs + 1
  <2>1. n.cq \in Seq(Completions) /\ n.recvs \in Nat
    BY DEF Accounted
  <2>2. CASE n.state = "error"
    <3>1. m.cq = Append(n.cq, <<"recv", FALSE>>) /\ m.recvs = n.recvs
      BY <1>1, <2>2
    <3>2. m.cq \in Seq(Completions) /\ Len(m.cq) = Len(n.cq) + 1
      BY <1>3, <2>1, <3>1, Completes, Zenon
    <3> HIDE DEF m
    <3> QED BY <2>1, <3>1, <3>2, Len(n.cq) \in Nat
  <2>3. CASE n.state # "error"
    BY <1>1, <2>1, <2>3
  <2> QED BY <2>2, <2>3
<1>5. \A op \in Opcodes : m.posted[op] <= MaxPosted
  BY <1>2, CapacityAssumption DEF HasRoom, Accounted, Opcodes
<1>6. Outstanding(n) \in Nat
  BY DEF Outstanding
<1>7. Len(m.cq) + m.recvs + Outstanding(m) <= m.posted["send"] + m.posted["recv"]
  <2>1. Len(n.cq) \in Nat /\ Len(m.cq) \in Nat /\ n.recvs \in Nat
        /\ n.posted["send"] \in Int /\ n.posted["recv"] \in Int
    BY <1>4 DEF Accounted, Opcodes
  <2>2. Len(n.cq) + n.recvs + Outstanding(n) <= n.posted["send"] + n.posted["recv"]
    BY DEF Accounted
  <2>3. /\ m.recvs \in Nat /\ Outstanding(m) = Outstanding(n)
        /\ m.posted["recv"] = n.posted["recv"] + 1 /\ m.posted["send"] = n.posted["send"]
        /\ Len(m.cq) + m.recvs = Len(n.cq) + n.recvs + 1
    BY <1>1, <1>2, <1>4
  <2> DEFINE used == Outstanding(n)
             was == Len(n.cq) + n.recvs
             now == Len(m.cq) + m.recvs
             room == n.posted["send"] + n.posted["recv"]
  <2>4. used \in Nat /\ was \in Int /\ now = was + 1 /\ room \in Int /\ was + used <= room
    BY <1>6, <2>1, <2>2, <2>3
  <2>5. m.posted["send"] + m.posted["recv"] = room + 1
    BY <2>1, <2>3
  <2> HIDE DEF m, used, was, now, room
  <2>6. now + used <= room + 1
    BY <2>4
  <2> QED BY <2>3, <2>5, <2>6 DEF now, used
<1> QED BY <1>1, <1>2, <1>4, <1>5, <1>7 DEF Accounted

\* So is a send.
LEMMA SendAccounted ==
  ASSUME NEW n, NEW message, Accounted(n), HasRoom(n, "send")
  PROVE  Accounted(WithSend(n, message))
<1> DEFINE m == WithSend(n, message)
<1>1. /\ Shaped(m)
      /\ m.posted = [n.posted EXCEPT !["send"] = @ + 1]
      /\ m.recvs = n.recvs
      /\ IF n.state = "error"
         THEN Outstanding(m) = Outstanding(n) /\ m.cq = Append(n.cq, <<"send", FALSE>>)
         ELSE Outstanding(m) = 1 /\ m.cq = n.cq
  BY DEF WithSend, Accounted, Shaped, Fields, Outstanding
<1>2. m.posted["send"] = n.posted["send"] + 1 /\ m.posted["recv"] = n.posted["recv"]
      /\ m.posted \in [Opcodes -> Int]
  BY <1>1 DEF Accounted, Opcodes
<1>3. "send" \in Opcodes
  BY DEF Opcodes
<1>4. Outstanding(n) \in {0, 1}
  BY DEF Outstanding
<1>5. m.cq \in Seq(Completions)
      /\ Len(m.cq) + Outstanding(m) <= Len(n.cq) + Outstanding(n) + 1
  <2>1. n.cq \in Seq(Completions)
    BY DEF Accounted
  <2>2. CASE n.state = "error"
    <3>1. m.cq = Append(n.cq, <<"send", FALSE>>) /\ Outstanding(m) = Outstanding(n)
      BY <1>1, <2>2
    <3>2. m.cq \in Seq(Completions) /\ Len(m.cq) = Len(n.cq) + 1
      BY <1>3, <2>1, <3>1, Completes, Zenon
    <3> HIDE DEF m
    <3> QED BY <1>4, <2>1, <3>1, <3>2, Len(n.cq) \in Nat
  <2>3. CASE n.state # "error"
    BY <1>1, <1>4, <2>1, <2>3
  <2> QED BY <2>2, <2>3
<1>6. \A op \in Opcodes : m.posted[op] <= MaxPosted
  BY <1>2, CapacityAssumption DEF HasRoom, Accounted, Opcodes
<1>7. Len(m.cq) + m.recvs + Outstanding(m) <= m.posted["send"] + m.posted["recv"]
  <2> DEFINE before == Len(n.cq)
             after  == Len(m.cq)
  <2>1. /\ before \in Nat /\ after \in Nat /\ n.recvs \in Nat
        /\ Outstanding(n) \in Nat /\ Outstanding(m) \in Nat
        /\ n.posted["send"] \in Int /\ n.posted["recv"] \in Int
        /\ before + n.recvs + Outstanding(n) <= n.posted["send"] + n.posted["recv"]
    BY <1>5 DEF Accounted, Opcodes, Outstanding
  <2>2. m.recvs = n.recvs /\ after + Outstanding(m) <= before + Outstanding(n) + 1
    BY <1>1, <1>5
  <2>3. m.posted["send"] = n.posted["send"] + 1 /\ m.posted["recv"] = n.posted["recv"]
    BY <1>2
  <2> HIDE DEF m, before, after
  <2>4. after + m.recvs + Outstanding(m) <= m.posted["send"] + m.posted["recv"]
    BY <2>1, <2>2, <2>3
  <2> QED BY <2>4 DEF after
<1> QED BY <1>1, <1>2, <1>5, <1>6, <1>7 DEF Accounted

\* A send that is refused only leaves its message in the buffer.
LEMMA RefusalAccounted ==
  ASSUME NEW n, NEW message, Accounted(n)
  PROVE  Accounted(WithSendRefused(n, message))
  BY DEF WithSendRefused, Accounted, Shaped, Fields, Outstanding

\* A completion that is polled retires its work request.
Ready(n) == n.cq # <<>>

LEMMA PolledAccounted ==
  ASSUME NEW n, Accounted(n), Ready(n)
  PROVE  Accounted(Polled(n))
<1> DEFINE op == Head(n.cq)[1]
           m == Polled(n)
<1>1. op \in Opcodes /\ Tail(n.cq) \in Seq(Completions) /\ Len(Tail(n.cq)) = Len(n.cq) - 1
  <2>1. n.cq \in Seq(Completions) /\ Head(n.cq) \in Completions
    BY HeadTailProperties DEF Accounted, Ready
  <2> QED BY <2>1, HeadTailProperties DEF Completions, Ready
<1>2. /\ Shaped(m)
      /\ m.posted = [n.posted EXCEPT ![op] = @ - 1]
      /\ m.recvs = n.recvs /\ Outstanding(m) = Outstanding(n) /\ m.cq = Tail(n.cq)
  BY DEF Polled, Accounted, Shaped, Fields, Outstanding
<1> HIDE DEF m, op
<1>3. /\ m.posted \in [Opcodes -> Int]
      /\ \A o \in Opcodes : m.posted[o] <= MaxPosted
      /\ m.posted["send"] + m.posted["recv"] = n.posted["send"] + n.posted["recv"] - 1
  <2>1. op \in Opcodes /\ m.posted = [n.posted EXCEPT ![op] = @ - 1]
    BY <1>1, <1>2
  <2>2. n.posted \in [Opcodes -> Int] /\ \A o \in Opcodes : n.posted[o] <= MaxPosted
    BY DEF Accounted
  <2> QED BY <2>1, <2>2, CapacityAssumption DEF Opcodes
<1>4. Outstanding(n) \in Nat /\ Len(n.cq) \in Nat
  BY DEF Outstanding, Accounted
<1>5. n.recvs \in Nat /\ n.posted["send"] \in Int /\ n.posted["recv"] \in Int
  BY DEF Accounted, Opcodes
<1>6. Len(m.cq) + m.recvs + Outstanding(m) <= m.posted["send"] + m.posted["recv"]
  <2> DEFINE before == Len(n.cq)
             after  == Len(m.cq)
  <2>1. before \in Nat /\ after = before - 1
    BY <1>1, <1>2, <1>4, Zenon
  <2>2. before + n.recvs + Outstanding(n) <= n.posted["send"] + n.posted["recv"]
    BY DEF Accounted
  <2>3. m.recvs = n.recvs /\ Outstanding(m) = Outstanding(n) /\ Outstanding(n) \in Nat
    BY <1>2, <1>4
  <2>4. m.posted["send"] \in Int /\ m.posted["recv"] \in Int
        /\ m.posted["send"] + m.posted["recv"] = n.posted["send"] + n.posted["recv"] - 1
    BY <1>3 DEF Opcodes
  <2> HIDE DEF before, after
  <2>5. after + m.recvs + Outstanding(m) <= m.posted["send"] + m.posted["recv"]
    BY <1>5, <2>1, <2>2, <2>3, <2>4
  <2> QED BY <2>5 DEF after
<1> QED BY <1>1, <1>2, <1>3, <1>5, <1>6 DEF Accounted, m

-----------------------------------------------------------------------------
(* What the hardware does keeps it too.                                    *)

\* Receives and a send that become completions.
Become(n, m, new) ==
  /\ new \in Seq(Completions) /\ m.cq = n.cq \o new /\ m.posted = n.posted
  /\ Len(new) + m.recvs + Outstanding(m) = n.recvs + Outstanding(n)

LEMMA CompletesAccounted ==
  ASSUME NEW n, NEW m, Accounted(n), Shaped(m), m.recvs \in Nat,
         NEW new, Become(n, m, new)
  PROVE  Accounted(m)
<1> DEFINE before == Len(n.cq)
           after  == Len(m.cq)
           more   == Len(new)
<1>1. m.cq \in Seq(Completions) /\ before \in Nat /\ more \in Nat /\ after = before + more
  <2>1. n.cq \in Seq(Completions)
    BY DEF Accounted
  <2> QED BY <2>1, ConcatProperties, LenProperties, Zenon DEF Become
<1>2. /\ before + n.recvs + Outstanding(n) <= n.posted["send"] + n.posted["recv"]
      /\ n.posted["send"] \in Int /\ n.posted["recv"] \in Int /\ n.recvs \in Nat
  BY DEF Accounted, Opcodes
<1>3. Outstanding(n) \in Nat /\ Outstanding(m) \in Nat
  BY DEF Outstanding
<1>4. more + m.recvs + Outstanding(m) = n.recvs + Outstanding(n) /\ m.posted = n.posted
  BY DEF Become
<1> HIDE DEF before, after, more
<1>5. after + m.recvs + Outstanding(m) <= m.posted["send"] + m.posted["recv"]
  <2>1. before \in Nat /\ more \in Nat /\ after = before + more /\ m.recvs \in Nat
    BY <1>1
  <2>2. m.posted["send"] = n.posted["send"] /\ m.posted["recv"] = n.posted["recv"]
    BY <1>4
  <2>3. more + m.recvs + Outstanding(m) = n.recvs + Outstanding(n)
    BY <1>4
  <2> QED BY <1>2, <1>3, <2>1, <2>2, <2>3
<1> QED BY <1>1, <1>4, <1>5 DEF Accounted, after

-----------------------------------------------------------------------------
(* Each step changes contexts in these ways only.                          *)

\* One end's context is replaced by one in balance.
LEMMA OneEnd ==
  ASSUME IInv, NEW e \in Ends, NEW n, Accounted(n), nic' = [nic EXCEPT ![e] = n]
  PROVE  IInv'
  BY DEF IInv

LEMMA InitAccounted == Init => IInv
  BY NewAccounted DEF Init, IInv

\* Failures of k receives, as a sequence.
LEMMA Flushed ==
  ASSUME NEW k \in Nat
  PROVE  /\ [i \in 1 .. k |-> <<"recv", FALSE>>] \in Seq(Completions)
         /\ Len([i \in 1 .. k |-> <<"recv", FALSE>>]) = k
<1> DEFINE s == [i \in 1 .. k |-> <<"recv", FALSE>>]
<1>1. <<"recv", FALSE>> \in Completions
  BY DEF Completions, Opcodes
<1>2. s \in [1 .. k -> Completions] /\ DOMAIN s = 1 .. k
  BY <1>1, Zenon
<1>3. s \in Seq(Completions)
  BY <1>2, SeqDef
<1> HIDE DEF s
<1>4. Len(s) = k
  BY <1>2, <1>3, LenProperties
<1> QED BY <1>3, <1>4 DEF s

\* A completion is appended to those that wait.
LEMMA Appended ==
  ASSUME NEW n, Accounted(n), NEW op \in Opcodes, NEW ok \in BOOLEAN
  PROVE  /\ <<<<op, ok>>>> \in Seq(Completions) /\ Len(<<<<op, ok>>>>) = 1
         /\ Append(n.cq, <<op, ok>>) = n.cq \o <<<<op, ok>>>>
<1>1. <<op, ok>> \in Completions
  BY DEF Completions
<1>2. n.cq \in Seq(Completions)
  BY DEF Accounted
<1> QED BY <1>1, <1>2, AppendIsConcat

\* A message that arrives takes a receive and leaves its completion.
LEMMA Arrives ==
  ASSUME NEW n, NEW message, Accounted(n), n.recvs > 0
  PROVE  Accounted([n EXCEPT !.recvs = @ - 1, !.in = message, !.cq = Append(@, <<"recv", TRUE>>)])
<1> DEFINE m == [n EXCEPT !.recvs = @ - 1, !.in = message, !.cq = Append(@, <<"recv", TRUE>>)]
<1>1. Shaped(m) /\ m.posted = n.posted /\ m.cq = Append(n.cq, <<"recv", TRUE>>)
  BY DEF Accounted, Shaped, Fields
<1>2. m.recvs = n.recvs - 1 /\ Outstanding(m) = Outstanding(n)
  BY DEF Accounted, Shaped, Fields, Outstanding
<1>3. n.recvs \in Nat /\ Outstanding(n) \in Nat
  BY DEF Accounted, Outstanding
<1>4. <<<<"recv", TRUE>>>> \in Seq(Completions) /\ Len(<<<<"recv", TRUE>>>>) = 1
      /\ m.cq = n.cq \o <<<<"recv", TRUE>>>>
  BY <1>1, Appended, Zenon DEF Opcodes
<1> HIDE DEF m
<1>5. m.recvs \in Nat /\ 1 + m.recvs + Outstanding(m) = n.recvs + Outstanding(n)
  BY <1>2, <1>3
<1>6. Become(n, m, <<<<"recv", TRUE>>>>)
  BY <1>1, <1>4, <1>5, Zenon DEF Become
<1>7. Accounted(m)
  BY <1>1, <1>5, <1>6, CompletesAccounted
<1> QED BY <1>7 DEF m

\* A send that completes, with success or not, leaves its completion.
LEMMA SendCompletes ==
  ASSUME NEW n, Accounted(n), n.send # "none", NEW ok \in BOOLEAN
  PROVE  Accounted([n EXCEPT !.send = "none", !.cq = Append(@, <<"send", ok>>)])
<1> DEFINE m == [n EXCEPT !.send = "none", !.cq = Append(@, <<"send", ok>>)]
<1>1. Shaped(m) /\ m.posted = n.posted /\ m.cq = Append(n.cq, <<"send", ok>>)
  BY DEF Accounted, Shaped, Fields
<1>2. m.recvs = n.recvs /\ Outstanding(m) = 0 /\ Outstanding(n) = 1
  BY DEF Accounted, Shaped, Fields, Outstanding
<1>3. n.recvs \in Nat
  BY DEF Accounted
<1>4. <<<<"send", ok>>>> \in Seq(Completions) /\ Len(<<<<"send", ok>>>>) = 1
      /\ m.cq = n.cq \o <<<<"send", ok>>>>
  BY <1>1, Appended, Zenon DEF Opcodes
<1> HIDE DEF m
<1>5. m.recvs \in Nat /\ 1 + m.recvs + Outstanding(m) = n.recvs + Outstanding(n)
  BY <1>2, <1>3
<1>6. Become(n, m, <<<<"send", ok>>>>)
  BY <1>1, <1>4, <1>5, Zenon DEF Become
<1>7. Accounted(m)
  BY <1>1, <1>5, <1>6, CompletesAccounted
<1> QED BY <1>7 DEF m

\* When the queue pair breaks, every receive leaves its completion.
LEMMA RecvsComplete ==
  ASSUME NEW n, Accounted(n)
  PROVE  Accounted([n EXCEPT !.state = "error", !.recvs = 0,
                             !.cq = @ \o [i \in 1 .. n.recvs |-> <<"recv", FALSE>>]])
<1> DEFINE flushed == [i \in 1 .. n.recvs |-> <<"recv", FALSE>>]
           m == [n EXCEPT !.state = "error", !.recvs = 0, !.cq = @ \o flushed]
<1>1. Shaped(m) /\ m.posted = n.posted /\ m.cq = n.cq \o flushed
  BY DEF Accounted, Shaped, Fields
<1>2. m.recvs = 0 /\ Outstanding(m) = Outstanding(n)
  BY DEF Accounted, Shaped, Fields, Outstanding
<1>3. n.recvs \in Nat /\ Outstanding(n) \in Nat
  BY DEF Accounted, Outstanding
<1>4. flushed \in Seq(Completions) /\ Len(flushed) = n.recvs
  BY <1>3, Flushed, Zenon
<1> HIDE DEF m, flushed
<1>5. n.recvs + m.recvs + Outstanding(m) = n.recvs + Outstanding(n)
  BY <1>2, <1>3
<1>6. Become(n, m, flushed)
  BY <1>1, <1>4, <1>5, Zenon DEF Become
<1>7. Accounted(m)
  BY <1>1, <1>2, <1>6, CompletesAccounted
<1> QED BY <1>7 DEF m, flushed

LEMMA HardwareAccounted ==
  ASSUME IInv, NEW e \in Ends, HardwareRuns(e)
  PROVE  IInv'
<1>1. Peer(e) \in Ends /\ Peer(e) # e
  BY DEF Ends, Peer
<1>2. Accounted(nic[e]) /\ Accounted(nic[Peer(e)])
  BY <1>1 DEF IInv
<1>3. CASE Delivers(e)
  <2> DEFINE m == [nic[e] EXCEPT !.send = "landed"]
             r == [nic[Peer(e)] EXCEPT !.recvs = @ - 1, !.in = nic[e].out,
                                       !.cq = Append(@, <<"recv", TRUE>>)]
  <2>1. nic' = [[nic EXCEPT ![e] = m] EXCEPT ![Peer(e)] = r]
    BY <1>1, <1>3 DEF Delivers, IInv
  <2>2. Accounted(m)
    <3>1. /\ Shaped(m) /\ m.posted = nic[e].posted /\ m.recvs = nic[e].recvs
          /\ m.cq = nic[e].cq /\ Outstanding(m) = 1 /\ Outstanding(nic[e]) = 1
      BY <1>2, <1>3 DEF Accounted, Shaped, Fields, Outstanding, Delivers
    <3> QED BY <1>2, <3>1 DEF Accounted
  <2>3. Accounted(r)
    BY <1>2, <1>3, Arrives DEF Delivers
  <2> HIDE DEF m, r
  <2> QED BY <1>1, <2>1, <2>2, <2>3 DEF IInv
<1>4. CASE Acknowledges(e)
  <2> DEFINE m == [nic[e] EXCEPT !.send = "none", !.cq = Append(@, <<"send", TRUE>>)]
  <2>1. nic' = [nic EXCEPT ![e] = m]
    BY <1>4 DEF Acknowledges, IInv
  <2>2. Accounted(m)
    BY <1>2, <1>4, SendCompletes DEF Acknowledges
  <2> HIDE DEF m
  <2> QED BY <2>1, <2>2, OneEnd
<1>5. CASE Breaks(e)
  <2> DEFINE failed == [nic[e] EXCEPT !.send = "none", !.cq = Append(@, <<"send", FALSE>>)]
             m == [failed EXCEPT !.state = "error", !.recvs = 0,
                     !.cq = @ \o [i \in 1 .. failed.recvs |-> <<"recv", FALSE>>]]
  <2>1. nic' = [nic EXCEPT ![e] = m]
    BY <1>2, <1>5 DEF Breaks, IInv, Accounted, Shaped, Fields
  <2>2. Accounted(failed)
    BY <1>2, <1>5, SendCompletes DEF Breaks
  <2>3. Accounted(m)
    BY <2>2, RecvsComplete
  <2> HIDE DEF m
  <2> QED BY <2>1, <2>3, OneEnd
<1> QED BY <1>3, <1>4, <1>5 DEF HardwareRuns, Hardware

\* The client polls and posts one at a time, or leaves.
LEMMA ClientAccounted ==
  ASSUME IInv, NEW c \in Sessions,
         \/ Connects(c) \/ FailsToConnect(c) \/ ArmsRecv(c) \/ Leaves(c) \/ ClientRuns(c)
  PROVE  IInv'
<1>1. Client(c) \in Ends /\ Accounted(nic[Client(c)])
  BY DEF Client, Ends, IInv
<1>2. ASSUME NEW how, Departs(c, how) PROVE IInv'
  BY <1>1, <1>2, NewAccounted, OneEnd DEF Departs
<1>3. CASE Connects(c)
  BY <1>1, <1>3, ConnectedAccounted, OneEnd DEF Connects
<1>4. CASE FailsToConnect(c) \/ Leaves(c)
  BY <1>2, <1>4 DEF FailsToConnect, Leaves
<1>5. CASE ArmsRecv(c)
  BY <1>1, <1>5, RecvAccounted, OneEnd DEF ArmsRecv
<1>6. ASSUME NEW q, Asks(c, q) PROVE IInv'
  BY <1>1, <1>6, SendAccounted, OneEnd DEF Asks
<1>7. ASSUME NEW q, CannotPost(c, q) PROVE IInv'
  <2>1. CASE nic' = nic
    BY <2>1 DEF IInv
  <2>2. CASE nic' = [nic EXCEPT ![Client(c)] = WithSendRefused(@, Wire(q))]
    BY <1>1, <2>2, RefusalAccounted, OneEnd
  <2> QED BY <1>2, <1>7, <2>1, <2>2 DEF CannotPost
<1>8. ASSUME nic[Client(c)].cq # <<>>, nic' = [nic EXCEPT ![Client(c)] = Polled(@)] PROVE IInv'
  BY <1>1, <1>8, PolledAccounted, OneEnd DEF Ready
<1>9. CASE PollsFirst(c)
  BY <1>8, <1>9 DEF PollsFirst, PollSucceeds
<1>10. CASE TakesResponse(c)
  BY <1>2, <1>8, <1>10 DEF TakesResponse, PollSucceeds
<1>11. CASE RequestFails(c)
  BY <1>2, <1>8, <1>11 DEF RequestFails, PollFails
<1> QED BY <1>3, <1>4, <1>5, <1>6, <1>7, <1>9, <1>10, <1>11 DEF ClientRuns

\* So does the server thread.
LEMMA ThreadAccounted ==
  ASSUME IInv, NEW c \in Sessions, ThreadRuns(c)
  PROVE  IInv'
<1>1. Server(c) \in Ends /\ Accounted(nic[Server(c)])
  BY DEF Server, Ends, IInv
<1>2. ASSUME ThreadReturns(c) PROVE IInv'
  BY <1>1, <1>2, NewAccounted, OneEnd DEF ThreadReturns
<1>3. CASE ThreadConnects(c)
  BY <1>1, <1>3, ConnectedAccounted, OneEnd DEF ThreadConnects
<1>4. CASE ThreadGivesUp(c) \/ ThreadStops(c)
  BY <1>2, <1>4 DEF ThreadGivesUp, ThreadStops
<1>5. CASE ThreadArms(c)
  BY <1>1, <1>2, <1>5, RecvAccounted, OneEnd DEF ThreadArms
<1>6. CASE ThreadServes(c)
  <2> DEFINE n == Polled(nic[Server(c)])
             sent == WithSend(n, Answer(kv, nic[Server(c)].in))
  <2>1. Accounted(n)
    BY <1>1, <1>6, PolledAccounted DEF ThreadServes, PollSucceeds, Ready
  <2>2. CASE HasRoom(n, "send") /\ nic' = [nic EXCEPT ![Server(c)] = sent]
    BY <1>1, <2>1, <2>2, SendAccounted, OneEnd
  <2> QED BY <1>2, <1>6, <2>2 DEF ThreadServes
<1>7. CASE ThreadGoesOn(c)
  BY <1>1, <1>2, <1>7, PolledAccounted, OneEnd DEF ThreadGoesOn, PollSucceeds, Ready
<1> QED BY <1>3, <1>4, <1>5, <1>6, <1>7 DEF ThreadRuns

-----------------------------------------------------------------------------
\* The completion queue of rdma_context.cpp never overflows, however many
\* requests fail and whatever the sizes of the queues, as long as it holds both.
THEOREM QueuesSuffice == Spec => []CompletionsFit
<1>1. IInv /\ [Next]_vars => IInv'
  <2> SUFFICES ASSUME IInv, [Next]_vars PROVE IInv'
    OBVIOUS
  <2>1. CASE UNCHANGED vars
    BY <2>1 DEF IInv, vars
  <2> QED BY <2>1, HardwareAccounted, ClientAccounted, ThreadAccounted DEF Next
<1>2. IInv => CompletionsFit
  <2> SUFFICES ASSUME IInv, NEW e \in Ends PROVE Len(nic[e].cq) <= CqSize
    BY DEF CompletionsFit
  <2> DEFINE n == nic[e]
             waiting == Len(n.cq)
  <2>1. /\ waiting \in Nat /\ n.recvs \in Nat /\ Outstanding(n) \in Nat
        /\ n.posted["send"] \in Int /\ n.posted["recv"] \in Int
        /\ n.posted["send"] <= MaxPosted /\ n.posted["recv"] <= MaxPosted
        /\ waiting + n.recvs + Outstanding(n) <= n.posted["send"] + n.posted["recv"]
    BY DEF IInv, Accounted, Opcodes, Outstanding
  <2> HIDE DEF waiting, n
  <2>2. waiting <= CqSize
    BY <2>1, CapacityAssumption
  <2> QED BY <2>2 DEF waiting, n
<1> QED BY <1>1, <1>2, InitAccounted, PTL DEF Spec

-----------------------------------------------------------------------------
(* What a session promises.                                                *)
(*                                                                         *)
(* Each end is described alone (ClientEnd, ServerEnd): where its program   *)
(* is, what it has posted and what it may still poll.  InFlight says what  *)
(* that makes of the two together: which end has the one message of the    *)
(* session, and which request or response it is.  A broken queue pair      *)
(* leaves failures behind, one more for each request its worker tries;     *)
(* what keeps them from being taken for another request's is that none of  *)
(* them succeeds (Broken).                                                 *)

SendDone   == <<"send", TRUE>>
RecvDone   == <<"recv", TRUE>>
SendFailed == <<"send", FALSE>>

\* Nothing is posted on n and nothing is left to poll.
Clear(n) == n.cq = <<>> /\ n.recvs = 0 /\ n.send = "none"

\* The work requests of n that are not retired.
Owes(n, recvs, sends) == n.posted["recv"] = recvs /\ n.posted["send"] = sends

AllFailed(cq) == \A m \in 1 .. Len(cq) : ~cq[m][2]

\* A client's working queue pair, while the client is at pc.
Unbroken(pc, n) ==
  /\ pc = "idle" => Clear(n) /\ Owes(n, 0, 0)
  /\ pc = "asking" => n.cq = <<>> /\ n.recvs = 1 /\ n.send = "none" /\ Owes(n, 1, 0)
  /\ pc = "first poll" => Owes(n, 1, 1) /\
       \/ n.recvs = 1 /\ n.send \in {"posted", "landed"} /\ n.cq = <<>>
       \/ n.recvs = 1 /\ n.send = "none" /\ n.cq = <<SendDone>>
       \/ n.recvs = 0 /\ n.send = "landed" /\ n.cq = <<RecvDone>>
       \/ n.recvs = 0 /\ n.send = "none" /\ n.cq \in {<<SendDone, RecvDone>>, <<RecvDone, SendDone>>}
  /\ pc = "second poll" => n.send # "posted" /\
       \/ n.recvs = 1 /\ n.send = "none" /\ n.cq = <<>> /\ Owes(n, 1, 0)
       \/ n.recvs = 0 /\ n.send = "none" /\ n.cq = <<RecvDone>> /\ Owes(n, 1, 0)
       \/ n.recvs = 0 /\ n.send = "landed" /\ n.cq = <<>> /\ Owes(n, 0, 1)
       \/ n.recvs = 0 /\ n.send = "none" /\ n.cq = <<SendDone>> /\ Owes(n, 0, 1)

\* A client's broken one: what there is to poll has failed, but for a completion
\* that succeeded before the break, which the first poll takes.
Broken(pc, n) ==
  /\ n.send = "none" /\ n.recvs = 0
  /\ IF pc = "first poll" THEN n.cq # <<>> => AllFailed(Tail(n.cq)) ELSE AllFailed(n.cq)

\* The client has a queue pair.
Busy == {"idle", "asking", "first poll", "second poll"}

\* A client at pc, and its queue pair.
ClientEnd(pc, n) ==
  /\ pc \in {"new", "absent", "left"} \cup Busy
  /\ pc = "new" => n.state = "init" /\ Clear(n) /\ Owes(n, 0, 0)
  /\ pc \in {"absent", "left"} => n.state = "gone" /\ Clear(n)
  /\ pc \in Busy => n.state \in {"up", "error"}
  /\ n.state = "up" => Unbroken(pc, n)
  /\ n.state = "error" => Broken(pc, n)

\* A server thread at pc, and its queue pair.
ServerEnd(pc, s) ==
  /\ pc \in {"handshake", "arming", "receiving", "responding", "ended"}
  /\ pc = "handshake" => s.state = "init" /\ Clear(s)
  /\ pc = "arming" => s.state = "up" /\ Clear(s)
  /\ pc = "receiving" => s.state = "up" /\ s.send = "none" /\
       \/ s.recvs = 1 /\ s.cq = <<>>
       \/ s.recvs = 0 /\ s.cq = <<RecvDone>>
  /\ pc = "responding" => s.recvs = 0 /\
       \/ s.state = "up" /\ s.send \in {"posted", "landed"} /\ s.cq = <<>>
       \/ s.state = "up" /\ s.send = "none" /\ s.cq = <<SendDone>>
       \/ s.state = "error" /\ s.send = "none" /\ s.cq = <<SendFailed>>
  /\ pc = "ended" => s.state = "gone" /\ Clear(s)

\* A sequence, of whatever elements.
Listed(s) == Len(s) \in Nat /\ s = [m \in 1 .. Len(s) |-> s[m]]

\* A request is in the thread's receive buffer.
Pending(pc, s) == pc = "receiving" /\ s.recvs = 0

\* What a session did: its client asked, its thread has done and given answers,
\* and the client has taken.
Records(asked, done, given, taken) ==
  /\ Listed(asked) /\ Listed(done) /\ Listed(given) /\ Listed(taken)
  /\ Len(taken) <= Len(given) /\ Len(given) = Len(done) /\ Len(done) <= Len(asked)
  /\ \A m \in 1 .. Len(done) : done[m] = Wire(asked[m])
  /\ \A m \in 1 .. Len(taken) : taken[m] = given[m]

\* Which request or response is on its way, between client end n and server end s.
InFlight(cpc, tpc, n, s, asked, done, given, taken) ==
  /\ cpc = "new" => asked = <<>> /\ tpc = "handshake"
  /\ Pending(tpc, s) => Len(done) < Len(asked) /\ s.in = Wire(asked[Len(done) + 1])
  /\ s.send = "posted" => Len(given) > 0 /\ s.out = given[Len(given)]
  /\ n.state = "up" /\ cpc \in {"idle", "asking"} => Len(taken) = Len(asked) /\ s.send # "posted"
  /\ n.state = "up" /\ cpc \in {"first poll", "second poll"} =>
       /\ Len(asked) = Len(taken) + 1
       /\ n.send = "posted" => /\ Len(done) = Len(taken) /\ ~Pending(tpc, s) /\ s.send # "posted"
                               /\ n.out = Wire(asked[Len(asked)])
       /\ s.send = "posted" => Len(given) = Len(asked)
       /\ n.recvs = 0 => Len(given) = Len(asked) /\ s.send # "posted" /\ n.in = given[Len(given)]

\* A session in order.
Fine(cpc, tpc, n, s, asked, done, given, taken) ==
  /\ ClientEnd(cpc, n) /\ ServerEnd(tpc, s)
  /\ Records(asked, done, given, taken)
  /\ InFlight(cpc, tpc, n, s, asked, done, given, taken)

-----------------------------------------------------------------------------
(* The operators of the model.                                             *)

\* Sequences of one and two elements.
LEMMA ShortSequences ==
  ASSUME NEW x, NEW y
  PROVE  /\ Append(<<>>, x) = <<x>> /\ Append(<<x>>, y) = <<x, y>>
         /\ <<x>> # <<>> /\ Head(<<x>>) = x /\ Tail(<<x>>) = <<>> /\ Len(<<x>>) = 1
         /\ <<x, y>> # <<>> /\ Head(<<x, y>>) = x /\ Tail(<<x, y>>) = <<y>>
         /\ Len(<<x, y>>) = 2
<1>1. <<>> \in Seq({x, y}) /\ <<x>> \in Seq({x, y}) /\ <<x, y>> \in Seq({x, y})
  OBVIOUS
<1>2. Append(<<>>, x) = <<x>>
  OBVIOUS
<1>3. Append(<<x>>, y) = <<x, y>>
  <2> DEFINE S == {x, y}
             t == Append(<<x>>, y)
  <2>1. t \in Seq(S) /\ Len(t) = Len(<<x>>) + 1
        /\ (\A m \in 1 .. Len(<<x>>) : t[m] = <<x>>[m]) /\ t[Len(<<x>>) + 1] = y
    BY <1>1, AppendProperties
  <2>2. Len(t) = 2 /\ t[1] = x /\ t[2] = y
    BY <2>1
  <2>3. \A m \in 1 .. 2 : t[m] = <<x, y>>[m]
    BY <2>2
  <2> HIDE DEF t
  <2> QED BY <1>1, <2>1, <2>2, <2>3, SeqEqual DEF t
<1>4. Head(<<x>>) = x /\ Head(<<x, y>>) = x
  OBVIOUS
<1>5. <<x>> # <<>>
  OBVIOUS
<1>6. <<x, y>> # <<>>
  OBVIOUS
<1>7. Tail(<<x>>) = <<>>
  OBVIOUS
<1>8. Tail(<<x, y>>) = <<y>>
  OBVIOUS
<1>9. Len(<<x>>) = 1 /\ Len(<<x, y>>) = 2
  OBVIOUS
<1> QED BY <1>2, <1>3, <1>4, <1>5, <1>6, <1>7, <1>8, <1>9

\* What each call of RdmaContext does to the fields of a context.
LEMMA RecvFields ==
  ASSUME NEW n, Accounted(n)
  PROVE  LET m == WithRecv(n) IN
         /\ m.state = n.state /\ m.send = n.send /\ m.out = n.out /\ m.in = n.in
         /\ m.posted["recv"] = n.posted["recv"] + 1 /\ m.posted["send"] = n.posted["send"]
         /\ IF n.state = "error"
            THEN m.recvs = n.recvs /\ m.cq = Append(n.cq, <<"recv", FALSE>>)
            ELSE m.recvs = n.recvs + 1 /\ m.cq = n.cq
  BY DEF WithRecv, Accounted, Shaped, Fields, Opcodes

LEMMA SendFields ==
  ASSUME NEW n, NEW message, Accounted(n)
  PROVE  LET m == WithSend(n, message) IN
         /\ m.state = n.state /\ m.recvs = n.recvs /\ m.out = message /\ m.in = n.in
         /\ m.posted["send"] = n.posted["send"] + 1 /\ m.posted["recv"] = n.posted["recv"]
         /\ IF n.state = "error"
            THEN m.send = n.send /\ m.cq = Append(n.cq, <<"send", FALSE>>)
            ELSE m.send = "posted" /\ m.cq = n.cq
  BY DEF WithSend, Accounted, Shaped, Fields, Opcodes

\* On a working queue pair, and on a broken one.
LEMMA SendPosted ==
  ASSUME NEW n, NEW message, Accounted(n), n.state # "error"
  PROVE  /\ WithSend(n, message).state = n.state
         /\ WithSend(n, message).recvs = n.recvs
         /\ WithSend(n, message).out = message
         /\ WithSend(n, message).send = "posted"
         /\ WithSend(n, message).cq = n.cq
         /\ WithSend(n, message).posted["send"] = n.posted["send"] + 1
         /\ WithSend(n, message).posted["recv"] = n.posted["recv"]
BY SendFields

LEMMA SendFlushed ==
  ASSUME NEW n, NEW message, Accounted(n), n.state = "error"
  PROVE  /\ WithSend(n, message).recvs = n.recvs
         /\ WithSend(n, message).send = n.send
         /\ WithSend(n, message).cq = Append(n.cq, <<"send", FALSE>>)
BY SendFields

LEMMA PolledFields ==
  ASSUME NEW n, Accounted(n), n.cq # <<>>
  PROVE  LET m == Polled(n)
             op == Head(n.cq)[1] IN
         /\ m.state = n.state /\ m.recvs = n.recvs /\ m.send = n.send
         /\ m.out = n.out /\ m.in = n.in /\ m.cq = Tail(n.cq)
         /\ \A o \in Opcodes : m.posted[o] = IF o = op THEN n.posted[o] - 1 ELSE n.posted[o]
<1>1. n.posted \in [Opcodes -> Int]
  BY DEF Accounted
<1> QED BY <1>1 DEF Polled, Accounted, Shaped, Fields

LEMMA RefusedFields ==
  ASSUME NEW n, NEW message, Accounted(n)
  PROVE  LET m == WithSendRefused(n, message) IN
         /\ m.state = n.state /\ m.recvs = n.recvs /\ m.send = n.send /\ m.posted = n.posted
         /\ m.in = n.in /\ m.cq = n.cq
  BY DEF WithSendRefused, Accounted, Shaped, Fields

LEMMA ConnectedFields ==
  ASSUME NEW n, Accounted(n)
  PROVE  LET m == Connected(n) IN
         /\ m.state = "up" /\ m.recvs = n.recvs /\ m.send = n.send /\ m.posted = n.posted
         /\ m.cq = n.cq
  BY DEF Connected, Accounted, Shaped, Fields

LEMMA DestroyedFields == Destroyed.state = "gone" /\ Clear(Destroyed)
  BY DEF Destroyed, NewContext, Clear

\* What is appended to failures is a failure.
LEMMA FailuresStay ==
  ASSUME NEW s \in Seq(Completions), AllFailed(s), NEW op \in Opcodes
  PROVE  AllFailed(Append(s, <<op, FALSE>>))
<1> DEFINE t == Append(s, <<op, FALSE>>)
<1>1. Len(s) \in Nat /\ Len(t) = Len(s) + 1 /\ t[Len(s) + 1] = <<op, FALSE>>
      /\ \A m \in 1 .. Len(s) : t[m] = s[m]
  <2>1. <<op, FALSE>> \in Completions
    BY DEF Completions
  <2>2. Len(s) \in Nat
    OBVIOUS
  <2>3. Len(t) = Len(s) + 1 /\ t[Len(s) + 1] = <<op, FALSE>>
    BY <2>1, AppendProperties
  <2>4. \A m \in 1 .. Len(s) : t[m] = s[m]
    BY <2>1, AppendProperties
  <2> QED BY <2>2, <2>3, <2>4
<1> HIDE DEF t
<1>2. ASSUME NEW m \in 1 .. Len(t) PROVE ~t[m][2]
  <2>1. m = Len(s) + 1 \/ m \in 1 .. Len(s)
    BY <1>1
  <2>2. CASE m = Len(s) + 1
    <3>1. t[m] = <<op, FALSE>>
      BY <1>1, <2>2
    <3>2. ~<<op, FALSE>>[2]
      OBVIOUS
    <3> QED BY <3>1, <3>2, Zenon
  <2>3. CASE m \in 1 .. Len(s)
    BY <1>1, <2>3 DEF AllFailed
  <2> QED BY <2>1, <2>2, <2>3
<1> QED BY <1>2 DEF AllFailed, t

\* And what is left of them when one is polled.
LEMMA FailuresLeft ==
  ASSUME NEW s \in Seq(Completions), s # <<>>, AllFailed(s)
  PROVE  AllFailed(Tail(s))
  BY HeadTailProperties DEF AllFailed

\* The first of some failures is one.
LEMMA HeadFailed ==
  ASSUME NEW s \in Seq(Completions), s # <<>>, AllFailed(s)
  PROVE  ~Head(s)[2]
<1>1. Head(s) = s[1] /\ 1 \in 1 .. Len(s)
  OBVIOUS
<1> QED BY <1>1 DEF AllFailed

\* Sequences of anything.
\* A sequence of elements of S.
LEMMA ListedSeq ==
  ASSUME NEW s, Listed(s), NEW S, \A m \in 1 .. Len(s) : s[m] \in S
  PROVE  s \in Seq(S)
<1>1. s \in [1 .. Len(s) -> S] /\ Len(s) \in Nat
  BY DEF Listed
<1> QED BY <1>1, SeqDef

\* One more element.
LEMMA ListedAppend ==
  ASSUME NEW s, Listed(s), NEW e
  PROVE  /\ Listed(Append(s, e)) /\ Len(Append(s, e)) = Len(s) + 1
         /\ Append(s, e)[Len(s) + 1] = e
         /\ \A m \in 1 .. Len(s) : Append(s, e)[m] = s[m]
<1> DEFINE S == {s[m] : m \in 1 .. Len(s)} \cup {e}
           t == Append(s, e)
<1>1. s \in Seq(S) /\ e \in S
  BY ListedSeq
<1>2. t \in Seq(S) /\ Len(t) = Len(s) + 1 /\ t[Len(s) + 1] = e
  BY <1>1, AppendProperties
<1>3. \A m \in 1 .. Len(s) : t[m] = s[m]
  BY <1>1, AppendProperties
<1> HIDE DEF t, S
<1>4. Listed(t)
  BY <1>2, LenProperties DEF Listed
<1> QED BY <1>2, <1>3, <1>4 DEF t

\* A sequence that agrees with a longer one is a prefix of it.
LEMMA PrefixMeans ==
  ASSUME NEW s, NEW t, Listed(s), Listed(t), Len(s) <= Len(t),
         \A m \in 1 .. Len(s) : s[m] = t[m]
  PROVE  Prefix(s, t)
<1> DEFINE S == {t[m] : m \in 1 .. Len(t)}
           u == SubSeq(t, 1, Len(s))
<1>1. Len(s) \in Nat /\ Len(t) \in Nat
  BY DEF Listed
<1>2. t \in Seq(S)
  BY ListedSeq
<1>3. \A m \in 1 .. Len(s) : t[m] \in S
  BY <1>1
<1>4. s \in Seq(S)
  BY <1>3, ListedSeq
<1>5. u \in Seq(S) /\ Len(u) = Len(s) /\ \A m \in 1 .. Len(s) : u[m] = t[m]
  BY <1>1, <1>3, SubSeqProperties
<1> HIDE DEF u, S
<1>6. s = u
  BY <1>4, <1>5, SeqEqual
<1> QED BY <1>6 DEF Prefix, u

-----------------------------------------------------------------------------

\* What was done is a prefix of what was asked.
LEMMA ExecutedPrefix ==
  ASSUME NEW asked, NEW done, NEW given, NEW taken, Records(asked, done, given, taken)
  PROVE  Prefix(done, [m \in DOMAIN asked |-> Wire(asked[m])])
<1> DEFINE sent == [m \in DOMAIN asked |-> Wire(asked[m])]
<1>1. DOMAIN asked = 1 .. Len(asked) /\ Len(asked) \in Nat
  BY DEF Records, Listed
<1>2. Len(sent) = Len(asked)
  BY <1>1
<1>3. Listed(sent)
  BY <1>1, <1>2 DEF Listed
<1>4. ASSUME NEW m \in 1 .. Len(done) PROVE done[m] = sent[m]
  <2>1. m \in 1 .. Len(asked)
    BY DEF Records, Listed
  <2> QED BY <1>1, <2>1 DEF Records
<1> HIDE DEF sent
<1>5. Prefix(done, sent)
  BY <1>2, <1>3, <1>4, PrefixMeans DEF Records
<1> QED BY <1>5 DEF sent

\* A client that waits for one response at most is one request ahead at most.
LEMMA OneOutstanding ==
  ASSUME NEW asked, NEW done, NEW given, NEW taken, Records(asked, done, given, taken),
         Len(taken) = Len(asked) \/ Len(asked) = Len(taken) + 1
  PROVE  Len(done) >= Len(asked) - 1
<1>1. Len(done) \in Nat /\ Len(asked) \in Nat /\ Len(taken) \in Nat /\ Len(taken) <= Len(done)
  BY DEF Records, Listed
<1> QED BY <1>1

\* The client connects.
LEMMA ConnectsFine ==
  ASSUME NEW t, NEW n, NEW s, NEW asked, NEW done, NEW given, NEW taken, Accounted(n),
         Fine("new", t, n, s, asked, done, given, taken)
  PROVE  Fine("idle", t, Connected(n), s, asked, done, given, taken)
<1> DEFINE m == Connected(n)
<1>1. m.state = "up" /\ m.recvs = 0 /\ m.send = "none" /\ m.cq = <<>> /\ Owes(m, 0, 0)
  BY ConnectedFields DEF Fine, ClientEnd, Clear, Owes
<1> HIDE DEF m
<1>2. Len(asked) = 0 /\ Len(done) = 0 /\ Len(given) = 0 /\ Len(taken) = 0
  BY DEF Fine, InFlight, Records, Listed
<1>3. s.send # "posted"
  BY DEF Fine, InFlight, ServerEnd, Clear
<1> QED BY <1>1, <1>2, <1>3
        DEF m, Fine, ClientEnd, Busy, Unbroken, Clear, InFlight, Records

\* Histories of a client that asks once more.
MoreAsked(asked, more, done, given, taken) ==
  /\ Records(more, done, given, taken)
  /\ Len(asked) <= Len(more) /\ \A i \in 1 .. Len(asked) : more[i] = asked[i]

LEMMA AskedMore ==
  ASSUME NEW asked, NEW done, NEW given, NEW taken, Records(asked, done, given, taken), NEW q
  PROVE  /\ MoreAsked(asked, Append(asked, q), done, given, taken)
         /\ Len(Append(asked, q)) = Len(asked) + 1 /\ Append(asked, q)[Len(asked) + 1] = q
<1> DEFINE more == Append(asked, q)
<1>1. Listed(asked) /\ Len(asked) \in Nat
  BY DEF Records, Listed
<1>2. /\ Listed(more) /\ Len(more) = Len(asked) + 1 /\ more[Len(asked) + 1] = q
      /\ \A i \in 1 .. Len(asked) : more[i] = asked[i]
  BY <1>1, ListedAppend
<1> HIDE DEF more
<1>3. \A i \in 1 .. Len(done) : i \in 1 .. Len(asked)
  BY DEF Records, Listed
<1>4. Records(more, done, given, taken)
  BY <1>2, <1>3 DEF Records, Listed
<1>5. Len(asked) <= Len(more)
  BY <1>1, <1>2
<1> QED BY <1>2, <1>4, <1>5 DEF MoreAsked, more

\* ... and of one that does not.
LEMMA AskedAll ==
  ASSUME NEW asked, NEW done, NEW given, NEW taken, Records(asked, done, given, taken)
  PROVE  MoreAsked(asked, asked, done, given, taken)
  BY DEF Records, Listed, MoreAsked

\* The client's context is gone; it may have given up a request, or taken a response.
LEMMA DepartsFine ==
  ASSUME NEW c, NEW t, NEW n, NEW s, NEW asked, NEW done, NEW given, NEW taken,
         Fine(c, t, n, s, asked, done, given, taken),
         NEW how \in {"absent", "left"}, NEW more, NEW received,
         MoreAsked(asked, more, done, given, received)
  PROVE  Fine(how, t, Destroyed, s, more, done, given, received)
<1>1. ClientEnd(how, Destroyed)
  BY DestroyedFields DEF ClientEnd, Busy
<1>2. ASSUME Pending(t, s)
      PROVE  Len(done) < Len(more) /\ s.in = Wire(more[Len(done) + 1])
  <2>1. Len(done) < Len(asked) /\ s.in = Wire(asked[Len(done) + 1])
    BY <1>2 DEF Fine, InFlight
  <2>2. Len(done) \in Nat /\ Len(asked) \in Nat /\ Len(more) \in Nat
    BY DEF Fine, MoreAsked, Records, Listed
  <2>3. Len(done) + 1 \in 1 .. Len(asked) /\ Len(done) < Len(more)
    BY <2>1, <2>2 DEF MoreAsked
  <2> QED BY <2>1, <2>3 DEF MoreAsked
<1>3. InFlight(how, t, Destroyed, s, more, done, given, received)
  BY <1>2, DestroyedFields DEF Fine, InFlight
<1> QED BY <1>1, <1>3 DEF Fine, MoreAsked

\* The client arms a receive.
LEMMA ArmsFine ==
  ASSUME NEW t, NEW n, NEW s, NEW asked, NEW done, NEW given, NEW taken, Accounted(n),
         Fine("idle", t, n, s, asked, done, given, taken)
  PROVE  Fine("asking", t, WithRecv(n), s, asked, done, given, taken)
<1> DEFINE m == WithRecv(n)
<1>1. m.state = n.state /\ m.state \in {"up", "error"}
  BY RecvFields DEF Fine, ClientEnd, Busy
<1>2. ASSUME n.state = "up" PROVE Unbroken("asking", m)
  <2>1. n.cq = <<>> /\ n.recvs = 0 /\ n.send = "none"
        /\ n.posted["recv"] = 0 /\ n.posted["send"] = 0
    BY <1>2 DEF Fine, ClientEnd, Unbroken, Clear, Owes
  <2>2. m.cq = n.cq /\ m.recvs = n.recvs + 1 /\ m.send = n.send
        /\ m.posted["recv"] = n.posted["recv"] + 1 /\ m.posted["send"] = n.posted["send"]
    BY <1>2, RecvFields
  <2> HIDE DEF m
  <2>3. m.cq = <<>> /\ m.recvs = 1 /\ m.send = "none" /\ Owes(m, 1, 0)
    BY <2>1, <2>2 DEF Owes
  <2> QED BY <2>3 DEF Unbroken
<1>3. ASSUME n.state = "error" PROVE Broken("asking", m)
  <2>1. Broken("idle", n) /\ n.cq \in Seq(Completions) /\ "recv" \in Opcodes
    BY <1>3 DEF Fine, ClientEnd, Accounted, Opcodes
  <2>2. m.send = "none" /\ m.recvs = 0 /\ m.cq = Append(n.cq, <<"recv", FALSE>>)
    BY <1>3, <2>1, RecvFields DEF Broken
  <2> HIDE DEF m
  <2> QED BY <2>1, <2>2, FailuresStay DEF Broken
<1> HIDE DEF m
<1> QED BY <1>1, <1>2, <1>3 DEF m, Fine, ClientEnd, Busy, InFlight

\* Histories of a client that takes a response.
LEMMA TakenMore ==
  ASSUME NEW asked, NEW done, NEW given, NEW taken, Records(asked, done, given, taken), NEW n,
         Len(asked) = Len(taken) + 1, Len(given) = Len(asked), n.in = given[Len(given)]
  PROVE  /\ Records(asked, done, given, Append(taken, n.in))
         /\ Len(Append(taken, n.in)) = Len(taken) + 1
<1> DEFINE q == n.in
           received == Append(taken, q)
<1>1. Listed(taken) /\ Len(taken) \in Nat /\ Len(given) = Len(taken) + 1
  BY DEF Records, Listed
<1>2. q = given[Len(given)]
  OBVIOUS
<1> HIDE DEF q
<1>3. /\ Listed(received) /\ Len(received) = Len(taken) + 1 /\ received[Len(taken) + 1] = q
      /\ \A i \in 1 .. Len(taken) : received[i] = taken[i]
  BY <1>1, ListedAppend
<1> HIDE DEF received
<1>4. ASSUME NEW i \in 1 .. Len(received) PROVE received[i] = given[i]
  <2>1. i \in 1 .. Len(taken) \/ i = Len(taken) + 1
    BY <1>1, <1>3
  <2> QED BY <1>1, <1>2, <1>3, <2>1 DEF Records
<1>5. Records(asked, done, given, received)
  BY <1>1, <1>3, <1>4 DEF Records
<1> QED BY <1>3, <1>5, Zenon DEF q, received

\* Histories of a thread that executes a request and answers it.
Served(asked, done, given, taken, q, a) ==
  /\ Records(asked, Append(done, q), Append(given, a), taken)
  /\ Len(Append(given, a)) = Len(given) + 1 /\ Len(Append(given, a)) > 0
  /\ Append(given, a)[Len(Append(given, a))] = a

LEMMA DoneMore ==
  ASSUME NEW asked, NEW done, NEW given, NEW taken, Records(asked, done, given, taken),
         Len(done) < Len(asked), NEW q, q = Wire(asked[Len(done) + 1]), NEW a
  PROVE  Served(asked, done, given, taken, q, a)
<1> DEFINE executions == Append(done, q)
           responses == Append(given, a)
<1>1. /\ Listed(done) /\ Listed(given) /\ Listed(asked) /\ Listed(taken)
      /\ Len(done) \in Nat /\ Len(given) \in Nat /\ Len(asked) \in Nat /\ Len(taken) \in Nat
      /\ Len(taken) <= Len(given) /\ Len(given) = Len(done) /\ Len(done) <= Len(asked)
  BY DEF Records, Listed
<1>2. /\ Listed(executions) /\ Len(executions) = Len(done) + 1
      /\ executions[Len(done) + 1] = q
      /\ \A i \in 1 .. Len(done) : executions[i] = done[i]
  BY <1>1, ListedAppend
<1>3. /\ Listed(responses) /\ Len(responses) = Len(given) + 1
      /\ responses[Len(given) + 1] = a
      /\ \A i \in 1 .. Len(given) : responses[i] = given[i]
  BY <1>1, ListedAppend
<1> HIDE DEF executions, responses
<1>4. ASSUME NEW i \in 1 .. Len(executions) PROVE executions[i] = Wire(asked[i])
  <2>1. i \in 1 .. Len(done) \/ i = Len(done) + 1
    BY <1>1, <1>2
  <2>2. CASE i \in 1 .. Len(done)
    BY <1>2, <2>2 DEF Records
  <2>3. CASE i = Len(done) + 1
    BY <1>2, <2>3
  <2> QED BY <2>1, <2>2, <2>3
<1>5. ASSUME NEW i \in 1 .. Len(taken) PROVE taken[i] = responses[i]
  <2>1. i \in 1 .. Len(given)
    BY <1>1
  <2> QED BY <1>3, <2>1 DEF Records
<1>6. Len(taken) <= Len(responses) /\ Len(responses) = Len(executions)
      /\ Len(executions) <= Len(asked) /\ Len(responses) > 0
  BY <1>1, <1>2, <1>3
<1>7. Records(asked, executions, responses, taken)
  BY <1>1, <1>2, <1>3, <1>4, <1>5, <1>6 DEF Records
<1>8. responses[Len(responses)] = a
  BY <1>3
<1> QED BY <1>3, <1>6, <1>7, <1>8 DEF Served, executions, responses

\* The client sends its request.
LEMMA AsksFine ==
  ASSUME NEW t, NEW n, NEW s, NEW asked, NEW done, NEW given, NEW taken, Accounted(n),
         Fine("asking", t, n, s, asked, done, given, taken), NEW q
  PROVE  Fine("first poll", t, WithSend(n, Wire(q)), s, Append(asked, q), done, given, taken)
<1> DEFINE m == WithSend(n, Wire(q))
           more == Append(asked, q)
<1>1. m.state = n.state /\ m.state \in {"up", "error"} /\ m.out = Wire(q)
  BY SendFields DEF Fine, ClientEnd, Busy
<1>2. ASSUME n.state = "up"
      PROVE  Unbroken("first poll", m) /\ m.recvs = 1 /\ m.send = "posted"
  <2>1. n.cq = <<>> /\ n.recvs = 1 /\ n.posted["recv"] = 1 /\ n.posted["send"] = 0
    BY <1>2 DEF Fine, ClientEnd, Unbroken, Owes
  <2>2. m.cq = n.cq /\ m.recvs = n.recvs /\ m.send = "posted"
        /\ m.posted["recv"] = n.posted["recv"] /\ m.posted["send"] = n.posted["send"] + 1
    <3>1. n.state # "error"
      BY <1>2
    <3> QED BY <3>1, SendPosted, Zenon
  <2> HIDE DEF m
  <2>3. m.cq = <<>> /\ m.recvs = 1 /\ m.send = "posted" /\ Owes(m, 1, 1)
    BY <2>1, <2>2 DEF Owes
  <2> QED BY <2>3 DEF Unbroken
<1>3. ASSUME n.state = "error" PROVE Broken("first poll", m)
  <2>1. Broken("asking", n) /\ n.cq \in Seq(Completions) /\ "send" \in Opcodes
    BY <1>3 DEF Fine, ClientEnd, Accounted, Opcodes
  <2>2. m.send = "none" /\ m.recvs = 0 /\ m.cq = Append(n.cq, <<"send", FALSE>>)
    <3>1. n.send = "none" /\ n.recvs = 0
      BY <2>1 DEF Broken
    <3>2. m.send = n.send /\ m.recvs = n.recvs /\ m.cq = Append(n.cq, <<"send", FALSE>>)
      BY <1>3, SendFlushed, Zenon
    <3> QED BY <3>1, <3>2
  <2>3. AllFailed(m.cq) /\ m.cq \in Seq(Completions)
    BY <2>1, <2>2, FailuresStay, Completes DEF Broken
  <2> HIDE DEF m
  <2> QED BY <2>2, <2>3, FailuresLeft DEF Broken
<1>4. /\ Records(more, done, given, taken) /\ Len(more) = Len(asked) + 1
      /\ more[Len(asked) + 1] = q /\ \A i \in 1 .. Len(asked) : more[i] = asked[i]
  BY AskedMore DEF Fine, MoreAsked
<1> HIDE DEF m, more
<1>5. /\ Len(asked) \in Nat /\ Len(done) \in Nat /\ Len(given) = Len(done) /\ Len(taken) \in Nat
      /\ Len(done) <= Len(asked) /\ Len(taken) <= Len(done)
  BY DEF Fine, Records, Listed
<1>6. Pending(t, s) => Len(done) < Len(more) /\ s.in = Wire(more[Len(done) + 1])
  <2>1. Pending(t, s) => Len(done) < Len(asked) /\ s.in = Wire(asked[Len(done) + 1])
    BY DEF Fine, InFlight
  <2>2. Pending(t, s) => Len(done) + 1 \in 1 .. Len(asked)
    BY <1>5, <2>1
  <2> QED BY <1>4, <1>5, <2>1, <2>2
<1>7. n.state = "up" => Len(taken) = Len(asked) /\ s.send # "posted"
  BY DEF Fine, InFlight
<1>8. InFlight("first poll", t, m, s, more, done, given, taken)
  <2>1. s.send = "posted" => Len(given) > 0 /\ s.out = given[Len(given)]
    BY DEF Fine, InFlight
  <2>2. ASSUME m.state = "up"
        PROVE  /\ Len(more) = Len(taken) + 1 /\ Len(done) = Len(taken) /\ ~Pending(t, s)
               /\ s.send # "posted" /\ m.out = Wire(more[Len(more)]) /\ m.recvs # 0
    <3>1. m.recvs = 1 /\ Len(taken) = Len(asked) /\ s.send # "posted"
      BY <1>1, <1>2, <1>7, <2>2
    <3>2. Len(more) = Len(taken) + 1 /\ Len(done) = Len(taken)
      BY <1>4, <1>5, <3>1
    <3>3. ~Pending(t, s)
      <4>1. Pending(t, s) => Len(done) < Len(asked)
        BY DEF Fine, InFlight
      <4> QED BY <1>5, <3>1, <3>2, <4>1
    <3>4. m.out = Wire(more[Len(more)])
      BY <1>1, <1>4
    <3> QED BY <3>1, <3>2, <3>3, <3>4
  <2> QED BY <1>6, <2>1, <2>2 DEF InFlight
<1>9. ClientEnd("first poll", m)
  BY <1>1, <1>2, <1>3 DEF ClientEnd, Busy
<1> QED BY <1>4, <1>8, <1>9 DEF Fine, m, more

\* The opcode and the outcome of a completion.
LEMMA Outcomes ==
  ASSUME NEW x
  PROVE  /\ x = SendDone => x[1] = "send" /\ x[2]
         /\ x = RecvDone => x[1] = "recv" /\ x[2]
         /\ x = SendFailed => x[1] = "send" /\ ~x[2]
<1>1. SendDone[1] = "send" /\ SendDone[2]
  BY DEF SendDone
<1>2. RecvDone[1] = "recv" /\ RecvDone[2]
  BY DEF RecvDone
<1>3. SendFailed[1] = "send" /\ ~SendFailed[2]
  BY DEF SendFailed
<1> QED BY <1>1, <1>2, <1>3, Zenon

\* Numbers, for steps that are about strings.
LEMMA OneLess == 1 - 1 = 0 /\ 1 # 0 /\ 1 \in Int /\ 0 \in Int
  OBVIOUS

\* Both completions of a request, polled in either order.
LEMMA Pairs ==
  /\ Head(<<SendDone, RecvDone>>) = SendDone /\ Tail(<<SendDone, RecvDone>>) = <<RecvDone>>
  /\ Head(<<RecvDone, SendDone>>) = RecvDone /\ Tail(<<RecvDone, SendDone>>) = <<SendDone>>
  BY ShortSequences, Zenon

\* What is owed once a completion is polled.
LEMMA Retires ==
  ASSUME NEW n, Accounted(n), n.cq # <<>>, NEW recvs \in Int, NEW sends \in Int,
         Owes(n, recvs, sends)
  PROVE  /\ Head(n.cq) = SendDone => Owes(Polled(n), recvs, sends - 1)
         /\ Head(n.cq) = RecvDone => Owes(Polled(n), recvs - 1, sends)
<1> DEFINE m == Polled(n)
<1>1. \A o \in Opcodes : m.posted[o] = IF o = Head(n.cq)[1] THEN n.posted[o] - 1 ELSE n.posted[o]
  BY PolledFields
<1> HIDE DEF m
<1>2. n.posted["recv"] = recvs /\ n.posted["send"] = sends
  BY DEF Owes
<1>3. ASSUME Head(n.cq) = SendDone PROVE Owes(m, recvs, sends - 1)
  <2>1. Head(n.cq)[1] = "send"
    BY <1>3, Outcomes, Zenon
  <2>2. m.posted["recv"] = n.posted["recv"] /\ m.posted["send"] = n.posted["send"] - 1
    BY <1>1, <2>1 DEF Opcodes
  <2> QED BY <1>2, <2>2 DEF Owes
<1>4. ASSUME Head(n.cq) = RecvDone PROVE Owes(m, recvs - 1, sends)
  <2>1. Head(n.cq)[1] = "recv"
    BY <1>4, Outcomes, Zenon
  <2>2. m.posted["send"] = n.posted["send"] /\ m.posted["recv"] = n.posted["recv"] - 1
    BY <1>1, <2>1 DEF Opcodes
  <2> QED BY <1>2, <2>2 DEF Owes
<1> QED BY <1>3, <1>4 DEF m

\* The client takes the first completion of its request.
LEMMA PollsFirstFine ==
  ASSUME NEW t, NEW n, NEW s, NEW asked, NEW done, NEW given, NEW taken, Accounted(n),
         Fine("first poll", t, n, s, asked, done, given, taken), n.cq # <<>>
  PROVE  Fine("second poll", t, Polled(n), s, asked, done, given, taken)
<1> DEFINE m == Polled(n)
<1>1. m.state = n.state /\ m.recvs = n.recvs /\ m.send = n.send /\ m.out = n.out
      /\ m.in = n.in /\ m.cq = Tail(n.cq)
  BY PolledFields
<1>2. ASSUME Owes(n, 1, 1)
      PROVE  /\ Head(n.cq) = SendDone => Owes(m, 1, 0)
             /\ Head(n.cq) = RecvDone => Owes(m, 0, 1)
  BY <1>2, OneLess, Retires
<1>3. n.state \in {"up", "error"}
  BY DEF Fine, ClientEnd, Busy
<1> HIDE DEF m
<1>4. ASSUME n.state = "up" PROVE Unbroken("second poll", m) /\ n.send # "posted"
  <2>1. Unbroken("first poll", n)
    BY <1>4 DEF Fine, ClientEnd
  <2>2. /\ Head(n.cq) = SendDone => Owes(m, 1, 0)
        /\ Head(n.cq) = RecvDone => Owes(m, 0, 1)
    BY <1>2, <2>1 DEF Unbroken
  <2>5. CASE n.recvs = 1 /\ n.send = "none" /\ n.cq = <<SendDone>>
    <3>1. Head(n.cq) = SendDone /\ Tail(n.cq) = <<>>
      BY <2>5, ShortSequences
    <3> QED BY <1>1, <2>2, <2>5, <3>1 DEF Unbroken
  <2>6. CASE n.recvs = 0 /\ n.send = "landed" /\ n.cq = <<RecvDone>>
    <3>1. Head(n.cq) = RecvDone /\ Tail(n.cq) = <<>>
      BY <2>6, ShortSequences
    <3> QED BY <1>1, <2>2, <2>6, <3>1 DEF Unbroken
  <2>7. CASE n.recvs = 0 /\ n.send = "none" /\ n.cq = <<SendDone, RecvDone>>
    <3>1. Head(n.cq) = SendDone /\ Tail(n.cq) = <<RecvDone>>
      BY <2>7, Pairs, Zenon
    <3> QED BY <1>1, <2>2, <2>7, <3>1 DEF Unbroken
  <2>8. CASE n.recvs = 0 /\ n.send = "none" /\ n.cq = <<RecvDone, SendDone>>
    <3>1. Head(n.cq) = RecvDone /\ Tail(n.cq) = <<SendDone>>
      BY <2>8, Pairs, Zenon
    <3> QED BY <1>1, <2>2, <2>8, <3>1 DEF Unbroken
  <2> QED BY <2>1, <2>5, <2>6, <2>7, <2>8 DEF Unbroken
<1>5. ASSUME n.state = "error" PROVE Broken("second poll", m)
  BY <1>1, <1>5 DEF Fine, ClientEnd, Broken
<1>6. ClientEnd("second poll", m)
  BY <1>1, <1>3, <1>4, <1>5 DEF ClientEnd, Busy
<1>7. InFlight("second poll", t, m, s, asked, done, given, taken)
  BY <1>1, <1>4 DEF Fine, InFlight
<1> QED BY <1>6, <1>7 DEF Fine, m

\* A completion that fails is polled only from a broken queue pair, and one that
\* succeeds, second, only from a working one.
LEMMA PolledState ==
  ASSUME NEW pc \in {"first poll", "second poll"}, NEW t, NEW n, NEW s,
         NEW asked, NEW done, NEW given, NEW taken, Accounted(n),
         Fine(pc, t, n, s, asked, done, given, taken), n.cq # <<>>
  PROVE  /\ ~Head(n.cq)[2] => n.state = "error"
         /\ Head(n.cq)[2] /\ pc = "second poll" => n.state = "up"
<1>1. n.state \in {"up", "error"}
  BY DEF Fine, ClientEnd, Busy
<1>2. ASSUME n.state = "up" PROVE Head(n.cq)[2]
  <2>1. n.cq \in {<<SendDone>>, <<RecvDone>>, <<SendDone, RecvDone>>, <<RecvDone, SendDone>>}
    BY <1>2 DEF Fine, ClientEnd, Unbroken
  <2>2. Head(n.cq) = SendDone \/ Head(n.cq) = RecvDone
    <3>1. \A x, y : Head(<<x>>) = x /\ Head(<<x, y>>) = x
      BY ShortSequences
    <3> QED BY <2>1, <3>1
  <2> QED BY <2>2, Outcomes, Zenon
<1>3. ASSUME n.state = "error", pc = "second poll" PROVE ~Head(n.cq)[2]
  <2>1. AllFailed(n.cq)
    BY <1>3 DEF Fine, ClientEnd, Broken
  <2>2. n.cq \in Seq(Completions)
    BY DEF Accounted
  <2> QED BY <2>1, <2>2, HeadFailed
<1> QED BY <1>1, <1>2, <1>3

\* The client takes the second completion, and the response with it.
LEMMA TakesFine ==
  ASSUME NEW t, NEW n, NEW s, NEW asked, NEW done, NEW given, NEW taken, Accounted(n),
         Fine("second poll", t, n, s, asked, done, given, taken), PollSucceeds(n)
  PROVE  /\ Records(asked, done, given, Append(taken, n.in))
         /\ Fine("idle", t, Polled(n), s, asked, done, given, Append(taken, n.in))
<1> DEFINE m == Polled(n)
           received == Append(taken, n.in)
<1>1. m.state = n.state /\ m.recvs = n.recvs /\ m.send = n.send /\ m.cq = Tail(n.cq)
  BY PolledFields DEF PollSucceeds
<1>2. \A recvs, sends \in Int : Owes(n, recvs, sends) =>
        /\ Head(n.cq) = SendDone => Owes(m, recvs, sends - 1)
        /\ Head(n.cq) = RecvDone => Owes(m, recvs - 1, sends)
  BY Retires DEF PollSucceeds
<1>3. n.state = "up" /\ Unbroken("second poll", n)
  BY PolledState DEF PollSucceeds, Fine, ClientEnd
<1>4. n.recvs = 0 /\ n.send = "none" /\ m.cq = <<>> /\ Owes(m, 0, 0)
  <2> HIDE DEF m
  <2>1. CASE n.recvs = 0 /\ n.send = "none" /\ n.cq = <<RecvDone>> /\ Owes(n, 1, 0)
    <3>1. Head(n.cq) = RecvDone /\ m.cq = <<>>
      BY <1>1, <2>1, ShortSequences
    <3> QED BY <1>2, <2>1, <3>1, OneLess
  <2>2. CASE n.recvs = 0 /\ n.send = "none" /\ n.cq = <<SendDone>> /\ Owes(n, 0, 1)
    <3>1. Head(n.cq) = SendDone /\ m.cq = <<>>
      BY <1>1, <2>2, ShortSequences
    <3> QED BY <1>2, <2>2, <3>1, OneLess
  <2>3. n.cq # <<>>
    BY DEF PollSucceeds
  <2> QED BY <1>3, <2>1, <2>2, <2>3 DEF Unbroken
<1>5. /\ Len(asked) = Len(taken) + 1 /\ Len(given) = Len(asked) /\ s.send # "posted"
      /\ n.in = given[Len(given)]
  BY <1>3, <1>4 DEF Fine, InFlight
<1> HIDE DEF m, received
<1>6. Records(asked, done, given, received) /\ Len(received) = Len(taken) + 1
  <2>1. Records(asked, done, given, taken)
    BY DEF Fine
  <2>2. Records(asked, done, given, Append(taken, n.in))
    BY <1>5, <2>1, TakenMore, Zenon
  <2>3. Listed(taken)
    BY <2>1 DEF Records
  <2>4. Len(Append(taken, n.in)) = Len(taken) + 1
    BY <2>3, ListedAppend, Zenon
  <2> QED BY <2>2, <2>4 DEF received
<1>7. ClientEnd("idle", m)
  BY <1>1, <1>3, <1>4 DEF ClientEnd, Busy, Unbroken, Clear
<1>8. InFlight("idle", t, m, s, asked, done, given, received)
  BY <1>5, <1>6 DEF Fine, InFlight
<1> QED BY <1>6, <1>7, <1>8 DEF Fine, m, received

\* The client has a broken queue pair; it may have given up a request.
LEMMA BrokenFine ==
  ASSUME NEW pc \in Busy, NEW t, NEW n, NEW s, NEW asked, NEW done, NEW given, NEW taken,
         Fine(pc, t, n, s, asked, done, given, taken),
         NEW next \in Busy, NEW m, m.state = "error", Broken(next, m),
         NEW more, MoreAsked(asked, more, done, given, taken)
  PROVE  Fine(next, t, m, s, more, done, given, taken)
<1>1. ClientEnd(next, m) /\ next # "new"
  BY DEF ClientEnd, Busy
<1>2. ASSUME Pending(t, s)
      PROVE  Len(done) < Len(more) /\ s.in = Wire(more[Len(done) + 1])
  <2>1. Len(done) < Len(asked) /\ s.in = Wire(asked[Len(done) + 1])
    BY <1>2 DEF Fine, InFlight
  <2>2. Len(done) \in Nat /\ Len(asked) \in Nat /\ Len(more) \in Nat
    BY DEF Fine, MoreAsked, Records, Listed
  <2>3. Len(done) + 1 \in 1 .. Len(asked) /\ Len(done) < Len(more)
    BY <2>1, <2>2 DEF MoreAsked
  <2> QED BY <2>1, <2>3 DEF MoreAsked
<1>3. InFlight(next, t, m, s, more, done, given, taken)
  BY <1>1, <1>2 DEF Fine, InFlight
<1> QED BY <1>1, <1>3 DEF Fine, MoreAsked

\* A request fails when one of its completions does.
LEMMA FailsFine ==
  ASSUME NEW pc \in {"first poll", "second poll"}, NEW t, NEW n, NEW s,
         NEW asked, NEW done, NEW given, NEW taken, Accounted(n),
         Fine(pc, t, n, s, asked, done, given, taken), PollFails(n)
  PROVE  Fine("idle", t, Polled(n), s, asked, done, given, taken)
<1> DEFINE m == Polled(n)
<1>1. m.state = n.state /\ m.recvs = n.recvs /\ m.send = n.send /\ m.cq = Tail(n.cq)
  BY PolledFields DEF PollFails
<1>2. n.state = "error"
  BY PolledState DEF PollFails
<1>3. Broken(pc, n)
  BY <1>2 DEF Fine, ClientEnd
<1>4. AllFailed(Tail(n.cq))
  <2>1. n.cq \in Seq(Completions)
    BY DEF Accounted
  <2> QED BY <1>3, <2>1, FailuresLeft DEF Broken, PollFails
<1> HIDE DEF m
<1>5. Broken("idle", m)
  BY <1>1, <1>3, <1>4 DEF Broken
<1>6. Records(asked, done, given, taken)
  BY DEF Fine
<1>7. pc \in Busy /\ "idle" \in Busy
  BY DEF Busy
<1>8. MoreAsked(asked, asked, done, given, taken)
  BY <1>6, AskedAll, Zenon
<1>9. Fine("idle", t, m, s, asked, done, given, taken)
  BY <1>1, <1>2, <1>5, <1>6, <1>7, <1>8, BrokenFine
<1> QED BY <1>9 DEF m

-----------------------------------------------------------------------------
(* The thread.                                                             *)

\* No request waits at the thread's end and no response has to leave it.
LEMMA ThreadFine ==
  ASSUME NEW c, c # "new", NEW t, NEW n, NEW s, NEW asked, NEW done, NEW given, NEW taken,
         Fine(c, t, n, s, asked, done, given, taken),
         NEW next, NEW m, ServerEnd(next, m), ~Pending(next, m), m.send # "posted"
  PROVE  Fine(c, next, n, m, asked, done, given, taken)
<1>1. InFlight(c, next, n, m, asked, done, given, taken)
  BY DEF Fine, InFlight
<1> QED BY <1>1 DEF Fine

\* The thread connects.
LEMMA ThreadConnectsFine ==
  ASSUME NEW c, c # "new", NEW n, NEW s, NEW asked, NEW done, NEW given, NEW taken, Accounted(s),
         Fine(c, "handshake", n, s, asked, done, given, taken)
  PROVE  Fine(c, "arming", n, Connected(s), asked, done, given, taken)
<1> DEFINE m == Connected(s)
<1>1. m.state = "up" /\ Clear(m)
  BY ConnectedFields DEF Fine, ServerEnd, Clear
<1> HIDE DEF m
<1>2. ServerEnd("arming", m) /\ ~Pending("arming", m) /\ m.send # "posted"
  BY <1>1 DEF ServerEnd, Pending, Clear
<1>3. Fine(c, "arming", n, m, asked, done, given, taken)
  BY <1>2, ThreadFine
<1> QED BY <1>3 DEF m

\* The thread returns.
LEMMA ThreadReturnsFine ==
  ASSUME NEW c, c # "new", NEW t, NEW n, NEW s, NEW asked, NEW done, NEW given, NEW taken,
         Fine(c, t, n, s, asked, done, given, taken)
  PROVE  Fine(c, "ended", n, Destroyed, asked, done, given, taken)
<1>1. ServerEnd("ended", Destroyed) /\ ~Pending("ended", Destroyed) /\ Destroyed.send # "posted"
  BY DestroyedFields DEF ServerEnd, Pending, Clear
<1> QED BY <1>1, ThreadFine

\* A thread that has connected has a client that has.
LEMMA ClientStarted ==
  ASSUME NEW c, NEW t, NEW n, NEW s, NEW asked, NEW done, NEW given, NEW taken,
         Fine(c, t, n, s, asked, done, given, taken), t # "handshake"
  PROVE  c # "new"
  BY DEF Fine, InFlight

\* The thread arms a receive.
LEMMA ThreadArmsFine ==
  ASSUME NEW c, NEW n, NEW s, NEW asked, NEW done, NEW given, NEW taken, Accounted(s),
         Fine(c, "arming", n, s, asked, done, given, taken)
  PROVE  Fine(c, "receiving", n, WithRecv(s), asked, done, given, taken)
<1> DEFINE m == WithRecv(s)
<1>1. s.state = "up" /\ s.cq = <<>> /\ s.recvs = 0 /\ s.send = "none"
  BY DEF Fine, ServerEnd, Clear
<1>2. m.state = s.state /\ m.cq = s.cq /\ m.recvs = s.recvs + 1 /\ m.send = s.send
  BY <1>1, RecvFields
<1> HIDE DEF m
<1>3. m.state = "up" /\ m.cq = <<>> /\ m.recvs = 1 /\ m.send = "none"
  BY <1>1, <1>2
<1>4. ServerEnd("receiving", m) /\ ~Pending("receiving", m)
  BY <1>3 DEF ServerEnd, Pending
<1>5. Fine(c, "receiving", n, m, asked, done, given, taken)
  BY <1>3, <1>4, ClientStarted, ThreadFine
<1> QED BY <1>5 DEF m

\* The thread goes on when its response is out.
LEMMA ThreadGoesOnFine ==
  ASSUME NEW c, NEW n, NEW s, NEW asked, NEW done, NEW given, NEW taken, Accounted(s),
         Fine(c, "responding", n, s, asked, done, given, taken), PollSucceeds(s)
  PROVE  Fine(c, "arming", n, Polled(s), asked, done, given, taken)
<1> DEFINE m == Polled(s)
<1>1. m.state = s.state /\ m.recvs = s.recvs /\ m.send = s.send /\ m.cq = Tail(s.cq)
  BY PolledFields DEF PollSucceeds
<1>2. s.recvs = 0 /\ s.send = "none" /\ s.state = "up" /\ s.cq = <<SendDone>>
  <2>1. s.cq # <<SendFailed>>
    <3>1. Head(<<SendFailed>>) = SendFailed
      BY ShortSequences
    <3> QED BY <3>1, Outcomes, Zenon DEF PollSucceeds
  <2>2. s.cq # <<>>
    BY DEF PollSucceeds
  <2> QED BY <2>1, <2>2 DEF Fine, ServerEnd
<1>3. Tail(s.cq) = <<>>
  BY <1>2, ShortSequences
<1> HIDE DEF m
<1>4. m.send # "posted" /\ ServerEnd("arming", m) /\ ~Pending("arming", m)
  BY <1>1, <1>2, <1>3 DEF ServerEnd, Pending, Clear
<1>5. Fine(c, "arming", n, m, asked, done, given, taken)
  BY <1>4, ClientStarted, ThreadFine
<1> QED BY <1>5 DEF m

\* With a request that is not executed, its client waits and has no response.
LEMMA OneBehind ==
  ASSUME NEW asked, NEW done, NEW given, NEW taken, Records(asked, done, given, taken),
         Len(done) < Len(asked)
  PROVE  /\ Len(taken) # Len(asked) /\ Len(given) # Len(asked)
         /\ Len(asked) = Len(taken) + 1 => Len(given) + 1 = Len(asked)
<1>1. /\ Len(done) \in Nat /\ Len(given) \in Nat /\ Len(asked) \in Nat /\ Len(taken) \in Nat
      /\ Len(taken) <= Len(given) /\ Len(given) = Len(done) /\ Len(done) < Len(asked)
  BY DEF Records, Listed
<1> QED BY <1>1

\* A client waiting for a request that is not executed is ahead of the thread.
LEMMA Shorter ==
  ASSUME NEW asked, NEW done, NEW given, NEW taken, Records(asked, done, given, taken),
         Len(asked) = Len(taken) + 1, Len(done) = Len(taken)
  PROVE  Len(done) < Len(asked)
  BY DEF Records, Listed

\* The thread executes the request in its receive buffer and posts the answer.
LEMMA ThreadServesFine ==
  ASSUME NEW c, NEW n, NEW s, NEW asked, NEW done, NEW given, NEW taken, Accounted(s),
         Fine(c, "receiving", n, s, asked, done, given, taken), PollSucceeds(s), NEW a
  PROVE  Fine(c, "responding", n, WithSend(Polled(s), a),
              asked, Append(done, s.in), Append(given, a), taken)
<1> DEFINE k == Polled(s)
           m == WithSend(k, a)
           executions == Append(done, s.in)
           responses == Append(given, a)
<1>1. s.state = "up" /\ s.send = "none" /\ s.recvs = 0 /\ s.cq = <<RecvDone>>
  <2>1. s.cq # <<>>
    BY DEF PollSucceeds
  <2> QED BY <2>1 DEF Fine, ServerEnd
<1>2. Accounted(k) /\ k.state = "up" /\ k.recvs = 0 /\ k.cq = <<>>
  <2>1. s.cq # <<>>
    BY DEF PollSucceeds
  <2>2. Accounted(k)
    BY <2>1, PolledAccounted DEF Ready
  <2>3. k.state = s.state /\ k.recvs = s.recvs /\ k.cq = Tail(s.cq)
    BY <2>1, PolledFields
  <2>4. Tail(s.cq) = <<>>
    BY <1>1, ShortSequences
  <2> QED BY <1>1, <2>2, <2>3, <2>4
<1> HIDE DEF k
<1>3. m.state = "up" /\ m.recvs = 0 /\ m.send = "posted" /\ m.cq = <<>> /\ m.out = a
  <2>1. k.state # "error"
    BY <1>2
  <2>2. m.state = k.state /\ m.recvs = k.recvs /\ m.out = a /\ m.send = "posted" /\ m.cq = k.cq
    BY <1>2, <2>1, SendPosted, Zenon
  <2> HIDE DEF m
  <2> QED BY <1>2, <2>2
<1> HIDE DEF m
<1>4. Len(done) < Len(asked) /\ s.in = Wire(asked[Len(done) + 1])
      /\ Records(asked, done, given, taken)
  BY <1>1 DEF Fine, InFlight, Pending
<1>5. Served(asked, done, given, taken, s.in, a)
  BY <1>4, DoneMore, Zenon
<1>6. /\ Records(asked, executions, responses, taken)
      /\ Len(responses) = Len(given) + 1 /\ Len(responses) > 0 /\ responses[Len(responses)] = a
  BY <1>5 DEF Served
<1> HIDE DEF executions, responses
<1>7. ServerEnd("responding", m) /\ ~Pending("responding", m)
  BY <1>3 DEF ServerEnd, Pending
<1>8. c # "new"
  BY ClientStarted
<1>9. ~(n.state = "up" /\ c \in {"idle", "asking"})
  <2>1. Len(taken) # Len(asked)
    BY <1>4, OneBehind, Zenon
  <2> QED BY <2>1 DEF Fine, InFlight
<1>10. ASSUME n.state = "up", c \in {"first poll", "second poll"}
       PROVE  /\ Len(asked) = Len(taken) + 1 /\ n.send # "posted" /\ n.recvs # 0
              /\ Len(responses) = Len(asked)
  <2>1. Len(asked) = Len(taken) + 1
    BY <1>10 DEF Fine, InFlight
  <2>2. Len(given) # Len(asked) /\ Len(given) + 1 = Len(asked)
    BY <1>4, <2>1, OneBehind, Zenon
  <2>3. Pending("receiving", s)
    BY <1>1 DEF Pending
  <2>4. n.send # "posted" /\ n.recvs # 0
    BY <1>10, <2>2, <2>3 DEF Fine, InFlight
  <2> QED BY <1>6, <2>1, <2>2, <2>4
<1>11. InFlight(c, "responding", n, m, asked, executions, responses, taken)
  BY <1>3, <1>6, <1>7, <1>8, <1>9, <1>10 DEF InFlight
<1>12. Fine(c, "responding", n, m, asked, executions, responses, taken)
  BY <1>6, <1>7, <1>11 DEF Fine
<1> QED BY <1>12 DEF k, m, executions, responses

-----------------------------------------------------------------------------
(* The hardware.                                                           *)

\* A send is outstanding only in a working queue pair whose end waits for it.
LEMMA ClientSends ==
  ASSUME NEW c, NEW n, ClientEnd(c, n), n.send # "none"
  PROVE  n.state = "up" /\ c \in {"first poll", "second poll"} /\ Unbroken(c, n)
<1>1. n.state \in {"up", "error"} /\ c \in Busy
  BY DEF ClientEnd, Clear, Busy
<1>2. n.state = "up"
  BY <1>1 DEF ClientEnd, Broken
<1>3. Unbroken(c, n)
  BY <1>2 DEF ClientEnd
<1>4. c # "idle" /\ c # "asking"
  BY <1>3 DEF Unbroken, Clear
<1> QED BY <1>1, <1>2, <1>3, <1>4 DEF Busy

\* And of a thread.
LEMMA ServerSends ==
  ASSUME NEW t, NEW s, ServerEnd(t, s), s.send # "none"
  PROVE  /\ t = "responding" /\ s.state = "up" /\ s.recvs = 0 /\ s.cq = <<>>
         /\ s.send \in {"posted", "landed"}
  BY DEF ServerEnd, Clear

\* A request arrives.
LEMMA RequestArrives ==
  ASSUME NEW c, NEW t, NEW n, NEW s, NEW asked, NEW done, NEW given, NEW taken,
         Accounted(n), Accounted(s), Fine(c, t, n, s, asked, done, given, taken),
         n.send = "posted", s.state = "up", s.recvs > 0
  PROVE  Fine(c, t, [n EXCEPT !.send = "landed"],
              [s EXCEPT !.recvs = @ - 1, !.in = n.out, !.cq = Append(@, RecvDone)],
              asked, done, given, taken)
<1> DEFINE m == [n EXCEPT !.send = "landed"]
           r == [s EXCEPT !.recvs = @ - 1, !.in = n.out, !.cq = Append(@, RecvDone)]
<1>1. /\ m.state = n.state /\ m.posted = n.posted /\ m.recvs = n.recvs /\ m.send = "landed"
      /\ m.in = n.in /\ m.cq = n.cq
  BY DEF Accounted, Shaped, Fields
<1>2. r.state = s.state /\ r.recvs = s.recvs - 1 /\ r.send = s.send /\ r.in = n.out
      /\ r.cq = Append(s.cq, RecvDone)
  BY DEF Accounted, Shaped, Fields
<1>3. n.state = "up" /\ c \in {"first poll", "second poll"} /\ Unbroken(c, n)
  BY ClientSends DEF Fine
<1>4. c = "first poll" /\ n.recvs = 1 /\ n.cq = <<>> /\ Owes(n, 1, 1)
  BY <1>3 DEF Unbroken
<1>5. t = "receiving" /\ s.recvs = 1 /\ s.cq = <<>> /\ s.send = "none"
  <2>1. s.recvs # 0
    BY DEF Accounted
  <2> QED BY <2>1 DEF Fine, ServerEnd, Clear
<1>6. Append(<<>>, RecvDone) = <<RecvDone>>
  BY ShortSequences
<1>7. r.state = "up" /\ r.recvs = 0 /\ r.send = "none" /\ r.cq = <<RecvDone>>
  BY <1>2, <1>5, <1>6
<1> HIDE DEF m, r
<1>8. ServerEnd(t, r)
  BY <1>5, <1>7 DEF ServerEnd
<1>9. ClientEnd(c, m)
  <2>1. Unbroken(c, m)
    BY <1>1, <1>4 DEF Unbroken, Owes
  <2> QED BY <1>1, <1>3, <1>4, <2>1 DEF ClientEnd, Busy
<1>10. /\ Len(asked) = Len(taken) + 1 /\ Len(done) = Len(taken)
       /\ n.out = Wire(asked[Len(asked)])
  BY <1>3, <1>4 DEF Fine, InFlight
<1>11. Len(done) < Len(asked) /\ r.in = Wire(asked[Len(done) + 1])
  <2>1. Len(done) < Len(asked)
    BY <1>10, Shorter, Zenon DEF Fine
  <2>2. Len(done) + 1 = Len(asked)
    BY <1>10
  <2> QED BY <1>2, <1>10, <2>1, <2>2
<1>12. InFlight(c, t, m, r, asked, done, given, taken)
  <2>1. c # "new" /\ m.recvs # 0 /\ m.send # "posted" /\ r.send # "posted"
        /\ c \notin {"idle", "asking"}
    <3>1. m.recvs # 0
      <4>1. m.recvs = n.recvs
        BY <1>1
      <4>2. n.recvs = 1
        BY <1>4
      <4>3. 1 # 0
        BY OneLess
      <4> QED BY <4>1, <4>2, <4>3, Zenon
    <3>2. c # "new" /\ c \notin {"idle", "asking"}
      BY <1>4
    <3>3. m.send # "posted" /\ r.send # "posted"
      BY <1>1, <1>7
    <3> QED BY <3>1, <3>2, <3>3
  <2> QED BY <1>10, <1>11, <2>1 DEF InFlight
<1> QED BY <1>8, <1>9, <1>12 DEF Fine, m, r

\* A response arrives.
LEMMA ResponseArrives ==
  ASSUME NEW c, NEW t, NEW n, NEW s, NEW asked, NEW done, NEW given, NEW taken,
         Accounted(n), Accounted(s), Fine(c, t, n, s, asked, done, given, taken),
         s.send = "posted", n.state = "up", n.recvs > 0
  PROVE  Fine(c, t, [n EXCEPT !.recvs = @ - 1, !.in = s.out, !.cq = Append(@, RecvDone)],
              [s EXCEPT !.send = "landed"], asked, done, given, taken)
<1> DEFINE m == [n EXCEPT !.recvs = @ - 1, !.in = s.out, !.cq = Append(@, RecvDone)]
           r == [s EXCEPT !.send = "landed"]
<1>1. r.state = s.state /\ r.recvs = s.recvs /\ r.send = "landed" /\ r.cq = s.cq
  BY DEF Accounted, Shaped, Fields
<1>2. m.state = n.state /\ m.recvs = n.recvs - 1 /\ m.send = n.send /\ m.in = s.out
      /\ m.posted = n.posted /\ m.cq = Append(n.cq, RecvDone)
  BY DEF Accounted, Shaped, Fields
<1>3. t = "responding" /\ s.state = "up" /\ s.recvs = 0 /\ s.cq = <<>>
  BY ServerSends DEF Fine
<1>4. n.recvs # 0
  BY DEF Accounted
<1>5. Unbroken(c, n)
  BY DEF Fine, ClientEnd
<1>6. c \in {"first poll", "second poll"}
  <2>1. c \in Busy
    BY DEF Fine, ClientEnd, Busy
  <2>2. c \notin {"idle", "asking"}
    BY DEF Fine, InFlight
  <2> QED BY <2>1, <2>2 DEF Busy
<1>7. Len(asked) = Len(taken) + 1 /\ n.send # "posted" /\ Len(given) = Len(asked)
      /\ s.out = given[Len(given)]
  BY <1>6 DEF Fine, InFlight
<1>8. Append(<<>>, RecvDone) = <<RecvDone>> /\ Append(<<SendDone>>, RecvDone) = <<SendDone, RecvDone>>
  BY ShortSequences
<1>9. n.recvs = 1 /\ n.send # "posted"
  BY <1>4, <1>5, <1>6, <1>7 DEF Unbroken
<1>14. m.recvs = 0
  BY <1>2, <1>9
<1> HIDE DEF m, r
<1>10. Unbroken(c, m)
  <2>1. CASE c = "first poll"
    <3>1. Owes(m, 1, 1)
      BY <1>2, <1>5, <2>1 DEF Unbroken, Owes
    <3>2. CASE n.send = "landed" /\ n.cq = <<>>
      BY <1>2, <1>8, <1>14, <2>1, <3>1, <3>2 DEF Unbroken
    <3>3. CASE n.send = "none" /\ n.cq = <<SendDone>>
      BY <1>2, <1>8, <1>14, <2>1, <3>1, <3>3 DEF Unbroken
    <3>4. (n.send = "landed" /\ n.cq = <<>>) \/ (n.send = "none" /\ n.cq = <<SendDone>>)
      <4>1. n.recvs # 0
        BY <1>9
      <4> QED BY <1>5, <1>9, <2>1, <4>1 DEF Unbroken
    <3> QED BY <3>2, <3>3, <3>4
  <2>2. CASE c = "second poll"
    <3>1. n.send = "none" /\ n.cq = <<>> /\ Owes(n, 1, 0)
      <4>1. Unbroken("second poll", n)
        BY <1>5, <2>2
      <4> QED BY <1>4, <4>1 DEF Unbroken
    <3>2. m.send = "none" /\ m.cq = <<RecvDone>> /\ Owes(m, 1, 0)
      BY <1>2, <1>8, <3>1 DEF Owes
    <3> QED BY <1>14, <2>2, <3>2 DEF Unbroken
  <2> QED BY <1>6, <2>1, <2>2
<1>11. ClientEnd(c, m)
  BY <1>2, <1>6, <1>10 DEF ClientEnd, Busy
<1>12. ServerEnd(t, r)
  BY <1>1, <1>3 DEF ServerEnd
<1>13. InFlight(c, t, m, r, asked, done, given, taken)
  BY <1>1, <1>2, <1>3, <1>6, <1>7 DEF InFlight, Pending
<1> QED BY <1>11, <1>12, <1>13 DEF Fine, m, r

\* The acknowledgement of a request comes back.
LEMMA RequestAcknowledged ==
  ASSUME NEW c, NEW t, NEW n, NEW s, NEW asked, NEW done, NEW given, NEW taken,
         Accounted(n), Fine(c, t, n, s, asked, done, given, taken), n.send = "landed"
  PROVE  Fine(c, t, [n EXCEPT !.send = "none", !.cq = Append(@, SendDone)], s,
              asked, done, given, taken)
<1> DEFINE m == [n EXCEPT !.send = "none", !.cq = Append(@, SendDone)]
<1>1. /\ m.state = n.state /\ m.posted = n.posted /\ m.recvs = n.recvs /\ m.send = "none"
      /\ m.in = n.in /\ m.cq = Append(n.cq, SendDone)
  BY DEF Accounted, Shaped, Fields
<1>2. n.state = "up" /\ c \in {"first poll", "second poll"} /\ Unbroken(c, n)
  BY ClientSends DEF Fine
<1>3. Append(<<>>, SendDone) = <<SendDone>> /\ Append(<<RecvDone>>, SendDone) = <<RecvDone, SendDone>>
  BY ShortSequences
<1> HIDE DEF m
<1>4. Unbroken(c, m)
  <2>1. CASE c = "first poll"
    <3>1. Owes(m, 1, 1)
      BY <1>1, <1>2, <2>1 DEF Unbroken, Owes
    <3>2. CASE n.recvs = 1 /\ n.cq = <<>>
      BY <1>1, <1>3, <2>1, <3>1, <3>2 DEF Unbroken
    <3>3. CASE n.recvs = 0 /\ n.cq = <<RecvDone>>
      BY <1>1, <1>3, <2>1, <3>1, <3>3 DEF Unbroken
    <3> QED BY <1>2, <2>1, <3>2, <3>3 DEF Unbroken
  <2>2. CASE c = "second poll"
    <3>1. n.recvs = 0 /\ n.cq = <<>> /\ Owes(n, 0, 1)
      BY <1>2, <2>2 DEF Unbroken
    <3>2. m.recvs = 0 /\ m.cq = <<SendDone>> /\ Owes(m, 0, 1)
      BY <1>1, <1>3, <3>1 DEF Owes
    <3> QED BY <1>1, <2>2, <3>2 DEF Unbroken
  <2> QED BY <1>2, <2>1, <2>2
<1>5. ClientEnd(c, m)
  BY <1>1, <1>2, <1>4 DEF ClientEnd, Busy
<1>6. InFlight(c, t, m, s, asked, done, given, taken)
  BY <1>1, <1>2 DEF Fine, InFlight
<1> QED BY <1>5, <1>6 DEF Fine, m

\* The acknowledgement of a response comes back.
LEMMA ResponseAcknowledged ==
  ASSUME NEW c, NEW t, NEW n, NEW s, NEW asked, NEW done, NEW given, NEW taken,
         Accounted(s), Fine(c, t, n, s, asked, done, given, taken), s.send = "landed"
  PROVE  Fine(c, t, n, [s EXCEPT !.send = "none", !.cq = Append(@, SendDone)],
              asked, done, given, taken)
<1> DEFINE m == [s EXCEPT !.send = "none", !.cq = Append(@, SendDone)]
<1>1. m.state = s.state /\ m.recvs = s.recvs /\ m.send = "none" /\ m.cq = Append(s.cq, SendDone)
  BY DEF Accounted, Shaped, Fields
<1>2. t = "responding" /\ s.state = "up" /\ s.recvs = 0 /\ s.cq = <<>>
  BY ServerSends DEF Fine
<1>3. Append(<<>>, SendDone) = <<SendDone>>
  BY ShortSequences
<1> HIDE DEF m
<1>4. ServerEnd(t, m) /\ ~Pending(t, m) /\ m.send # "posted"
  BY <1>1, <1>2, <1>3 DEF ServerEnd, Pending
<1>5. c # "new"
  BY <1>2, ClientStarted
<1>6. Fine(c, t, n, m, asked, done, given, taken)
  BY <1>4, <1>5, ThreadFine
<1> QED BY <1>6 DEF m

\* What a queue pair leaves when it breaks, with k receives posted.
Leftovers(cq, k) == Append(cq, SendFailed) \o [i \in 1 .. k |-> <<"recv", FALSE>>]

\* Those of the states in which a queue pair of this program breaks.
LEMMA Flushes ==
  /\ Leftovers(<<>>, 0) = <<SendFailed>> /\ AllFailed(<<SendFailed>>)
  /\ AllFailed(Tail(Leftovers(<<>>, 1)))
  /\ AllFailed(Tail(Leftovers(<<RecvDone>>, 0)))
<1> DEFINE RecvFailed == <<"recv", FALSE>>
           failed(k) == [i \in 1 .. k |-> RecvFailed]
<1>1. failed(0) = <<>> /\ failed(1) = <<RecvFailed>>
  <2>1. failed(0) \in Seq(Completions) /\ Len(failed(0)) = 0
    BY Flushed
  <2>2. failed(1) \in Seq(Completions) /\ Len(failed(1)) = 1
    BY Flushed
  <2>3. RecvFailed \in Completions
    BY DEF Completions, Opcodes
  <2> HIDE DEF RecvFailed
  <2>4. <<RecvFailed>> \in Seq(Completions) /\ Len(<<RecvFailed>>) = 1
    BY <2>3
  <2>7. \A i \in 1 .. 1 : failed(1)[i] = RecvFailed /\ <<RecvFailed>>[i] = RecvFailed
    OBVIOUS
  <2>5. failed(0) = <<>>
    BY <2>1, EmptySeq
  <2>6. failed(1) = <<RecvFailed>>
    BY <2>2, <2>4, <2>7, SeqEqual
  <2> QED BY <2>5, <2>6
<1>2. SendFailed \in Completions /\ RecvDone \in Completions /\ RecvFailed \in Completions
  BY DEF SendFailed, RecvDone, Completions, Opcodes
<1>3. Append(<<>>, SendFailed) = <<SendFailed>> /\ Append(<<RecvDone>>, SendFailed) = <<RecvDone, SendFailed>>
  BY ShortSequences
<1>4. <<SendFailed>> \in Seq(Completions) /\ <<RecvDone, SendFailed>> \in Seq(Completions)
      /\ <<RecvFailed>> \in Seq(Completions)
  BY <1>2
<1>5. <<SendFailed>> \o <<>> = <<SendFailed>> /\ <<RecvDone, SendFailed>> \o <<>> = <<RecvDone, SendFailed>>
  BY <1>4, ConcatEmptySeq
<1>6. <<SendFailed>> \o <<RecvFailed>> = <<SendFailed, RecvFailed>>
  <2>1. <<SendFailed>> \o <<RecvFailed>> = Append(<<SendFailed>>, RecvFailed)
    BY <1>2, <1>4, AppendIsConcat
  <2> QED BY <2>1, ShortSequences, Zenon
<1>7. Leftovers(<<>>, 0) = <<SendFailed>> /\ Leftovers(<<RecvDone>>, 0) = <<RecvDone, SendFailed>>
      /\ Leftovers(<<>>, 1) = <<SendFailed, RecvFailed>>
  BY <1>1, <1>3, <1>5, <1>6, Zenon DEF Leftovers
<1>8. Tail(<<RecvDone, SendFailed>>) = <<SendFailed>> /\ Tail(<<SendFailed, RecvFailed>>) = <<RecvFailed>>
  BY ShortSequences
<1>9. ASSUME NEW x, ~x[2] PROVE AllFailed(<<x>>)
  <2>1. ASSUME NEW i \in 1 .. Len(<<x>>) PROVE <<x>>[i] = x
    BY Len(<<x>>) = 1
  <2> QED BY <1>9, <2>1, Zenon DEF AllFailed
<1>10. ~SendFailed[2] /\ ~RecvFailed[2]
  BY DEF SendFailed
<1> QED BY <1>7, <1>8, <1>9, <1>10, Zenon

\* The client's queue pair breaks.
LEMMA ClientBreaks ==
  ASSUME NEW c, NEW t, NEW n, NEW s, NEW asked, NEW done, NEW given, NEW taken,
         Accounted(n), Fine(c, t, n, s, asked, done, given, taken), n.send # "none"
  PROVE  Fine(c, t, [n EXCEPT !.state = "error", !.send = "none", !.recvs = 0,
                              !.cq = Leftovers(@, n.recvs)], s, asked, done, given, taken)
<1> DEFINE m == [n EXCEPT !.state = "error", !.send = "none", !.recvs = 0,
                          !.cq = Leftovers(@, n.recvs)]
<1>1. m.state = "error" /\ m.recvs = 0 /\ m.send = "none" /\ m.cq = Leftovers(n.cq, n.recvs)
  BY DEF Accounted, Shaped, Fields
<1>2. n.state = "up" /\ c \in {"first poll", "second poll"} /\ Unbroken(c, n)
  BY ClientSends DEF Fine
<1> HIDE DEF m
<1>3. Broken(c, m)
  <2>1. CASE c = "first poll"
    <3>1. \/ n.recvs = 1 /\ n.cq = <<>>
          \/ n.recvs = 0 /\ n.cq = <<RecvDone>>
      BY <1>2, <2>1 DEF Unbroken
    <3>2. AllFailed(Tail(m.cq))
      BY <1>1, <3>1, Flushes
    <3> QED BY <1>1, <2>1, <3>2 DEF Broken
  <2>2. CASE c = "second poll"
    <3>1. n.recvs = 0 /\ n.cq = <<>>
      BY <1>2, <2>2 DEF Unbroken
    <3>2. AllFailed(m.cq)
      BY <1>1, <3>1, Flushes
    <3> QED BY <1>1, <2>2, <3>2 DEF Broken
  <2> QED BY <1>2, <2>1, <2>2
<1>4. c \in Busy
  BY <1>2 DEF Busy
<1>5. Records(asked, done, given, taken)
  BY DEF Fine
<1>6. MoreAsked(asked, asked, done, given, taken)
  BY <1>5, AskedAll, Zenon
<1>7. Fine(c, t, m, s, asked, done, given, taken)
  BY <1>1, <1>3, <1>4, <1>5, <1>6, BrokenFine
<1> QED BY <1>7 DEF m

\* The thread's queue pair breaks.
LEMMA ServerBreaks ==
  ASSUME NEW c, NEW t, NEW n, NEW s, NEW asked, NEW done, NEW given, NEW taken,
         Accounted(s), Fine(c, t, n, s, asked, done, given, taken), s.send # "none"
  PROVE  Fine(c, t, n, [s EXCEPT !.state = "error", !.send = "none", !.recvs = 0,
                                 !.cq = Leftovers(@, s.recvs)], asked, done, given, taken)
<1> DEFINE m == [s EXCEPT !.state = "error", !.send = "none", !.recvs = 0,
                          !.cq = Leftovers(@, s.recvs)]
<1>1. m.state = "error" /\ m.recvs = 0 /\ m.send = "none" /\ m.cq = Leftovers(s.cq, s.recvs)
  BY DEF Accounted, Shaped, Fields
<1>2. t = "responding" /\ s.recvs = 0 /\ s.cq = <<>>
  BY ServerSends DEF Fine
<1> HIDE DEF m
<1>3. m.cq = <<SendFailed>>
  BY <1>1, <1>2, Flushes
<1>4. ServerEnd(t, m) /\ ~Pending(t, m) /\ m.send # "posted"
  BY <1>1, <1>2, <1>3 DEF ServerEnd, Pending
<1>5. c # "new"
  BY <1>2, ClientStarted
<1>6. Fine(c, t, n, m, asked, done, given, taken)
  BY <1>4, <1>5, ThreadFine
<1> QED BY <1>6 DEF m

-----------------------------------------------------------------------------
(* The sessions together: no step of one disturbs another.                 *)

At(c) == Fine(client[c], thread[c], nic[Client(c)], nic[Server(c)],
              issued[c], executed[c], answers[c], got[c])

SInv ==
  /\ DOMAIN client = Sessions /\ DOMAIN thread = Sessions /\ DOMAIN issued = Sessions
  /\ DOMAIN executed = Sessions /\ DOMAIN answers = Sessions /\ DOMAIN got = Sessions
  /\ \A c \in Sessions : At(c)

\* Nothing changes but in session c.
Elsewhere(c) ==
  /\ DOMAIN client' = Sessions /\ DOMAIN thread' = Sessions /\ DOMAIN issued' = Sessions
  /\ DOMAIN executed' = Sessions /\ DOMAIN answers' = Sessions /\ DOMAIN got' = Sessions
  /\ \A d \in Sessions \ {c} :
       /\ client'[d] = client[d] /\ thread'[d] = thread[d]
       /\ nic'[Client(d)] = nic[Client(d)] /\ nic'[Server(d)] = nic[Server(d)]
       /\ issued'[d] = issued[d] /\ executed'[d] = executed[d]
       /\ answers'[d] = answers[d] /\ got'[d] = got[d]

\* A step of one session keeps the others in order.
LEMMA SessionStep ==
  ASSUME SInv, NEW c \in Sessions, Elsewhere(c),
         Fine(client'[c], thread'[c], nic'[Client(c)], nic'[Server(c)],
              issued'[c], executed'[c], answers'[c], got'[c])
  PROVE  SInv'
<1>1. ASSUME NEW d \in Sessions PROVE At(d)'
  <2>1. CASE d = c
    BY <2>1 DEF At, Client, Server
  <2>2. CASE d # c
    <3>1. At(d)
      BY DEF SInv
    <3>2. d \in Sessions \ {c}
      BY <2>2
    <3>3. /\ client'[d] = client[d] /\ thread'[d] = thread[d]
          /\ nic'[Client(d)] = nic[Client(d)] /\ nic'[Server(d)] = nic[Server(d)]
          /\ issued'[d] = issued[d] /\ executed'[d] = executed[d]
          /\ answers'[d] = answers[d] /\ got'[d] = got[d]
      BY <3>2 DEF Elsewhere
    <3> QED BY <3>1, <3>3 DEF At, Client, Server
  <2> QED BY <2>1, <2>2
<1> QED BY <1>1 DEF SInv, Elsewhere

\* The two ends of a session are no ends of another.
LEMMA EndsOf ==
  ASSUME NEW c \in Sessions
  PROVE  /\ Client(c) \in Ends /\ Server(c) \in Ends /\ Client(c) # Server(c)
         /\ Peer(Client(c)) = Server(c) /\ Peer(Server(c)) = Client(c)
         /\ \A d \in Sessions \ {c} :
              {Client(d), Server(d)} \cap {Client(c), Server(c)} = {}
  BY DEF Client, Server, Ends, Peer

\* A step of the client of session c.
LEMMA ClientStep ==
  ASSUME IInv, SInv, NEW c \in Sessions, NEW pc, NEW n, NEW asked, NEW taken,
         client' = [client EXCEPT ![c] = pc], nic' = [nic EXCEPT ![Client(c)] = n],
         issued' = [issued EXCEPT ![c] = asked] \/ (issued' = issued /\ asked = issued[c]),
         got' = [got EXCEPT ![c] = taken] \/ (got' = got /\ taken = got[c]),
         UNCHANGED <<thread, executed, answers>>,
         Fine(pc, thread[c], n, nic[Server(c)], asked, executed[c], answers[c], taken)
  PROVE  SInv'
<1>1. client'[c] = pc /\ issued'[c] = asked /\ got'[c] = taken
      /\ thread'[c] = thread[c] /\ executed'[c] = executed[c] /\ answers'[c] = answers[c]
  BY DEF SInv
<1>2. nic'[Client(c)] = n /\ nic'[Server(c)] = nic[Server(c)]
  BY EndsOf DEF IInv
<1>3. Elsewhere(c)
  <2>1. ASSUME NEW d \in Sessions \ {c}
        PROVE  nic'[Client(d)] = nic[Client(d)] /\ nic'[Server(d)] = nic[Server(d)]
    <3>1. Client(d) \in Ends \ {Client(c)} /\ Server(d) \in Ends \ {Client(c)}
      BY EndsOf
    <3> QED BY <3>1 DEF IInv
  <2>2. DOMAIN client' = Sessions /\ \A d \in Sessions \ {c} : client'[d] = client[d]
    BY DEF SInv
  <2>3. DOMAIN issued' = Sessions /\ \A d \in Sessions \ {c} : issued'[d] = issued[d]
    BY DEF SInv
  <2>4. DOMAIN got' = Sessions /\ \A d \in Sessions \ {c} : got'[d] = got[d]
    BY DEF SInv
  <2> QED BY <2>1, <2>2, <2>3, <2>4 DEF Elsewhere, SInv
<1> QED BY <1>1, <1>2, <1>3, SessionStep

\* A step of its thread.
LEMMA ThreadStep ==
  ASSUME IInv, SInv, NEW c \in Sessions, NEW pc, NEW n, NEW done, NEW given,
         thread' = [thread EXCEPT ![c] = pc], nic' = [nic EXCEPT ![Server(c)] = n],
         executed' = [executed EXCEPT ![c] = done] \/ (executed' = executed /\ done = executed[c]),
         answers' = [answers EXCEPT ![c] = given] \/ (answers' = answers /\ given = answers[c]),
         UNCHANGED <<client, issued, got>>,
         Fine(client[c], pc, nic[Client(c)], n, issued[c], done, given, got[c])
  PROVE  SInv'
<1>1. thread'[c] = pc /\ executed'[c] = done /\ answers'[c] = given
      /\ client'[c] = client[c] /\ issued'[c] = issued[c] /\ got'[c] = got[c]
  BY DEF SInv
<1>2. nic'[Server(c)] = n /\ nic'[Client(c)] = nic[Client(c)]
  BY EndsOf DEF IInv
<1>3. Elsewhere(c)
  <2>1. ASSUME NEW d \in Sessions \ {c}
        PROVE  nic'[Client(d)] = nic[Client(d)] /\ nic'[Server(d)] = nic[Server(d)]
    <3>1. Client(d) \in Ends \ {Server(c)} /\ Server(d) \in Ends \ {Server(c)}
      BY EndsOf
    <3> QED BY <3>1 DEF IInv
  <2>2. DOMAIN thread' = Sessions /\ \A d \in Sessions \ {c} : thread'[d] = thread[d]
    BY DEF SInv
  <2>3. DOMAIN executed' = Sessions /\ \A d \in Sessions \ {c} : executed'[d] = executed[d]
    BY DEF SInv
  <2>4. DOMAIN answers' = Sessions /\ \A d \in Sessions \ {c} : answers'[d] = answers[d]
    BY DEF SInv
  <2> QED BY <2>1, <2>2, <2>3, <2>4 DEF Elsewhere, SInv
<1> QED BY <1>1, <1>2, <1>3, SessionStep

\* A step of the hardware between them.
LEMMA HardwareStep ==
  ASSUME IInv, SInv, NEW c \in Sessions,
         \A e \in Ends \ {Client(c), Server(c)} : nic'[e] = nic[e],
         UNCHANGED <<client, thread, histories>>,
         Fine(client[c], thread[c], nic'[Client(c)], nic'[Server(c)],
              issued[c], executed[c], answers[c], got[c])
  PROVE  SInv'
<1>1. Elsewhere(c)
  <2>1. ASSUME NEW d \in Sessions \ {c}
        PROVE  nic'[Client(d)] = nic[Client(d)] /\ nic'[Server(d)] = nic[Server(d)]
    <3>1. Client(d) \in Ends \ {Client(c), Server(c)} /\ Server(d) \in Ends \ {Client(c), Server(c)}
      BY EndsOf
    <3> QED BY <3>1
  <2> QED BY <2>1 DEF Elsewhere, SInv, histories
<1> QED BY <1>1, SessionStep DEF histories

\* An empty queue has room.
LEMMA NoRoom ==
  ASSUME NEW n, NEW op, n.posted[op] = 0, ~HasRoom(n, op)
  PROVE  FALSE
  BY CapacityAssumption DEF HasRoom

\* Posting fails only on a queue pair that is broken.
LEMMA CannotPostFine ==
  ASSUME NEW pc \in {"idle", "asking"}, NEW t, NEW n, NEW s,
         NEW asked, NEW done, NEW given, NEW taken, Accounted(n),
         Fine(pc, t, n, s, asked, done, given, taken),
         ~HasRoom(n, IF pc = "idle" THEN "recv" ELSE "send"), NEW q,
         NEW m, m.state = n.state, m.recvs = n.recvs, m.send = n.send, m.cq = n.cq
  PROVE  Fine("idle", t, m, s, Append(asked, q), done, given, taken)
<1>1. n.state # "up"
  <2>1. SUFFICES ASSUME n.state = "up" PROVE FALSE
    OBVIOUS
  <2>2. Unbroken(pc, n)
    BY <2>1 DEF Fine, ClientEnd
  <2>3. CASE pc = "idle"
    <3>1. n.posted["recv"] = 0 /\ ~HasRoom(n, "recv")
      BY <2>2, <2>3 DEF Unbroken, Owes
    <3> QED BY <3>1, NoRoom
  <2>4. CASE pc = "asking"
    <3>1. n.posted["send"] = 0 /\ ~HasRoom(n, "send")
      BY <2>2, <2>4 DEF Unbroken, Owes
    <3> QED BY <3>1, NoRoom
  <2> QED BY <2>3, <2>4
<1>2. n.state = "error" /\ Broken(pc, n)
  BY <1>1 DEF Fine, ClientEnd, Busy
<1>3. m.state = "error" /\ Broken("idle", m)
  BY <1>2 DEF Broken
<1>4. MoreAsked(asked, Append(asked, q), done, given, taken)
  BY AskedMore, Zenon DEF Fine
<1>5. pc \in Busy /\ "idle" \in Busy
  BY DEF Busy
<1> QED BY <1>3, <1>4, <1>5, BrokenFine

-----------------------------------------------------------------------------
(* Every step keeps every session in order.                                *)

\* Those of the clients.
LEMMA ClientSessions ==
  ASSUME IInv, SInv, NEW c \in Sessions,
         \/ Connects(c) \/ FailsToConnect(c) \/ ArmsRecv(c) \/ Leaves(c) \/ ClientRuns(c)
  PROVE  SInv'
<1> DEFINE n == nic[Client(c)]
           s == nic[Server(c)]
<1>1. Accounted(n) /\ Fine(client[c], thread[c], n, s, issued[c], executed[c], answers[c], got[c])
  BY EndsOf DEF IInv, SInv, At
<1>2. Records(issued[c], executed[c], answers[c], got[c])
  BY <1>1 DEF Fine
<1> HIDE DEF n, s
<1>3. ASSUME NEW how \in {"absent", "left"}, Departs(c, how), UNCHANGED <<thread, histories>>
      PROVE  SInv'
  <2>1. MoreAsked(issued[c], issued[c], executed[c], answers[c], got[c])
    BY <1>2, AskedAll
  <2>2. Fine(how, thread[c], Destroyed, s, issued[c], executed[c], answers[c], got[c])
    BY <1>1, <2>1, DepartsFine
  <2> QED BY <1>3, <2>2, ClientStep DEF Departs, histories, s
<1>4. CASE Connects(c)
  <2>1. Fine("idle", thread[c], Connected(n), s, issued[c], executed[c], answers[c], got[c])
    BY <1>1, <1>4, ConnectsFine DEF Connects
  <2> QED BY <1>4, <2>1, ClientStep DEF Connects, histories, n, s
<1>5. CASE FailsToConnect(c) \/ Leaves(c)
  BY <1>3, <1>5 DEF FailsToConnect, Leaves
<1>6. CASE ArmsRecv(c)
  <2>1. Fine("asking", thread[c], WithRecv(n), s, issued[c], executed[c], answers[c], got[c])
    BY <1>1, <1>6, ArmsFine DEF ArmsRecv
  <2> QED BY <1>6, <2>1, ClientStep DEF ArmsRecv, histories, n, s
<1>7. ASSUME NEW q, Asks(c, q) PROVE SInv'
  <2> DEFINE more == Append(issued[c], q)
  <2>1. Fine("first poll", thread[c], WithSend(n, Wire(q)), s,
             more, executed[c], answers[c], got[c])
    BY <1>1, <1>7, AsksFine DEF Asks
  <2>2. /\ client' = [client EXCEPT ![c] = "first poll"]
        /\ nic' = [nic EXCEPT ![Client(c)] = WithSend(n, Wire(q))]
        /\ issued' = [issued EXCEPT ![c] = more]
        /\ UNCHANGED <<thread, executed, answers, got>>
    BY <1>7 DEF Asks, n
  <2> HIDE DEF more
  <2> QED BY <2>1, <2>2, ClientStep DEF s
<1>8. CASE PollsFirst(c)
  <2>1. Fine("second poll", thread[c], Polled(n), s, issued[c], executed[c], answers[c], got[c])
    BY <1>1, <1>8, PollsFirstFine DEF PollsFirst, PollSucceeds, n
  <2> QED BY <1>8, <2>1, ClientStep DEF PollsFirst, histories, n, s
<1>9. CASE TakesResponse(c)
  <2> DEFINE received == Append(got[c], n.in)
  <2>1. /\ Records(issued[c], executed[c], answers[c], received)
        /\ Fine("idle", thread[c], Polled(n), s, issued[c], executed[c], answers[c], received)
    BY <1>1, <1>9, TakesFine DEF TakesResponse, n
  <2>2. got' = [got EXCEPT ![c] = received] /\ UNCHANGED <<thread, issued, executed, answers>>
    BY <1>9 DEF TakesResponse, n
  <2> HIDE DEF received
  <2>3. CASE Departs(c, "left")
    <3>1. MoreAsked(issued[c], issued[c], executed[c], answers[c], received)
      BY <2>1, AskedAll
    <3>2. Fine("left", thread[c], Destroyed, s, issued[c], executed[c], answers[c], received)
      BY <1>1, <3>1, DepartsFine
    <3> QED BY <2>2, <2>3, <3>2, ClientStep DEF Departs, s
  <2>4. CASE client' = [client EXCEPT ![c] = "idle"] /\ nic' = [nic EXCEPT ![Client(c)] = Polled(n)]
    BY <2>1, <2>2, <2>4, ClientStep DEF s
  <2> QED BY <1>9, <2>3, <2>4 DEF TakesResponse, n
<1>10. CASE RequestFails(c)
  <2>1. Fine("idle", thread[c], Polled(n), s, issued[c], executed[c], answers[c], got[c])
    BY <1>1, <1>10, FailsFine DEF RequestFails, n
  <2>2. CASE client' = [client EXCEPT ![c] = "idle"] /\ nic' = [nic EXCEPT ![Client(c)] = Polled(n)]
    BY <1>10, <2>1, <2>2, ClientStep DEF RequestFails, histories, s
  <2> QED BY <1>3, <1>10, <2>2 DEF RequestFails, n
<1>11. ASSUME NEW q, CannotPost(c, q) PROVE SInv'
  <2> DEFINE more == Append(issued[c], q)
  <2>1. MoreAsked(issued[c], more, executed[c], answers[c], got[c])
    BY <1>2, AskedMore
  <2>2. /\ client[c] \in {"idle", "asking"}
        /\ ~HasRoom(n, IF client[c] = "idle" THEN "recv" ELSE "send")
        /\ issued' = [issued EXCEPT ![c] = more] /\ UNCHANGED <<thread, executed, answers, got>>
    BY <1>11 DEF CannotPost, n
  <2>3. ASSUME NEW m, m.state = n.state, m.recvs = n.recvs, m.send = n.send, m.cq = n.cq
        PROVE  Fine("idle", thread[c], m, s, more, executed[c], answers[c], got[c])
    BY <1>1, <2>2, <2>3, CannotPostFine
  <2> HIDE DEF more
  <2>4. CASE Departs(c, "left")
    <3>1. Fine("left", thread[c], Destroyed, s, more, executed[c], answers[c], got[c])
      BY <1>1, <2>1, DepartsFine
    <3> QED BY <2>2, <2>4, <3>1, ClientStep DEF Departs, s
  <2>5. CASE client' = [client EXCEPT ![c] = "idle"] /\ nic' = nic
    <3>1. Fine("idle", thread[c], n, s, more, executed[c], answers[c], got[c])
      BY <2>3
    <3>2. nic' = [nic EXCEPT ![Client(c)] = n]
      BY <2>5 DEF n, IInv
    <3> QED BY <2>2, <2>5, <3>1, <3>2, ClientStep DEF s
  <2>6. CASE client' = [client EXCEPT ![c] = "idle"]
             /\ nic' = [nic EXCEPT ![Client(c)] = WithSendRefused(n, Wire(q))]
    <3>1. Fine("idle", thread[c], WithSendRefused(n, Wire(q)), s,
               more, executed[c], answers[c], got[c])
      BY <1>1, <2>3, RefusedFields
    <3> QED BY <2>2, <2>6, <3>1, ClientStep DEF s
  <2> QED BY <1>11, <2>4, <2>5, <2>6 DEF CannotPost, n
<1> QED BY <1>4, <1>5, <1>6, <1>7, <1>8, <1>9, <1>10, <1>11 DEF ClientRuns

\* Those of the threads.
LEMMA ThreadSessions ==
  ASSUME IInv, SInv, NEW c \in Sessions, ThreadRuns(c)
  PROVE  SInv'
<1> DEFINE n == nic[Client(c)]
           s == nic[Server(c)]
<1>1. Accounted(s) /\ Fine(client[c], thread[c], n, s, issued[c], executed[c], answers[c], got[c])
  BY EndsOf DEF IInv, SInv, At
<1> HIDE DEF n, s
<1>2. ASSUME ThreadReturns(c), client[c] # "new", UNCHANGED <<client, histories>> PROVE SInv'
  <2>1. Fine(client[c], "ended", n, Destroyed, issued[c], executed[c], answers[c], got[c])
    BY <1>1, <1>2, ThreadReturnsFine
  <2> QED BY <1>2, <2>1, ThreadStep DEF ThreadReturns, histories, n
<1>3. thread[c] # "handshake" => client[c] # "new"
  BY <1>1, ClientStarted
<1>4. CASE ThreadConnects(c)
  <2>1. Fine(client[c], "arming", n, Connected(s), issued[c], executed[c], answers[c], got[c])
    BY <1>1, <1>4, ThreadConnectsFine DEF ThreadConnects
  <2> QED BY <1>4, <2>1, ThreadStep DEF ThreadConnects, histories, n, s
<1>5. CASE ThreadGivesUp(c) \/ ThreadStops(c)
  BY <1>2, <1>3, <1>5 DEF ThreadGivesUp, ThreadStops
<1>6. CASE ThreadArms(c)
  <2>1. Fine(client[c], "receiving", n, WithRecv(s), issued[c], executed[c], answers[c], got[c])
    BY <1>1, <1>6, ThreadArmsFine DEF ThreadArms
  <2>2. CASE thread' = [thread EXCEPT ![c] = "receiving"] /\ nic' = [nic EXCEPT ![Server(c)] = WithRecv(s)]
    BY <1>6, <2>1, <2>2, ThreadStep DEF ThreadArms, histories, n
  <2> QED BY <1>2, <1>3, <1>6, <2>2 DEF ThreadArms, s
<1>7. CASE ThreadServes(c)
  <2> DEFINE a == Answer(kv, s.in)
             done == Append(executed[c], s.in)
             given == Append(answers[c], a)
  <2>1. Fine(client[c], "responding", n, WithSend(Polled(s), a), issued[c], done, given, got[c])
    BY <1>1, <1>7, ThreadServesFine DEF ThreadServes, s
  <2>2. /\ executed' = [executed EXCEPT ![c] = done] /\ answers' = [answers EXCEPT ![c] = given]
        /\ UNCHANGED <<client, issued, got>>
    BY <1>7 DEF ThreadServes, s
  <2>3. \/ ThreadReturns(c)
        \/ /\ thread' = [thread EXCEPT ![c] = "responding"]
           /\ nic' = [nic EXCEPT ![Server(c)] = WithSend(Polled(s), a)]
    BY <1>7 DEF ThreadServes, s
  <2> HIDE DEF a, done, given
  <2>4. CASE ThreadReturns(c)
    <3>1. client[c] # "new"
      BY <1>3, <1>7 DEF ThreadServes
    <3>2. Fine(client[c], "ended", n, Destroyed, issued[c], done, given, got[c])
      BY <2>1, <3>1, ThreadReturnsFine
    <3> QED BY <2>2, <2>4, <3>2, ThreadStep DEF ThreadReturns, n
  <2> QED BY <2>1, <2>2, <2>3, <2>4, ThreadStep DEF n
<1>8. CASE ThreadGoesOn(c)
  <2>1. Fine(client[c], "arming", n, Polled(s), issued[c], executed[c], answers[c], got[c])
    BY <1>1, <1>8, ThreadGoesOnFine DEF ThreadGoesOn, s
  <2>2. CASE thread' = [thread EXCEPT ![c] = "arming"] /\ nic' = [nic EXCEPT ![Server(c)] = Polled(s)]
    BY <1>8, <2>1, <2>2, ThreadStep DEF ThreadGoesOn, histories, n
  <2> QED BY <1>2, <1>3, <1>8, <2>2 DEF ThreadGoesOn, s
<1> QED BY <1>4, <1>5, <1>6, <1>7, <1>8 DEF ThreadRuns

\* Those of the hardware.
LEMMA HardwareSessions ==
  ASSUME IInv, SInv, NEW e \in Ends, HardwareRuns(e)
  PROVE  SInv'
<1>1. PICK c \in Sessions : e = Client(c) \/ e = Server(c)
  BY DEF Ends, Client, Server
<1> DEFINE n == nic[Client(c)]
           s == nic[Server(c)]
<1>2. /\ Accounted(n) /\ Accounted(s)
      /\ Fine(client[c], thread[c], n, s, issued[c], executed[c], answers[c], got[c])
  BY EndsOf DEF IInv, SInv, At
<1>3. UNCHANGED <<client, thread, histories>>
  BY DEF HardwareRuns
<1>4. CASE Delivers(e)
  <2>1. \A d \in Ends \ {Client(c), Server(c)} : nic'[d] = nic[d]
    BY <1>1, <1>4, EndsOf DEF Delivers, IInv
  <2>2. CASE e = Client(c)
    <3>1. /\ nic'[Client(c)] = [n EXCEPT !.send = "landed"]
          /\ nic'[Server(c)] = [s EXCEPT !.recvs = @ - 1, !.in = n.out, !.cq = Append(@, RecvDone)]
      BY <1>4, <2>2, EndsOf DEF Delivers, IInv, RecvDone
    <3>2. n.send = "posted" /\ s.state = "up" /\ s.recvs > 0
      BY <1>4, <2>2, EndsOf DEF Delivers
    <3> HIDE DEF n, s
    <3>3. Fine(client[c], thread[c], nic'[Client(c)], nic'[Server(c)],
               issued[c], executed[c], answers[c], got[c])
      <4>1. Fine(client[c], thread[c], [n EXCEPT !.send = "landed"],
                 [s EXCEPT !.recvs = @ - 1, !.in = n.out, !.cq = Append(@, RecvDone)],
                 issued[c], executed[c], answers[c], got[c])
        BY <1>2, <3>2, RequestArrives
      <4> QED BY <3>1, <4>1
    <3> QED BY <1>3, <2>1, <3>3, HardwareStep
  <2>3. CASE e = Server(c)
    <3>1. /\ nic'[Server(c)] = [s EXCEPT !.send = "landed"]
          /\ nic'[Client(c)] = [n EXCEPT !.recvs = @ - 1, !.in = s.out, !.cq = Append(@, RecvDone)]
      BY <1>4, <2>3, EndsOf DEF Delivers, IInv, RecvDone
    <3>2. s.send = "posted" /\ n.state = "up" /\ n.recvs > 0
      BY <1>4, <2>3, EndsOf DEF Delivers
    <3> HIDE DEF n, s
    <3>3. Fine(client[c], thread[c], nic'[Client(c)], nic'[Server(c)],
               issued[c], executed[c], answers[c], got[c])
      <4>1. Fine(client[c], thread[c], [n EXCEPT !.recvs = @ - 1, !.in = s.out, !.cq = Append(@, RecvDone)],
                 [s EXCEPT !.send = "landed"],
                 issued[c], executed[c], answers[c], got[c])
        BY <1>2, <3>2, ResponseArrives
      <4> QED BY <3>1, <4>1
    <3> QED BY <1>3, <2>1, <3>3, HardwareStep
  <2> QED BY <1>1, <2>2, <2>3
<1>5. CASE Acknowledges(e)
  <2>1. \A d \in Ends \ {Client(c), Server(c)} : nic'[d] = nic[d]
    BY <1>1, <1>5 DEF Acknowledges, IInv
  <2>2. CASE e = Client(c)
    <3>1. /\ nic'[Client(c)] = [n EXCEPT !.send = "none", !.cq = Append(@, SendDone)]
          /\ nic'[Server(c)] = s /\ n.send = "landed"
      BY <1>5, <2>2, EndsOf DEF Acknowledges, IInv, SendDone
    <3> HIDE DEF n, s
    <3>2. Fine(client[c], thread[c], nic'[Client(c)], nic'[Server(c)],
               issued[c], executed[c], answers[c], got[c])
      <4>1. Fine(client[c], thread[c], [n EXCEPT !.send = "none", !.cq = Append(@, SendDone)],
                 s,
                 issued[c], executed[c], answers[c], got[c])
        BY <1>2, <3>1, RequestAcknowledged
      <4> QED BY <3>1, <4>1
    <3> QED BY <1>3, <2>1, <3>2, HardwareStep
  <2>3. CASE e = Server(c)
    <3>1. /\ nic'[Server(c)] = [s EXCEPT !.send = "none", !.cq = Append(@, SendDone)]
          /\ nic'[Client(c)] = n /\ s.send = "landed"
      BY <1>5, <2>3, EndsOf DEF Acknowledges, IInv, SendDone
    <3> HIDE DEF n, s
    <3>2. Fine(client[c], thread[c], nic'[Client(c)], nic'[Server(c)],
               issued[c], executed[c], answers[c], got[c])
      <4>1. Fine(client[c], thread[c], n,
                 [s EXCEPT !.send = "none", !.cq = Append(@, SendDone)],
                 issued[c], executed[c], answers[c], got[c])
        BY <1>2, <3>1, ResponseAcknowledged
      <4> QED BY <3>1, <4>1
    <3> QED BY <1>3, <2>1, <3>2, HardwareStep
  <2> QED BY <1>1, <2>2, <2>3
<1>6. CASE Breaks(e)
  <2>1. \A d \in Ends \ {Client(c), Server(c)} : nic'[d] = nic[d]
    BY <1>1, <1>6 DEF Breaks, IInv
  <2>2. nic' = [nic EXCEPT ![e].state = "error", ![e].send = "none", ![e].recvs = 0,
                           ![e].cq = Leftovers(@, nic[e].recvs)]
    BY <1>6 DEF Breaks, Leftovers, SendFailed
  <2>3. CASE e = Client(c)
    <3>1. /\ nic'[Client(c)] = [n EXCEPT !.state = "error", !.send = "none", !.recvs = 0,
                                         !.cq = Leftovers(@, n.recvs)]
          /\ nic'[Server(c)] = s /\ n.send # "none"
      BY <1>6, <2>2, <2>3, EndsOf DEF Breaks, IInv, Accounted, Shaped, Fields
    <3> HIDE DEF n, s
    <3>2. Fine(client[c], thread[c], nic'[Client(c)], nic'[Server(c)],
               issued[c], executed[c], answers[c], got[c])
      <4>1. Fine(client[c], thread[c], [n EXCEPT !.state = "error", !.send = "none", !.recvs = 0,
                        !.cq = Leftovers(@, n.recvs)],
                 s,
                 issued[c], executed[c], answers[c], got[c])
        BY <1>2, <3>1, ClientBreaks
      <4> QED BY <3>1, <4>1
    <3> QED BY <1>3, <2>1, <3>2, HardwareStep
  <2>4. CASE e = Server(c)
    <3>1. /\ nic'[Server(c)] = [s EXCEPT !.state = "error", !.send = "none", !.recvs = 0,
                                         !.cq = Leftovers(@, s.recvs)]
          /\ nic'[Client(c)] = n /\ s.send # "none"
      BY <1>6, <2>2, <2>4, EndsOf DEF Breaks, IInv, Accounted, Shaped, Fields
    <3> HIDE DEF n, s
    <3>2. Fine(client[c], thread[c], nic'[Client(c)], nic'[Server(c)],
               issued[c], executed[c], answers[c], got[c])
      <4>1. Fine(client[c], thread[c], n,
                 [s EXCEPT !.state = "error", !.send = "none", !.recvs = 0,
                        !.cq = Leftovers(@, s.recvs)],
                 issued[c], executed[c], answers[c], got[c])
        BY <1>2, <3>1, ServerBreaks
      <4> QED BY <3>1, <4>1
    <3> QED BY <1>3, <2>1, <3>2, HardwareStep
  <2> QED BY <1>1, <2>3, <2>4
<1> QED BY <1>4, <1>5, <1>6 DEF HardwareRuns, Hardware

\* Every session begins in order,
LEMMA InitSessions == Init => SInv
<1> SUFFICES ASSUME Init PROVE SInv
  OBVIOUS
<1>1. ASSUME NEW c \in Sessions PROVE At(c)
  <2>1. /\ client[c] = "new" /\ thread[c] = "handshake"
        /\ nic[Client(c)] = NewContext /\ nic[Server(c)] = NewContext
        /\ issued[c] = <<>> /\ executed[c] = <<>> /\ answers[c] = <<>> /\ got[c] = <<>>
    BY EndsOf DEF Init, NoHistory
  <2>2. NewContext.state = "init" /\ Clear(NewContext) /\ Owes(NewContext, 0, 0)
    BY DEF NewContext, Clear, Owes, Opcodes
  <2>3. ClientEnd("new", NewContext) /\ ServerEnd("handshake", NewContext)
    BY <2>2 DEF ClientEnd, ServerEnd, Busy
  <2>4. Records(<<>>, <<>>, <<>>, <<>>)
    BY DEF Records, Listed
  <2>5. InFlight("new", "handshake", NewContext, NewContext, <<>>, <<>>, <<>>, <<>>)
    BY <2>2 DEF InFlight, Pending, Clear
  <2> QED BY <2>1, <2>3, <2>4, <2>5 DEF At, Fine
<1> QED BY <1>1 DEF Init, SInv, NoHistory

\* and stays so.
LEMMA NextSessions == IInv /\ SInv /\ [Next]_vars => IInv' /\ SInv'
<1> SUFFICES ASSUME IInv, SInv, [Next]_vars PROVE IInv' /\ SInv'
  OBVIOUS
<1>1. CASE UNCHANGED vars
  BY <1>1 DEF IInv, SInv, At, Client, Server, vars, histories
<1> QED BY <1>1, HardwareAccounted, ClientAccounted, ThreadAccounted,
           HardwareSessions, ClientSessions, ThreadSessions DEF Next

\* The invariant of the system.
LEMMA SessionsInOrder == Spec => [](IInv /\ SInv)
  BY InitAccounted, InitSessions, NextSessions, PTL DEF Spec

\* What thread c executed is the beginning of what its client asked.
LEMMA AtMostOnce == SInv => ExecutedAtMostOnce
<1> SUFFICES ASSUME SInv, NEW c \in Sessions
             PROVE  /\ Prefix(executed[c], [n \in DOMAIN issued[c] |-> Wire(issued[c][n])])
                    /\ nic[Client(c)].state = "up" => Len(executed[c]) >= Len(issued[c]) - 1
  BY DEF ExecutedAtMostOnce
<1> DEFINE asked == issued[c]
           done == executed[c]
           n == nic[Client(c)]
<1>1. Records(asked, done, answers[c], got[c]) /\ ClientEnd(client[c], n)
      /\ InFlight(client[c], thread[c], n, nic[Server(c)], asked, done, answers[c], got[c])
  BY DEF SInv, At, Fine
<1> HIDE DEF asked, done, n
<1>2. Prefix(done, [m \in DOMAIN asked |-> Wire(asked[m])])
  BY <1>1, ExecutedPrefix
<1>3. ASSUME n.state = "up" PROVE Len(done) >= Len(asked) - 1
  <2>1. client[c] \in Busy
    BY <1>1, <1>3 DEF ClientEnd, Busy
  <2>2. Len(got[c]) = Len(asked) \/ Len(asked) = Len(got[c]) + 1
    BY <1>1, <1>3, <2>1 DEF InFlight, Busy
  <2> QED BY <1>1, <2>2, OneOutstanding, Zenon
<1> QED BY <1>2, <1>3 DEF asked, done, n

\* What a client takes is the beginning of what its thread answered.
LEMMA InStep == SInv => ResponsesMatchRequests
<1> SUFFICES ASSUME SInv, NEW c \in Sessions PROVE Prefix(got[c], answers[c])
  BY DEF ResponsesMatchRequests
<1> DEFINE taken == got[c]
           given == answers[c]
<1>1. Records(issued[c], executed[c], given, taken)
  BY DEF SInv, At, Fine
<1> HIDE DEF taken, given
<1>2. Prefix(taken, given)
  BY <1>1, PrefixMeans DEF Records
<1> QED BY <1>2 DEF taken, given

\* Between requests, both ends are clear.
LEMMA CleanUp == SInv => CleanBetweenRequests
<1> SUFFICES ASSUME SInv, NEW c \in Sessions
             PROVE  /\ nic[Client(c)].state = "up" /\ client[c] = "idle" => Clear(nic[Client(c)])
                    /\ thread[c] = "arming" => Clear(nic[Server(c)])
  BY EndsOf DEF CleanBetweenRequests, Clear
<1>1. ClientEnd(client[c], nic[Client(c)]) /\ ServerEnd(thread[c], nic[Server(c)])
  BY DEF SInv, At, Fine
<1> QED BY <1>1 DEF ClientEnd, ServerEnd, Unbroken

\* However many sends are retried, requests given up and queue pairs broken, a
\* server thread of rdma_main.cpp executes each request of its client at most
\* once, in order and as it was sent, and lags at most one behind a client whose
\* queue pair works.
THEOREM EachExecutedOnce == Spec => []ExecutedAtMostOnce
  BY SessionsInOrder, AtMostOnce, PTL

\* The two polls of rdma_client.cpp, in whichever order the completions of its
\* send and its receive come, end with the response to its own request.
THEOREM EachAnswerToItsRequest == Spec => []ResponsesMatchRequests
  BY SessionsInOrder, InStep, PTL

\* Between two requests nothing is left in a working queue pair, at either end.
THEOREM NothingLeftBetween == Spec => []CleanBetweenRequests
  BY SessionsInOrder, CleanUp, PTL

\* While a message is on its way out of an end, that end neither posts another
\* nor is refused one.
LEMMA BufferKept ==
  ASSUME IInv, SInv, [Next]_vars, NEW e \in Ends,
         nic[e].send # "none", nic'[e].state # "gone"
  PROVE  nic'[e].out = nic[e].out
<1>1. PICK c \in Sessions : e = Client(c) \/ e = Server(c)
  BY DEF Ends, Client, Server
<1>2. /\ Accounted(nic[e]) /\ ClientEnd(client[c], nic[Client(c)])
      /\ ServerEnd(thread[c], nic[Server(c)])
  BY EndsOf DEF IInv, SInv, At, Fine
<1>3. e = Client(c) => client[c] \in {"first poll", "second poll"}
  BY <1>2, ClientSends
<1>4. e = Server(c) => thread[c] = "responding"
  BY <1>2, ServerSends
<1>5. Polled(nic[e]).out = nic[e].out
  BY <1>2 DEF Polled, Accounted, Shaped, Fields
<1>6. ASSUME NEW d \in Ends, NEW n, nic' = [nic EXCEPT ![d] = n],
             d = e => n.state = "gone" \/ n.out = nic[e].out
      PROVE  nic'[e].out = nic[e].out
  <2>1. d = e => nic'[e] = n
    BY <1>6 DEF IInv
  <2>2. d # e => nic'[e] = nic[e]
    BY <1>6 DEF IInv
  <2> QED BY <1>6, <2>1, <2>2
<1>7. ASSUME NEW d \in Sessions,
             \/ Connects(d) \/ FailsToConnect(d) \/ ArmsRecv(d) \/ Leaves(d) \/ ClientRuns(d)
      PROVE  nic'[e].out = nic[e].out
  <2>1. Client(d) \in Ends /\ (Client(d) = e => d = c /\ e = Client(c))
    BY <1>1 DEF Client, Server, Ends
  <2>2. ASSUME NEW how, Departs(d, how) PROVE nic'[e].out = nic[e].out
    BY <1>6, <2>1, <2>2, DestroyedFields DEF Departs
  <2>3. ASSUME NEW n, nic' = [nic EXCEPT ![Client(d)] = n],
               client[d] \notin {"first poll", "second poll"}
        PROVE  nic'[e].out = nic[e].out
    BY <1>3, <1>6, <2>1, <2>3
  <2>4. CASE nic' = [nic EXCEPT ![Client(d)] = Polled(@)]
    BY <1>5, <1>6, <2>1, <2>4
  <2>5. CASE Connects(d) \/ ArmsRecv(d)
    BY <2>3, <2>5 DEF Connects, ArmsRecv
  <2>6. CASE FailsToConnect(d) \/ Leaves(d)
    BY <2>2, <2>6 DEF FailsToConnect, Leaves
  <2>7. CASE PollsFirst(d) \/ TakesResponse(d) \/ RequestFails(d)
    BY <2>2, <2>4, <2>7 DEF PollsFirst, TakesResponse, RequestFails
  <2>8. ASSUME NEW q, Asks(d, q) PROVE nic'[e].out = nic[e].out
    BY <2>3, <2>8 DEF Asks
  <2>9. ASSUME NEW q, CannotPost(d, q) PROVE nic'[e].out = nic[e].out
    <3>1. client[d] \notin {"first poll", "second poll"}
      BY <2>9 DEF CannotPost
    <3>2. CASE nic' = nic
      BY <3>2
    <3> QED BY <2>2, <2>3, <2>9, <3>1, <3>2 DEF CannotPost
  <2> QED BY <1>7, <2>5, <2>6, <2>7, <2>8, <2>9 DEF ClientRuns
<1>8. ASSUME NEW d \in Sessions, ThreadRuns(d)
      PROVE  nic'[e].out = nic[e].out
  <2>1. Server(d) \in Ends /\ (Server(d) = e => d = c /\ e = Server(c))
    BY <1>1 DEF Client, Server, Ends
  <2>2. ASSUME ThreadReturns(d) PROVE nic'[e].out = nic[e].out
    BY <1>6, <2>1, <2>2, DestroyedFields DEF ThreadReturns
  <2>3. ASSUME NEW n, nic' = [nic EXCEPT ![Server(d)] = n], thread[d] # "responding"
        PROVE  nic'[e].out = nic[e].out
    BY <1>4, <1>6, <2>1, <2>3
  <2>4. CASE ThreadConnects(d) \/ ThreadArms(d)
    BY <2>2, <2>3, <2>4 DEF ThreadConnects, ThreadArms
  <2>5. CASE ThreadGivesUp(d) \/ ThreadStops(d)
    BY <2>2, <2>5 DEF ThreadGivesUp, ThreadStops
  <2>6. CASE ThreadServes(d)
    BY <2>2, <2>3, <2>6 DEF ThreadServes
  <2>7. CASE ThreadGoesOn(d)
    BY <1>5, <1>6, <2>1, <2>2, <2>7 DEF ThreadGoesOn
  <2> QED BY <1>8, <2>4, <2>5, <2>6, <2>7 DEF ThreadRuns
<1>9. ASSUME NEW d \in Ends, HardwareRuns(d) PROVE nic'[e].out = nic[e].out
  <2>1. Peer(d) \in Ends /\ Peer(d) # d
    BY DEF Ends, Peer
  <2>5. Accounted(nic[d]) /\ Accounted(nic[Peer(d)])
    BY <2>1 DEF IInv
  <2>2. CASE Delivers(d)
    BY <2>1, <2>5, <2>2 DEF Delivers, IInv, Accounted, Shaped, Fields
  <2>3. CASE Acknowledges(d)
    BY <2>1, <2>5, <2>3 DEF Acknowledges, IInv, Accounted, Shaped, Fields
  <2>4. CASE Breaks(d)
    BY <2>1, <2>5, <2>4 DEF Breaks, IInv, Accounted, Shaped, Fields
  <2> QED BY <1>9, <2>2, <2>3, <2>4 DEF HardwareRuns, Hardware
<1>10. CASE UNCHANGED vars
  BY <1>10 DEF vars
<1> QED BY <1>7, <1>8, <1>9, <1>10 DEF Next

\* The one send buffer of an RdmaContext is never written while the hardware may
\* still read it.
THEOREM SendBufferKept == Spec => SendBufferLeftAlone
<1>1. IInv /\ SInv /\ [Next]_vars =>
        [\A e \in Ends : nic[e].send # "none" /\ nic'[e].state # "gone" =>
           nic'[e].out = nic[e].out]_vars
  BY BufferKept
<1> QED BY <1>1, SessionsInOrder, PTL DEF Spec, SendBufferLeftAlone
=============================================================================
