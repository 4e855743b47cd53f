----------------------------- MODULE QueuePair ------------------------------
(***************************************************************************)
(* SEND and RECV between the two ends of a reliable connection: what       *)
(* RdmaContext posts and polls, and what the hardware does in between.     *)
(*                                                                         *)
(* The hardware delivers each message once and in order, retries for ever  *)
(* while the receiver has no buffer (rnr_retry = 7), and gives up on a     *)
(* receiver that does not answer (retry_cnt), which breaks the queue pair: *)
(* everything still posted, and everything posted later, completes with an *)
(* error.                                                                  *)
(***************************************************************************)
EXTENDS Integers, Sequences

CONSTANTS Sessions,      \* connections, each with a client and a server end
          LossyLinks,    \* the ends whose messages may stop getting through
          MaxPosted,     \* max_send_wr, and max_recv_wr
          CqSize,        \* entries of the completion queue that both share
          NoMessage

\* 32, 32 and 64 in the code.
ASSUME CapacityAssumption == MaxPosted \in Nat \ {0} /\ CqSize \in Nat /\ 2 * MaxPosted <= CqSize

Ends == Sessions \X {"client", "server"}

Peer(e) == <<e[1], IF e[2] = "client" THEN "server" ELSE "client">>

VARIABLE nic   \* the state of each end's RdmaContext and hardware, see NewContext

Opcodes == {"send", "recv"}

\* state: "init" after init(), "up" after connect(), "error", or "gone" after destroy()
\* posted: the work requests whose completions are not polled; each takes up an
\*        entry of its queue until then
\* recvs: receives posted and not completed; in: recv_buf_; out: send_buf_
\* send:  the message in `out` is "none", "posted", or "landed" but not completed
\* cq:    completions not polled, <<opcode, success>>
NewContext == [state |-> "init", posted |-> [op \in Opcodes |-> 0], recvs |-> 0, send |-> "none",
               out |-> NoMessage, in |-> NoMessage, cq |-> <<>>]

-----------------------------------------------------------------------------
(* What the program does, as functions of one end's context.               *)

Connected(n) == [n EXCEPT !.state = "up"]

\* The queue pair, its completions and its buffers are gone.
Destroyed == [NewContext EXCEPT !.state = "gone"]

\* Fault: the queues are as long as the completion queue they share.
HasRoomToSpare(n, op) == n.posted[op] < CqSize

\* ibv_post_recv and ibv_post_send fail when their queue is full.
HasRoom(n, op) == n.posted[op] < MaxPosted

\* post_recv: on a broken queue pair it completes at once, with an error.
WithRecv(n) ==
  IF n.state = "error"
  THEN [n EXCEPT !.posted["recv"] = @ + 1, !.cq = Append(@, <<"recv", FALSE>>)]
  ELSE [n EXCEPT !.posted["recv"] = @ + 1, !.recvs = @ + 1]

\* post_send copies the message into the one send buffer.
WithSend(n, message) ==
  IF n.state = "error"
  THEN [n EXCEPT !.posted["send"] = @ + 1, !.out = message, !.cq = Append(@, <<"send", FALSE>>)]
  ELSE [n EXCEPT !.posted["send"] = @ + 1, !.out = message, !.send = "posted"]

\* The message is in the buffer by the time that ibv_post_send fails.
WithSendRefused(n, message) == [n EXCEPT !.out = message]

\* poll_completion spins until there is a completion, and takes one.
PollSucceeds(n) == n.cq # <<>> /\ Head(n.cq)[2]
PollFails(n)    == n.cq # <<>> /\ ~Head(n.cq)[2]
Polled(n)       == [n EXCEPT !.posted[Head(n.cq)[1]] = @ - 1, !.cq = Tail(@)]

-----------------------------------------------------------------------------
(* The hardware.                                                           *)

\* The message goes from the send buffer into the receive buffer.
Delivers(e) ==
  /\ nic[e].state = "up" /\ nic[e].send = "posted"
  /\ nic[Peer(e)].state = "up" /\ nic[Peer(e)].recvs > 0
  /\ nic' = [nic EXCEPT ![e].send = "landed",
                        ![Peer(e)].recvs = @ - 1,
                        ![Peer(e)].in = nic[e].out,
                        ![Peer(e)].cq = Append(@, <<"recv", TRUE>>)]

\* The acknowledgement comes back.  A response may overtake it.
Acknowledges(e) ==
  /\ nic[e].send = "landed"
  /\ nic' = [nic EXCEPT ![e].send = "none", ![e].cq = Append(@, <<"send", TRUE>>)]

\* The peer does not answer (it may have, and the acknowledgements be lost):
\* the queue pair breaks, which flushes its receives.
Breaks(e) ==
  /\ nic[e].send # "none"
  /\ nic[Peer(e)].state # "up" \/ e \in LossyLinks
  /\ nic' = [nic EXCEPT ![e].state = "error", ![e].send = "none", ![e].recvs = 0,
                        ![e].cq = Append(@, <<"send", FALSE>>) \o
                                    [i \in 1 .. nic[e].recvs |-> <<"recv", FALSE>>]]

Hardware(e) == Delivers(e) \/ Acknowledges(e) \/ Breaks(e)
=============================================================================
