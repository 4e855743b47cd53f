------------------------------ MODULE TwoSided ------------------------------
(***************************************************************************)
(* Two-sided RDMA: each session is a client, a server thread and a queue   *)
(* pair between them; the threads share the store.                         *)
(*                                                                         *)
(* A client has one request outstanding: it arms a receive, sends, and     *)
(* polls two completions, which come in either order.  A benchmark worker  *)
(* goes on after a failure and ends with QUIT; an interactive client stops *)
(* at the first failure, and may leave at the prompt.                      *)
(*                                                                         *)
(* The store call of a thread is one step: it is made under the mutex of   *)
(* KeyValueStore, and nothing else of a thread's turn is shared.           *)
(***************************************************************************)
EXTENDS QueuePair, KvCommands

CONSTANTS Workers,       \* the sessions that are benchmark workers
          Unconnected,   \* those whose connection may fail to be set up
          Script,        \* what each client may ask, request by request, before QUIT
          Wire(_),       \* what is left of a request in RDMA_MSG_SIZE bytes
          HasBye(_)      \* whether "BYE" occurs in a value

ASSUME SessionAssumption == Workers \subseteq Sessions /\ DOMAIN Script = Sessions

VARIABLES client,    \* where each client is
          thread,    \* where its server thread is
          kv,        \* the contents of the store
          issued,    \* history: the requests each client has made,
          executed,  \* those its thread has executed,
          answers,   \* the responses it gave,
          got        \* and those the client has taken

histories == <<issued, executed, answers, got>>
vars == <<nic, client, thread, kv, histories>>

Client(c) == <<c, "client">>
Server(c) == <<c, "server">>

Quit == [type |-> "quit"]
NoHistory == [c \in Sessions |-> <<>>]

\* Every client has made its TCP connection, and accept has started its thread.
Init ==
  /\ nic = [e \in Ends |-> NewContext]
  /\ client = [c \in Sessions |-> "new"]
  /\ thread = [c \in Sessions |-> "handshake"]
  /\ kv = EmptyStore
  /\ issued = NoHistory /\ executed = NoHistory /\ answers = NoHistory /\ got = NoHistory

-----------------------------------------------------------------------------
(* The client.                                                             *)

\* It returns, or its process ends; its RdmaContext goes with it.
Departs(c, how) ==
  /\ client' = [client EXCEPT ![c] = how]
  /\ nic' = [nic EXCEPT ![Client(c)] = Destroyed]

\* connect_rdma_session: the QP numbers are exchanged, and the client connects.
Connects(c) ==
  /\ client[c] = "new"
  /\ client' = [client EXCEPT ![c] = "idle"]
  /\ nic' = [nic EXCEPT ![Client(c)] = Connected(@)]
  /\ UNCHANGED <<thread, kv, histories>>

\* It fails: before its numbers are sent (the server's read_all fails), or after.
FailsToConnect(c) ==
  /\ client[c] = "new" /\ c \in Unconnected
  /\ Departs(c, "absent") \/ Departs(c, "left")
  /\ UNCHANGED <<thread, kv, histories>>

MayAsk(c, q) ==
  LET n == Len(issued[c]) + 1 IN
  IF n \in DOMAIN Script[c] THEN q \in Script[c][n] \/ (q = Quit /\ c \notin Workers)
                            ELSE q = Quit

\* post_recv.
ArmsRecv(c) ==
  /\ client[c] = "idle" /\ HasRoom(nic[Client(c)], "recv")
  /\ client' = [client EXCEPT ![c] = "asking"]
  /\ nic' = [nic EXCEPT ![Client(c)] = WithRecv(@)]
  /\ UNCHANGED <<thread, kv, histories>>

\* post_send.
Asks(c, q) ==
  /\ client[c] = "asking" /\ MayAsk(c, q) /\ HasRoom(nic[Client(c)], "send")
  /\ client' = [client EXCEPT ![c] = "first poll"]
  /\ nic' = [nic EXCEPT ![Client(c)] = WithSend(@, Wire(q))]
  /\ issued' = [issued EXCEPT ![c] = Append(@, q)]
  /\ UNCHANGED <<thread, kv, executed, answers, got>>

\* The first completion, whichever it is.
PollsFirst(c) ==
  /\ client[c] = "first poll" /\ PollSucceeds(nic[Client(c)])
  /\ client' = [client EXCEPT ![c] = "second poll"]
  /\ nic' = [nic EXCEPT ![Client(c)] = Polled(@)]
  /\ UNCHANGED <<thread, kv, histories>>

\* A worker leaves after QUIT; the interactive client when "BYE" is in the response.
Ended(c, response) ==
  IF c \in Workers THEN issued[c][Len(issued[c])] = Quit
                   ELSE response[1] = "BYE" \/ HasBye(response[2])

\* Fault: the response is read after one completion.
TakesResponseEarly(c) ==
  /\ client[c] \in {"first poll", "second poll"} /\ PollSucceeds(nic[Client(c)])
  /\ got' = [got EXCEPT ![c] = Append(@, nic[Client(c)].in)]
  /\ IF Ended(c, nic[Client(c)].in)
     THEN Departs(c, "left")
     ELSE /\ client' = [client EXCEPT ![c] = "idle"]
          /\ nic' = [nic EXCEPT ![Client(c)] = Polled(@)]
  /\ UNCHANGED <<thread, kv, issued, executed, answers>>

\* The second completion: the response is in the receive buffer.
TakesResponse(c) ==
  /\ client[c] = "second poll" /\ PollSucceeds(nic[Client(c)])
  /\ got' = [got EXCEPT ![c] = Append(@, nic[Client(c)].in)]
  /\ IF Ended(c, nic[Client(c)].in)
     THEN Departs(c, "left")
     ELSE /\ client' = [client EXCEPT ![c] = "idle"]
          /\ nic' = [nic EXCEPT ![Client(c)] = Polled(@)]
  /\ UNCHANGED <<thread, kv, issued, executed, answers>>

\* A worker counts a failed request and goes on; the others leave.
GoesOnAfterFailure(c, q) == c \in Workers /\ q # Quit

\* post_recv or post_send fails, for the completions that failed requests left:
\* the request is given up before it is sent, and nothing is polled.
CannotPost(c, q) ==
  /\ client[c] \in {"idle", "asking"} /\ MayAsk(c, q)
  /\ ~HasRoom(nic[Client(c)], IF client[c] = "idle" THEN "recv" ELSE "send")
  /\ issued' = [issued EXCEPT ![c] = Append(@, q)]
  /\ IF GoesOnAfterFailure(c, q)
     THEN /\ client' = [client EXCEPT ![c] = "idle"]
          /\ nic' = IF client[c] = "idle"
                    THEN nic ELSE [nic EXCEPT ![Client(c)] = WithSendRefused(@, Wire(q))]
     ELSE Departs(c, "left")
  /\ UNCHANGED <<thread, kv, executed, answers, got>>

\* Either poll reports an error; the request's other completion remains.
RequestFails(c) ==
  /\ client[c] \in {"first poll", "second poll"} /\ PollFails(nic[Client(c)])
  /\ IF GoesOnAfterFailure(c, issued[c][Len(issued[c])])
     THEN /\ client' = [client EXCEPT ![c] = "idle"]
          /\ nic' = [nic EXCEPT ![Client(c)] = Polled(@)]
     ELSE Departs(c, "left")
  /\ UNCHANGED <<thread, kv, histories>>

\* End of input at the interactive prompt.
Leaves(c) ==
  /\ client[c] = "idle" /\ c \notin Workers
  /\ Departs(c, "left")
  /\ UNCHANGED <<thread, kv, histories>>

-----------------------------------------------------------------------------
(* handle_two_sided_client, the server thread of a session.                *)

ThreadReturns(c) ==
  /\ thread' = [thread EXCEPT ![c] = "ended"]
  /\ nic' = [nic EXCEPT ![Server(c)] = Destroyed]

\* It has read the client's QP number and connects to it.
ThreadConnects(c) ==
  /\ thread[c] = "handshake" /\ client[c] \notin {"new", "absent"}
  /\ thread' = [thread EXCEPT ![c] = "arming"]
  /\ nic' = [nic EXCEPT ![Server(c)] = Connected(@)]
  /\ UNCHANGED <<client, kv, histories>>

\* The exchange or the connection fails.
ThreadGivesUp(c) ==
  /\ thread[c] = "handshake"
  /\ client[c] = "absent" \/ (c \in Unconnected /\ client[c] # "new")
  /\ ThreadReturns(c)
  /\ UNCHANGED <<client, kv, histories>>

\* post_recv; it would return if that failed, as it never does.
ThreadArms(c) ==
  /\ thread[c] = "arming"
  /\ IF HasRoom(nic[Server(c)], "recv")
     THEN /\ thread' = [thread EXCEPT ![c] = "receiving"]
          /\ nic' = [nic EXCEPT ![Server(c)] = WithRecv(@)]
     ELSE ThreadReturns(c)
  /\ UNCHANGED <<client, kv, histories>>

\* A request is in the receive buffer: it is executed and answered.
ThreadServes(c) ==
  /\ thread[c] = "receiving" /\ PollSucceeds(nic[Server(c)])
  /\ LET q == nic[Server(c)].in IN
       /\ kv' = Executed(kv, q)
       /\ executed' = [executed EXCEPT ![c] = Append(@, q)]
       /\ answers' = [answers EXCEPT ![c] = Append(@, Answer(kv, q))]
       /\ IF HasRoom(Polled(nic[Server(c)]), "send")
          THEN /\ thread' = [thread EXCEPT ![c] = "responding"]
               /\ nic' = [nic EXCEPT ![Server(c)] = WithSend(Polled(@), Answer(kv, q))]
          ELSE ThreadReturns(c)
  /\ UNCHANGED <<client, issued, got>>

LastExecuted(c) == executed[c][Len(executed[c])]

\* Fault: the completion of the response is not waited for.
ThreadGoesOnUnawaited(c) ==
  /\ thread[c] = "responding"
  /\ thread' = [thread EXCEPT ![c] = "arming"]
  /\ UNCHANGED <<nic, client, kv, histories>>

\* Fault: only the first request has a receive armed.
ThreadGoesOnUnarmed(c) ==
  /\ thread[c] = "responding" /\ PollSucceeds(nic[Server(c)])
  /\ IF LastExecuted(c) = Quit
     THEN ThreadReturns(c)
     ELSE /\ thread' = [thread EXCEPT ![c] = "receiving"]
          /\ nic' = [nic EXCEPT ![Server(c)] = Polled(@)]
  /\ UNCHANGED <<client, kv, histories>>

\* Fault: QUIT is answered like any other request.
ThreadGoesOnAfterQuit(c) ==
  /\ thread[c] = "responding" /\ PollSucceeds(nic[Server(c)])
  /\ thread' = [thread EXCEPT ![c] = "arming"]
  /\ nic' = [nic EXCEPT ![Server(c)] = Polled(@)]
  /\ UNCHANGED <<client, kv, histories>>

\* The response is out.
ThreadGoesOn(c) ==
  /\ thread[c] = "responding" /\ PollSucceeds(nic[Server(c)])
  /\ IF LastExecuted(c) = Quit
     THEN ThreadReturns(c)
     ELSE /\ thread' = [thread EXCEPT ![c] = "arming"]
          /\ nic' = [nic EXCEPT ![Server(c)] = Polled(@)]
  /\ UNCHANGED <<client, kv, histories>>

\* A completion reports an error.
ThreadStops(c) ==
  /\ thread[c] \in {"receiving", "responding"} /\ PollFails(nic[Server(c)])
  /\ ThreadReturns(c)
  /\ UNCHANGED <<client, kv, histories>>

-----------------------------------------------------------------------------
\* What a client does without being asked to: finish the request it has begun
\* and, if it is a worker, begin the next.
ClientRuns(c) ==
  \/ PollsFirst(c) \/ TakesResponse(c) \/ RequestFails(c)
  \/ \E q \in UNION {Script[c][n] : n \in DOMAIN Script[c]} \cup {Quit} : Asks(c, q) \/ CannotPost(c, q)

ThreadRuns(c) ==
  \/ ThreadConnects(c) \/ ThreadGivesUp(c)
  \/ ThreadArms(c) \/ ThreadServes(c) \/ ThreadGoesOn(c) \/ ThreadStops(c)

HardwareRuns(e) == Hardware(e) /\ UNCHANGED <<client, thread, kv, histories>>

Next ==
  \/ \E c \in Sessions : \/ Connects(c) \/ FailsToConnect(c) \/ ArmsRecv(c) \/ Leaves(c)
                         \/ ClientRuns(c)
                         \/ ThreadRuns(c)
  \/ \E e \in Ends : HardwareRuns(e)

Spec == Init /\ [][Next]_vars

FairSpec ==
  /\ Spec
  /\ \A c \in Sessions : WF_vars(ClientRuns(c)) /\ WF_vars(ThreadRuns(c))
  /\ \A e \in Ends : WF_vars(HardwareRuns(e))

-----------------------------------------------------------------------------
(* Properties                                                              *)

Prefix(s, t) == Len(s) <= Len(t) /\ s = SubSeq(t, 1, Len(s))

\* The completion queue never overflows, which would break the queue pair and
\* lose completions: a worker that goes on after failures leaves one completion
\* behind for each, until its queues are full and posting fails.
CompletionsFit == \A e \in Ends : Len(nic[e].cq) <= CqSize

\* Every request is executed at most once, in order and as it was sent (up to
\* the length that is sent), although sends are retried and workers go on after
\* failures; and while the client's queue pair works at most one is outstanding.
ExecutedAtMostOnce ==
  \A c \in Sessions :
    /\ Prefix(executed[c], [n \in DOMAIN issued[c] |-> Wire(issued[c][n])])
    /\ nic[Client(c)].state = "up" => Len(executed[c]) >= Len(issued[c]) - 1

\* The n-th response a client takes answers its n-th request: none is taken
\* twice, stale, or for another request, in whichever order completions come.
ResponsesMatchRequests == \A c \in Sessions : Prefix(got[c], answers[c])

\* Between two requests a working queue pair has nothing posted and nothing to
\* poll, at either end, so that no completion is ever counted for another request.
CleanBetweenRequests ==
  \A c \in Sessions : \A e \in {Client(c), Server(c)} :
    nic[e].state = "up" /\ (IF e = Client(c) THEN client[c] = "idle" ELSE thread[c] = "arming")
      => nic[e].cq = <<>> /\ nic[e].recvs = 0 /\ nic[e].send = "none"

\* The send buffer is not written before the message in it has completed: until
\* then the hardware may read it, to send it or to send it again.
SendBufferLeftAlone ==
  [][\A e \in Ends : nic[e].send # "none" /\ nic'[e].state # "gone" =>
       nic'[e].out = nic[e].out]_vars

\* A request returns, with a response or an error, unless its server thread is
\* gone: then the client may spin for a response that nobody will send.
Waiting(c) == client[c] \in {"first poll", "second poll"}

RequestsReturn ==
  \A c \in Sessions : Waiting(c) ~> ~Waiting(c) \/ thread[c] = "ended"

\* QUIT, once executed, ends the server thread, whatever becomes of its answer.
QuitEndsThread ==
  \A c \in Sessions : executed[c] # <<>> /\ LastExecuted(c) = Quit ~> thread[c] = "ended"

\* Like the handle_client it "mirrors exactly", which "processes requests until
\* the client disconnects", a thread ends when its client has left.
ThreadsEndWithClients == \A c \in Sessions : client[c] = "left" ~> thread[c] = "ended"
=============================================================================
