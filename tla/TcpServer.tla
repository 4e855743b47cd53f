----------------------------- MODULE TcpServer ------------------------------
(***************************************************************************)
(* The TCP server: the accept coroutine and one handle_client coroutine    *)
(* for each connection, on EventLoop, with the store they share.           *)
(*                                                                         *)
(* A coroutine's step is one system call with what it does up to the next; *)
(* the clients and the kernel act between any two.  A line of a request    *)
(* arrives in RequestParts pieces <<line, part>>, the last of which has    *)
(* the newline; a response leaves in ResponseParts pieces.                 *)
(*                                                                         *)
(* The kernel's sockets and the clients are outside src/server.  A client  *)
(* writes the lines of its script, at any time (it may be ahead of the     *)
(* answers), and reads; it may then end its output, or just leave.         *)
(***************************************************************************)
EXTENDS EventLoop, KvCommands

CONSTANTS Clients,
          Acceptor,       \* the coroutine of accept_loop
          ListenFd,
          ClientFds,      \* the descriptors left for connections
          NoFd,
          Script,         \* the requests of each client
          HalfClosers,    \* the clients that may end their output,
          Leavers,        \* those that may leave before they are served,
          Unlucky,        \* and those whose socket cannot be made nonblocking
          RequestParts, ResponseParts,
          SendBuffer      \* the pieces a socket holds until the client reads

ASSUME ServerAssumption ==
  /\ Coroutines = Clients \cup {Acceptor} /\ Acceptor \notin Clients
  /\ Descriptors = ClientFds \cup {ListenFd} /\ ListenFd \notin ClientFds
  /\ NoFd \notin Descriptors
  /\ RequestParts \in Nat \ {0} /\ ResponseParts \in Nat \ {0}
  /\ SendBuffer \in Nat \ {0}
  /\ ClientFds \subseteq Nat /\ IsFiniteSet(ClientFds)
  /\ \A c \in Clients : Len(Script[c]) \in Nat /\ DOMAIN Script[c] = 1 .. Len(Script[c])
  /\ \A c \in Clients : \A n \in DOMAIN Script[c] :
       /\ Script[c][n].type \in {"get", "set", "del", "quit", "invalid"}
       /\ Script[c][n].type \in {"get", "set", "del"} => Script[c][n].key \in Keys

\* A client writes nothing after QUIT, which would not be answered.
ASSUME QuitAssumption ==
  \A c \in Clients : \A n \in DOMAIN Script[c] :
    Script[c][n].type = "quit" => n = Len(Script[c])

VARIABLES frame,     \* the locals of each handle_client, see Frame
          atAccept,  \* whether accept_loop has passed its first co_await
          fdOf,      \* client_fd of each connection
          conn,      \* the connections as the kernel has them, see Connection
          backlog,   \* connections not yet accepted
          kv,        \* the store
          answers,   \* history: the responses to each client, as executed
          got        \* history: the pieces each client has read

serverVars == <<frame, atAccept, fdOf, backlog, kv, answers>>
vars == <<loopVars, serverVars, conn, got>>

-----------------------------------------------------------------------------
(* Requests and responses.                                                 *)

\* The pieces of a sequence of responses.
Pieces(a) ==
  [n \in 1 .. Len(a) * ResponseParts |->
     <<a[((n - 1) \div ResponseParts) + 1], ((n - 1) % ResponseParts) + 1>>]

Newlines(s) == {n \in DOMAIN s : s[n][2] = RequestParts}
HasLine(s)  == Newlines(s) # {}
LineEnd(s)  == CHOOSE n \in Newlines(s) : \A m \in Newlines(s) : n <= m

-----------------------------------------------------------------------------
(* State.                                                                  *)

\* inbound: bytes received and not yet executed; sent: the pieces of the last
\* response the kernel has accepted (`offset`).
NoFrame == [pc |-> "none", inbound |-> <<>>, sent |-> 0]

\* up: sent by the client, not received; typed: how many pieces that were;
\* down: accepted from the server, not read; peer: what the server's socket
\* knows of the client.
\*   open, shut (end of output), gone (left with nothing unread), doomed (gone,
\*   and data were sent to it since), broken (doomed, and its reset arrived),
\*   reset (left with unread data, which resets at once)
NoConnection == [state |-> "none", up |-> <<>>, typed |-> 0, down |-> <<>>, peer |-> "open"]

Init ==
  /\ LoopInit(Acceptor)
  /\ frame = [c \in Clients |-> NoFrame]
  /\ atAccept = FALSE
  /\ fdOf = [c \in Clients |-> NoFd]
  /\ conn = [c \in Clients |-> NoConnection]
  /\ backlog = <<>>
  /\ kv = EmptyStore
  /\ answers = [c \in Clients |-> <<>>]
  /\ got = answers

InUse   == {fdOf[c] : c \in Clients}
FreeFds == ClientFds \ InUse

\* The kernel hands out the lowest descriptor.
NextFd == CHOOSE fd \in FreeFds : \A d \in FreeFds : fd <= d

-----------------------------------------------------------------------------
(* accept_loop                                                             *)

Accepting == loop = "running" /\ running = Acceptor /\ atAccept

\* Its first step only waits for the listening socket.
AcceptStarts ==
  /\ loop = "running" /\ running = Acceptor /\ ~atAccept
  /\ atAccept' = TRUE
  /\ WaitRead(ListenFd)
  /\ UNCHANGED <<frame, fdOf, conn, backlog, kv, answers, got>>

\* accept succeeds: a handler is spawned, and accept is tried again.
Accepts ==
  /\ Accepting /\ backlog # <<>> /\ FreeFds # {}
  /\ LET c == Head(backlog) IN
       /\ fdOf' = [fdOf EXCEPT ![c] = NextFd]
       /\ conn' = [conn EXCEPT ![c].state = "accepted"]
       /\ frame' = [frame EXCEPT ![c].pc = "recv"]
       /\ Spawn(c)
  /\ backlog' = Tail(backlog)
  /\ UNCHANGED <<atAccept, kv, answers, got>>

\* set_non_blocking fails: the connection is closed, and accept is tried again.
AcceptDrops ==
  /\ Accepting /\ backlog # <<>> /\ FreeFds # {}
  /\ Head(backlog) \in Unlucky
  /\ conn' = [conn EXCEPT ![Head(backlog)].state = "closed"]
  /\ backlog' = Tail(backlog)
  /\ UNCHANGED <<loopVars, atAccept, frame, fdOf, kv, answers, got>>

\* Fault: the accept coroutine gives up when no descriptor is left.
AcceptGivesUp ==
  /\ Accepting /\ (backlog = <<>> \/ FreeFds = {})
  /\ IF backlog = <<>> THEN WaitRead(ListenFd) ELSE Finish
  /\ UNCHANGED <<serverVars, conn, got>>

\* EAGAIN, or no descriptor is left (reported only): wait for the next client.
AcceptWaits ==
  /\ Accepting /\ (backlog = <<>> \/ FreeFds = {})
  /\ WaitRead(ListenFd)
  /\ UNCHANGED <<serverVars, conn, got>>

-----------------------------------------------------------------------------
(* handle_client                                                           *)

At(c, pc) == loop = "running" /\ running = c /\ frame[c].pc = pc

\* Fault: the coroutine returns without closing its socket.
ReturnsOnly(c) ==
  /\ frame' = [frame EXCEPT ![c] = [NoFrame EXCEPT !.pc = "done"]]
  /\ UNCHANGED <<fdOf, conn>>
  /\ Finish

\* close_socket(client_fd) and co_return.
Closes(c) ==
  /\ frame' = [frame EXCEPT ![c] = [NoFrame EXCEPT !.pc = "done"]]
  /\ fdOf' = [fdOf EXCEPT ![c] = NoFd]
  /\ conn' = [conn EXCEPT ![c].state = "closed", ![c].up = <<>>]
  /\ Finish

\* recv returns data, and is tried again.
Receives(c) ==
  /\ At(c, "recv") /\ conn[c].up # <<>>
  /\ frame' = [frame EXCEPT ![c].inbound = @ \o conn[c].up]
  /\ conn' = [conn EXCEPT ![c].up = <<>>]
  /\ UNCHANGED <<loopVars, atAccept, fdOf, backlog, kv, answers, got>>

\* recv returns 0 or an error: the session ends, whatever is buffered.
ReceivesEnd(c) ==
  /\ At(c, "recv") /\ conn[c].up = <<>> /\ conn[c].peer # "open"
  /\ Closes(c)
  /\ UNCHANGED <<atAccept, backlog, kv, answers, got>>

\* recv would block: go on to the lines.
ReceivesNothing(c) ==
  /\ At(c, "recv") /\ conn[c].up = <<>> /\ conn[c].peer = "open"
  /\ frame' = [frame EXCEPT ![c].pc = "lines"]
  /\ UNCHANGED <<loopVars, atAccept, fdOf, conn, backlog, kv, answers, got>>

\* The n-th line c writes, and what parse_request makes of a line of text: the
\* request, if it is one of these and whole.
LineOf(n)      == [part \in 1 .. RequestParts |-> <<n, part>>]
Parsed(c, text) ==
  IF \E n \in DOMAIN Script[c] : text = LineOf(n)
  THEN Script[c][CHOOSE n \in DOMAIN Script[c] : text = LineOf(n)]
  ELSE [type |-> "invalid"]

\* Parse, execute and serialize the first line; `rest` stays in the buffer.
Serves(c, rest) ==
  LET q == Parsed(c, SubSeq(frame[c].inbound, 1, LineEnd(frame[c].inbound))) IN
    /\ kv' = Executed(kv, q)
    /\ answers' = [answers EXCEPT ![c] = Append(@, Answer(kv, q))]
    /\ frame' = [frame EXCEPT ![c] = [pc |-> "send", sent |-> 0, inbound |-> rest]]
    /\ UNCHANGED <<loopVars, atAccept, fdOf, conn, backlog, got>>

\* Fault: the line is not erased from the buffer.
ExecutesAndKeeps(c) ==
  /\ At(c, "lines") /\ HasLine(frame[c].inbound)
  /\ Serves(c, frame[c].inbound)

\* Fault: the whole buffer is erased with the line.
ExecutesAndClears(c) ==
  /\ At(c, "lines") /\ HasLine(frame[c].inbound)
  /\ Serves(c, <<>>)

\* A complete line is taken out of the buffer and served.
Executes(c) ==
  /\ At(c, "lines") /\ HasLine(frame[c].inbound)
  /\ Serves(c, SubSeq(frame[c].inbound, LineEnd(frame[c].inbound) + 1, Len(frame[c].inbound)))

\* No complete line is left: wait for more.
AwaitsInput(c) ==
  /\ At(c, "lines") /\ ~HasLine(frame[c].inbound)
  /\ frame' = [frame EXCEPT ![c].pc = "recv"]
  /\ WaitRead(fdOf[c])
  /\ UNCHANGED <<atAccept, fdOf, conn, backlog, kv, answers, got>>

Least(a, b) == IF a <= b THEN a ELSE b

\* The pieces of the response that have still to be sent.
Unsent(c) ==
  SubSeq(Pieces(answers[c]), (Len(answers[c]) - 1) * ResponseParts + frame[c].sent + 1,
         Len(answers[c]) * ResponseParts)

Room(c) == SendBuffer - Len(conn[c].down)

Quits(c) == answers[c][Len(answers[c])][1] = "BYE"

\* send accepts what there is room for; what is sent to a client that left is
\* lost.  When the whole response is out, QUIT ends the session and any other
\* request is followed by the next line.
Sends(c) ==
  /\ At(c, "send")
  /\ LET gone == conn[c].peer \in {"gone", "doomed"}
         n    == IF gone THEN Len(Unsent(c)) ELSE Least(Room(c), Len(Unsent(c))) IN
       /\ gone \/ (conn[c].peer \in {"open", "shut"} /\ Room(c) > 0)
       /\ conn' = IF gone THEN [conn EXCEPT ![c].peer = "doomed"]
                          ELSE [conn EXCEPT ![c].down = @ \o SubSeq(Unsent(c), 1, n)]
       /\ frame' = [frame EXCEPT ![c].sent = @ + n,
                                 ![c].pc = IF n < Len(Unsent(c)) THEN "send"
                                           ELSE IF Quits(c) THEN "quit" ELSE "lines"]
  /\ UNCHANGED <<loopVars, atAccept, fdOf, backlog, kv, answers, got>>

\* Fault: the response is sent from its beginning after the wait.
AwaitsRoomAndRestarts(c) ==
  /\ At(c, "send") /\ conn[c].peer \in {"open", "shut"} /\ Room(c) = 0
  /\ frame' = [frame EXCEPT ![c].sent = 0]
  /\ WaitWrite(fdOf[c])
  /\ UNCHANGED <<atAccept, fdOf, conn, backlog, kv, answers, got>>

\* The socket is full: wait until it can be written.
AwaitsRoom(c) ==
  /\ At(c, "send") /\ conn[c].peer \in {"open", "shut"} /\ Room(c) = 0
  /\ WaitWrite(fdOf[c])
  /\ UNCHANGED <<serverVars, conn, got>>

\* send fails because the client reset the connection: the session ends.
SendFails(c) ==
  /\ At(c, "send") /\ conn[c].peer = "reset"
  /\ Closes(c)
  /\ UNCHANGED <<atAccept, backlog, kv, answers, got>>

\* send fails with EPIPE: flags are 0 and no handler is installed, so SIGPIPE
\* ends the process.
SendKills(c) ==
  /\ At(c, "send") /\ conn[c].peer = "broken"
  /\ loop' = "killed"
  /\ UNCHANGED <<ready, readWaiters, writeWaiters, running, serverVars, conn, got>>

ClosesAfterQuit(c) ==
  /\ At(c, "quit")
  /\ Closes(c)
  /\ UNCHANGED <<atAccept, backlog, kv, answers, got>>

-----------------------------------------------------------------------------
(* The loop, woken by the sockets.                                         *)

Open(fd)   == {c \in Clients : fdOf[c] = fd}
Input      == {fd \in ClientFds : \E c \in Open(fd) : conn[c].up # <<>> \/ conn[c].peer # "open"}
                \cup (IF backlog # <<>> THEN {ListenFd} ELSE {})
Output     == {fd \in ClientFds : \E c \in Open(fd) : Room(c) > 0}
Errors     == {fd \in ClientFds : \E c \in Open(fd) : conn[c].peer \in {"broken", "reset"}}

LoopStep == /\ Resume \/ Polls(Input, Output, Errors)
            /\ UNCHANGED <<serverVars, conn, got>>

-----------------------------------------------------------------------------
(* The clients and the network.                                            *)

Known(c) == conn[c].state \in {"backlog", "accepted"}

Connects(c) ==
  /\ conn[c].state = "none"
  /\ conn' = [conn EXCEPT ![c].state = "backlog"]
  /\ backlog' = Append(backlog, c)
  /\ UNCHANGED <<loopVars, frame, atAccept, fdOf, kv, answers, got>>

\* The next piece of the script is written and arrives.
Types(c) ==
  /\ Known(c) /\ conn[c].peer = "open"
  /\ conn[c].typed < Len(Script[c]) * RequestParts
  /\ LET n == conn[c].typed IN
       conn' = [conn EXCEPT ![c].typed = n + 1,
                            ![c].up = Append(@, <<(n \div RequestParts) + 1, (n % RequestParts) + 1>>)]
  /\ UNCHANGED <<loopVars, serverVars, got>>

Reads(c) ==
  /\ conn[c].down # <<>> /\ conn[c].peer \in {"open", "shut"}
  /\ got' = [got EXCEPT ![c] = Append(@, Head(conn[c].down))]
  /\ conn' = [conn EXCEPT ![c].down = Tail(@)]
  /\ UNCHANGED <<loopVars, serverVars>>

\* The client ends its output once its script is written, and goes on reading.
Shuts(c) ==
  /\ c \in HalfClosers /\ Known(c) /\ conn[c].peer = "open"
  /\ conn[c].typed = Len(Script[c]) * RequestParts
  /\ conn' = [conn EXCEPT ![c].peer = "shut"]
  /\ UNCHANGED <<loopVars, serverVars, got>>

\* The client closes its socket, or its process ends.
Leaves(c) ==
  /\ c \in Leavers /\ Known(c) /\ conn[c].peer \in {"open", "shut"}
  /\ conn' = [conn EXCEPT ![c].down = <<>>,
                          ![c].peer = IF conn[c].down = <<>> THEN "gone"
                                      ELSE IF @ = "open" THEN "reset" ELSE "broken"]
  /\ UNCHANGED <<loopVars, serverVars, got>>

\* The answer to data sent to a client that has gone.
ResetArrives(c) ==
  /\ Known(c) /\ conn[c].peer = "doomed"
  /\ conn' = [conn EXCEPT ![c].peer = "broken"]
  /\ UNCHANGED <<loopVars, serverVars, got>>

-----------------------------------------------------------------------------
Accept == AcceptStarts \/ Accepts \/ AcceptDrops \/ AcceptWaits

HandleClient(c) ==
  \/ Receives(c) \/ ReceivesEnd(c) \/ ReceivesNothing(c)
  \/ Executes(c) \/ AwaitsInput(c)
  \/ Sends(c) \/ AwaitsRoom(c) \/ SendFails(c) \/ SendKills(c)
  \/ ClosesAfterQuit(c)

Server == LoopStep \/ Accept \/ \E c \in Clients : HandleClient(c)

Environment == \E c \in Clients : \/ Connects(c) \/ Types(c) \/ Reads(c)
                                  \/ Shuts(c) \/ Leaves(c) \/ ResetArrives(c)

Next == Server \/ Environment

Spec == Init /\ [][Next]_vars

\* The server's one thread runs, and a client that stays reads what it is sent.
FairSpec == Spec /\ WF_vars(Server) /\ \A c \in Clients : WF_vars(Reads(c))

-----------------------------------------------------------------------------
(* Properties                                                              *)

Piece == Nat \X (1 .. RequestParts)

TypeOK ==
  /\ LoopTypeOK
  /\ atAccept \in BOOLEAN
  /\ fdOf \in [Clients -> ClientFds \cup {NoFd}]
  /\ backlog \in Seq(Clients)
  /\ \A c \in Clients :
       /\ frame[c].pc \in {"none", "recv", "lines", "send", "quit", "done"}
       /\ Len(answers[c]) <= Len(Script[c])
       /\ frame[c].inbound \in Seq(Piece) /\ frame[c].sent \in 0 .. ResponseParts
       /\ conn[c].state \in {"none", "backlog", "accepted", "closed"}
       /\ conn[c].up \in Seq(Piece) /\ conn[c].typed \in 0 .. Len(Script[c]) * RequestParts
       /\ Len(conn[c].down) <= SendBuffer
       /\ conn[c].peer \in {"open", "shut", "gone", "doomed", "broken", "reset"}

Live(c) == frame[c].pc \notin {"none", "done"}

\* A coroutine that was spawned and has not returned is in exactly one place:
\* running, ready or waiting for one descriptor.  None is lost by a second
\* waiter on its descriptor, none is resumed twice, and none after its end.
OnePlaceEach ==
  /\ Cardinality(Places(Acceptor)) = 1
  /\ \A c \in Clients : Cardinality(Places(c)) = IF Live(c) THEN 1 ELSE 0

\* Descriptors are reused, but no two sessions share one, a session that ended
\* keeps none, and whoever waits for a descriptor is the session that owns it.
DescriptorsOwned ==
  /\ \A c \in Clients : Live(c) <=> fdOf[c] # NoFd
  /\ \A c, d \in Clients : Live(c) /\ Live(d) /\ fdOf[c] = fdOf[d] => c = d
  /\ \A fd \in ClientFds, c \in Clients :
       readWaiters[fd] = c \/ writeWaiters[fd] = c => fdOf[c] = fd

\* While a client is there, what it has read, what is on the way and what has
\* still to be sent are exactly the answers to its requests, in order: nothing
\* is lost, doubled or torn, however the sends were cut by a full socket.
ResponsesInOrder ==
  \A c \in Clients : Live(c) /\ conn[c].peer \in {"open", "shut"} =>
    got[c] \o conn[c].down \o (IF frame[c].pc = "send" THEN Unsent(c) ELSE <<>>)
      = Pieces(answers[c])

\* The n-th answer of a session answers its n-th request: no buffered line is
\* skipped, doubled or joined with another.
AnswersMatchRequests ==
  \A c \in Clients : \A n \in DOMAIN answers[c] : answers[c][n][1] \in Words(Script[c][n])

\* A request that arrived whole on an accepted connection is answered, and the
\* whole answer is read, unless the client ends its output or leaves (or the
\* server is killed).
Typed(c, n)    == conn[c].state = "accepted" /\ conn[c].typed >= n * RequestParts
Answered(c, n) == Len(got[c]) >= n * ResponseParts

RequestsAnswered ==
  \A c \in Clients : \A n \in 1 .. Len(Script[c]) :
    Typed(c, n) ~> Answered(c, n) \/ conn[c].peer # "open" \/ loop = "killed"

\* No connection waits for ever to be accepted while a descriptor is free,
\* although accept reports the shortage of descriptors only once per wake-up.
FreeDescriptorsAreUsed ==
  \A c \in Clients :
    []<>(conn[c].state = "backlog" => FreeFds = {} \/ loop = "killed")

\* "Process every complete newline-delimited command currently buffered": a
\* session ends for the client's end of output only when no line is left.
BufferedLinesAreProcessed ==
  [][\A c \in Clients :
       At(c, "recv") /\ conn[c].peer = "shut" /\ conn'[c].state = "closed" =>
         ~HasLine(frame[c].inbound)]_vars

\* "Any other send error closes the connection", and only that one.
SendErrorsEndOneSession == loop # "killed"
=============================================================================
