-------------------------- MODULE TcpServerProofs ---------------------------
(***************************************************************************)
(* What the TCP server keeps straight, proved for any clients, scripts,    *)
(* descriptors and sizes of pieces and buffers: every coroutine is in one  *)
(* place, every descriptor with one session, and every session's stream of *)
(* requests and stream of responses is whole.                              *)
(***************************************************************************)
EXTENDS TcpServer, FiniteSetTheorems, SequenceTheorems, WellFoundedInduction, TLAPS

\* What the store may hold, what may be answered, and in what pieces.
Stored ==
  {NoValue} \cup
    UNION {{Script[c][n].value : n \in {m \in DOMAIN Script[c] : Script[c][m].type = "set"}}
             : c \in Clients}

Response == {"VALUE", "NOT_FOUND", "OK", "BYE", "ERROR"} \X Stored

OutPiece == Response \X (1 .. ResponseParts)

Frames == [pc : {"none", "recv", "lines", "send", "quit", "done"},
           inbound : Seq(Piece), sent : 0 .. ResponseParts]

Connections == [state : {"none", "backlog", "accepted", "closed"},
                up : Seq(Piece), typed : Nat, down : Seq(OutPiece),
                peer : {"open", "shut", "gone", "doomed", "broken", "reset"}]

WellTyped ==
  /\ LoopTypeOK
  /\ atAccept \in BOOLEAN
  /\ backlog \in Seq(Clients)
  /\ kv \in [Keys -> Stored]

\* The coroutines that were spawned and have not returned.
Alive == {Acceptor} \cup {c \in Clients : Live(c)}

InQueue(q, h) == \E n \in DOMAIN q : q[n] = h

Waits(waiters, h) == \E fd \in Descriptors : waiters[fd] = h

\* With ready queue q, readers r, writers w and x running: nobody is in two places,
\* and who is in `alive` is in one.  A handler waits for its own descriptor, to
\* read in "recv" and to write in "send"; the acceptor waits to read ListenFd.
InOrder(q, r, w, x, alive, pc, own) ==
  /\ \A m, n \in DOMAIN q : q[m] = q[n] => m = n
  /\ \A n \in DOMAIN q : q[n] \in alive /\ q[n] # x /\ ~Waits(r, q[n]) /\ ~Waits(w, q[n])
  /\ x # Nobody => x \in alive /\ ~Waits(r, x) /\ ~Waits(w, x)
  /\ \A fd \in Descriptors : r[fd] # Nobody =>
       /\ r[fd] \in alive
       /\ IF r[fd] = Acceptor THEN fd = ListenFd ELSE own[r[fd]] = fd /\ pc[r[fd]] = "recv"
  /\ \A fd \in Descriptors : w[fd] # Nobody =>
       w[fd] \in alive /\ w[fd] # Acceptor /\ own[w[fd]] = fd /\ pc[w[fd]] = "send"
  /\ \A h \in alive : InQueue(q, h) \/ x = h \/ Waits(r, h) \/ Waits(w, h)

Stages == [c \in Clients |-> frame[c].pc]

Placed == InOrder(ready, readWaiters, writeWaiters, running, Alive, Stages, fdOf)

\* No descriptor has two sessions; who waits to be accepted waits once.
Owned ==
  /\ \A c, d \in Clients : fdOf[c] = fdOf[d] /\ fdOf[c] # NoFd => c = d
  /\ \A m, n \in DOMAIN backlog : backlog[m] = backlog[n] => m = n
  /\ \A n \in DOMAIN backlog : conn[backlog[n]].state = "backlog"

\* The m-th piece that a client writes.
Part(m) == <<((m - 1) \div RequestParts) + 1, ((m - 1) % RequestParts) + 1>>

\* Of one session: f is its frame, n its connection, fd its descriptor, a what it
\* was answered and g what its client has read.

\* A session is where its connection is.
Stage(f, n, fd, a, g) ==
  /\ n.state \in {"none", "backlog"} => f = NoFrame /\ a = <<>> /\ g = <<>> /\ n.down = <<>>
  /\ n.state = "accepted" <=> f.pc \notin {"none", "done"}
  /\ n.state = "accepted" <=> fd # NoFd
  /\ f.pc = "send" => Len(a) > 0

\* What was written (`typed` pieces) is what was answered, then what is buffered,
\* then what is on the way, each piece in its place.
Whole(inbound, up, typed, a) ==
  LET done == Len(a) * RequestParts IN
  /\ typed = done + Len(inbound) + Len(up)
  /\ \A m \in 1 .. Len(inbound) : inbound[m] = Part(done + m)
  /\ \A m \in 1 .. Len(up) : up[m] = Part(done + Len(inbound) + m)

Asked(c, f, n, a) ==
  /\ n.typed <= Len(Script[c]) * RequestParts
  /\ Len(a) <= Len(Script[c])
  /\ \A m \in 1 .. Len(a) : a[m][1] \in Words(Script[c][m])
  /\ n.state # "closed" => Whole(f.inbound, n.up, n.typed, a)

\* The pieces of the answers that have been given to the kernel.
Out(f, a) ==
  IF f.pc = "send" THEN (Len(a) - 1) * ResponseParts + f.sent ELSE Len(a) * ResponseParts

\* The first `out` pieces of the answers have been read or are on the way.
Delivered(down, a, g, out) ==
  /\ Len(g) + Len(down) = out
  /\ \A m \in 1 .. Len(g) : g[m] = Pieces(a)[m]
  /\ \A m \in 1 .. Len(down) : down[m] = Pieces(a)[Len(g) + m]

Told(f, n, a, g) ==
  /\ Len(n.down) <= SendBuffer
  /\ n.state = "accepted" /\ n.peer \in {"open", "shut"} => Delivered(n.down, a, g, Out(f, a))

\* A session in order.
Fine(c, f, n, fd, a, g) ==
  /\ f \in Frames /\ n \in Connections /\ fd \in ClientFds \cup {NoFd}
  /\ a \in Seq(Response) /\ g \in Seq(OutPiece)
  /\ Stage(f, n, fd, a, g) /\ Asked(c, f, n, a) /\ Told(f, n, a, g)

InSession(c) == Fine(c, frame[c], conn[c], fdOf[c], answers[c], got[c])

Sessions ==
  /\ frame \in [Clients -> Frames]
  /\ conn \in [Clients -> Connections]
  /\ fdOf \in [Clients -> ClientFds \cup {NoFd}]
  /\ answers \in [Clients -> Seq(Response)]
  /\ got \in [Clients -> Seq(OutPiece)]
  /\ \A c \in Clients : InSession(c)

IInv == WellTyped /\ Sessions /\ Placed /\ Owned

-----------------------------------------------------------------------------
(* Lines and pieces.                                                       *)

\* Division with remainder, the other way round.
LEMMA Division ==
  ASSUME NEW r \in Nat \ {0}, NEW a \in Nat, NEW k \in 0 .. r - 1
  PROVE  (a * r + k) \div r = a /\ (a * r + k) % r = k
<1>1. (a * r + k) \div r = a
  OBVIOUS
<1>2. (a * r + k) % r = k
  OBVIOUS
<1> QED BY <1>1, <1>2

LEMMA Remainder ==
  ASSUME NEW r \in Nat \ {0}, NEW x \in Nat
  PROVE  /\ x \div r \in Nat /\ x % r \in 0 .. r - 1
         /\ x = (x \div r) * r + (x % r)
  OBVIOUS

LEMMA Products ==
  ASSUME NEW r \in Nat \ {0}, NEW a \in Nat, NEW b \in Nat
  PROVE  /\ a * r \in Nat /\ (a + 1) * r = a * r + r /\ (a - 1) * r = a * r - r
         /\ a * r < b * r => a < b
         /\ a < b => a * r + r <= b * r
  OBVIOUS

\* The pieces of the line after a lines.
LEMMA PartOfLine ==
  ASSUME NEW a \in Nat, NEW n \in 1 .. RequestParts
  PROVE  Part(a * RequestParts + n) = <<a + 1, n>>
<1>1. RequestParts \in Nat \ {0}
  BY ServerAssumption
<1> DEFINE r == RequestParts
           x == a * r
<1>2. x \in Nat
  BY <1>1, Products
<1>3. x + n - 1 = x + (n - 1) /\ n - 1 \in 0 .. r - 1
  BY <1>1, <1>2
<1>4. (x + n - 1) \div r = a /\ (x + n - 1) % r = n - 1
  <2> DEFINE k == n - 1
  <2>1. k \in 0 .. r - 1
    BY <1>3
  <2>2. (x + k) \div r = a /\ (x + k) % r = k
    BY <1>1, <2>1, Division
  <2> QED BY <1>3, <2>2
<1> HIDE DEF x
<1>5. Part(x + n) = <<a + 1, (n - 1) + 1>>
  BY <1>1, <1>2, <1>4 DEF Part
<1>6. (n - 1) + 1 = n
  OBVIOUS
<1> QED BY <1>5, <1>6 DEF x

LEMMA PartIsPiece ==
  ASSUME NEW m \in Nat \ {0}
  PROVE  Part(m) \in Piece
<1>1. RequestParts \in Nat \ {0} /\ m - 1 \in Nat
  BY ServerAssumption
<1>2. (m - 1) \div RequestParts \in Nat /\ (m - 1) % RequestParts \in 0 .. RequestParts - 1
  BY <1>1, Remainder
<1>3. ((m - 1) \div RequestParts) + 1 \in Nat /\ ((m - 1) % RequestParts) + 1 \in 1 .. RequestParts
  BY <1>1, <1>2
<1> QED BY <1>3 DEF Part, Piece

\* In a buffer that begins with line a + 1, that line is what its first newline ends.
LEMMA FirstLine ==
  ASSUME NEW a \in Nat, NEW s \in Seq(Piece), HasLine(s),
         \A m \in 1 .. Len(s) : s[m] = Part(a * RequestParts + m)
  PROVE  /\ RequestParts <= Len(s)
         /\ LineEnd(s) = RequestParts
         /\ SubSeq(s, 1, LineEnd(s)) = LineOf(a + 1)
<1> DEFINE r == RequestParts
<1>1. r \in Nat \ {0} /\ Len(s) \in Nat /\ DOMAIN s = 1 .. Len(s)
  BY ServerAssumption, LenProperties
<1>2. ASSUME NEW m \in 1 .. Len(s), m <= r
      PROVE  s[m] = <<a + 1, m>>
  <2>1. m \in 1 .. r
    BY <1>1, <1>2
  <2>2. Part(a * r + m) = <<a + 1, m>>
    BY <2>1, PartOfLine
  <2> QED BY <2>2
<1>3. \A m \in Newlines(s) : m \in 1 .. Len(s) /\ m >= r
  <2> TAKE m \in Newlines(s)
  <2>1. m \in 1 .. Len(s) /\ s[m][2] = r
    BY <1>1 DEF Newlines
  <2>2. m < r => s[m][2] = m
    BY <1>1, <1>2, <2>1
  <2> QED BY <1>1, <2>1, <2>2
<1>4. r <= Len(s)
  BY <1>1, <1>3 DEF HasLine
<1>5. r \in Newlines(s)
  BY <1>1, <1>2, <1>4 DEF Newlines
<1>6. LineEnd(s) = r
  <2>1. \A m \in Newlines(s) : r <= m
    BY <1>1, <1>3
  <2>2. LineEnd(s) \in Newlines(s) /\ \A m \in Newlines(s) : LineEnd(s) <= m
    BY <1>5, <2>1 DEF LineEnd
  <2> DEFINE e == LineEnd(s)
  <2>3. e \in 1 .. Len(s) /\ e >= r
    BY <1>3, <2>2
  <2>4. e <= r
    BY <1>5, <2>2
  <2> HIDE DEF e
  <2>5. e = r
    BY <1>1, <2>3, <2>4
  <2> QED BY <2>5 DEF e
<1>7. SubSeq(s, 1, r) = LineOf(a + 1)
  <2>1. \A m \in 1 .. r : s[m] = <<a + 1, m>>
    BY <1>1, <1>2, <1>4
  <2>2. SubSeq(s, 1, r) = [m \in 1 .. r |-> s[m]]
    BY <1>1, <1>4
  <2> QED BY <2>1, <2>2 DEF LineOf
<1> QED BY <1>4, <1>6, <1>7

\* parse_request understands the lines that a client writes.
LEMMA LinesParsed ==
  ASSUME NEW c \in Clients, NEW n \in DOMAIN Script[c]
  PROVE  Parsed(c, LineOf(n)) = Script[c][n]
<1>1. \A m : LineOf(m)[1] = <<m, 1>>
  BY ServerAssumption DEF LineOf
<1>2. \A m : LineOf(m) = LineOf(n) => m = n
  BY <1>1
<1>3. (CHOOSE m \in DOMAIN Script[c] : LineOf(n) = LineOf(m)) = n
  BY <1>2
<1> QED BY <1>3 DEF Parsed

\* What comes of a request.
LEMMA Answering ==
  ASSUME NEW c \in Clients, NEW n \in DOMAIN Script[c], NEW store \in [Keys -> Stored]
  PROVE  /\ Answer(store, Script[c][n]) \in Response
         /\ Answer(store, Script[c][n])[1] \in Words(Script[c][n])
         /\ Executed(store, Script[c][n]) \in [Keys -> Stored]
<1> DEFINE q == Script[c][n]
<1>1. /\ q.type \in {"get", "set", "del", "quit", "invalid"}
      /\ q.type \in {"get", "set", "del"} => q.key \in Keys
  BY ServerAssumption
<1>2. NoValue \in Stored /\ (q.type = "set" => q.value \in Stored)
  BY DEF Stored
<1> HIDE DEF q
<1>3. \A w \in {"VALUE", "NOT_FOUND", "OK", "BYE", "ERROR"}, x \in Stored :
        <<w, x>> \in Response /\ <<w, x>>[1] = w
  BY DEF Response
<1>4. CASE q.type = "get"
  <2>1. CASE store[q.key] # NoValue
    <3>1. Answer(store, q) = <<"VALUE", store[q.key]>> /\ store[q.key] \in Stored
      BY <1>1, <1>4, <2>1 DEF Answer
    <3> QED BY <1>3, <1>4, <3>1 DEF Words, Executed, q
  <2>2. CASE store[q.key] = NoValue
    <3>1. Answer(store, q) = <<"NOT_FOUND", NoValue>>
      BY <1>4, <2>2 DEF Answer
    <3> QED BY <1>2, <1>3, <1>4, <3>1 DEF Words, Executed, q
  <2> QED BY <2>1, <2>2
<1>5. CASE q.type = "set"
  <2>1. Answer(store, q) = <<"OK", NoValue>> /\ Executed(store, q) \in [Keys -> Stored]
    BY <1>1, <1>2, <1>5 DEF Answer, Executed
  <2> QED BY <1>2, <1>3, <1>5, <2>1 DEF Words, q
<1>6. CASE q.type = "del"
  <2>1. Executed(store, q) \in [Keys -> Stored]
    BY <1>1, <1>2, <1>6 DEF Executed
  <2>2. Answer(store, q) \in {<<"OK", NoValue>>, <<"NOT_FOUND", NoValue>>}
    BY <1>6 DEF Answer
  <2> QED BY <1>2, <1>3, <1>6, <2>1, <2>2 DEF Words, q
<1>7. CASE q.type = "quit"
  <2>1. Answer(store, q) = <<"BYE", NoValue>> /\ Executed(store, q) = store
    BY <1>7 DEF Answer, Executed
  <2> QED BY <1>2, <1>3, <1>7, <2>1 DEF Words, q
<1>8. CASE q.type = "invalid"
  <2>1. Answer(store, q) = <<"ERROR", NoValue>> /\ Executed(store, q) = store
    BY <1>8 DEF Answer, Executed
  <2> QED BY <1>2, <1>3, <1>8, <2>1 DEF Words, q
<1> QED BY <1>1, <1>4, <1>5, <1>6, <1>7, <1>8

\* The pieces of a response each belong to a response.
LEMMA PiecesTyped ==
  ASSUME NEW a \in Seq(Response)
  PROVE  /\ Len(a) * ResponseParts \in Nat
         /\ Pieces(a) \in Seq(OutPiece) /\ Len(Pieces(a)) = Len(a) * ResponseParts
         /\ \A m \in 1 .. Len(a) * ResponseParts :
              /\ ((m - 1) \div ResponseParts) + 1 \in 1 .. Len(a)
              /\ Pieces(a)[m] = <<a[((m - 1) \div ResponseParts) + 1], ((m - 1) % ResponseParts) + 1>>
<1> DEFINE r == ResponseParts
           N == Len(a) * r
<1>1. r \in Nat \ {0} /\ Len(a) \in Nat
  BY ServerAssumption, LenProperties
<1>2. N \in Nat
  BY <1>1, Products
<1>3. ASSUME NEW m \in 1 .. N
      PROVE  /\ ((m - 1) \div r) + 1 \in 1 .. Len(a)
             /\ <<a[((m - 1) \div r) + 1], ((m - 1) % r) + 1>> \in OutPiece
  <2> DEFINE q == (m - 1) \div r
             k == (m - 1) % r
  <2>1. m - 1 \in Nat /\ m - 1 < N
    BY <1>2
  <2>2. q \in Nat /\ k \in 0 .. r - 1 /\ m - 1 = q * r + k
    BY <1>1, <2>1, Remainder
  <2>3. q * r \in Nat
    BY <1>1, <2>2, Products
  <2>4. q * r < N
    <3> HIDE DEF q, k, N
    <3> DEFINE y == q * r
    <3>1. y \in Nat /\ k \in Nat /\ m - 1 = y + k
      BY <1>1, <2>2, <2>3
    <3> HIDE DEF y
    <3>2. y < N
      BY <1>2, <2>1, <3>1
    <3> QED BY <3>2 DEF y
  <2>5. q < Len(a)
    BY <1>1, <2>2, <2>4, Products
  <2> HIDE DEF q, k, N
  <2>6. q + 1 \in 1 .. Len(a) /\ k + 1 \in 1 .. r
    BY <1>1, <2>2, <2>5
  <2>7. a[q + 1] \in Response
    BY <2>6, ElementOfSeq
  <2> QED BY <2>6, <2>7 DEF OutPiece, q, k
<1> HIDE DEF N
<1>4. Pieces(a) = [m \in 1 .. N |-> <<a[((m - 1) \div r) + 1], ((m - 1) % r) + 1>>]
  BY DEF Pieces, N
<1>5. Pieces(a) \in [1 .. N -> OutPiece]
  BY <1>3, <1>4
<1>6. Pieces(a) \in Seq(OutPiece) /\ Len(Pieces(a)) = N
  BY <1>2, <1>5
<1> QED BY <1>2, <1>3, <1>4, <1>6 DEF N

\* A further response leaves the pieces of the earlier ones where they were.
LEMMA PiecesStay ==
  ASSUME NEW a \in Seq(Response), NEW x \in Response,
         NEW m \in 1 .. Len(a) * ResponseParts
  PROVE  Pieces(Append(a, x))[m] = Pieces(a)[m]
<1> DEFINE b == Append(a, x)
           q == ((m - 1) \div ResponseParts) + 1
<1>1. b \in Seq(Response) /\ Len(b) = Len(a) + 1 /\ \A i \in 1 .. Len(a) : b[i] = a[i]
  BY AppendProperties
<1>2. q \in 1 .. Len(a) /\ Pieces(a)[m] = <<a[q], ((m - 1) % ResponseParts) + 1>>
  BY PiecesTyped
<1>3. m \in 1 .. Len(b) * ResponseParts
  <2>1. ResponseParts \in Nat \ {0} /\ Len(a) \in Nat
    BY ServerAssumption, LenProperties
  <2>2. (Len(a) + 1) * ResponseParts = Len(a) * ResponseParts + ResponseParts
        /\ Len(a) * ResponseParts \in Nat
    BY <2>1, Products
  <2>3. Len(b) * ResponseParts = Len(a) * ResponseParts + ResponseParts
    BY <1>1, <2>2
  <2> DEFINE N == Len(a) * ResponseParts
  <2> HIDE DEF b, N
  <2>4. N \in Nat /\ m \in 1 .. N /\ Len(b) * ResponseParts = N + ResponseParts
    BY <2>2, <2>3 DEF N
  <2> QED BY <2>1, <2>4
<1>4. Pieces(b)[m] = <<b[q], ((m - 1) % ResponseParts) + 1>>
  BY <1>1, <1>3, PiecesTyped
<1>5. b[q] = a[q]
  BY <1>1, <1>2
<1> QED BY <1>2, <1>4, <1>5

-----------------------------------------------------------------------------
(* The loop keeps coroutines in order, whatever they ask of it.            *)

\* The running coroutine may go on and change its own state.
LEMMA RunningGoesOn ==
  ASSUME NEW q, NEW r, NEW w, NEW x, NEW alive, NEW pc, NEW own, NEW pc2, NEW own2,
         InOrder(q, r, w, x, alive, pc, own),
         \A h \in alive \ {x, Acceptor} : pc2[h] = pc[h] /\ own2[h] = own[h]
  PROVE  InOrder(q, r, w, x, alive, pc2, own2)
<1>1. \A fd \in Descriptors : r[fd] # Nobody => r[fd] # x
  BY DEF InOrder, Waits
<1>2. \A fd \in Descriptors : w[fd] # Nobody => w[fd] # x
  BY DEF InOrder, Waits
<1> QED BY <1>1, <1>2 DEF InOrder

\* It may wait to read: what it waits for is its own, so nobody waits there yet.
LEMMA RunningReads ==
  ASSUME NEW q, NEW r \in [Descriptors -> Coroutines \cup {Nobody}], NEW w,
         NEW x, NEW alive, NEW pc, NEW own,
         NEW fd \in Descriptors,
         InOrder(q, r, w, x, alive, pc, own), x # Nobody, Nobody \notin alive,
         IF x = Acceptor THEN fd = ListenFd ELSE own[x] = fd /\ pc[x] = "recv",
         \A h \in alive \ {Acceptor} : own[h] # ListenFd,
         \A g, h \in alive \ {Acceptor} : own[g] = own[h] => g = h
  PROVE  InOrder(q, [r EXCEPT ![fd] = x], w, Nobody, alive, pc, own)
<1> DEFINE s == [r EXCEPT ![fd] = x]
<1>1. r[fd] = Nobody
  BY DEF InOrder, Waits
<1>2. \A e \in Descriptors : s[e] = IF e = fd THEN x ELSE r[e]
  OBVIOUS
<1> HIDE DEF s
<1>3. \A h : h # Nobody /\ h # x => (Waits(s, h) <=> Waits(r, h))
  BY <1>1, <1>2 DEF Waits
<1>4. Waits(s, x)
  BY <1>2 DEF Waits
<1>5. \A n \in DOMAIN q : q[n] \in alive /\ q[n] # Nobody /\ ~Waits(s, q[n]) /\ ~Waits(w, q[n])
  BY <1>3 DEF InOrder
<1>6. \A e \in Descriptors : s[e] # Nobody =>
        /\ s[e] \in alive
        /\ IF s[e] = Acceptor THEN e = ListenFd ELSE own[s[e]] = e /\ pc[s[e]] = "recv"
  BY <1>2 DEF InOrder
<1>7. \A h \in alive : InQueue(q, h) \/ Nobody = h \/ Waits(s, h) \/ Waits(w, h)
  BY <1>3, <1>4 DEF InOrder
<1> QED BY <1>5, <1>6, <1>7 DEF InOrder, s

\* Or to write.
LEMMA RunningWrites ==
  ASSUME NEW q, NEW r, NEW w \in [Descriptors -> Coroutines \cup {Nobody}],
         NEW x, NEW alive, NEW pc, NEW own,
         NEW fd \in Descriptors,
         InOrder(q, r, w, x, alive, pc, own), x # Nobody, Nobody \notin alive,
         x # Acceptor, own[x] = fd, pc[x] = "send",
         \A g, h \in alive \ {Acceptor} : own[g] = own[h] => g = h
  PROVE  InOrder(q, r, [w EXCEPT ![fd] = x], Nobody, alive, pc, own)
<1> DEFINE s == [w EXCEPT ![fd] = x]
<1>1. w[fd] = Nobody
  BY DEF InOrder, Waits
<1>2. \A e \in Descriptors : s[e] = IF e = fd THEN x ELSE w[e]
  OBVIOUS
<1> HIDE DEF s
<1>3. \A h : h # Nobody /\ h # x => (Waits(s, h) <=> Waits(w, h))
  BY <1>1, <1>2 DEF Waits
<1>4. Waits(s, x)
  BY <1>2 DEF Waits
<1>5. \A n \in DOMAIN q : q[n] \in alive /\ q[n] # Nobody /\ ~Waits(r, q[n]) /\ ~Waits(s, q[n])
  BY <1>3 DEF InOrder
<1>6. \A e \in Descriptors : s[e] # Nobody =>
        s[e] \in alive /\ s[e] # Acceptor /\ own[s[e]] = e /\ pc[s[e]] = "send"
  BY <1>2 DEF InOrder
<1>7. \A h \in alive : InQueue(q, h) \/ Nobody = h \/ Waits(r, h) \/ Waits(s, h)
  BY <1>3, <1>4 DEF InOrder
<1> QED BY <1>5, <1>6, <1>7 DEF InOrder, s

\* It may return.
LEMMA RunningReturns ==
  ASSUME NEW q, NEW r, NEW w, NEW x, NEW alive, NEW pc, NEW own, NEW pc2, NEW own2,
         InOrder(q, r, w, x, alive, pc, own), x # Nobody, Nobody \notin alive,
         \A h \in alive \ {x, Acceptor} : pc2[h] = pc[h] /\ own2[h] = own[h]
  PROVE  InOrder(q, r, w, Nobody, alive \ {x}, pc2, own2)
<1>1. \A fd \in Descriptors : r[fd] # Nobody => r[fd] # x
  BY DEF InOrder, Waits
<1>2. \A fd \in Descriptors : w[fd] # Nobody => w[fd] # x
  BY DEF InOrder, Waits
<1> QED BY <1>1, <1>2 DEF InOrder

\* It may spawn another, which was not there before.
LEMMA RunningSpawns ==
  ASSUME NEW q \in Seq(Coroutines), NEW r, NEW w, NEW x, NEW alive, NEW pc, NEW own, NEW pc2, NEW own2,
         NEW h \in Coroutines \ alive,
         InOrder(q, r, w, x, alive, pc, own), x # Nobody, Nobody \notin alive,
         \A g \in alive \ {Acceptor} : pc2[g] = pc[g] /\ own2[g] = own[g]
  PROVE  InOrder(Append(q, h), r, w, x, alive \cup {h}, pc2, own2)
<1> DEFINE p == Append(q, h)
           N == Len(q)
<1>1. /\ N \in Nat /\ DOMAIN q = 1 .. N
      /\ p \in Seq(Coroutines) /\ Len(p) = N + 1
      /\ (\A n \in 1 .. N : p[n] = q[n]) /\ p[N + 1] = h
  BY AppendProperties, LenProperties
<1>2. DOMAIN p = 1 .. (N + 1)
  BY <1>1
<1> HIDE DEF p, N
<1>3. h # Nobody /\ ~Waits(r, h) /\ ~Waits(w, h) /\ h # x
  BY NobodyAssumption DEF InOrder, Waits
<1>4. \A n \in DOMAIN p : (n \in DOMAIN q /\ p[n] = q[n]) \/ (n = N + 1 /\ p[n] = h)
  BY <1>1, <1>2
<1>5. \A n \in DOMAIN q : n \in DOMAIN p /\ p[n] = q[n] /\ q[n] # h
  BY <1>1, <1>2 DEF InOrder
<1>6. N + 1 \in DOMAIN p
  BY <1>1, <1>2
<1>7. \A m, n \in DOMAIN p : p[m] = p[n] => m = n
  BY <1>4, <1>5 DEF InOrder
<1>8. \A n \in DOMAIN p : p[n] \in alive \cup {h} /\ p[n] # x /\ ~Waits(r, p[n]) /\ ~Waits(w, p[n])
  BY <1>3, <1>4 DEF InOrder
<1>9. \A g \in alive \cup {h} : InQueue(p, g) \/ x = g \/ Waits(r, g) \/ Waits(w, g)
  BY <1>1, <1>5, <1>6 DEF InOrder, InQueue
<1> QED BY <1>7, <1>8, <1>9 DEF InOrder, p

\* The first in the queue is resumed.
LEMMA FirstResumes ==
  ASSUME NEW q \in Seq(Coroutines), NEW r, NEW w, NEW alive, NEW pc, NEW own,
         InOrder(q, r, w, Nobody, alive, pc, own), q # <<>>, Nobody \notin alive
  PROVE  InOrder(Tail(q), r, w, Head(q), alive, pc, own)
<1> DEFINE p == Tail(q)
           N == Len(q)
<1>1. /\ N \in Nat \ {0} /\ DOMAIN q = 1 .. N
      /\ p \in Seq(Coroutines) /\ Len(p) = N - 1 /\ \A n \in 1 .. Len(p) : p[n] = q[n + 1]
      /\ Head(q) = q[1]
  BY HeadTailProperties, LenProperties, EmptySeq
<1>2. DOMAIN p = 1 .. (N - 1)
  BY <1>1
<1> HIDE DEF p, N
<1>3. \A n \in DOMAIN p : n + 1 \in DOMAIN q /\ p[n] = q[n + 1] /\ n + 1 # 1
  BY <1>1, <1>2
<1>4. 1 \in DOMAIN q /\ \A n \in DOMAIN q : n # 1 => n - 1 \in DOMAIN p /\ p[n - 1] = q[n]
  BY <1>1, <1>2
<1>5. \A m, n \in DOMAIN p : p[m] = p[n] => m = n
  <2> TAKE m, n \in DOMAIN p
  <2> HAVE p[m] = p[n]
  <2>1. m + 1 = n + 1
    BY <1>3 DEF InOrder
  <2> QED BY <1>1, <1>2, <2>1
<1>6. \A n \in DOMAIN p : p[n] \in alive /\ p[n] # Head(q) /\ ~Waits(r, p[n]) /\ ~Waits(w, p[n])
  <2>1. \A n \in DOMAIN p : \E m \in DOMAIN q : m # 1 /\ p[n] = q[m]
    BY <1>3
  <2>2. Head(q) = q[1] /\ 1 \in DOMAIN q
    BY <1>1, <1>4
  <2> QED BY <2>1, <2>2 DEF InOrder
<1>7. Head(q) \in alive /\ ~Waits(r, Head(q)) /\ ~Waits(w, Head(q))
  BY <1>1, <1>4 DEF InOrder
<1>8. \A h \in alive : InQueue(p, h) \/ Head(q) = h \/ Waits(r, h) \/ Waits(w, h)
  <2> TAKE h \in alive
  <2>1. CASE InQueue(q, h)
    <3>1. \A n \in DOMAIN q : q[n] = Head(q) \/ \E m \in DOMAIN p : p[m] = q[n]
      BY <1>1, <1>4
    <3> QED BY <2>1, <3>1 DEF InQueue
  <2> QED BY <2>1 DEF InOrder
<1> QED BY <1>5, <1>6, <1>7, <1>8 DEF InOrder, p

\* No two waiters are the same.
LEMMA WaitersDiffer ==
  ASSUME NEW q, NEW r, NEW w, NEW x, NEW alive, NEW pc, NEW own,
         InOrder(q, r, w, x, alive, pc, own)
  PROVE  /\ \A d, e \in Descriptors : r[d] = r[e] /\ r[d] # Nobody => d = e
         /\ \A d, e \in Descriptors : w[d] = w[e] /\ w[d] # Nobody => d = e
         /\ \A d, e \in Descriptors : r[d] # Nobody => r[d] # w[e]
<1>1. ASSUME NEW d \in Descriptors, NEW e \in Descriptors, r[d] = r[e], r[d] # Nobody
      PROVE  d = e
  BY <1>1 DEF InOrder
<1>2. ASSUME NEW d \in Descriptors, NEW e \in Descriptors, w[d] = w[e], w[d] # Nobody
      PROVE  d = e
  BY <1>2 DEF InOrder
<1>3. ASSUME NEW d \in Descriptors, NEW e \in Descriptors, r[d] # Nobody, r[d] = w[e]
      PROVE  FALSE
  <2>1. r[d] # Acceptor /\ pc[r[d]] = "send"
    BY <1>3 DEF InOrder
  <2>2. pc[r[d]] = "recv"
    BY <1>3, <2>1 DEF InOrder
  <2> QED BY <2>1, <2>2
<1> QED BY <1>1, <1>2, <1>3

\* q has the waiters of the descriptors rs, each once.
LinedUp(q, r, rs) ==
  /\ q \in Seq(Coroutines)
  /\ \A n \in DOMAIN q : \E fd \in rs : q[n] = r[fd]
  /\ \A fd \in rs : InQueue(q, r[fd])
  /\ \A m, n \in DOMAIN q : q[m] = q[n] => m = n

\* Any order of descriptors lines their waiters up.
LEMMA Lined ==
  ASSUME NEW r \in [Descriptors -> Coroutines \cup {Nobody}],
         NEW rs \in SUBSET Descriptors, \A fd \in rs : r[fd] # Nobody,
         \A d, e \in Descriptors : r[d] = r[e] /\ r[d] # Nobody => d = e,
         NEW i \in Orders(rs)
  PROVE  LinedUp([n \in DOMAIN i |-> r[i[n]]], r, rs)
<1> DEFINE C == Cardinality(rs)
           q == [n \in DOMAIN i |-> r[i[n]]]
<1>1. IsFiniteSet(Descriptors)
  BY ServerAssumption, FS_AddElement
<1>2. C \in Nat
  BY <1>1, FS_Subset, FS_CardinalityType
<1> HIDE DEF C
<1>3. /\ i \in [1 .. C -> rs] /\ DOMAIN i = 1 .. C
      /\ \A m, n \in 1 .. C : i[m] = i[n] => m = n
      /\ \A fd \in rs : \E n \in 1 .. C : i[n] = fd
  BY DEF Orders, Bijection, Injection, Surjection, IsInjective, C
<1>4. DOMAIN q = 1 .. C /\ \A n \in 1 .. C : i[n] \in rs /\ q[n] = r[i[n]]
  BY <1>3
<1>5. \A n \in 1 .. C : q[n] \in Coroutines
  BY <1>4
<1>6. q \in Seq(Coroutines)
  <2>1. q \in [1 .. C -> Coroutines]
    BY <1>3, <1>5
  <2> QED BY <1>2, <2>1
<1>7. \A m, n \in DOMAIN q : q[m] = q[n] => m = n
  <2> TAKE m, n \in DOMAIN q
  <2> HAVE q[m] = q[n]
  <2>1. i[m] \in rs /\ i[n] \in rs /\ r[i[m]] = r[i[n]]
    BY <1>4
  <2>2. i[m] = i[n]
    BY <2>1
  <2> QED BY <1>3, <1>4, <2>2
<1>8. \A fd \in rs : InQueue(q, r[fd])
  BY <1>3, <1>4 DEF InQueue
<1>9. \A n \in DOMAIN q : \E fd \in rs : q[n] = r[fd]
  BY <1>4
<1> HIDE DEF q
<1>10. LinedUp(q, r, rs)
  BY <1>6, <1>7, <1>8, <1>9 DEF LinedUp
<1> QED BY <1>10 DEF q

\* t is a queue of those in p and those in q, and has nobody twice.
Joint(S, t, p, q) ==
  /\ t \in Seq(S)
  /\ \A m, n \in DOMAIN t : t[m] = t[n] => m = n
  /\ \A n \in DOMAIN t : InQueue(p, t[n]) \/ InQueue(q, t[n])
  /\ \A h : InQueue(p, h) \/ InQueue(q, h) => InQueue(t, h)

\* One queue behind another.
LEMMA Joined ==
  ASSUME NEW S, NEW p \in Seq(S), NEW q \in Seq(S), NEW t, t = p \o q,
         \A m, n \in DOMAIN p : p[m] = p[n] => m = n,
         \A m, n \in DOMAIN q : q[m] = q[n] => m = n,
         \A m \in DOMAIN p, n \in DOMAIN q : p[m] # q[n]
  PROVE  Joint(S, t, p, q)
<1> DEFINE C == Len(p)
           D == Len(q)
<1>1. C \in Nat /\ DOMAIN p = 1 .. C
  BY LenProperties
<1>2. D \in Nat /\ DOMAIN q = 1 .. D
  BY LenProperties
<1>3. /\ t \in Seq(S) /\ Len(t) = C + D
      /\ \A n \in 1 .. C + D : t[n] = IF n <= C THEN p[n] ELSE q[n - C]
  BY ConcatProperties
<1>4. DOMAIN t = 1 .. C + D
  BY <1>3, LenProperties
<1> HIDE DEF C, D
<1>5. \A n \in DOMAIN p : n \in DOMAIN t /\ t[n] = p[n]
  BY <1>1, <1>2, <1>3, <1>4
<1>6. \A n \in DOMAIN q : n + C \in DOMAIN t /\ t[n + C] = q[n]
  <2> TAKE n \in DOMAIN q
  <2>1. n + C \in 1 .. C + D /\ ~(n + C <= C) /\ (n + C) - C = n
    BY <1>1, <1>2
  <2> QED BY <1>3, <1>4, <2>1
<1>7. \A n \in DOMAIN t : \/ n \in DOMAIN p /\ t[n] = p[n]
                          \/ n - C \in DOMAIN q /\ t[n] = q[n - C]
  BY <1>1, <1>2, <1>3, <1>4
<1>8. \A m, n \in DOMAIN t : m - C = n - C => m = n
  BY <1>1, <1>2, <1>4
<1>9. \A m, n \in DOMAIN t : t[m] = t[n] => m = n
  <2> TAKE m, n \in DOMAIN t
  <2> HAVE t[m] = t[n]
  <2> DEFINE x == m - C
             y == n - C
  <2>1. (m \in DOMAIN p /\ t[m] = p[m]) \/ (x \in DOMAIN q /\ t[m] = q[x])
    BY <1>7
  <2>2. (n \in DOMAIN p /\ t[n] = p[n]) \/ (y \in DOMAIN q /\ t[n] = q[y])
    BY <1>7
  <2>3. x = y => m = n
    BY <1>8
  <2> HIDE DEF x, y
  <2> QED BY <2>1, <2>2, <2>3
<1>10. \A n \in DOMAIN t : InQueue(p, t[n]) \/ InQueue(q, t[n])
  <2> TAKE n \in DOMAIN t
  <2> DEFINE x == n - C
  <2>1. (n \in DOMAIN p /\ p[n] = t[n]) \/ (x \in DOMAIN q /\ q[x] = t[n])
    BY <1>7
  <2> HIDE DEF x
  <2> QED BY <2>1 DEF InQueue
<1>11. \A h : InQueue(p, h) \/ InQueue(q, h) => InQueue(t, h)
  BY <1>5, <1>6 DEF InQueue
<1> QED BY <1>3, <1>9, <1>10, <1>11 DEF Joint

\* Poll wakes some readers and some writers, and forgets them.
LEMMA PollWakes ==
  ASSUME NEW r \in [Descriptors -> Coroutines \cup {Nobody}],
         NEW w \in [Descriptors -> Coroutines \cup {Nobody}],
         NEW alive, NEW pc, NEW own, Nobody \notin alive,
         InOrder(<<>>, r, w, Nobody, alive, pc, own),
         NEW rs \in SUBSET Descriptors, \A fd \in rs : r[fd] # Nobody,
         NEW ws \in SUBSET Descriptors, \A fd \in ws : w[fd] # Nobody,
         NEW p, LinedUp(p, r, rs), NEW q, LinedUp(q, w, ws)
  PROVE  /\ p \o q \in Seq(Coroutines)
         /\ InOrder(p \o q, Without(r, rs), Without(w, ws), Nobody, alive, pc, own)
<1>1. /\ \A d, e \in Descriptors : r[d] = r[e] /\ r[d] # Nobody => d = e
      /\ \A d, e \in Descriptors : w[d] = w[e] /\ w[d] # Nobody => d = e
      /\ \A d, e \in Descriptors : r[d] # Nobody => r[d] # w[e]
  BY WaitersDiffer
<1>2. /\ p \in Seq(Coroutines)
      /\ \A n \in DOMAIN p : \E fd \in rs : p[n] = r[fd]
      /\ \A fd \in rs : InQueue(p, r[fd])
      /\ \A m, n \in DOMAIN p : p[m] = p[n] => m = n
  BY DEF LinedUp
<1>3. /\ q \in Seq(Coroutines)
      /\ \A n \in DOMAIN q : \E fd \in ws : q[n] = w[fd]
      /\ \A fd \in ws : InQueue(q, w[fd])
      /\ \A m, n \in DOMAIN q : q[m] = q[n] => m = n
  BY DEF LinedUp
<1> DEFINE t == p \o q
<1>4. \A m \in DOMAIN p, n \in DOMAIN q : p[m] # q[n]
  BY <1>1, <1>2, <1>3
<1>5. /\ t \in Seq(Coroutines)
      /\ \A m, n \in DOMAIN t : t[m] = t[n] => m = n
      /\ \A n \in DOMAIN t : InQueue(p, t[n]) \/ InQueue(q, t[n])
      /\ \A h : InQueue(p, h) \/ InQueue(q, h) => InQueue(t, h)
  <2>1. p \in Seq(Coroutines) /\ \A m, n \in DOMAIN p : p[m] = p[n] => m = n
    BY <1>2
  <2>2. q \in Seq(Coroutines) /\ \A m, n \in DOMAIN q : q[m] = q[n] => m = n
    BY <1>3
  <2>3. t = p \o q
    OBVIOUS
  <2> HIDE DEF t
  <2>4. Joint(Coroutines, t, p, q)
    BY <1>4, <2>1, <2>2, <2>3, Joined
  <2> QED BY <2>4 DEF Joint
<1> HIDE DEF t
<1> DEFINE r2 == Without(r, rs)
           w2 == Without(w, ws)
<1>6. /\ \A fd \in Descriptors : r2[fd] = IF fd \in rs THEN Nobody ELSE r[fd]
      /\ \A fd \in Descriptors : w2[fd] = IF fd \in ws THEN Nobody ELSE w[fd]
  BY DEF Without
<1> HIDE DEF r2, w2
<1>7. \A n \in DOMAIN t : \/ \E fd \in rs : t[n] = r[fd]
                          \/ \E fd \in ws : t[n] = w[fd]
  BY <1>2, <1>3, <1>5 DEF InQueue
<1>8. \A fd \in rs : r[fd] \in alive /\ ~Waits(r2, r[fd]) /\ ~Waits(w2, r[fd])
  BY <1>1, <1>6 DEF InOrder, Waits
<1>9. \A fd \in ws : w[fd] \in alive /\ ~Waits(r2, w[fd]) /\ ~Waits(w2, w[fd])
  BY <1>1, <1>6 DEF InOrder, Waits
<1>10. \A n \in DOMAIN t : t[n] \in alive /\ t[n] # Nobody /\ ~Waits(r2, t[n]) /\ ~Waits(w2, t[n])
  BY <1>7, <1>8, <1>9
<1>11. \A h \in alive : InQueue(t, h) \/ Waits(r2, h) \/ Waits(w2, h)
  <2>1. \A fd \in rs : InQueue(t, r[fd])
    BY <1>2, <1>5
  <2>2. \A fd \in ws : InQueue(t, w[fd])
    BY <1>3, <1>5
  <2>3. \A h \in alive : Waits(r, h) \/ Waits(w, h)
    BY DEF InOrder, InQueue
  <2> QED BY <1>6, <2>1, <2>2, <2>3 DEF Waits
<1>12. \A fd \in Descriptors : r2[fd] # Nobody =>
         /\ r2[fd] \in alive
         /\ IF r2[fd] = Acceptor THEN fd = ListenFd ELSE own[r2[fd]] = fd /\ pc[r2[fd]] = "recv"
  BY <1>6 DEF InOrder
<1>13. \A fd \in Descriptors : w2[fd] # Nobody =>
         w2[fd] \in alive /\ w2[fd] # Acceptor /\ own[w2[fd]] = fd /\ pc[w2[fd]] = "send"
  BY <1>6 DEF InOrder
<1>14. InOrder(t, r2, w2, Nobody, alive, pc, own)
  BY <1>5, <1>10, <1>11, <1>12, <1>13 DEF InOrder
<1> QED BY <1>5, <1>14 DEF t, r2, w2

\* The lowest free descriptor is free.
LEMMA LowestFree ==
  ASSUME FreeFds # {}
  PROVE  NextFd \in FreeFds
<1>1. FreeFds \subseteq Nat
  BY ServerAssumption DEF FreeFds
<1>2. PICK fd \in FreeFds : \A d \in FreeFds : ~(<<d, fd>> \in OpToRel(<, Nat))
  BY <1>1, NatLessThanWellFounded, WFMin
<1>3. \A d \in FreeFds : ~(d < fd)
  BY <1>1, <1>2 DEF OpToRel
<1>4. \A d \in FreeFds : fd <= d
  BY <1>1, <1>3
<1> QED BY <1>4 DEF NextFd

-----------------------------------------------------------------------------
(* The streams of a session.                                               *)

LEMMA Counts ==
  ASSUME NEW a \in Seq(Response)
  PROVE  /\ Len(a) \in Nat
         /\ Len(a) * RequestParts \in Nat /\ Len(a) * ResponseParts \in Nat
         /\ (Len(a) + 1) * RequestParts = Len(a) * RequestParts + RequestParts
         /\ (Len(a) + 1) * ResponseParts = Len(a) * ResponseParts + ResponseParts
         /\ (Len(a) - 1) * ResponseParts = Len(a) * ResponseParts - ResponseParts
         /\ RequestParts \in Nat \ {0} /\ ResponseParts \in Nat \ {0}
<1>1. Len(a) \in Nat /\ RequestParts \in Nat \ {0} /\ ResponseParts \in Nat \ {0}
  BY ServerAssumption, LenProperties
<1> QED BY <1>1, Products

\* What is received is buffered.
LEMMA WholeReceived ==
  ASSUME NEW in \in Seq(Piece), NEW up \in Seq(Piece), NEW typed \in Nat, NEW a \in Seq(Response),
         Whole(in, up, typed, a)
  PROVE  in \o up \in Seq(Piece) /\ Whole(in \o up, <<>>, typed, a)
<1> DEFINE s == in \o up
           done == Len(a) * RequestParts
           I == Len(in)
           U == Len(up)
<1>1. done \in Nat /\ I \in Nat /\ U \in Nat
  BY Counts, LenProperties
<1>2. s \in Seq(Piece) /\ Len(s) = I + U
      /\ \A m \in 1 .. I + U : s[m] = IF m <= I THEN in[m] ELSE up[m - I]
  BY ConcatProperties
<1>3. /\ typed = done + I + U
      /\ \A m \in 1 .. I : in[m] = Part(done + m)
      /\ \A m \in 1 .. U : up[m] = Part(done + I + m)
  BY DEF Whole
<1> HIDE DEF s, done, I, U
<1>4. \A m \in 1 .. I + U : s[m] = Part(done + m)
  <2> TAKE m \in 1 .. I + U
  <2>1. CASE m <= I
    BY <1>1, <1>2, <1>3, <2>1
  <2>2. CASE ~(m <= I)
    <3> DEFINE k == m - I
    <3>1. k \in 1 .. U /\ done + I + k = done + m
      BY <1>1, <2>2
    <3>2. s[m] = up[k]
      BY <1>2, <2>2
    <3> HIDE DEF k
    <3>3. up[k] = Part(done + I + k)
      BY <1>3, <3>1
    <3> QED BY <3>1, <3>2, <3>3
  <2> QED BY <2>1, <2>2
<1>5. Len(<<>>) = 0
  OBVIOUS
<1>6. typed = done + Len(s) + Len(<<>>)
  BY <1>1, <1>2, <1>3, <1>5
<1>7. \A m \in 1 .. Len(<<>>) : <<>>[m] = Part(done + Len(s) + m)
  BY <1>5
<1>8. \A m \in 1 .. Len(s) : s[m] = Part(done + m)
  BY <1>2, <1>4
<1> QED BY <1>2, <1>6, <1>7, <1>8 DEF Whole, s, done

\* The next piece is written.
LEMMA WholeTyped ==
  ASSUME NEW in \in Seq(Piece), NEW up \in Seq(Piece), NEW typed \in Nat, NEW a \in Seq(Response),
         Whole(in, up, typed, a),
         NEW x, x = <<(typed \div RequestParts) + 1, (typed % RequestParts) + 1>>
  PROVE  Append(up, x) \in Seq(Piece) /\ Whole(in, Append(up, x), typed + 1, a)
<1> DEFINE s == Append(up, x)
           done == Len(a) * RequestParts
           I == Len(in)
           U == Len(up)
<1>1. done \in Nat /\ I \in Nat /\ U \in Nat
  BY Counts, LenProperties
<1>2. x = Part(typed + 1) /\ x \in Piece
  <2>1. (typed + 1) - 1 = typed /\ typed + 1 \in Nat \ {0}
    OBVIOUS
  <2>2. x = Part(typed + 1)
    BY <2>1 DEF Part
  <2> QED BY <2>1, <2>2, PartIsPiece
<1>3. s \in Seq(Piece)
  BY <1>2, AppendProperties
<1>4. Len(s) = U + 1 /\ s[U + 1] = x /\ \A m \in 1 .. U : s[m] = up[m]
  BY <1>2, AppendProperties
<1>5. /\ typed = done + I + U
      /\ \A m \in 1 .. I : in[m] = Part(done + m)
      /\ \A m \in 1 .. U : up[m] = Part(done + I + m)
  BY DEF Whole
<1> HIDE DEF s, done, I, U
<1>6. typed + 1 = done + I + Len(s)
  BY <1>1, <1>4, <1>5
<1>7. ASSUME NEW m \in 1 .. Len(s)  PROVE s[m] = Part(done + I + m)
  <2>1. CASE m <= U
    <3>1. m \in 1 .. U
      BY <1>1, <1>4, <2>1
    <3> QED BY <1>4, <1>5, <3>1
  <2>2. CASE m = U + 1
    <3>1. done + I + m = typed + 1
      BY <1>1, <1>5, <2>2
    <3> QED BY <1>2, <1>4, <2>2, <3>1
  <2> QED BY <1>1, <1>4, <2>1, <2>2
<1> QED BY <1>3, <1>5, <1>6, <1>7 DEF Whole, s, done, I

\* A sequence without its first k elements.
LEMMA AfterFirst ==
  ASSUME NEW S, NEW s \in Seq(S), NEW k \in Nat, k <= Len(s),
         NEW rest, rest = SubSeq(s, k + 1, Len(s))
  PROVE  /\ rest \in Seq(S) /\ Len(rest) = Len(s) - k
         /\ \A m \in 1 .. Len(s) - k : rest[m] = s[k + m]
<1>1. rest = [m \in 1 .. (Len(s) - k) |-> s[k + m]]
  OBVIOUS
<1>2. Len(s) \in Nat
  BY LenProperties
<1> DEFINE N == Len(s) - k
<1>3. N \in Nat /\ \A m \in 1 .. N : k + m \in 1 .. Len(s)
  BY <1>2
<1>4. \A m \in 1 .. N : s[k + m] \in S
  BY <1>3, ElementOfSeq
<1> HIDE DEF N
<1>5. rest \in [1 .. N -> S] /\ \A m \in 1 .. N : rest[m] = s[k + m]
  BY <1>1, <1>4 DEF N
<1>6. rest \in Seq(S) /\ Len(rest) = N
  BY <1>3, <1>5
<1> QED BY <1>5, <1>6 DEF N

\* What taking the line after those in a out of a buffer leaves.
TakesLine(in, up, typed, a, x, rest) ==
  /\ rest \in Seq(Piece)
  /\ Whole(rest, up, typed, Append(a, x))
  /\ SubSeq(in, 1, LineEnd(in)) = LineOf(Len(a) + 1)
  /\ Len(a) * RequestParts < typed

\* The first line is taken out and answered.
LEMMA WholeExecuted ==
  ASSUME NEW in \in Seq(Piece), NEW up \in Seq(Piece), NEW typed \in Nat, NEW a \in Seq(Response),
         Whole(in, up, typed, a), HasLine(in),
         NEW x \in Response,
         NEW rest, rest = SubSeq(in, LineEnd(in) + 1, Len(in))
  PROVE  TakesLine(in, up, typed, a, x, rest)
<1> DEFINE b == Append(a, x)
           done == Len(a) * RequestParts
           next == Len(b) * RequestParts
           r == RequestParts
           I == Len(in)
           U == Len(up)
<1>1. done \in Nat /\ I \in Nat /\ U \in Nat /\ r \in Nat \ {0}
  BY Counts, LenProperties
<1>2. next = done + r
  <2>1. Len(b) = Len(a) + 1
    BY AppendProperties
  <2> QED BY <2>1, Counts
<1>3. /\ typed = done + I + U
      /\ \A m \in 1 .. I : in[m] = Part(done + m)
      /\ \A m \in 1 .. U : up[m] = Part(done + I + m)
  BY DEF Whole
<1>4. r <= I /\ LineEnd(in) = r /\ SubSeq(in, 1, LineEnd(in)) = LineOf(Len(a) + 1)
  BY <1>3, Counts, FirstLine
<1>5. rest = SubSeq(in, r + 1, I)
  BY <1>4
<1>6. /\ rest \in Seq(Piece) /\ Len(rest) = I - r
      /\ \A m \in 1 .. I - r : rest[m] = in[r + m]
  BY <1>1, <1>4, <1>5, AfterFirst, SMTT(20)
<1> DEFINE R == Len(rest)
<1> HIDE DEF b, done, next, r, I, U, R
<1>7. R = I - r
  BY <1>6 DEF R
<1>8. ASSUME NEW m \in 1 .. R  PROVE rest[m] = Part(next + m)
  <2> DEFINE k == r + m
  <2>1. k \in 1 .. I /\ m \in 1 .. I - r /\ done + k = next + m
    BY <1>1, <1>2, <1>7
  <2>2. rest[m] = in[k]
    BY <1>6, <2>1
  <2> HIDE DEF k
  <2>3. in[k] = Part(done + k)
    BY <1>3, <2>1
  <2> QED BY <2>1, <2>2, <2>3
<1>9. next + R = done + I
  BY <1>1, <1>2, <1>7
<1>10. typed = next + R + U
  BY <1>3, <1>9
<1>11. \A m \in 1 .. U : up[m] = Part(next + R + m)
  BY <1>3, <1>9
<1>12. Whole(rest, up, typed, b)
  BY <1>8, <1>10, <1>11 DEF Whole, next, U, R
<1>13. done < typed
  BY <1>1, <1>3, <1>4
<1> QED BY <1>4, <1>6, <1>12, <1>13 DEF TakesLine, b, done

\* The first k elements of a sequence.
LEMMA FirstOnes ==
  ASSUME NEW S, NEW s \in Seq(S), NEW k \in 0 .. Len(s)
  PROVE  /\ SubSeq(s, 1, k) \in Seq(S) /\ Len(SubSeq(s, 1, k)) = k
         /\ \A m \in 1 .. k : SubSeq(s, 1, k)[m] = s[m]
<1>1. SubSeq(s, 1, k) = [m \in 1 .. k |-> s[m]]
  OBVIOUS
<1>2. k \in Nat /\ \A m \in 1 .. k : m \in 1 .. Len(s)
  BY LenProperties
<1>3. \A m \in 1 .. k : s[m] \in S
  BY <1>2, ElementOfSeq
<1> DEFINE t == SubSeq(s, 1, k)
<1> HIDE DEF t
<1>4. t \in [1 .. k -> S] /\ \A m \in 1 .. k : t[m] = s[m]
  BY <1>1, <1>3 DEF t
<1>5. t \in Seq(S) /\ Len(t) = k
  BY <1>2, <1>4
<1> QED BY <1>4, <1>5 DEF t

\* What of the last answer has still to be sent when `sent` pieces of it have been.
Remaining(a, sent) ==
  SubSeq(Pieces(a), (Len(a) - 1) * ResponseParts + sent + 1, Len(a) * ResponseParts)

LEMMA RemainingPieces ==
  ASSUME NEW a \in Seq(Response), Len(a) > 0, NEW sent \in 0 .. ResponseParts
  PROVE  /\ Remaining(a, sent) \in Seq(OutPiece)
         /\ Len(Remaining(a, sent)) = ResponseParts - sent
         /\ \A m \in 1 .. ResponseParts - sent :
              Remaining(a, sent)[m] = Pieces(a)[(Len(a) - 1) * ResponseParts + sent + m]
<1> DEFINE p == Pieces(a)
           r == ResponseParts
           N == Len(a) * r
           k == (Len(a) - 1) * r + sent
           rest == Remaining(a, sent)
<1>1. p \in Seq(OutPiece) /\ Len(p) = N /\ N \in Nat
  BY PiecesTyped
<1>2. (Len(a) - 1) * r = N - r /\ r \in Nat \ {0}
  BY Counts
<1>3. N - r >= 0
  <2>1. 0 < Len(a) /\ Len(a) \in Nat
    BY Counts
  <2>2. 0 * r + r <= N
    BY <1>2, <2>1, Products
  <2>3. 0 * r = 0
    BY <1>2
  <2> HIDE DEF N, r
  <2> QED BY <1>1, <1>2, <2>2, <2>3
<1>4. rest = SubSeq(p, k + 1, Len(p))
  BY <1>1 DEF Remaining
<1> HIDE DEF p, N, rest
<1>5. k \in Nat /\ k <= Len(p) /\ Len(p) - k = r - sent
  BY <1>1, <1>2, <1>3
<1>6. /\ rest \in Seq(OutPiece) /\ Len(rest) = Len(p) - k
      /\ \A m \in 1 .. Len(p) - k : rest[m] = p[k + m]
  BY <1>1, <1>4, <1>5, AfterFirst
<1> QED BY <1>5, <1>6 DEF p, rest

\* More of it is sent.
LEMMA DeliveredMore ==
  ASSUME NEW down \in Seq(OutPiece), NEW a \in Seq(Response), NEW g \in Seq(OutPiece),
         NEW sent \in 0 .. ResponseParts, Len(a) > 0,
         Delivered(down, a, g, (Len(a) - 1) * ResponseParts + sent),
         NEW n \in 0 .. ResponseParts - sent,
         NEW more, more = SubSeq(Remaining(a, sent), 1, n)
  PROVE  /\ down \o more \in Seq(OutPiece) /\ Len(down \o more) = Len(down) + n
         /\ Delivered(down \o more, a, g, (Len(a) - 1) * ResponseParts + sent + n)
<1> DEFINE base == (Len(a) - 1) * ResponseParts + sent
           D == Len(down)
           G == Len(g)
           t == down \o more
<1>1. D \in Nat /\ G \in Nat /\ n \in Nat
  BY LenProperties, ServerAssumption
<1>2. /\ more \in Seq(OutPiece) /\ Len(more) = n
      /\ \A m \in 1 .. n : more[m] = Pieces(a)[base + m]
  <2> DEFINE rest == Remaining(a, sent)
  <2>1. /\ rest \in Seq(OutPiece) /\ Len(rest) = ResponseParts - sent
        /\ \A m \in 1 .. ResponseParts - sent : rest[m] = Pieces(a)[base + m]
    BY RemainingPieces
  <2> HIDE DEF rest, base
  <2>2. n \in 0 .. Len(rest) /\ more = SubSeq(rest, 1, n)
    BY <2>1 DEF rest
  <2>3. /\ more \in Seq(OutPiece) /\ Len(more) = n
        /\ \A m \in 1 .. n : more[m] = rest[m]
    BY <2>1, <2>2, FirstOnes
  <2>4. \A m \in 1 .. n : m \in 1 .. ResponseParts - sent
    BY ServerAssumption
  <2> QED BY <2>1, <2>3, <2>4
<1>3. /\ t \in Seq(OutPiece) /\ Len(t) = D + n
      /\ \A m \in 1 .. D + n : t[m] = IF m <= D THEN down[m] ELSE more[m - D]
  <2>1. /\ t \in Seq(OutPiece) /\ Len(t) = Len(down) + Len(more)
        /\ \A m \in 1 .. Len(down) + Len(more) :
             t[m] = IF m <= Len(down) THEN down[m] ELSE more[m - Len(down)]
    <3>1. more \in Seq(OutPiece)
      BY <1>2
    <3> HIDE <1>2
    <3> QED BY <3>1, ConcatProperties
  <2> QED BY <1>2, <2>1
<1>4. /\ G + D = base
      /\ \A m \in 1 .. G : g[m] = Pieces(a)[m]
      /\ \A m \in 1 .. D : down[m] = Pieces(a)[G + m]
  BY DEF Delivered
<1> HIDE DEF base, D, G, t
<1>5. ASSUME NEW m \in 1 .. D + n  PROVE t[m] = Pieces(a)[G + m]
  <2>1. CASE m <= D
    <3>1. m \in 1 .. D
      BY <1>1, <2>1
    <3>2. t[m] = down[m]
      BY <1>3, <2>1
    <3> QED BY <1>4, <3>1, <3>2
  <2>2. CASE ~(m <= D)
    <3> DEFINE k == m - D
    <3>1. k \in 1 .. n /\ base + k = G + m
      BY <1>1, <1>4, <2>2
    <3>2. t[m] = more[k]
      BY <1>3, <2>2
    <3> HIDE DEF k
    <3>3. more[k] = Pieces(a)[base + k]
      BY <1>2, <3>1
    <3> QED BY <3>1, <3>2, <3>3
  <2> QED BY <2>1, <2>2
<1>6. G + Len(t) = base + n
  BY <1>1, <1>3, <1>4
<1>7. \A m \in 1 .. Len(t) : t[m] = Pieces(a)[G + m]
  BY <1>3, <1>5
<1>8. Delivered(t, a, g, base + n)
  BY <1>4, <1>6, <1>7 DEF Delivered, G
<1> QED BY <1>3, <1>8 DEF t, base, D

\* The client reads a piece.
LEMMA DeliveredRead ==
  ASSUME NEW down \in Seq(OutPiece), NEW a, NEW g \in Seq(OutPiece), NEW out,
         down # <<>>, Delivered(down, a, g, out)
  PROVE  Delivered(Tail(down), a, Append(g, Head(down)), out)
<1> DEFINE D == Len(down)
           G == Len(g)
           t == Tail(down)
           h == Append(g, Head(down))
<1>1. D \in Nat /\ G \in Nat /\ D > 0
  BY LenProperties, EmptySeq
<1>2. Len(t) = D - 1 /\ \A m \in 1 .. Len(t) : t[m] = down[m + 1]
  BY HeadTailProperties
<1>3. Head(down) \in OutPiece /\ Head(down) = down[1]
  BY HeadTailProperties
<1>4. Len(h) = G + 1 /\ h[G + 1] = Head(down) /\ \A m \in 1 .. G : h[m] = g[m]
  BY <1>3, AppendProperties
<1>5. /\ G + D = out
      /\ \A m \in 1 .. G : g[m] = Pieces(a)[m]
      /\ \A m \in 1 .. D : down[m] = Pieces(a)[G + m]
  BY DEF Delivered
<1> HIDE DEF D, G, t, h
<1>6. ASSUME NEW m \in 1 .. Len(h)  PROVE h[m] = Pieces(a)[m]
  <2>1. CASE m \in 1 .. G
    BY <1>4, <1>5, <2>1
  <2>2. CASE m = G + 1
    <3>1. down[1] = Pieces(a)[G + 1]
      BY <1>1, <1>5
    <3> QED BY <1>3, <1>4, <2>2, <3>1
  <2>3. m \in 1 .. G \/ m = G + 1
    BY <1>1, <1>4
  <2> QED BY <2>1, <2>2, <2>3
<1>7. ASSUME NEW m \in 1 .. Len(t)  PROVE t[m] = Pieces(a)[Len(h) + m]
  <2>1. m + 1 \in 1 .. D /\ G + (m + 1) = Len(h) + m
    BY <1>1, <1>2, <1>4
  <2>2. down[m + 1] = Pieces(a)[G + (m + 1)]
    BY <1>5, <2>1
  <2> QED BY <1>2, <2>1, <2>2
<1>8. Len(h) + Len(t) = out
  BY <1>1, <1>2, <1>4, <1>5
<1> QED BY <1>6, <1>7, <1>8 DEF Delivered, t, h

\* Another answer is given, and nothing of it sent.
LEMMA DeliveredAnswered ==
  ASSUME NEW down \in Seq(OutPiece), NEW a \in Seq(Response), NEW g \in Seq(OutPiece),
         NEW x \in Response,
         Delivered(down, a, g, Len(a) * ResponseParts)
  PROVE  Delivered(down, Append(a, x), g, (Len(Append(a, x)) - 1) * ResponseParts + 0)
<1> DEFINE N == Len(a) * ResponseParts
           b == Append(a, x)
           D == Len(down)
           G == Len(g)
<1>1. D \in Nat /\ G \in Nat /\ N \in Nat
  BY LenProperties, Counts
<1>2. (Len(b) - 1) * ResponseParts + 0 = N
  <2>1. Len(b) = Len(a) + 1 /\ Len(a) \in Nat
    BY AppendProperties, LenProperties
  <2>2. Len(b) - 1 = Len(a)
    BY <2>1
  <2> HIDE DEF b
  <2>3. (Len(b) - 1) * ResponseParts = N
    BY <2>2
  <2> QED BY <1>1, <2>3
<1>3. \A m \in 1 .. N : Pieces(b)[m] = Pieces(a)[m]
  BY PiecesStay
<1>4. /\ G + D = N
      /\ \A m \in 1 .. G : g[m] = Pieces(a)[m]
      /\ \A m \in 1 .. D : down[m] = Pieces(a)[G + m]
  BY DEF Delivered
<1> HIDE DEF N, b, D, G
<1>5. \A m \in 1 .. G : m \in 1 .. N
  BY <1>1, <1>4
<1>6. \A m \in 1 .. D : G + m \in 1 .. N
  BY <1>1, <1>4
<1>7. Delivered(down, b, g, N)
  BY <1>3, <1>4, <1>5, <1>6 DEF Delivered, D, G
<1> QED BY <1>2, <1>7 DEF b

-----------------------------------------------------------------------------
(* The steps of a session, as the server and the client take them.         *)

LEMMA NothingBuffered == <<>> \in Seq(Piece)
  BY EmptySeq

\* A client connects, and waits in the backlog.
LEMMA FineConnects ==
  ASSUME NEW c \in Clients, NEW f, NEW n, NEW fd, NEW a, NEW g, Fine(c, f, n, fd, a, g),
         n.state = "none"
  PROVE  Fine(c, f, [n EXCEPT !.state = "backlog"], fd, a, g)
<1> DEFINE m == [n EXCEPT !.state = "backlog"]
<1>1. /\ m \in Connections /\ m.state = "backlog" /\ m.up = n.up /\ m.typed = n.typed
      /\ m.down = n.down /\ m.peer = n.peer
  BY DEF Fine, Connections
<1> HIDE DEF m
<1>2. Stage(f, m, fd, a, g)
  BY <1>1 DEF Fine, Stage
<1>3. Asked(c, f, m, a)
  BY <1>1 DEF Fine, Asked
<1>4. Told(f, m, a, g)
  BY <1>1 DEF Fine, Told
<1> QED BY <1>1, <1>2, <1>3, <1>4 DEF Fine, m

\* It is accepted.
LEMMA FineAccepted ==
  ASSUME NEW c \in Clients, NEW f, NEW n, NEW fd, NEW a, NEW g, Fine(c, f, n, fd, a, g),
         n.state = "backlog", NEW e \in ClientFds
  PROVE  Fine(c, [f EXCEPT !.pc = "recv"], [n EXCEPT !.state = "accepted"], e, a, g)
<1> DEFINE m == [n EXCEPT !.state = "accepted"]
           h == [f EXCEPT !.pc = "recv"]
<1>1. /\ m \in Connections /\ m.state = "accepted" /\ m.up = n.up /\ m.typed = n.typed
      /\ m.down = n.down /\ m.peer = n.peer
  BY DEF Fine, Connections
<1>2. h \in Frames /\ h.pc = "recv" /\ h.inbound = f.inbound /\ h.sent = f.sent
  BY DEF Fine, Frames
<1> HIDE DEF m, h
<1>3. e # NoFd
  BY ServerAssumption
<1>4. Stage(h, m, e, a, g)
  BY <1>1, <1>2, <1>3 DEF Stage
<1>5. Asked(c, h, m, a)
  BY <1>1, <1>2 DEF Fine, Asked
<1>6. Delivered(m.down, a, g, Out(h, a))
  <2>1. a = <<>> /\ g = <<>> /\ m.down = <<>>
    BY <1>1 DEF Fine, Stage
  <2>2. Out(h, a) = Len(a) * ResponseParts
    BY <1>2 DEF Out
  <2>3. Len(<<>>) * ResponseParts = 0 /\ Len(<<>>) = 0
    BY ServerAssumption
  <2>4. Delivered(<<>>, <<>>, <<>>, 0)
    BY <2>3 DEF Delivered
  <2> QED BY <2>1, <2>2, <2>3, <2>4
<1>7. Told(h, m, a, g)
  BY <1>1, <1>6 DEF Fine, Told
<1> QED BY <1>1, <1>2, <1>4, <1>5, <1>7 DEF Fine, m, h

\* Its socket cannot be made nonblocking, and is closed.
LEMMA FineDropped ==
  ASSUME NEW c \in Clients, NEW f, NEW n, NEW fd, NEW a, NEW g, Fine(c, f, n, fd, a, g),
         n.state = "backlog"
  PROVE  Fine(c, f, [n EXCEPT !.state = "closed"], fd, a, g)
<1> DEFINE m == [n EXCEPT !.state = "closed"]
<1>1. /\ m \in Connections /\ m.state = "closed" /\ m.up = n.up /\ m.typed = n.typed
      /\ m.down = n.down /\ m.peer = n.peer
  BY DEF Fine, Connections
<1> HIDE DEF m
<1>2. Stage(f, m, fd, a, g)
  BY <1>1 DEF Fine, Stage
<1>3. Asked(c, f, m, a)
  BY <1>1 DEF Fine, Asked
<1>4. Told(f, m, a, g)
  BY <1>1 DEF Fine, Told
<1> QED BY <1>1, <1>2, <1>3, <1>4 DEF Fine, m

\* It is closed, wherever its handler is.
LEMMA FineClosed ==
  ASSUME NEW c \in Clients, NEW f, NEW n, NEW fd, NEW a, NEW g, Fine(c, f, n, fd, a, g)
  PROVE  Fine(c, [NoFrame EXCEPT !.pc = "done"], [n EXCEPT !.state = "closed", !.up = <<>>], NoFd, a, g)
<1> DEFINE m == [n EXCEPT !.state = "closed", !.up = <<>>]
           h == [NoFrame EXCEPT !.pc = "done"]
<1>1. /\ m \in Connections /\ m.state = "closed" /\ m.typed = n.typed
      /\ m.down = n.down /\ m.peer = n.peer
  BY NothingBuffered DEF Fine, Connections
<1>2. h \in Frames /\ h.pc = "done"
  <2>1. h = [pc |-> "done", inbound |-> <<>>, sent |-> 0]
    BY DEF NoFrame
  <2>2. 0 \in 0 .. ResponseParts
    BY ServerAssumption
  <2> HIDE DEF h
  <2> QED BY <2>1, <2>2, NothingBuffered DEF Frames
<1> HIDE DEF m, h
<1>3. Stage(h, m, NoFd, a, g)
  BY <1>1, <1>2 DEF Stage
<1>4. Asked(c, h, m, a)
  BY <1>1 DEF Fine, Asked
<1>5. Told(h, m, a, g)
  BY <1>1 DEF Fine, Told
<1> QED BY <1>1, <1>2, <1>3, <1>4, <1>5 DEF Fine, m, h

\* recv returns what there is.
LEMMA FineReceives ==
  ASSUME NEW c \in Clients, NEW f, NEW n, NEW fd, NEW a, NEW g, Fine(c, f, n, fd, a, g),
         f.pc = "recv"
  PROVE  Fine(c, [f EXCEPT !.inbound = @ \o n.up], [n EXCEPT !.up = <<>>], fd, a, g)
<1> DEFINE m == [n EXCEPT !.up = <<>>]
           h == [f EXCEPT !.inbound = @ \o n.up]
<1>1. n.state = "accepted"
  BY DEF Fine, Stage
<1>2. f \in Frames /\ n \in Connections /\ a \in Seq(Response)
  BY DEF Fine
<1>3. n.typed \in Nat /\ n.up \in Seq(Piece) /\ f.inbound \in Seq(Piece)
  BY <1>2 DEF Frames, Connections
<1>4. Whole(f.inbound, n.up, n.typed, a)
  BY <1>1 DEF Fine, Asked
<1>5. f.inbound \o n.up \in Seq(Piece) /\ Whole(f.inbound \o n.up, <<>>, n.typed, a)
  BY <1>2, <1>3, <1>4, WholeReceived
<1>6. /\ m \in Connections /\ m.state = n.state /\ m.up = <<>> /\ m.typed = n.typed
      /\ m.down = n.down /\ m.peer = n.peer
  BY <1>2, NothingBuffered DEF Connections
<1>7. h \in Frames /\ h.pc = f.pc /\ h.inbound = f.inbound \o n.up /\ h.sent = f.sent
  BY <1>2, <1>5 DEF Frames
<1> HIDE DEF m, h
<1>8. Stage(h, m, fd, a, g)
  BY <1>1, <1>6, <1>7 DEF Fine, Stage
<1>9. Asked(c, h, m, a)
  BY <1>5, <1>6, <1>7 DEF Fine, Asked
<1>10. Told(h, m, a, g)
  BY <1>6, <1>7 DEF Fine, Told, Out
<1> QED BY <1>6, <1>7, <1>8, <1>9, <1>10 DEF Fine, m, h

\* The handler goes on between recv and the lines.
LEMMA FineGoesOn ==
  ASSUME NEW c \in Clients, NEW f, NEW n, NEW fd, NEW a, NEW g, Fine(c, f, n, fd, a, g),
         f.pc \in {"recv", "lines"}, NEW pc \in {"recv", "lines"}
  PROVE  Fine(c, [f EXCEPT !.pc = pc], n, fd, a, g)
<1> DEFINE h == [f EXCEPT !.pc = pc]
<1>1. h \in Frames /\ h.pc = pc /\ h.inbound = f.inbound
  BY DEF Fine, Frames
<1> HIDE DEF h
<1>2. Stage(h, n, fd, a, g)
  BY <1>1 DEF Fine, Stage
<1>3. Asked(c, h, n, a)
  BY <1>1 DEF Fine, Asked
<1>4. Out(h, a) = Out(f, a)
  BY <1>1 DEF Out
<1>5. Told(h, n, a, g)
  BY <1>4 DEF Fine, Told
<1> QED BY <1>1, <1>2, <1>3, <1>5 DEF Fine, h

\* A line is taken out and answered.
LEMMA FineExecutes ==
  ASSUME NEW c \in Clients, NEW f, NEW n, NEW fd, NEW a, NEW g, Fine(c, f, n, fd, a, g),
         f.pc = "lines", HasLine(f.inbound), NEW store \in [Keys -> Stored],
         NEW rest, rest = SubSeq(f.inbound, LineEnd(f.inbound) + 1, Len(f.inbound)),
         NEW q, q = Parsed(c, SubSeq(f.inbound, 1, LineEnd(f.inbound)))
  PROVE  /\ Executed(store, q) \in [Keys -> Stored]
         /\ Fine(c, [pc |-> "send", sent |-> 0, inbound |-> rest], n, fd, Append(a, Answer(store, q)), g)
<1> DEFINE h == [pc |-> "send", sent |-> 0, inbound |-> rest]
           x == Answer(store, q)
           b == Append(a, x)
           L == Len(Script[c])
           A == Len(a)
           in == f.inbound
<1>1. n.state = "accepted"
  BY DEF Fine, Stage
<1>2. f \in Frames /\ n \in Connections /\ a \in Seq(Response) /\ g \in Seq(OutPiece)
  BY DEF Fine
<1>3. n.typed \in Nat /\ n.up \in Seq(Piece) /\ in \in Seq(Piece) /\ n.down \in Seq(OutPiece)
  BY <1>2 DEF Frames, Connections
<1>4. Whole(in, n.up, n.typed, a)
  BY <1>1 DEF Fine, Asked
<1>5. \A y \in Response : TakesLine(in, n.up, n.typed, a, y, rest)
  BY <1>2, <1>3, <1>4, WholeExecuted
<1>6. SubSeq(in, 1, LineEnd(in)) = LineOf(A + 1) /\ A * RequestParts < n.typed
  <2>1. <<"OK", NoValue>> \in Response
    BY DEF Response, Stored
  <2>2. TakesLine(in, n.up, n.typed, a, <<"OK", NoValue>>, rest)
    BY <1>5, <2>1
  <2> QED BY <2>2 DEF TakesLine
<1>7. A + 1 \in DOMAIN Script[c]
  <2>1. A * RequestParts < n.typed /\ n.typed <= L * RequestParts /\ n.typed \in Nat
    BY <1>3, <1>6 DEF Fine, Asked
  <2>2. A \in Nat /\ L \in Nat /\ RequestParts \in Nat \ {0} /\ DOMAIN Script[c] = 1 .. L
    BY <1>2, Counts, ServerAssumption
  <2>3. A * RequestParts \in Nat /\ L * RequestParts \in Nat
    BY <2>2, Products
  <2> HIDE DEF A, L
  <2> DEFINE X == A * RequestParts
             Y == L * RequestParts
             T == n.typed
  <2>4. X < T /\ T <= Y /\ T \in Nat /\ X \in Nat /\ Y \in Nat
    BY <2>1, <2>3
  <2> HIDE DEF X, Y, T
  <2>5. X < Y
    BY <2>4
  <2>6. A < L
    BY <2>2, <2>5, Products DEF X, Y
  <2> QED BY <2>2, <2>6
<1>8. q = Script[c][A + 1]
  BY <1>6, <1>7, LinesParsed
<1>9. /\ x \in Response /\ x[1] \in Words(Script[c][A + 1])
      /\ Executed(store, q) \in [Keys -> Stored]
  BY <1>7, <1>8, Answering
<1>10. rest \in Seq(Piece) /\ Whole(rest, n.up, n.typed, b)
  BY <1>5, <1>9 DEF TakesLine
<1> HIDE DEF x
<1>11. /\ b \in Seq(Response) /\ Len(b) = A + 1 /\ b[A + 1] = x
       /\ \A m \in 1 .. A : b[m] = a[m]
  BY <1>2, <1>9, AppendProperties
<1>12. h \in Frames /\ h.pc = "send" /\ h.sent = 0 /\ h.inbound = rest
  BY <1>10, ServerAssumption DEF Frames
<1>13. A \in Nat
  BY <1>2, Counts
<1> HIDE DEF h, b, A, L
<1>14. Stage(h, n, fd, b, g)
  <2>1. Len(b) > 0
    BY <1>11, <1>13
  <2>2. fd # NoFd
    BY <1>1 DEF Fine, Stage
  <2> QED BY <1>1, <1>12, <2>1, <2>2 DEF Stage
<1>15. Asked(c, h, n, b)
  <2>1. Len(b) <= Len(Script[c])
    BY <1>7, <1>11, ServerAssumption
  <2>2. \A m \in 1 .. Len(b) : b[m][1] \in Words(Script[c][m])
    <3>1. \A m \in 1 .. Len(b) : m \in 1 .. A \/ m = A + 1
      BY <1>11, <1>13
    <3>2. \A m \in 1 .. A : a[m][1] \in Words(Script[c][m])
      BY DEF Fine, Asked, A
    <3> QED BY <1>9, <1>11, <3>1, <3>2
  <2>3. n.typed <= Len(Script[c]) * RequestParts
    BY DEF Fine, Asked
  <2> QED BY <1>10, <1>12, <2>1, <2>2, <2>3 DEF Asked
<1>16. Told(h, n, b, g)
  <2>1. Len(n.down) <= SendBuffer
    BY DEF Fine, Told
  <2>2. ASSUME n.peer \in {"open", "shut"}
        PROVE  Delivered(n.down, b, g, Out(h, b))
    <3>1. Delivered(n.down, a, g, Len(a) * ResponseParts)
      BY <1>1, <2>2 DEF Fine, Told, Out
    <3>2. Delivered(n.down, b, g, (Len(b) - 1) * ResponseParts + 0)
      BY <1>2, <1>3, <1>9, <3>1, DeliveredAnswered DEF b
    <3>3. Out(h, b) = (Len(b) - 1) * ResponseParts + 0
      BY <1>12 DEF Out
    <3> QED BY <3>2, <3>3
  <2> QED BY <2>1, <2>2 DEF Told
<1>17. Fine(c, h, n, fd, b, g)
  BY <1>2, <1>11, <1>12, <1>14, <1>15, <1>16 DEF Fine
<1> QED BY <1>9, <1>17 DEF h, b, x

\* More of an answer is sent, all of it or what there is room for; what is sent to
\* a client that has gone is lost.
LEMMA FineSends ==
  ASSUME NEW c \in Clients, NEW f, NEW n, NEW fd, NEW a, NEW g, Fine(c, f, n, fd, a, g),
         f.pc = "send", NEW k \in 0 .. ResponseParts - f.sent,
         NEW pc \in {"send", "quit", "lines"}, pc # "send" => k = ResponseParts - f.sent,
         NEW m,
         \/ m = [n EXCEPT !.peer = "doomed"]
         \/ /\ Len(n.down) + k <= SendBuffer
            /\ m = [n EXCEPT !.down = @ \o SubSeq(Remaining(a, f.sent), 1, k)]
  PROVE  Fine(c, [f EXCEPT !.sent = @ + k, !.pc = pc], m, fd, a, g)
<1> DEFINE h == [f EXCEPT !.sent = @ + k, !.pc = pc]
           base == (Len(a) - 1) * ResponseParts
           more == SubSeq(Remaining(a, f.sent), 1, k)
<1>1. n.state = "accepted" /\ Len(a) > 0
  BY DEF Fine, Stage
<1>2. f \in Frames /\ n \in Connections /\ a \in Seq(Response) /\ g \in Seq(OutPiece)
  BY DEF Fine
<1>3. n.down \in Seq(OutPiece) /\ f.sent \in 0 .. ResponseParts
  BY <1>2 DEF Frames, Connections
<1>4. /\ base \in Int /\ base + ResponseParts = Len(a) * ResponseParts
      /\ ResponseParts \in Nat \ {0}
  <2>1. base = Len(a) * ResponseParts - ResponseParts /\ Len(a) * ResponseParts \in Nat
        /\ ResponseParts \in Nat \ {0}
    BY <1>2, Counts
  <2> DEFINE N == Len(a) * ResponseParts
  <2> HIDE DEF base, N
  <2>2. base = N - ResponseParts /\ N \in Nat /\ ResponseParts \in Nat \ {0}
    BY <2>1 DEF N
  <2>3. base \in Int /\ base + ResponseParts = N
    BY <2>2
  <2> QED BY <2>1, <2>3 DEF N
<1>5. h.pc = pc /\ h.sent = f.sent + k /\ h.inbound = f.inbound
  BY <1>2 DEF Frames
<1>6. h \in Frames
  <2>1. f.sent + k \in 0 .. ResponseParts
    BY <1>3, <1>4
  <2> QED BY <1>2, <2>1 DEF Frames
<1> HIDE DEF h
<1>7. /\ m.state = n.state /\ m.up = n.up /\ m.typed = n.typed
      /\ m.peer = "doomed" \/ m.peer = n.peer
  BY <1>2 DEF Connections
<1>8. CASE m = [n EXCEPT !.peer = "doomed"]
  <2>1. m \in Connections /\ m.peer = "doomed" /\ m.down = n.down
    BY <1>2, <1>8 DEF Connections
  <2>2. Stage(h, m, fd, a, g)
    BY <1>1, <1>5, <1>7 DEF Fine, Stage
  <2>3. Asked(c, h, m, a)
    BY <1>5, <1>7 DEF Fine, Asked
  <2>4. Told(h, m, a, g)
    BY <2>1 DEF Fine, Told
  <2> QED BY <1>6, <2>1, <2>2, <2>3, <2>4 DEF Fine, h
<1>9. CASE Len(n.down) + k <= SendBuffer /\ m = [n EXCEPT !.down = @ \o more]
  <2>1. m.down = n.down \o more /\ m.peer = n.peer
    BY <1>2, <1>9 DEF Connections
  <2>2. /\ n.peer \in {"open", "shut"} => Delivered(n.down \o more, a, g, base + f.sent + k)
        /\ n.down \o more \in Seq(OutPiece) /\ Len(n.down \o more) = Len(n.down) + k
    <3>1. more \in Seq(OutPiece) /\ Len(more) = k
      <4> DEFINE rest == Remaining(a, f.sent)
      <4>1. rest \in Seq(OutPiece) /\ Len(rest) = ResponseParts - f.sent
        BY <1>1, <1>2, <1>3, RemainingPieces
      <4> HIDE DEF rest
      <4>2. k \in 0 .. Len(rest)
        BY <4>1
      <4>3. SubSeq(rest, 1, k) \in Seq(OutPiece) /\ Len(SubSeq(rest, 1, k)) = k
        BY <4>1, <4>2, FirstOnes
      <4> QED BY <4>3 DEF rest
    <3> HIDE DEF more
    <3>2. n.down \o more \in Seq(OutPiece) /\ Len(n.down \o more) = Len(n.down) + k
      <4>1. \A p, q \in Seq(OutPiece) : p \o q \in Seq(OutPiece) /\ Len(p \o q) = Len(p) + Len(q)
        BY ConcatProperties
      <4> QED BY <1>3, <3>1, <4>1
    <3>3. ASSUME n.peer \in {"open", "shut"}
          PROVE  Delivered(n.down \o more, a, g, base + f.sent + k)
      <4>1. Delivered(n.down, a, g, base + f.sent)
        BY <1>1, <3>3 DEF Fine, Told, Out
      <4> QED BY <1>1, <1>2, <1>3, <4>1, DeliveredMore DEF more
    <3> QED BY <3>2, <3>3
  <2> HIDE DEF more
  <2>3. m \in Connections
    BY <1>2, <1>9, <2>2 DEF Connections
  <2>4. Stage(h, m, fd, a, g)
    BY <1>1, <1>5, <1>7 DEF Fine, Stage
  <2>5. Asked(c, h, m, a)
    BY <1>5, <1>7 DEF Fine, Asked
  <2>6. Out(h, a) = base + f.sent + k
    <3>1. CASE pc = "send"
      <4>1. base + (f.sent + k) = base + f.sent + k
        BY <1>3, <1>4
      <4> QED BY <1>5, <3>1, <4>1 DEF Out
    <3>2. CASE pc # "send"
      <4>1. base + ResponseParts = base + f.sent + k
        BY <1>3, <1>4, <3>2
      <4> QED BY <1>4, <1>5, <3>2, <4>1 DEF Out
    <3> QED BY <3>1, <3>2
  <2>7. Told(h, m, a, g)
    BY <1>9, <2>1, <2>2, <2>6 DEF Told
  <2> QED BY <1>6, <2>3, <2>4, <2>5, <2>7 DEF Fine, h
<1> QED BY <1>8, <1>9

\* The client writes the next piece of its script.
LEMMA FineTypes ==
  ASSUME NEW c \in Clients, NEW f, NEW n, NEW fd, NEW a, NEW g, Fine(c, f, n, fd, a, g),
         n.state \in {"backlog", "accepted"}, n.typed < Len(Script[c]) * RequestParts,
         NEW x, x = <<(n.typed \div RequestParts) + 1, (n.typed % RequestParts) + 1>>
  PROVE  Fine(c, f, [n EXCEPT !.typed = n.typed + 1, !.up = Append(@, x)], fd, a, g)
<1> DEFINE m == [n EXCEPT !.typed = n.typed + 1, !.up = Append(@, x)]
<1>1. f \in Frames /\ n \in Connections /\ a \in Seq(Response)
  BY DEF Fine
<1>2. n.typed \in Nat /\ n.up \in Seq(Piece) /\ f.inbound \in Seq(Piece)
  BY <1>1 DEF Frames, Connections
<1>3. Whole(f.inbound, n.up, n.typed, a)
  BY DEF Fine, Asked
<1>4. Append(n.up, x) \in Seq(Piece) /\ Whole(f.inbound, Append(n.up, x), n.typed + 1, a)
  BY <1>1, <1>2, <1>3, WholeTyped
<1>5. /\ m.state = n.state /\ m.up = Append(n.up, x) /\ m.typed = n.typed + 1
      /\ m.down = n.down /\ m.peer = n.peer
  BY <1>1 DEF Connections
<1>6. m \in Connections
  <2>1. n.typed + 1 \in Nat
    BY <1>2
  <2> QED BY <1>1, <1>4, <2>1 DEF Connections
<1> HIDE DEF m
<1>7. Stage(f, m, fd, a, g)
  BY <1>5 DEF Fine, Stage
<1>8. Asked(c, f, m, a)
  <2>1. n.typed + 1 <= Len(Script[c]) * RequestParts
    <3> DEFINE N == Len(Script[c]) * RequestParts
    <3>1. N \in Nat
      BY ServerAssumption, Products
    <3> HIDE DEF N
    <3>2. n.typed < N => n.typed + 1 <= N
      BY <1>2, <3>1
    <3> QED BY <3>2 DEF N
  <2> QED BY <1>4, <1>5, <2>1 DEF Fine, Asked
<1>9. Told(f, m, a, g)
  BY <1>5 DEF Fine, Told
<1> QED BY <1>6, <1>7, <1>8, <1>9 DEF Fine, m

\* It reads a piece, of a connection that may have been closed since.
LEMMA FineReads ==
  ASSUME NEW c \in Clients, NEW f, NEW n, NEW fd, NEW a, NEW g, Fine(c, f, n, fd, a, g),
         n.down # <<>>
  PROVE  Fine(c, f, [n EXCEPT !.down = Tail(@)], fd, a, Append(g, Head(n.down)))
<1> DEFINE m == [n EXCEPT !.down = Tail(@)]
           h == Append(g, Head(n.down))
<1>1. n \in Connections /\ a \in Seq(Response) /\ g \in Seq(OutPiece)
  BY DEF Fine
<1>2. n.down \in Seq(OutPiece)
  BY <1>1 DEF Connections
<1>3. /\ Tail(n.down) \in Seq(OutPiece) /\ Len(Tail(n.down)) = Len(n.down) - 1
      /\ Head(n.down) \in OutPiece
  BY <1>2, HeadTailProperties
<1>4. h \in Seq(OutPiece)
  BY <1>1, <1>3, AppendProperties
<1>5. /\ m \in Connections /\ m.state = n.state /\ m.up = n.up /\ m.typed = n.typed
      /\ m.down = Tail(n.down) /\ m.peer = n.peer
  BY <1>1, <1>3 DEF Connections
<1>6. \A out : Delivered(n.down, a, g, out) => Delivered(Tail(n.down), a, h, out)
  BY <1>1, <1>2, DeliveredRead
<1> HIDE DEF m, h
<1>7. Stage(f, m, fd, a, h)
  BY <1>5 DEF Fine, Stage
<1>8. Asked(c, f, m, a)
  BY <1>5 DEF Fine, Asked
<1>9. Told(f, m, a, h)
  <2>1. Len(m.down) <= SendBuffer
    <3>1. Len(n.down) <= SendBuffer /\ Len(n.down) \in Nat /\ SendBuffer \in Nat
      BY <1>2, LenProperties, ServerAssumption DEF Fine, Told
    <3> QED BY <1>3, <1>5, <3>1
  <2> QED BY <1>5, <1>6, <2>1 DEF Fine, Told
<1> QED BY <1>4, <1>5, <1>7, <1>8, <1>9 DEF Fine, m, h

\* It ends its output, leaves, or its reset arrives.
LEMMA FineLeft ==
  ASSUME NEW c \in Clients, NEW f, NEW n, NEW fd, NEW a, NEW g, Fine(c, f, n, fd, a, g),
         NEW peer \in {"open", "shut", "gone", "doomed", "broken", "reset"},
         NEW down, NEW m, m = [n EXCEPT !.down = down, !.peer = peer],
         down = <<>> \/ down = n.down,
         peer \in {"open", "shut"} => n.peer \in {"open", "shut"} /\ down = n.down
  PROVE  Fine(c, f, m, fd, a, g)
<1>1. n \in Connections
  BY DEF Fine
<1>2. <<>> \in Seq(OutPiece) /\ Len(<<>>) <= SendBuffer
  BY EmptySeq, ServerAssumption
<1>3. /\ m.state = n.state /\ m.up = n.up /\ m.typed = n.typed
      /\ m.down = down /\ m.peer = peer
  BY <1>1 DEF Connections
<1>4. m \in Connections
  BY <1>1, <1>2 DEF Connections
<1>5. Stage(f, m, fd, a, g)
  BY <1>3 DEF Fine, Stage
<1>6. Asked(c, f, m, a)
  BY <1>3 DEF Fine, Asked
<1>7. Told(f, m, a, g)
  BY <1>2, <1>3 DEF Fine, Told
<1> QED BY <1>4, <1>5, <1>6, <1>7 DEF Fine

-----------------------------------------------------------------------------
(* The steps of the whole server.                                          *)

Becomes(old, c, x) == [d \in Clients |-> IF d = c THEN x ELSE old[d]]

\* Session c becomes f, n, fd, a and g, and the others stay what they are.
SessionStep(c, f, n, fd, a, g) ==
  /\ frame' = Becomes(frame, c, f) /\ conn' = Becomes(conn, c, n)
  /\ fdOf' = Becomes(fdOf, c, fd)
  /\ answers' = Becomes(answers, c, a) /\ got' = Becomes(got, c, g)

LEMMA Kept ==
  ASSUME NEW T, NEW old \in [Clients -> T], NEW c \in Clients
  PROVE  old = Becomes(old, c, old[c])
  BY DEF Becomes

LEMMA Replaced ==
  ASSUME NEW T, NEW old \in [Clients -> T], NEW c \in Clients, NEW x
  PROVE  [old EXCEPT ![c] = x] = Becomes(old, c, x)
  BY DEF Becomes

\* What the tables of the sessions have for one client.
LEMMA Tables ==
  ASSUME Sessions, NEW c \in Clients
  PROVE  /\ frame = Becomes(frame, c, frame[c]) /\ conn = Becomes(conn, c, conn[c])
         /\ fdOf = Becomes(fdOf, c, fdOf[c])
         /\ answers = Becomes(answers, c, answers[c]) /\ got = Becomes(got, c, got[c])
         /\ \A x : [frame EXCEPT ![c] = x] = Becomes(frame, c, x)
         /\ \A x : [conn EXCEPT ![c] = x] = Becomes(conn, c, x)
         /\ \A x : [fdOf EXCEPT ![c] = x] = Becomes(fdOf, c, x)
         /\ \A x : [answers EXCEPT ![c] = x] = Becomes(answers, c, x)
         /\ \A x : [got EXCEPT ![c] = x] = Becomes(got, c, x)
         /\ Fine(c, frame[c], conn[c], fdOf[c], answers[c], got[c])
<1>1. /\ frame \in [Clients -> Frames] /\ conn \in [Clients -> Connections]
      /\ fdOf \in [Clients -> ClientFds \cup {NoFd}]
      /\ answers \in [Clients -> Seq(Response)] /\ got \in [Clients -> Seq(OutPiece)]
      /\ Fine(c, frame[c], conn[c], fdOf[c], answers[c], got[c])
  BY DEF Sessions, InSession
<1>2. frame = Becomes(frame, c, frame[c]) /\ \A x : [frame EXCEPT ![c] = x] = Becomes(frame, c, x)
  BY <1>1, Kept, Replaced
<1>3. conn = Becomes(conn, c, conn[c]) /\ \A x : [conn EXCEPT ![c] = x] = Becomes(conn, c, x)
  BY <1>1, Kept, Replaced
<1>4. fdOf = Becomes(fdOf, c, fdOf[c]) /\ \A x : [fdOf EXCEPT ![c] = x] = Becomes(fdOf, c, x)
  BY <1>1, Kept, Replaced
<1>5. /\ answers = Becomes(answers, c, answers[c])
      /\ \A x : [answers EXCEPT ![c] = x] = Becomes(answers, c, x)
  BY <1>1, Kept, Replaced
<1>6. got = Becomes(got, c, got[c]) /\ \A x : [got EXCEPT ![c] = x] = Becomes(got, c, x)
  BY <1>1, Kept, Replaced
<1> QED BY <1>1, <1>2, <1>3, <1>4, <1>5, <1>6

\* A session that is in order again leaves all in order.
LEMMA OneSession ==
  ASSUME Sessions, NEW c \in Clients, NEW f, NEW n, NEW fd, NEW a, NEW g,
         SessionStep(c, f, n, fd, a, g), Fine(c, f, n, fd, a, g)
  PROVE  Sessions'
<1>1. /\ frame \in [Clients -> Frames] /\ conn \in [Clients -> Connections]
      /\ fdOf \in [Clients -> ClientFds \cup {NoFd}]
      /\ answers \in [Clients -> Seq(Response)] /\ got \in [Clients -> Seq(OutPiece)]
  BY DEF Sessions
<1>2. /\ f \in Frames /\ n \in Connections /\ fd \in ClientFds \cup {NoFd}
      /\ a \in Seq(Response) /\ g \in Seq(OutPiece)
  BY DEF Fine
<1>3. frame' \in [Clients -> Frames]
  BY <1>1, <1>2 DEF SessionStep, Becomes
<1>4. conn' \in [Clients -> Connections]
  BY <1>1, <1>2 DEF SessionStep, Becomes
<1>5. fdOf' \in [Clients -> ClientFds \cup {NoFd}]
  BY <1>1, <1>2 DEF SessionStep, Becomes
<1>6. answers' \in [Clients -> Seq(Response)]
  BY <1>1, <1>2 DEF SessionStep, Becomes
<1>7. got' \in [Clients -> Seq(OutPiece)]
  BY <1>1, <1>2 DEF SessionStep, Becomes
<1>8. \A d \in Clients : InSession(d)'
  <2> TAKE d \in Clients
  <2>1. CASE d = c
    <3>1. frame'[d] = f /\ conn'[d] = n /\ fdOf'[d] = fd /\ answers'[d] = a /\ got'[d] = g
      BY <2>1 DEF SessionStep, Becomes
    <3> QED BY <2>1, <3>1 DEF InSession
  <2>2. CASE d # c
    <3>1. /\ frame'[d] = frame[d] /\ conn'[d] = conn[d] /\ fdOf'[d] = fdOf[d]
          /\ answers'[d] = answers[d] /\ got'[d] = got[d]
      BY <2>2 DEF SessionStep, Becomes
    <3>2. InSession(d)
      BY DEF Sessions
    <3> QED BY <3>1, <3>2 DEF InSession
  <2> QED BY <2>1, <2>2
<1> QED BY <1>3, <1>4, <1>5, <1>6, <1>7, <1>8 DEF Sessions

\* So it is with who owns what, if the session gets no descriptor.
LEMMA OwnedKept ==
  ASSUME Sessions, Owned, NEW c \in Clients, NEW f, NEW n, NEW fd, NEW a, NEW g,
         SessionStep(c, f, n, fd, a, g), backlog' = backlog, backlog \in Seq(Clients),
         fd \in {fdOf[c], NoFd}, n.state = conn[c].state \/ conn[c].state # "backlog"
  PROVE  Owned'
<1>1. \A d \in Clients : fdOf'[d] = IF d = c THEN fd ELSE fdOf[d]
  BY DEF SessionStep, Becomes
<1>2. \A d \in Clients : conn'[d] = IF d = c THEN n ELSE conn[d]
  BY DEF SessionStep, Becomes
<1>3. \A d, e \in Clients : fdOf'[d] = fdOf'[e] /\ fdOf'[d] # NoFd => d = e
  BY <1>1 DEF Owned
<1>4. \A i \in DOMAIN backlog : backlog[i] \in Clients
  OBVIOUS
<1>5. \A i \in DOMAIN backlog : conn'[backlog[i]].state = "backlog"
  BY <1>2, <1>4 DEF Owned
<1> QED BY <1>3, <1>5 DEF Owned

\* The coroutines that are there, and the descriptors they have.
LEMMA Owners ==
  ASSUME IInv
  PROVE  /\ Alive \subseteq Coroutines /\ Nobody \notin Alive /\ Acceptor \in Alive
         /\ \A c \in Clients : c \in Alive <=> Live(c)
         /\ \A c \in Clients : Live(c) <=> fdOf[c] # NoFd
         /\ \A c \in Clients : Live(c) <=> conn[c].state = "accepted"
         /\ \A c \in Clients : c # Acceptor
         /\ \A h \in Alive \ {Acceptor} : h \in Clients /\ fdOf[h] \in ClientFds
         /\ \A g, h \in Alive \ {Acceptor} : fdOf[g] = fdOf[h] => g = h
         /\ \A h \in Alive \ {Acceptor} : fdOf[h] # ListenFd
<1>1. /\ Alive \subseteq Coroutines /\ Nobody \notin Alive /\ Acceptor \in Alive
      /\ \A c \in Clients : c # Acceptor
      /\ \A c \in Clients : c \in Alive <=> Live(c)
  BY ServerAssumption, NobodyAssumption DEF Alive
<1>2. \A c \in Clients : Stage(frame[c], conn[c], fdOf[c], answers[c], got[c])
  BY DEF IInv, Sessions, InSession, Fine
<1>3. \A c \in Clients : Live(c) <=> conn[c].state = "accepted"
  BY <1>2 DEF Stage, Live
<1>4. \A c \in Clients : Live(c) <=> fdOf[c] # NoFd
  BY <1>2 DEF Stage, Live
<1>5. fdOf \in [Clients -> ClientFds \cup {NoFd}]
  BY DEF IInv, Sessions
<1>6. \A h \in Alive \ {Acceptor} : h \in Clients /\ fdOf[h] # NoFd /\ fdOf[h] \in ClientFds
  BY <1>4, <1>5 DEF Alive
<1>7. \A g, h \in Alive \ {Acceptor} : fdOf[g] = fdOf[h] => g = h
  BY <1>6 DEF IInv, Owned
<1>8. \A h \in Alive \ {Acceptor} : fdOf[h] # ListenFd
  BY <1>6, ServerAssumption
<1> QED BY <1>1, <1>3, <1>4, <1>6, <1>7, <1>8

\* Where the handlers are after a step of session c.
LEMMA StagesThen ==
  ASSUME IInv, NEW c \in Clients, NEW f, NEW n, NEW fd, NEW a, NEW g,
         SessionStep(c, f, n, fd, a, g), Live(c)
  PROVE  /\ Stages'[c] = f.pc /\ fdOf'[c] = fd
         /\ \A h \in Alive \ {c, Acceptor} : Stages'[h] = Stages[h] /\ fdOf'[h] = fdOf[h]
         /\ f.pc \notin {"none", "done"} => Alive' = Alive
         /\ f.pc = "done" => Alive' = Alive \ {c}
<1>1. \A d \in Clients : frame'[d] = IF d = c THEN f ELSE frame[d]
  BY DEF SessionStep, Becomes
<1>2. \A d \in Clients : fdOf'[d] = IF d = c THEN fd ELSE fdOf[d]
  BY DEF SessionStep, Becomes
<1>3. \A d \in Clients : Stages'[d] = frame'[d].pc /\ Stages[d] = frame[d].pc
  BY DEF Stages
<1>4. \A h \in Alive \ {Acceptor} : h \in Clients
  BY Owners
<1>5. \A h \in Alive \ {c, Acceptor} : Stages'[h] = Stages[h] /\ fdOf'[h] = fdOf[h]
  BY <1>1, <1>2, <1>3, <1>4
<1>6. \A d \in Clients : Live(d)' <=> IF d = c THEN f.pc \notin {"none", "done"} ELSE Live(d)
  BY <1>1 DEF Live
<1>7. f.pc \notin {"none", "done"} => Alive' = Alive
  BY <1>6 DEF Alive
<1>8. c # Acceptor
  BY Owners
<1>9. f.pc = "done" => Alive' = Alive \ {c}
  BY <1>6, <1>8 DEF Alive
<1> QED BY <1>1, <1>2, <1>3, <1>5, <1>7, <1>9

\* The handler of a running session goes on, without a word to the loop.
LEMMA HandlerGoesOn ==
  ASSUME IInv, NEW c \in Clients, NEW f, NEW n, NEW fd, NEW a, NEW g,
         SessionStep(c, f, n, fd, a, g), running = c, Live(c), f.pc \notin {"none", "done"},
         UNCHANGED loopVars
  PROVE  LoopTypeOK' /\ Placed'
<1>1. InOrder(ready, readWaiters, writeWaiters, running, Alive, Stages, fdOf)
  BY DEF IInv, Placed
<1>2. InOrder(ready, readWaiters, writeWaiters, running, Alive, Stages', fdOf')
  BY <1>1, StagesThen, RunningGoesOn
<1>3. Alive' = Alive
  BY StagesThen
<1>4. LoopTypeOK'
  BY DEF IInv, WellTyped, LoopTypeOK, loopVars
<1> QED BY <1>2, <1>3, <1>4 DEF Placed, loopVars

\* It waits to read.
LEMMA HandlerReads ==
  ASSUME IInv, NEW c \in Clients, NEW f, NEW n, NEW a, NEW g,
         SessionStep(c, f, n, fdOf[c], a, g), running = c, Live(c), f.pc = "recv",
         WaitRead(fdOf[c])
  PROVE  LoopTypeOK' /\ Placed'
<1>1. InOrder(ready, readWaiters, writeWaiters, running, Alive, Stages, fdOf)
  BY DEF IInv, Placed
<1>2. InOrder(ready, readWaiters, writeWaiters, running, Alive, Stages', fdOf')
  BY <1>1, StagesThen, RunningGoesOn
<1>3. Alive' = Alive /\ Stages'[c] = "recv" /\ fdOf'[c] = fdOf[c]
  BY StagesThen
<1>4. /\ c # Acceptor /\ c \in Alive /\ fdOf[c] \in ClientFds /\ fdOf[c] \in Descriptors
      /\ c # Nobody /\ Nobody \notin Alive
  BY Owners, ServerAssumption
<1>5. /\ \A h \in Alive \ {Acceptor} : fdOf'[h] = fdOf[h]
      /\ \A h \in Alive \ {Acceptor} : fdOf'[h] # ListenFd
      /\ \A g1, h \in Alive \ {Acceptor} : fdOf'[g1] = fdOf'[h] => g1 = h
  <2>1. \A h \in Alive \ {Acceptor} : fdOf'[h] = fdOf[h]
    BY <1>3, StagesThen
  <2> QED BY <2>1, Owners
<1>6. readWaiters \in [Descriptors -> Coroutines \cup {Nobody}]
  BY DEF IInv, WellTyped, LoopTypeOK
<1>7. InOrder(ready, [readWaiters EXCEPT ![fdOf[c]] = c], writeWaiters, Nobody, Alive, Stages', fdOf')
  BY <1>2, <1>3, <1>4, <1>5, <1>6, RunningReads
<1>8. LoopTypeOK'
  BY <1>4, ServerAssumption DEF IInv, WellTyped, LoopTypeOK, WaitRead
<1> QED BY <1>3, <1>7, <1>8 DEF Placed, WaitRead

\* It waits to write, and nothing of its session changes.
LEMMA HandlerWrites ==
  ASSUME IInv, NEW c \in Clients, UNCHANGED <<frame, fdOf>>,
         running = c, Live(c), frame[c].pc = "send", WaitWrite(fdOf[c])
  PROVE  LoopTypeOK' /\ Placed'
<1>1. InOrder(ready, readWaiters, writeWaiters, running, Alive, Stages, fdOf)
  BY DEF IInv, Placed
<1>2. Alive' = Alive /\ Stages' = Stages /\ Stages[c] = "send"
  BY DEF Alive, Live, Stages
<1>3. /\ c # Acceptor /\ c \in Alive /\ fdOf[c] \in ClientFds /\ fdOf[c] \in Descriptors
      /\ c # Nobody /\ Nobody \notin Alive
  BY Owners, ServerAssumption
<1>4. \A g, h \in Alive \ {Acceptor} : fdOf[g] = fdOf[h] => g = h
  BY Owners
<1>5. writeWaiters \in [Descriptors -> Coroutines \cup {Nobody}]
  BY DEF IInv, WellTyped, LoopTypeOK
<1>6. InOrder(ready, readWaiters, [writeWaiters EXCEPT ![fdOf[c]] = c], Nobody, Alive, Stages, fdOf)
  BY <1>1, <1>2, <1>3, <1>4, <1>5, RunningWrites
<1>7. LoopTypeOK'
  BY <1>3, ServerAssumption DEF IInv, WellTyped, LoopTypeOK, WaitWrite
<1> QED BY <1>2, <1>6, <1>7 DEF Placed, WaitWrite

\* It returns.
LEMMA HandlerReturns ==
  ASSUME IInv, NEW c \in Clients, NEW f, NEW n, NEW fd, NEW a, NEW g,
         SessionStep(c, f, n, fd, a, g), running = c, Live(c), f.pc = "done", Finish
  PROVE  LoopTypeOK' /\ Placed'
<1>1. InOrder(ready, readWaiters, writeWaiters, running, Alive, Stages, fdOf)
  BY DEF IInv, Placed
<1>2. c # Nobody /\ Nobody \notin Alive
  BY Owners
<1>3. InOrder(ready, readWaiters, writeWaiters, Nobody, Alive \ {c}, Stages', fdOf')
  BY <1>1, <1>2, StagesThen, RunningReturns
<1>4. Alive' = Alive \ {c}
  BY StagesThen
<1>5. LoopTypeOK'
  BY DEF IInv, WellTyped, LoopTypeOK, Finish
<1> QED BY <1>3, <1>4, <1>5 DEF Placed, Finish

\* Whatever happens outside the server.
LEMMA PlacedKept ==
  ASSUME IInv, UNCHANGED <<loopVars, frame, fdOf>>
  PROVE  LoopTypeOK' /\ Placed'
<1>1. Alive' = Alive /\ Stages' = Stages
  BY DEF Alive, Live, Stages
<1>2. InOrder(ready, readWaiters, writeWaiters, running, Alive, Stages, fdOf)
  BY DEF IInv, Placed
<1>3. LoopTypeOK'
  BY DEF IInv, WellTyped, LoopTypeOK, loopVars
<1> QED BY <1>1, <1>2, <1>3 DEF Placed, loopVars

\* A handler closes its connection and returns.
LEMMA ClosesKeeps ==
  ASSUME IInv, NEW c \in Clients, NEW pc \in {"recv", "send", "quit"}, At(c, pc), Closes(c),
         UNCHANGED <<atAccept, backlog, kv, answers, got>>
  PROVE  IInv'
<1> DEFINE f == [NoFrame EXCEPT !.pc = "done"]
           n == [conn[c] EXCEPT !.state = "closed", !.up = <<>>]
<1>1. Live(c) /\ running = c
  BY DEF At, Live
<1>2. Sessions
  BY DEF IInv
<1>3. SessionStep(c, f, n, NoFd, answers[c], got[c])
  <2>1. conn' = [conn EXCEPT ![c] = n]
    <3>1. conn \in [Clients -> Connections]
      BY <1>2 DEF Sessions
    <3> QED BY <3>1 DEF Closes
  <2>2. frame' = [frame EXCEPT ![c] = f] /\ fdOf' = [fdOf EXCEPT ![c] = NoFd]
    BY DEF Closes
  <2>3. answers' = answers /\ got' = got
    OBVIOUS
  <2> HIDE DEF f, n
  <2> QED BY <1>2, <2>1, <2>2, <2>3, Tables DEF SessionStep
<1>4. Fine(c, f, n, NoFd, answers[c], got[c])
  BY <1>2, Tables, FineClosed
<1>5. f.pc = "done"
  BY DEF NoFrame
<1>6. conn[c].state = "accepted"
  BY <1>1, Owners
<1> HIDE DEF f, n
<1>7. Sessions'
  BY <1>2, <1>3, <1>4, OneSession
<1>8. Owned'
  BY <1>2, <1>3, <1>6, OwnedKept DEF IInv, WellTyped
<1>9. LoopTypeOK' /\ Placed'
  BY <1>1, <1>3, <1>5, HandlerReturns DEF Closes
<1> QED BY <1>7, <1>8, <1>9 DEF IInv, WellTyped

LEMMA ReceivesKeeps ==
  ASSUME IInv, NEW c \in Clients, Receives(c)
  PROVE  IInv'
<1> DEFINE f == [frame[c] EXCEPT !.inbound = @ \o conn[c].up]
           n == [conn[c] EXCEPT !.up = <<>>]
<1>1. Live(c) /\ running = c /\ frame[c].pc = "recv"
  BY DEF Receives, At, Live
<1>2. Sessions
  BY DEF IInv
<1>3. SessionStep(c, f, n, fdOf[c], answers[c], got[c])
  <2>1. frame' = [frame EXCEPT ![c] = f] /\ conn' = [conn EXCEPT ![c] = n]
    BY DEF Receives
  <2>2. fdOf' = fdOf /\ answers' = answers /\ got' = got
    BY DEF Receives
  <2> HIDE DEF f, n
  <2> QED BY <1>2, <2>1, <2>2, Tables DEF SessionStep
<1>4. Fine(c, f, n, fdOf[c], answers[c], got[c])
  BY <1>1, <1>2, Tables, FineReceives
<1>5. f.pc = "recv" /\ n.state = conn[c].state
  <2>1. frame[c] \in Frames /\ conn[c] \in Connections
    BY <1>2 DEF Sessions
  <2> QED BY <1>1, <2>1 DEF Frames, Connections
<1> HIDE DEF f, n
<1>6. Sessions'
  BY <1>2, <1>3, <1>4, OneSession
<1>7. Owned'
  BY <1>2, <1>3, <1>5, OwnedKept DEF IInv, WellTyped, Receives
<1>8. LoopTypeOK' /\ Placed'
  BY <1>1, <1>3, <1>5, HandlerGoesOn DEF Receives
<1> QED BY <1>6, <1>7, <1>8 DEF IInv, WellTyped, Receives

LEMMA ReceivesNothingKeeps ==
  ASSUME IInv, NEW c \in Clients, ReceivesNothing(c)
  PROVE  IInv'
<1> DEFINE f == [frame[c] EXCEPT !.pc = "lines"]
<1>1. Live(c) /\ running = c /\ frame[c].pc = "recv"
  BY DEF ReceivesNothing, At, Live
<1>2. Sessions
  BY DEF IInv
<1>3. SessionStep(c, f, conn[c], fdOf[c], answers[c], got[c])
  <2>1. frame' = [frame EXCEPT ![c] = f]
    BY DEF ReceivesNothing
  <2> QED BY <1>2, <2>1, Tables DEF ReceivesNothing, SessionStep
<1>4. Fine(c, f, conn[c], fdOf[c], answers[c], got[c])
  BY <1>1, <1>2, Tables, FineGoesOn
<1>5. f.pc = "lines"
  <2>1. frame[c] \in Frames
    BY <1>2 DEF Sessions
  <2> QED BY <2>1 DEF Frames
<1> HIDE DEF f
<1>6. Sessions'
  BY <1>2, <1>3, <1>4, OneSession
<1>7. Owned'
  BY <1>2, <1>3, OwnedKept DEF IInv, WellTyped, ReceivesNothing
<1>8. LoopTypeOK' /\ Placed'
  BY <1>1, <1>3, <1>5, HandlerGoesOn DEF ReceivesNothing
<1> QED BY <1>6, <1>7, <1>8 DEF IInv, WellTyped, ReceivesNothing

LEMMA AwaitsInputKeeps ==
  ASSUME IInv, NEW c \in Clients, AwaitsInput(c)
  PROVE  IInv'
<1> DEFINE f == [frame[c] EXCEPT !.pc = "recv"]
<1>1. Live(c) /\ running = c /\ frame[c].pc = "lines"
  BY DEF AwaitsInput, At, Live
<1>2. Sessions
  BY DEF IInv
<1>3. SessionStep(c, f, conn[c], fdOf[c], answers[c], got[c])
  <2>1. frame' = [frame EXCEPT ![c] = f]
    BY DEF AwaitsInput
  <2> QED BY <1>2, <2>1, Tables DEF AwaitsInput, SessionStep
<1>4. Fine(c, f, conn[c], fdOf[c], answers[c], got[c])
  BY <1>1, <1>2, Tables, FineGoesOn
<1>5. f.pc = "recv"
  <2>1. frame[c] \in Frames
    BY <1>2 DEF Sessions
  <2> QED BY <2>1 DEF Frames
<1> HIDE DEF f
<1>6. Sessions'
  BY <1>2, <1>3, <1>4, OneSession
<1>7. Owned'
  BY <1>2, <1>3, OwnedKept DEF IInv, WellTyped, AwaitsInput
<1>8. LoopTypeOK' /\ Placed'
  BY <1>1, <1>3, <1>5, HandlerReads DEF AwaitsInput
<1> QED BY <1>6, <1>7, <1>8 DEF IInv, WellTyped, AwaitsInput

LEMMA ExecutesKeeps ==
  ASSUME IInv, NEW c \in Clients, Executes(c)
  PROVE  IInv'
<1> DEFINE in == frame[c].inbound
           rest == SubSeq(in, LineEnd(in) + 1, Len(in))
           q == Parsed(c, SubSeq(in, 1, LineEnd(in)))
           f == [pc |-> "send", sent |-> 0, inbound |-> rest]
           a == Append(answers[c], Answer(kv, q))
<1>1. Live(c) /\ running = c /\ frame[c].pc = "lines" /\ HasLine(in)
  BY DEF Executes, At, Live
<1>2. Sessions /\ kv \in [Keys -> Stored]
  BY DEF IInv, WellTyped
<1>3. /\ kv' = Executed(kv, q)
      /\ answers' = [answers EXCEPT ![c] = a] /\ frame' = [frame EXCEPT ![c] = f]
      /\ UNCHANGED <<loopVars, atAccept, fdOf, conn, backlog, got>>
  BY DEF Executes, Serves
<1>4. SessionStep(c, f, conn[c], fdOf[c], a, got[c])
  BY <1>2, <1>3, Tables DEF SessionStep
<1>5. kv' \in [Keys -> Stored] /\ Fine(c, f, conn[c], fdOf[c], a, got[c])
  <2>1. Fine(c, frame[c], conn[c], fdOf[c], answers[c], got[c])
    BY <1>2, Tables
  <2> QED BY <1>1, <1>2, <1>3, <2>1, FineExecutes
<1>6. f.pc = "send"
  OBVIOUS
<1> HIDE DEF f, a
<1>7. Sessions'
  BY <1>2, <1>4, <1>5, OneSession
<1>8. Owned'
  BY <1>2, <1>3, <1>4, OwnedKept DEF IInv, WellTyped
<1>9. LoopTypeOK' /\ Placed'
  BY <1>1, <1>3, <1>4, <1>6, HandlerGoesOn
<1> QED BY <1>3, <1>5, <1>7, <1>8, <1>9 DEF IInv, WellTyped

LEMMA SendsKeeps ==
  ASSUME IInv, NEW c \in Clients, Sends(c)
  PROVE  IInv'
<1> DEFINE gone == conn[c].peer \in {"gone", "doomed"}
           k == IF gone THEN Len(Unsent(c)) ELSE Least(Room(c), Len(Unsent(c)))
           pc == IF k < Len(Unsent(c)) THEN "send" ELSE IF Quits(c) THEN "quit" ELSE "lines"
           f == [frame[c] EXCEPT !.sent = @ + k, !.pc = pc]
           n == IF gone THEN [conn[c] EXCEPT !.peer = "doomed"]
                        ELSE [conn[c] EXCEPT !.down = @ \o SubSeq(Unsent(c), 1, k)]
<1>1. Live(c) /\ running = c /\ frame[c].pc = "send"
  BY DEF Sends, At, Live
<1>2. Sessions
  BY DEF IInv
<1>3. Fine(c, frame[c], conn[c], fdOf[c], answers[c], got[c])
  BY <1>2, Tables
<1>4. /\ frame[c] \in Frames /\ conn[c] \in Connections /\ answers[c] \in Seq(Response)
      /\ Len(answers[c]) > 0
  BY <1>1, <1>3 DEF Fine, Stage
<1>5. Unsent(c) = Remaining(answers[c], frame[c].sent)
  BY DEF Unsent, Remaining
<1>6. Len(Unsent(c)) = ResponseParts - frame[c].sent /\ frame[c].sent \in 0 .. ResponseParts
  BY <1>4, <1>5, RemainingPieces DEF Frames
<1>7. /\ gone \/ Room(c) > 0
      /\ frame' = [frame EXCEPT ![c].sent = @ + k, ![c].pc = pc]
      /\ conn' = IF gone THEN [conn EXCEPT ![c].peer = "doomed"]
                         ELSE [conn EXCEPT ![c].down = @ \o SubSeq(Unsent(c), 1, k)]
      /\ UNCHANGED <<loopVars, atAccept, fdOf, backlog, kv, answers, got>>
  BY DEF Sends
<1>8. SessionStep(c, f, n, fdOf[c], answers[c], got[c])
  <2>1. frame' = [frame EXCEPT ![c] = f]
    <3>1. frame \in [Clients -> Frames]
      BY <1>2 DEF Sessions
    <3> QED BY <1>7, <3>1 DEF Frames
  <2>2. conn' = [conn EXCEPT ![c] = n]
    <3>1. CASE gone
      BY <1>7, <3>1
    <3>2. CASE ~gone
      BY <1>7, <3>2
    <3> QED BY <3>1, <3>2
  <2>3. fdOf' = fdOf /\ answers' = answers /\ got' = got
    BY <1>7
  <2> HIDE DEF f, n
  <2> QED BY <1>2, <2>1, <2>2, <2>3, Tables DEF SessionStep
<1>9. /\ k \in 0 .. ResponseParts - frame[c].sent
      /\ ~gone => Len(conn[c].down) + k <= SendBuffer
      /\ k < Len(Unsent(c)) \/ k = ResponseParts - frame[c].sent
  <2> DEFINE room == Room(c)
             left == Len(Unsent(c))
             D == Len(conn[c].down)
  <2>1. D \in Nat /\ SendBuffer \in Nat /\ ResponseParts \in Nat /\ room = SendBuffer - D
    BY <1>4, LenProperties, ServerAssumption DEF Connections, Room
  <2>2. left = ResponseParts - frame[c].sent /\ left \in Nat /\ frame[c].sent \in Nat
    BY <1>6, <2>1
  <2>3. gone \/ room > 0
    BY <1>7
  <2>4. k = IF gone THEN left ELSE IF room <= left THEN room ELSE left
    BY DEF Least
  <2> HIDE DEF room, left, D, k, gone
  <2>5. /\ k \in 0 .. left
        /\ ~gone => D + k <= SendBuffer
        /\ k < left \/ k = left
    BY <2>1, <2>2, <2>3, <2>4
  <2> QED BY <2>2, <2>5 DEF left, D
<1>10. pc \in {"send", "quit", "lines"} /\ (pc # "send" => k = ResponseParts - frame[c].sent)
  BY <1>9
<1>11. \/ n = [conn[c] EXCEPT !.peer = "doomed"]
       \/ /\ Len(conn[c].down) + k <= SendBuffer
          /\ n = [conn[c] EXCEPT !.down = @ \o SubSeq(Remaining(answers[c], frame[c].sent), 1, k)]
  BY <1>5, <1>9
<1>12. f.pc = pc
  BY <1>4 DEF Frames
<1>13. n.state = conn[c].state
  BY <1>4 DEF Connections
<1> HIDE DEF k, pc, n
<1>14. Fine(c, f, n, fdOf[c], answers[c], got[c])
  BY <1>1, <1>3, <1>9, <1>10, <1>11, FineSends
<1> HIDE DEF f
<1>15. Sessions'
  BY <1>2, <1>8, <1>14, OneSession
<1>16. Owned'
  BY <1>2, <1>7, <1>8, <1>13, OwnedKept DEF IInv, WellTyped
<1>17. LoopTypeOK' /\ Placed'
  BY <1>1, <1>7, <1>8, <1>10, <1>12, HandlerGoesOn
<1> QED BY <1>7, <1>15, <1>16, <1>17 DEF IInv, WellTyped

LEMMA AwaitsRoomKeeps ==
  ASSUME IInv, NEW c \in Clients, AwaitsRoom(c)
  PROVE  IInv'
<1>1. Live(c) /\ running = c /\ frame[c].pc = "send"
  BY DEF AwaitsRoom, At, Live
<1>2. UNCHANGED <<frame, fdOf, conn, answers, got, backlog>>
  BY DEF AwaitsRoom, serverVars
<1>3. Sessions' /\ Owned'
  BY <1>2 DEF IInv, Sessions, InSession, Owned
<1>4. LoopTypeOK' /\ Placed'
  BY <1>1, <1>2, HandlerWrites DEF AwaitsRoom
<1> QED BY <1>3, <1>4 DEF IInv, WellTyped, AwaitsRoom, serverVars

LEMMA SendKillsKeeps ==
  ASSUME IInv, NEW c \in Clients, SendKills(c)
  PROVE  IInv'
<1>1. UNCHANGED <<ready, readWaiters, writeWaiters, running, frame, fdOf, conn, answers, got, backlog>>
  BY DEF SendKills, serverVars
<1>2. Sessions' /\ Owned'
  BY <1>1 DEF IInv, Sessions, InSession, Owned
<1>3. LoopTypeOK'
  BY DEF IInv, WellTyped, LoopTypeOK, SendKills
<1>4. Alive' = Alive /\ Stages' = Stages
  BY <1>1 DEF Alive, Live, Stages
<1>5. Placed'
  BY <1>1, <1>4 DEF IInv, Placed
<1> QED BY <1>2, <1>3, <1>5 DEF IInv, WellTyped, SendKills, serverVars

\* The first in the backlog, and the others.
LEMMA FirstWaits ==
  ASSUME Owned, backlog \in Seq(Clients), backlog # <<>>,
         NEW c, c = Head(backlog), NEW rest, rest = Tail(backlog)
  PROVE  /\ c \in Clients /\ conn[c].state = "backlog" /\ rest \in Seq(Clients)
         /\ \A m, n \in DOMAIN rest : rest[m] = rest[n] => m = n
         /\ \A n \in DOMAIN rest : rest[n] \in Clients /\ rest[n] # c /\ conn[rest[n]].state = "backlog"
<1> DEFINE N == Len(backlog)
<1>1. /\ N \in Nat \ {0} /\ DOMAIN backlog = 1 .. N
      /\ rest \in Seq(Clients) /\ Len(rest) = N - 1 /\ \A n \in 1 .. N - 1 : rest[n] = backlog[n + 1]
      /\ c = backlog[1] /\ c \in Clients
  <2>1. N \in Nat \ {0} /\ DOMAIN backlog = 1 .. N
    BY LenProperties, EmptySeq
  <2>2. /\ rest \in Seq(Clients) /\ Len(rest) = N - 1
        /\ \A n \in 1 .. Len(rest) : rest[n] = backlog[n + 1]
        /\ c = backlog[1] /\ c \in Clients
    BY HeadTailProperties
  <2> QED BY <2>1, <2>2
<1>2. DOMAIN rest = 1 .. N - 1
  BY <1>1, LenProperties
<1> HIDE DEF N
<1>3. \A n \in DOMAIN rest : n + 1 \in DOMAIN backlog /\ n + 1 # 1 /\ rest[n] = backlog[n + 1]
  BY <1>1, <1>2
<1>4. 1 \in DOMAIN backlog
  BY <1>1
<1>5. /\ \A m, n \in DOMAIN backlog : backlog[m] = backlog[n] => m = n
      /\ \A n \in DOMAIN backlog : conn[backlog[n]].state = "backlog"
  BY DEF Owned
<1>6. \A m, n \in DOMAIN rest : rest[m] = rest[n] => m = n
  <2> TAKE m, n \in DOMAIN rest
  <2> HAVE rest[m] = rest[n]
  <2>1. m + 1 = n + 1
    BY <1>3, <1>5
  <2> QED BY <1>1, <1>2, <2>1
<1>7. \A n \in DOMAIN rest : rest[n] \in Clients
  BY <1>1, <1>2, ElementOfSeq
<1>8. \A n \in DOMAIN rest : rest[n] # c /\ conn[rest[n]].state = "backlog"
  BY <1>1, <1>3, <1>4, <1>5
<1> QED BY <1>1, <1>4, <1>5, <1>6, <1>7, <1>8

\* The acceptor waits for the listening socket.
LEMMA AcceptorWaits ==
  ASSUME IInv, running = Acceptor, WaitRead(ListenFd), UNCHANGED <<frame, fdOf>>
  PROVE  LoopTypeOK' /\ Placed'
<1>1. InOrder(ready, readWaiters, writeWaiters, running, Alive, Stages, fdOf)
  BY DEF IInv, Placed
<1>2. Alive' = Alive /\ Stages' = Stages
  BY DEF Alive, Live, Stages
<1>3. /\ Acceptor \in Coroutines /\ Acceptor # Nobody /\ Nobody \notin Alive
      /\ ListenFd \in Descriptors
  BY Owners, ServerAssumption, NobodyAssumption
<1>4. /\ \A h \in Alive \ {Acceptor} : fdOf[h] # ListenFd
      /\ \A g, h \in Alive \ {Acceptor} : fdOf[g] = fdOf[h] => g = h
  BY Owners
<1>5. readWaiters \in [Descriptors -> Coroutines \cup {Nobody}]
  BY DEF IInv, WellTyped, LoopTypeOK
<1>6. InOrder(ready, [readWaiters EXCEPT ![ListenFd] = Acceptor], writeWaiters, Nobody, Alive, Stages, fdOf)
  BY <1>1, <1>3, <1>4, <1>5, RunningReads
<1>7. LoopTypeOK'
  BY <1>3 DEF IInv, WellTyped, LoopTypeOK, WaitRead
<1> QED BY <1>2, <1>6, <1>7 DEF Placed, WaitRead

LEMMA AcceptStartsKeeps ==
  ASSUME IInv, AcceptStarts
  PROVE  IInv'
<1>1. UNCHANGED <<frame, fdOf, conn, backlog, kv, answers, got>> /\ running = Acceptor
  BY DEF AcceptStarts
<1>2. Sessions' /\ Owned'
  BY <1>1 DEF IInv, Sessions, InSession, Owned
<1>3. LoopTypeOK' /\ Placed'
  BY <1>1, AcceptorWaits DEF AcceptStarts
<1> QED BY <1>1, <1>2, <1>3 DEF IInv, WellTyped, AcceptStarts

LEMMA AcceptWaitsKeeps ==
  ASSUME IInv, AcceptWaits
  PROVE  IInv'
<1>1. UNCHANGED <<frame, atAccept, fdOf, conn, backlog, kv, answers, got>> /\ running = Acceptor
  BY DEF AcceptWaits, Accepting, serverVars
<1>2. Sessions' /\ Owned'
  BY <1>1 DEF IInv, Sessions, InSession, Owned
<1>3. LoopTypeOK' /\ Placed'
  BY <1>1, AcceptorWaits DEF AcceptWaits
<1> QED BY <1>1, <1>2, <1>3 DEF IInv, WellTyped

LEMMA AcceptDropsKeeps ==
  ASSUME IInv, AcceptDrops
  PROVE  IInv'
<1> DEFINE c == Head(backlog)
           n == [conn[c] EXCEPT !.state = "closed"]
<1>1. /\ backlog # <<>> /\ backlog' = Tail(backlog)
      /\ conn' = [conn EXCEPT ![c] = n]
      /\ UNCHANGED <<loopVars, atAccept, frame, fdOf, kv, answers, got>>
  BY DEF AcceptDrops
<1>2. Sessions /\ Owned /\ backlog \in Seq(Clients)
  BY DEF IInv, WellTyped
<1>3. /\ c \in Clients /\ conn[c].state = "backlog" /\ backlog' \in Seq(Clients)
      /\ \A i, j \in DOMAIN backlog' : backlog'[i] = backlog'[j] => i = j
      /\ \A i \in DOMAIN backlog' :
           backlog'[i] \in Clients /\ backlog'[i] # c /\ conn[backlog'[i]].state = "backlog"
  BY <1>1, <1>2, FirstWaits
<1>4. Fine(c, frame[c], n, fdOf[c], answers[c], got[c])
  BY <1>2, <1>3, Tables, FineDropped
<1> HIDE DEF c, n
<1>5. SessionStep(c, frame[c], n, fdOf[c], answers[c], got[c])
  BY <1>1, <1>2, <1>3, Tables DEF SessionStep
<1>6. Sessions'
  BY <1>2, <1>3, <1>4, <1>5, OneSession
<1>7. Owned'
  <2>1. \A d \in Clients : d # c => conn'[d] = conn[d]
    BY <1>3, <1>5 DEF SessionStep, Becomes
  <2>2. \A i \in DOMAIN backlog' : conn'[backlog'[i]].state = "backlog"
    BY <1>3, <2>1
  <2>3. \A d, e \in Clients : fdOf'[d] = fdOf'[e] /\ fdOf'[d] # NoFd => d = e
    BY <1>1, <1>2 DEF Owned
  <2> QED BY <1>3, <2>2, <2>3 DEF Owned
<1>8. LoopTypeOK' /\ Placed'
  BY <1>1, PlacedKept
<1> QED BY <1>1, <1>3, <1>6, <1>7, <1>8 DEF IInv, WellTyped

LEMMA AcceptsKeeps ==
  ASSUME IInv, Accepts
  PROVE  IInv'
<1> DEFINE c == Head(backlog)
           f == [frame[c] EXCEPT !.pc = "recv"]
           n == [conn[c] EXCEPT !.state = "accepted"]
<1>1. /\ running = Acceptor /\ FreeFds # {}
      /\ backlog # <<>> /\ backlog' = Tail(backlog)
      /\ conn' = [conn EXCEPT ![c] = n]
      /\ frame' = [frame EXCEPT ![c] = f]
      /\ fdOf' = [fdOf EXCEPT ![c] = NextFd]
      /\ Spawn(c)
      /\ UNCHANGED <<atAccept, kv, answers, got>>
  BY DEF Accepts, Accepting
<1>2. Sessions /\ Owned /\ backlog \in Seq(Clients)
  BY DEF IInv, WellTyped
<1>3. /\ c \in Clients /\ conn[c].state = "backlog" /\ backlog' \in Seq(Clients)
      /\ \A i, j \in DOMAIN backlog' : backlog'[i] = backlog'[j] => i = j
      /\ \A i \in DOMAIN backlog' :
           backlog'[i] \in Clients /\ backlog'[i] # c /\ conn[backlog'[i]].state = "backlog"
  BY <1>1, <1>2, FirstWaits
<1>4. NextFd \in ClientFds /\ \A d \in Clients : fdOf[d] # NextFd
  BY <1>1, LowestFree DEF FreeFds, InUse
<1>5. Fine(c, f, n, NextFd, answers[c], got[c])
  BY <1>2, <1>3, <1>4, Tables, FineAccepted
<1>6. f.pc = "recv"
  BY <1>2, <1>3 DEF Sessions, Frames
<1> HIDE DEF c, f, n
<1>7. SessionStep(c, f, n, NextFd, answers[c], got[c])
  BY <1>1, <1>2, <1>3, Tables DEF SessionStep
<1>8. Sessions'
  BY <1>2, <1>3, <1>5, <1>7, OneSession
<1>9. \A d \in Clients : /\ d # c => conn'[d] = conn[d] /\ frame'[d] = frame[d] /\ fdOf'[d] = fdOf[d]
                         /\ frame'[c] = f /\ fdOf'[c] = NextFd
  BY <1>3, <1>7 DEF SessionStep, Becomes
<1>10. Owned'
  <2>1. \A i \in DOMAIN backlog' : conn'[backlog'[i]].state = "backlog"
    BY <1>3, <1>9
  <2>2. \A d, e \in Clients : fdOf'[d] = fdOf'[e] /\ fdOf'[d] # NoFd => d = e
    BY <1>2, <1>3, <1>4, <1>9 DEF Owned
  <2> QED BY <1>3, <2>1, <2>2 DEF Owned
<1>11. c \notin Alive /\ c \in Coroutines
  BY <1>3, Owners, ServerAssumption
<1>12. Alive' = Alive \cup {c}
  BY <1>3, <1>6, <1>9 DEF Alive, Live
<1>13. \A h \in Alive \ {Acceptor} : Stages'[h] = Stages[h] /\ fdOf'[h] = fdOf[h]
  <2>1. \A h \in Alive \ {Acceptor} : h \in Clients /\ h # c
    BY <1>11, Owners
  <2> QED BY <1>9, <2>1 DEF Stages
<1>14. /\ ready \in Seq(Coroutines) /\ running # Nobody /\ Nobody \notin Alive
       /\ InOrder(ready, readWaiters, writeWaiters, running, Alive, Stages, fdOf)
  BY <1>1, Owners, ServerAssumption, NobodyAssumption DEF IInv, WellTyped, LoopTypeOK, Placed
<1>15. InOrder(Append(ready, c), readWaiters, writeWaiters, running, Alive \cup {c}, Stages', fdOf')
  BY <1>11, <1>13, <1>14, RunningSpawns
<1>16. LoopTypeOK' /\ Placed'
  <2>1. Append(ready, c) \in Seq(Coroutines)
    BY <1>11, <1>14, AppendProperties
  <2>2. LoopTypeOK'
    BY <1>1, <2>1 DEF IInv, WellTyped, LoopTypeOK, Spawn
  <2> QED BY <1>1, <1>12, <1>15, <2>2 DEF Placed, Spawn
<1> QED BY <1>1, <1>3, <1>8, <1>10, <1>16 DEF IInv, WellTyped

LEMMA ResumeKeeps ==
  ASSUME IInv, Resume, UNCHANGED <<serverVars, conn, got>>
  PROVE  IInv'
<1>1. UNCHANGED <<frame, atAccept, fdOf, conn, backlog, kv, answers, got>>
  BY DEF serverVars
<1>2. Sessions' /\ Owned'
  BY <1>1 DEF IInv, Sessions, InSession, Owned
<1>3. Alive' = Alive /\ Stages' = Stages
  BY <1>1 DEF Alive, Live, Stages
<1>4. /\ ready \in Seq(Coroutines) /\ ready # <<>> /\ running = Nobody /\ Nobody \notin Alive
      /\ InOrder(ready, readWaiters, writeWaiters, Nobody, Alive, Stages, fdOf)
  BY Owners DEF IInv, WellTyped, LoopTypeOK, Placed, Resume, Idle
<1>5. InOrder(Tail(ready), readWaiters, writeWaiters, Head(ready), Alive, Stages, fdOf)
  BY <1>4, FirstResumes
<1>6. Tail(ready) \in Seq(Coroutines) /\ Head(ready) \in Coroutines
  BY <1>4, HeadTailProperties
<1>7. LoopTypeOK'
  BY <1>6 DEF IInv, WellTyped, LoopTypeOK, Resume
<1>8. Placed'
  BY <1>1, <1>3, <1>5 DEF Placed, Resume
<1> QED BY <1>1, <1>2, <1>7, <1>8 DEF IInv, WellTyped

LEMMA PollsKeeps ==
  ASSUME IInv, Polls(Input, Output, Errors), UNCHANGED <<serverVars, conn, got>>
  PROVE  IInv'
<1> DEFINE rs == {fd \in Input \cup Errors  : readWaiters[fd] # Nobody}
           ws == {fd \in Output \cup Errors : writeWaiters[fd] # Nobody}
<1>1. UNCHANGED <<frame, atAccept, fdOf, conn, backlog, kv, answers, got>>
  BY DEF serverVars
<1>2. Sessions' /\ Owned'
  BY <1>1 DEF IInv, Sessions, InSession, Owned
<1>3. Alive' = Alive /\ Stages' = Stages
  BY <1>1 DEF Alive, Live, Stages
<1>4. rs \subseteq Descriptors /\ ws \subseteq Descriptors
  BY ServerAssumption DEF Input, Output, Errors
<1>5. (\A fd \in rs : readWaiters[fd] # Nobody) /\ (\A fd \in ws : writeWaiters[fd] # Nobody)
  OBVIOUS
<1>6. PICK i \in Orders(rs), j \in Orders(ws) :
        ready' = [n \in DOMAIN i |-> readWaiters[i[n]]] \o [n \in DOMAIN j |-> writeWaiters[j[n]]]
  BY DEF Polls
<1>7. /\ ready = <<>> /\ running = Nobody /\ running' = running /\ loop' = loop
      /\ readWaiters' = Without(readWaiters, rs) /\ writeWaiters' = Without(writeWaiters, ws)
  BY DEF Polls, Idle
<1> HIDE DEF rs, ws
<1>8. /\ InOrder(<<>>, readWaiters, writeWaiters, Nobody, Alive, Stages, fdOf)
      /\ Nobody \notin Alive
      /\ readWaiters \in [Descriptors -> Coroutines \cup {Nobody}]
      /\ writeWaiters \in [Descriptors -> Coroutines \cup {Nobody}]
  BY <1>7, Owners DEF IInv, WellTyped, LoopTypeOK, Placed
<1> DEFINE p == [n \in DOMAIN i |-> readWaiters[i[n]]]
           q == [n \in DOMAIN j |-> writeWaiters[j[n]]]
<1>9. LinedUp(p, readWaiters, rs) /\ LinedUp(q, writeWaiters, ws)
  <2>1. /\ \A d, e \in Descriptors : readWaiters[d] = readWaiters[e] /\ readWaiters[d] # Nobody => d = e
        /\ \A d, e \in Descriptors : writeWaiters[d] = writeWaiters[e] /\ writeWaiters[d] # Nobody => d = e
    BY <1>8, WaitersDiffer
  <2>2. LinedUp(p, readWaiters, rs)
    BY <1>4, <1>5, <1>8, <2>1, Lined
  <2>3. LinedUp(q, writeWaiters, ws)
    BY <1>4, <1>5, <1>8, <2>1, Lined
  <2> QED BY <2>2, <2>3
<1>10. ready' = p \o q
  BY <1>6
<1> HIDE DEF p, q
<1>11. /\ p \o q \in Seq(Coroutines)
       /\ InOrder(p \o q, Without(readWaiters, rs), Without(writeWaiters, ws), Nobody, Alive, Stages, fdOf)
  BY <1>4, <1>5, <1>8, <1>9, PollWakes
<1>12. Without(readWaiters, rs) \in [Descriptors -> Coroutines \cup {Nobody}]
  BY <1>8 DEF Without
<1>13. Without(writeWaiters, ws) \in [Descriptors -> Coroutines \cup {Nobody}]
  BY <1>8 DEF Without
<1>14. LoopTypeOK'
  BY <1>7, <1>10, <1>11, <1>12, <1>13 DEF IInv, WellTyped, LoopTypeOK
<1>15. Placed'
  BY <1>1, <1>3, <1>7, <1>10, <1>11 DEF Placed
<1> QED BY <1>1, <1>2, <1>14, <1>15 DEF IInv, WellTyped

\* Clients and network change one connection, and perhaps what its client has read.
LEMMA ClientKeeps ==
  ASSUME IInv, NEW c \in Clients, NEW n, NEW g,
         conn' = [conn EXCEPT ![c] = n], got' = [got EXCEPT ![c] = g],
         n.state = conn[c].state, UNCHANGED <<loopVars, serverVars>>,
         Fine(c, frame[c], n, fdOf[c], answers[c], g)
  PROVE  IInv'
<1>1. UNCHANGED <<frame, atAccept, fdOf, backlog, kv, answers>>
  BY DEF serverVars
<1>2. Sessions
  BY DEF IInv
<1>3. SessionStep(c, frame[c], n, fdOf[c], answers[c], g)
  BY <1>1, <1>2, Tables DEF SessionStep
<1>4. Sessions'
  BY <1>2, <1>3, OneSession
<1>5. Owned'
  BY <1>1, <1>2, <1>3, OwnedKept DEF IInv, WellTyped
<1>6. LoopTypeOK' /\ Placed'
  BY <1>1, PlacedKept
<1> QED BY <1>1, <1>4, <1>5, <1>6 DEF IInv, WellTyped

LEMMA TypesKeeps ==
  ASSUME IInv, NEW c \in Clients, Types(c)
  PROVE  IInv'
<1> DEFINE t == conn[c].typed
           x == <<(t \div RequestParts) + 1, (t % RequestParts) + 1>>
           n == [conn[c] EXCEPT !.typed = t + 1, !.up = Append(@, x)]
<1>1. Sessions /\ conn \in [Clients -> Connections] /\ got \in [Clients -> Seq(OutPiece)]
  BY DEF IInv, Sessions
<1>2. /\ conn[c].state \in {"backlog", "accepted"} /\ t < Len(Script[c]) * RequestParts
      /\ conn' = [conn EXCEPT ![c].typed = t + 1, ![c].up = Append(@, x)]
      /\ UNCHANGED <<loopVars, serverVars, got>>
  BY DEF Types, Known
<1>3. Fine(c, frame[c], n, fdOf[c], answers[c], got[c])
  BY <1>1, <1>2, Tables, FineTypes
<1>4. conn' = [conn EXCEPT ![c] = n]
  <2> HIDE DEF x
  <2> QED BY <1>1, <1>2
<1>5. n.state = conn[c].state
  BY <1>1 DEF Connections
<1>6. got' = [got EXCEPT ![c] = got[c]]
  BY <1>1, <1>2
<1> HIDE DEF n
<1> QED BY <1>2, <1>3, <1>4, <1>5, <1>6, ClientKeeps

LEMMA ReadsKeeps ==
  ASSUME IInv, NEW c \in Clients, Reads(c)
  PROVE  IInv'
<1> DEFINE n == [conn[c] EXCEPT !.down = Tail(@)]
           g == Append(got[c], Head(conn[c].down))
<1>1. Sessions /\ conn \in [Clients -> Connections]
  BY DEF IInv, Sessions
<1>2. /\ conn[c].down # <<>>
      /\ conn' = [conn EXCEPT ![c] = n]
      /\ got' = [got EXCEPT ![c] = g]
      /\ UNCHANGED <<loopVars, serverVars>>
  BY DEF Reads
<1>3. Fine(c, frame[c], n, fdOf[c], answers[c], g)
  BY <1>1, <1>2, Tables, FineReads
<1>4. n.state = conn[c].state
  BY <1>1 DEF Connections
<1> HIDE DEF n, g
<1> QED BY <1>2, <1>3, <1>4, ClientKeeps

\* A client that ends its output or leaves, and the reset that may follow.
LEMMA LeftKeeps ==
  ASSUME IInv, NEW c \in Clients,
         NEW peer \in {"open", "shut", "gone", "doomed", "broken", "reset"},
         NEW down, down = <<>> \/ down = conn[c].down,
         peer \in {"open", "shut"} => conn[c].peer \in {"open", "shut"} /\ down = conn[c].down,
         conn' = [conn EXCEPT ![c] = [conn[c] EXCEPT !.down = down, !.peer = peer]],
         UNCHANGED <<loopVars, serverVars, got>>
  PROVE  IInv'
<1> DEFINE n == [conn[c] EXCEPT !.down = down, !.peer = peer]
<1>1. Sessions /\ conn \in [Clients -> Connections] /\ got \in [Clients -> Seq(OutPiece)]
  BY DEF IInv, Sessions
<1>2. Fine(c, frame[c], n, fdOf[c], answers[c], got[c])
  <2>1. Fine(c, frame[c], conn[c], fdOf[c], answers[c], got[c])
    BY <1>1, Tables
  <2>2. n = [conn[c] EXCEPT !.down = down, !.peer = peer]
    OBVIOUS
  <2> HIDE DEF n
  <2> QED BY <2>1, <2>2, FineLeft
<1>3. n.state = conn[c].state
  BY <1>1 DEF Connections
<1>4. got' = [got EXCEPT ![c] = got[c]]
  BY <1>1
<1>5. conn' = [conn EXCEPT ![c] = n]
  OBVIOUS
<1>6. UNCHANGED <<loopVars, serverVars>>
  OBVIOUS
<1> HIDE DEF n
<1> QED BY <1>2, <1>3, <1>4, <1>5, <1>6, ClientKeeps, ZenonT(30)

LEMMA ShutsKeeps ==
  ASSUME IInv, NEW c \in Clients, Shuts(c)
  PROVE  IInv'
<1>1. conn \in [Clients -> Connections]
  BY DEF IInv, Sessions
<1>2. conn' = [conn EXCEPT ![c] = [conn[c] EXCEPT !.down = conn[c].down, !.peer = "shut"]]
  BY <1>1 DEF Shuts, Connections
<1>3. conn[c].peer = "open" /\ UNCHANGED <<loopVars, serverVars, got>>
  BY DEF Shuts
<1> QED BY <1>2, <1>3, LeftKeeps

LEMMA LeavesKeeps ==
  ASSUME IInv, NEW c \in Clients, Leaves(c)
  PROVE  IInv'
<1> DEFINE peer == IF conn[c].down = <<>> THEN "gone"
                   ELSE IF conn[c].peer = "open" THEN "reset" ELSE "broken"
<1>1. conn \in [Clients -> Connections]
  BY DEF IInv, Sessions
<1>2. conn' = [conn EXCEPT ![c] = [conn[c] EXCEPT !.down = <<>>, !.peer = peer]]
  BY <1>1 DEF Leaves, Connections
<1>3. peer \in {"gone", "reset", "broken"} /\ UNCHANGED <<loopVars, serverVars, got>>
  BY DEF Leaves
<1> HIDE DEF peer
<1> QED BY <1>2, <1>3, LeftKeeps

LEMMA ResetArrivesKeeps ==
  ASSUME IInv, NEW c \in Clients, ResetArrives(c)
  PROVE  IInv'
<1>1. conn \in [Clients -> Connections]
  BY DEF IInv, Sessions
<1>2. conn' = [conn EXCEPT ![c] = [conn[c] EXCEPT !.down = conn[c].down, !.peer = "broken"]]
  BY <1>1 DEF ResetArrives, Connections
<1>3. UNCHANGED <<loopVars, serverVars, got>>
  BY DEF ResetArrives
<1> QED BY <1>2, <1>3, LeftKeeps

LEMMA ConnectsKeeps ==
  ASSUME IInv, NEW c \in Clients, Connects(c)
  PROVE  IInv'
<1> DEFINE n == [conn[c] EXCEPT !.state = "backlog"]
           q == Append(backlog, c)
           N == Len(backlog)
<1>1. Sessions /\ Owned /\ backlog \in Seq(Clients) /\ conn \in [Clients -> Connections]
  BY DEF IInv, Sessions, WellTyped
<1>2. /\ conn[c].state = "none" /\ conn' = [conn EXCEPT ![c] = n] /\ backlog' = q
      /\ UNCHANGED <<loopVars, frame, atAccept, fdOf, kv, answers, got>>
  BY DEF Connects
<1>3. Fine(c, frame[c], n, fdOf[c], answers[c], got[c])
  BY <1>1, <1>2, Tables, FineConnects
<1>4. n.state = "backlog"
  BY <1>1 DEF Connections
<1> HIDE DEF n
<1>5. SessionStep(c, frame[c], n, fdOf[c], answers[c], got[c])
  BY <1>1, <1>2, Tables DEF SessionStep
<1>6. Sessions'
  BY <1>1, <1>3, <1>5, OneSession
<1>7. /\ N \in Nat /\ DOMAIN backlog = 1 .. N
      /\ q \in Seq(Clients) /\ Len(q) = N + 1
      /\ (\A i \in 1 .. N : q[i] = backlog[i]) /\ q[N + 1] = c
  BY <1>1, AppendProperties, LenProperties
<1>8. DOMAIN q = 1 .. N + 1
  BY <1>7
<1> HIDE DEF q, N
<1>9. \A i \in DOMAIN q : (i \in DOMAIN backlog /\ q[i] = backlog[i]) \/ (i = N + 1 /\ q[i] = c)
  BY <1>7, <1>8
<1>10. \A i \in DOMAIN backlog : backlog[i] # c /\ conn[backlog[i]].state = "backlog" /\ backlog[i] \in Clients
  BY <1>1, <1>2 DEF Owned
<1>11. \A d \in Clients : conn'[d] = IF d = c THEN n ELSE conn[d]
  BY <1>5 DEF SessionStep, Becomes
<1>12. Owned'
  <2>1. \A i, j \in DOMAIN q : q[i] = q[j] => i = j
    BY <1>1, <1>9, <1>10 DEF Owned
  <2>2. \A i \in DOMAIN q : conn'[q[i]].state = "backlog"
    BY <1>4, <1>9, <1>10, <1>11
  <2>3. \A d, e \in Clients : fdOf'[d] = fdOf'[e] /\ fdOf'[d] # NoFd => d = e
    BY <1>1, <1>2 DEF Owned
  <2> QED BY <1>2, <2>1, <2>2, <2>3 DEF Owned
<1>13. LoopTypeOK' /\ Placed'
  BY <1>2, PlacedKept
<1> QED BY <1>2, <1>6, <1>7, <1>12, <1>13 DEF IInv, WellTyped

-----------------------------------------------------------------------------
(* The invariant.                                                          *)

LEMMA SessionsBegin ==
  ASSUME Init, NEW c \in Clients
  PROVE  Fine(c, NoFrame, NoConnection, NoFd, <<>>, <<>>)
<1>1. <<>> \in Seq(Piece) /\ <<>> \in Seq(OutPiece) /\ <<>> \in Seq(Response) /\ Len(<<>>) = 0
  BY EmptySeq
<1>2. 0 \in 0 .. ResponseParts /\ 0 * RequestParts = 0 /\ 0 * ResponseParts = 0
  BY ServerAssumption
<1>3. NoFrame \in Frames /\ NoConnection \in Connections
  BY <1>1, <1>2 DEF NoFrame, NoConnection, Frames, Connections
<1>4. Stage(NoFrame, NoConnection, NoFd, <<>>, <<>>)
  BY DEF Stage, NoFrame, NoConnection
<1>5. Whole(<<>>, <<>>, 0, <<>>)
  BY <1>1, <1>2 DEF Whole
<1>6. Asked(c, NoFrame, NoConnection, <<>>)
  <2>1. Len(Script[c]) * RequestParts \in Nat /\ Len(Script[c]) \in Nat
    BY ServerAssumption, Products
  <2>2. 0 <= Len(Script[c]) * RequestParts /\ 0 <= Len(Script[c])
    BY <2>1
  <2> QED BY <1>1, <1>5, <2>2 DEF Asked, NoFrame, NoConnection
<1>7. Told(NoFrame, NoConnection, <<>>, <<>>)
  BY <1>1, ServerAssumption DEF Told, NoConnection
<1> QED BY <1>1, <1>3, <1>4, <1>6, <1>7 DEF Fine

LEMMA Initially ==
  ASSUME Init
  PROVE  IInv
<1>1. /\ <<Acceptor>> \in Seq(Coroutines) /\ DOMAIN <<Acceptor>> = {1} /\ <<Acceptor>>[1] = Acceptor
      /\ Acceptor # Nobody
  BY ServerAssumption, NobodyAssumption
<1>2. NoWaiters \in [Descriptors -> Coroutines \cup {Nobody}] /\ \A h : h # Nobody => ~Waits(NoWaiters, h)
  BY DEF NoWaiters, Waits
<1>3. WellTyped
  <2>1. LoopTypeOK
    BY <1>1, <1>2 DEF Init, LoopInit, LoopTypeOK
  <2>2. EmptyStore \in [Keys -> Stored]
    BY DEF EmptyStore, Stored
  <2>3. backlog \in Seq(Clients)
    BY EmptySeq DEF Init
  <2> QED BY <2>1, <2>2, <2>3 DEF WellTyped, Init
<1>4. Sessions
  <2>1. \A c \in Clients : /\ frame[c] = NoFrame /\ conn[c] = NoConnection /\ fdOf[c] = NoFd
                           /\ answers[c] = <<>> /\ got[c] = <<>>
    BY DEF Init
  <2>2. \A c \in Clients : Fine(c, NoFrame, NoConnection, NoFd, <<>>, <<>>)
    BY SessionsBegin
  <2>3. \A c \in Clients : InSession(c)
    BY <2>1, <2>2 DEF InSession
  <2>4. \A c \in Clients : /\ frame[c] \in Frames /\ conn[c] \in Connections
                           /\ fdOf[c] \in ClientFds \cup {NoFd}
                           /\ answers[c] \in Seq(Response) /\ got[c] \in Seq(OutPiece)
    BY <2>3 DEF InSession, Fine
  <2> QED BY <2>3, <2>4 DEF Sessions, Init
<1>5. Owned
  BY DEF Init, Owned
<1>6. Alive = {Acceptor}
  BY DEF Alive, Live, Init, NoFrame
<1>7. Placed
  BY <1>1, <1>2, <1>6 DEF Placed, InOrder, InQueue, Init, LoopInit, NoWaiters
<1> QED BY <1>3, <1>4, <1>5, <1>7 DEF IInv

LEMMA HandlerKeeps ==
  ASSUME IInv, NEW c \in Clients, HandleClient(c)
  PROVE  IInv'
<1>1. CASE ReceivesEnd(c)
  BY <1>1, ClosesKeeps DEF ReceivesEnd
<1>2. CASE SendFails(c)
  BY <1>2, ClosesKeeps DEF SendFails
<1>3. CASE ClosesAfterQuit(c)
  BY <1>3, ClosesKeeps DEF ClosesAfterQuit
<1> QED BY <1>1, <1>2, <1>3, ReceivesKeeps, ReceivesNothingKeeps, ExecutesKeeps, AwaitsInputKeeps,
           SendsKeeps, AwaitsRoomKeeps, SendKillsKeeps DEF HandleClient

LEMMA NothingChanges ==
  ASSUME IInv, UNCHANGED vars
  PROVE  IInv'
<1>1. UNCHANGED <<loopVars, frame, atAccept, fdOf, conn, backlog, kv, answers, got>>
  BY DEF vars, serverVars
<1>2. Sessions' /\ Owned'
  BY <1>1 DEF IInv, Sessions, InSession, Owned
<1>3. LoopTypeOK' /\ Placed'
  BY <1>1, PlacedKept
<1> QED BY <1>1, <1>2, <1>3 DEF IInv, WellTyped

LEMMA Inductively ==
  ASSUME IInv, [Next]_vars
  PROVE  IInv'
<1>1. CASE LoopStep
  BY <1>1, ResumeKeeps, PollsKeeps DEF LoopStep
<1>2. CASE Accept
  BY <1>2, AcceptStartsKeeps, AcceptsKeeps, AcceptDropsKeeps, AcceptWaitsKeeps DEF Accept
<1>3. CASE \E c \in Clients : HandleClient(c)
  BY <1>3, HandlerKeeps
<1>4. CASE Environment
  BY <1>4, ConnectsKeeps, TypesKeeps, ReadsKeeps, ShutsKeeps, LeavesKeeps, ResetArrivesKeeps
     DEF Environment
<1>5. CASE UNCHANGED vars
  BY <1>5, NothingChanges
<1> QED BY <1>1, <1>2, <1>3, <1>4, <1>5 DEF Next, Server

\* The invariant behind the theorems.
THEOREM Invariance == Spec => []IInv
  BY Initially, Inductively, PTL DEF Spec

-----------------------------------------------------------------------------
(* What it says.                                                           *)

\* A coroutine that is there is in one place.
LEMMA OnePlace ==
  ASSUME IInv, NEW h \in Alive
  PROVE  Cardinality(Places(h)) = 1
<1> DEFINE A == {<<"ready", n>> : n \in {m \in DOMAIN ready : ready[m] = h}}
           B == {<<"read", fd>> : fd \in {d \in Descriptors : readWaiters[d] = h}}
           C == {<<"write", fd>> : fd \in {d \in Descriptors : writeWaiters[d] = h}}
           D == IF running = h THEN {<<"running", 0>>} ELSE {}
<1>1. InOrder(ready, readWaiters, writeWaiters, running, Alive, Stages, fdOf)
  BY DEF IInv, Placed
<1>2. h # Nobody
  BY Owners
<1>3. /\ \A d, e \in Descriptors : readWaiters[d] = h /\ readWaiters[e] = h => d = e
      /\ \A d, e \in Descriptors : writeWaiters[d] = h /\ writeWaiters[e] = h => d = e
      /\ Waits(readWaiters, h) => ~Waits(writeWaiters, h)
  BY <1>1, <1>2, WaitersDiffer DEF Waits
<1>4. ~Waits(readWaiters, h) => B = {}
  BY DEF Waits
<1>5. ~Waits(writeWaiters, h) => C = {}
  BY DEF Waits
<1>6. ~InQueue(ready, h) => A = {}
  BY DEF InQueue
<1>7. \E x : A \cup B \cup C \cup D = {x}
  <2>1. CASE InQueue(ready, h)
    <3>1. PICK n \in DOMAIN ready : ready[n] = h
      BY <2>1 DEF InQueue
    <3>2. running # h /\ ~Waits(readWaiters, h) /\ ~Waits(writeWaiters, h)
      BY <1>1, <3>1 DEF InOrder
    <3>3. \A m \in DOMAIN ready : ready[m] = h => m = n
      BY <1>1, <3>1 DEF InOrder
    <3>4. A = {<<"ready", n>>}
      BY <3>1, <3>3
    <3>5. D = {}
      BY <3>2
    <3> QED BY <1>4, <1>5, <3>2, <3>4, <3>5
  <2>2. CASE running = h
    <3>1. ~InQueue(ready, h) /\ ~Waits(readWaiters, h) /\ ~Waits(writeWaiters, h)
      BY <1>1, <1>2, <2>2 DEF InOrder, InQueue
    <3>2. D = {<<"running", 0>>}
      BY <2>2
    <3> HIDE DEF A, B, C, D
    <3> QED BY <1>4, <1>5, <1>6, <3>1, <3>2
  <2>3. CASE Waits(readWaiters, h)
    <3>1. ~InQueue(ready, h) /\ running # h /\ ~Waits(writeWaiters, h)
      BY <1>1, <1>2, <1>3, <2>3 DEF InOrder, InQueue
    <3>2. PICK fd \in Descriptors : readWaiters[fd] = h
      BY <2>3 DEF Waits
    <3>3. B = {<<"read", fd>>}
      BY <1>3, <3>2
    <3>4. D = {}
      BY <3>1
    <3> HIDE DEF A, B, C, D
    <3> QED BY <1>5, <1>6, <3>1, <3>3, <3>4
  <2>4. CASE Waits(writeWaiters, h)
    <3>1. ~InQueue(ready, h) /\ running # h /\ ~Waits(readWaiters, h)
      BY <1>1, <1>2, <1>3, <2>4 DEF InOrder, InQueue
    <3>2. PICK fd \in Descriptors : writeWaiters[fd] = h
      BY <2>4 DEF Waits
    <3>3. C = {<<"write", fd>>}
      BY <1>3, <3>2
    <3>4. D = {}
      BY <3>1
    <3> HIDE DEF A, B, C, D
    <3> QED BY <1>4, <1>6, <3>1, <3>3, <3>4
  <2> QED BY <1>1, <2>1, <2>2, <2>3, <2>4 DEF InOrder
<1>8. Places(h) = A \cup B \cup C \cup D
  BY DEF Places
<1> HIDE DEF A, B, C, D
<1> QED BY <1>7, <1>8, FS_Singleton

\* One that is not there is in none.
LEMMA NoPlace ==
  ASSUME IInv, NEW h \in Coroutines, h \notin Alive
  PROVE  Cardinality(Places(h)) = 0
<1>1. InOrder(ready, readWaiters, writeWaiters, running, Alive, Stages, fdOf)
  BY DEF IInv, Placed
<1>2. h # Nobody
  BY NobodyAssumption
<1>3. /\ \A n \in DOMAIN ready : ready[n] # h
      /\ \A fd \in Descriptors : readWaiters[fd] # h /\ writeWaiters[fd] # h
      /\ running # h
  BY <1>1, <1>2 DEF InOrder
<1>4. Places(h) = {}
  BY <1>3 DEF Places
<1> QED BY <1>4, FS_EmptySet

LEMMA TypesFollow ==
  ASSUME IInv
  PROVE  TypeOK
<1>1. ASSUME NEW c \in Clients
      PROVE  /\ frame[c].pc \in {"none", "recv", "lines", "send", "quit", "done"}
             /\ Len(answers[c]) <= Len(Script[c])
             /\ frame[c].inbound \in Seq(Piece) /\ frame[c].sent \in 0 .. ResponseParts
             /\ conn[c].state \in {"none", "backlog", "accepted", "closed"}
             /\ conn[c].up \in Seq(Piece) /\ conn[c].typed \in 0 .. Len(Script[c]) * RequestParts
             /\ Len(conn[c].down) <= SendBuffer
             /\ conn[c].peer \in {"open", "shut", "gone", "doomed", "broken", "reset"}
  <2>1. Fine(c, frame[c], conn[c], fdOf[c], answers[c], got[c])
    BY Tables DEF IInv
  <2>2. frame[c] \in Frames /\ conn[c] \in Connections
    BY <2>1 DEF Fine
  <2>3. /\ Len(answers[c]) <= Len(Script[c]) /\ conn[c].typed <= Len(Script[c]) * RequestParts
        /\ Len(conn[c].down) <= SendBuffer
    BY <2>1 DEF Fine, Asked, Told
  <2>4. conn[c].typed \in 0 .. Len(Script[c]) * RequestParts
    <3> DEFINE N == Len(Script[c]) * RequestParts
    <3>1. N \in Nat
      BY ServerAssumption, Products
    <3>2. conn[c].typed \in Nat
      BY <2>2 DEF Connections
    <3> HIDE DEF N
    <3>3. \A t \in Nat : t <= N => t \in 0 .. N
      BY <3>1
    <3> QED BY <2>3, <3>2, <3>3 DEF N
  <2> QED BY <2>2, <2>3, <2>4 DEF Frames, Connections
<1> QED BY <1>1 DEF IInv, WellTyped, Sessions, TypeOK

LEMMA DescriptorsFollow ==
  ASSUME IInv
  PROVE  DescriptorsOwned
<1>1. \A c \in Clients : Live(c) <=> fdOf[c] # NoFd
  BY Owners
<1>2. \A c, d \in Clients : Live(c) /\ Live(d) /\ fdOf[c] = fdOf[d] => c = d
  BY <1>1 DEF IInv, Owned
<1>3. ASSUME NEW fd \in ClientFds, NEW c \in Clients, readWaiters[fd] = c \/ writeWaiters[fd] = c
      PROVE  fdOf[c] = fd
  <2>1. c # Nobody /\ c # Acceptor /\ fd \in Descriptors
    BY ServerAssumption, NobodyAssumption
  <2> QED BY <1>3, <2>1 DEF IInv, Placed, InOrder
<1> QED BY <1>1, <1>2, <1>3 DEF DescriptorsOwned

\* What is delivered and what is still to be sent are all the pieces there are.
LEMMA AllPieces ==
  ASSUME NEW down \in Seq(OutPiece), NEW a \in Seq(Response), NEW g \in Seq(OutPiece),
         NEW left \in Seq(OutPiece), NEW out \in Nat,
         Delivered(down, a, g, out), out + Len(left) = Len(a) * ResponseParts,
         \A m \in 1 .. Len(left) : left[m] = Pieces(a)[out + m]
  PROVE  g \o down \o left = Pieces(a)
<1> DEFINE G == Len(g)
           D == Len(down)
           L == Len(left)
           s == g \o down
           t == s \o left
           p == Pieces(a)
<1>1. G \in Nat /\ D \in Nat /\ L \in Nat
  BY LenProperties
<1>2. s \in Seq(OutPiece) /\ Len(s) = G + D
      /\ \A m \in 1 .. G + D : s[m] = IF m <= G THEN g[m] ELSE down[m - G]
  BY ConcatProperties
<1>3. G + D = out /\ (\A m \in 1 .. G : g[m] = p[m]) /\ (\A m \in 1 .. D : down[m] = p[G + m])
  BY DEF Delivered
<1>4. p \in Seq(OutPiece) /\ Len(p) = out + L
  BY PiecesTyped
<1> HIDE DEF s, p
<1>5. t \in Seq(OutPiece) /\ Len(t) = out + L
      /\ \A m \in 1 .. out + L : t[m] = IF m <= out THEN s[m] ELSE left[m - out]
  BY <1>2, <1>3, ConcatProperties
<1> HIDE DEF t, G, D, L
<1>6. \A m \in 1 .. out : s[m] = p[m]
  <2> TAKE m \in 1 .. out
  <2>1. CASE m <= G
    <3>1. m \in 1 .. G /\ m \in 1 .. G + D
      BY <1>1, <1>3, <2>1
    <3> QED BY <1>2, <1>3, <2>1, <3>1
  <2>2. CASE ~(m <= G)
    <3> DEFINE k == m - G
    <3>1. k \in 1 .. D /\ m \in 1 .. G + D /\ G + k = m
      BY <1>1, <1>3, <2>2
    <3>2. s[m] = down[k]
      BY <1>2, <2>2, <3>1
    <3> HIDE DEF k
    <3> QED BY <1>3, <3>1, <3>2
  <2> QED BY <2>1, <2>2
<1>7. \A m \in 1 .. out + L : t[m] = p[m]
  <2> TAKE m \in 1 .. out + L
  <2>1. CASE m <= out
    <3>1. m \in 1 .. out
      BY <2>1
    <3> QED BY <1>5, <1>6, <2>1, <3>1
  <2>2. CASE ~(m <= out)
    <3> DEFINE k == m - out
    <3>1. k \in 1 .. L /\ out + k = m
      BY <1>1, <2>2
    <3>2. t[m] = left[k]
      BY <1>5, <2>2
    <3> HIDE DEF k
    <3>3. left[k] = p[out + k]
      BY <3>1 DEF L, p
    <3> QED BY <3>1, <3>2, <3>3
  <2> QED BY <2>1, <2>2
<1>8. t = p
  BY <1>4, <1>5, <1>7, SeqEqual
<1> QED BY <1>8 DEF t, s, p

LEMMA StreamsFollow ==
  ASSUME IInv
  PROVE  ResponsesInOrder
<1> SUFFICES ASSUME NEW c \in Clients, Live(c), conn[c].peer \in {"open", "shut"}
             PROVE  got[c] \o conn[c].down \o (IF frame[c].pc = "send" THEN Unsent(c) ELSE <<>>)
                      = Pieces(answers[c])
  BY DEF ResponsesInOrder
<1> DEFINE f == frame[c]
           a == answers[c]
           N == Len(a) * ResponseParts
           base == (Len(a) - 1) * ResponseParts
<1>1. Fine(c, f, conn[c], fdOf[c], a, got[c])
  BY Tables DEF IInv
<1>2. /\ f \in Frames /\ conn[c] \in Connections /\ a \in Seq(Response) /\ got[c] \in Seq(OutPiece)
      /\ conn[c].down \in Seq(OutPiece)
  BY <1>1 DEF Fine, Connections
<1>3. Delivered(conn[c].down, a, got[c], Out(f, a))
  <2>1. conn[c].state = "accepted"
    BY Owners
  <2> QED BY <1>1, <2>1 DEF Fine, Told
<1>4. N \in Nat /\ base = N - ResponseParts /\ ResponseParts \in Nat
  BY <1>2, Counts
<1>5. CASE f.pc = "send"
  <2> DEFINE left == Unsent(c)
             out == base + f.sent
  <2>1. Len(a) > 0 /\ f.sent \in 0 .. ResponseParts
    BY <1>1, <1>2, <1>5 DEF Fine, Stage, Frames
  <2>2. left = Remaining(a, f.sent)
    BY DEF Unsent, Remaining
  <2>3. /\ left \in Seq(OutPiece) /\ Len(left) = ResponseParts - f.sent
        /\ \A m \in 1 .. ResponseParts - f.sent : left[m] = Pieces(a)[out + m]
    <3>1. /\ Remaining(a, f.sent) \in Seq(OutPiece)
          /\ Len(Remaining(a, f.sent)) = ResponseParts - f.sent
          /\ \A m \in 1 .. ResponseParts - f.sent : Remaining(a, f.sent)[m] = Pieces(a)[out + m]
      <4> HIDE DEF a, f
      <4> QED BY <1>2, <2>1, RemainingPieces
    <3> QED BY <2>2, <3>1
  <2>4. Delivered(conn[c].down, a, got[c], out)
    BY <1>3, <1>5 DEF Out
  <2> HIDE DEF left
  <2>5. out \in Nat /\ out + Len(left) = N
    <3> DEFINE G == Len(got[c])
               D == Len(conn[c].down)
    <3>1. G \in Nat /\ D \in Nat /\ G + D = out
      BY <1>2, <2>4, LenProperties DEF Delivered
    <3> HIDE DEF G, D, N, base
    <3>2. out \in Nat
      BY <3>1
    <3>3. out + (ResponseParts - f.sent) = N
      BY <1>4, <2>1
    <3> QED BY <2>3, <3>2, <3>3
  <2>6. \A m \in 1 .. Len(left) : left[m] = Pieces(a)[out + m]
    BY <2>3
  <2> DEFINE d == conn[c].down
             g == got[c]
  <2>7. /\ d \in Seq(OutPiece) /\ a \in Seq(Response) /\ g \in Seq(OutPiece)
        /\ Delivered(d, a, g, out) /\ out + Len(left) = Len(a) * ResponseParts
    BY <1>2, <2>4, <2>5
  <2>8. g \o d \o left = Pieces(a)
    <3> HIDE DEF d, g, out, a
    <3> QED BY <2>3, <2>5, <2>6, <2>7, AllPieces
  <2> QED BY <1>5, <2>8 DEF left
<1>6. CASE f.pc # "send"
  <2>1. <<>> \in Seq(OutPiece) /\ Len(<<>>) = 0
    BY EmptySeq
  <2>2. Delivered(conn[c].down, a, got[c], N)
    BY <1>3, <1>6 DEF Out
  <2>3. N + Len(<<>>) = N /\ \A m \in 1 .. Len(<<>>) : <<>>[m] = Pieces(a)[N + m]
    BY <1>4, <2>1
  <2> DEFINE d == conn[c].down
             g == got[c]
             left == <<>>
  <2>4. /\ d \in Seq(OutPiece) /\ a \in Seq(Response) /\ g \in Seq(OutPiece)
        /\ Delivered(d, a, g, N) /\ N + Len(left) = Len(a) * ResponseParts
        /\ left \in Seq(OutPiece) /\ \A m \in 1 .. Len(left) : left[m] = Pieces(a)[N + m]
    BY <1>2, <2>1, <2>2, <2>3
  <2>5. g \o d \o left = Pieces(a)
    <3> HIDE DEF d, g, a, N, left
    <3> QED BY <1>4, <2>4, AllPieces
  <2> QED BY <1>6, <2>5
<1> QED BY <1>5, <1>6

LEMMA AnswersFollow ==
  ASSUME IInv
  PROVE  AnswersMatchRequests
<1> SUFFICES ASSUME NEW c \in Clients, NEW n \in DOMAIN answers[c]
             PROVE  answers[c][n][1] \in Words(Script[c][n])
  BY DEF AnswersMatchRequests
<1>1. Fine(c, frame[c], conn[c], fdOf[c], answers[c], got[c])
  BY Tables DEF IInv
<1>2. n \in 1 .. Len(answers[c])
  BY <1>1 DEF Fine
<1> QED BY <1>1, <1>2 DEF Fine, Asked

\* The tables, frames, connections and histories keep their types, buffers and
\* offsets their bounds, for any clients and scripts.
THEOREM TypeInvariance == Spec => []TypeOK
  BY Invariance, TypesFollow, PTL

\* EventLoop and its coroutines never lose a handle or keep one twice: nobody
\* waits where another waits already, and nobody is resumed after his end.
THEOREM NoneLost == Spec => []OnePlaceEach
<1>1. IInv => OnePlaceEach
  <2> SUFFICES ASSUME IInv  PROVE OnePlaceEach
    OBVIOUS
  <2>1. Acceptor \in Alive /\ \A c \in Clients : c \in Alive <=> Live(c)
    BY Owners
  <2>2. \A c \in Clients : c \in Coroutines
    BY ServerAssumption
  <2> QED BY <2>1, <2>2, OnePlace, NoPlace DEF OnePlaceEach
<1> QED BY <1>1, Invariance, PTL

\* accept, close_socket and the waiter maps agree on who has a descriptor.
THEOREM DescriptorsApart == Spec => []DescriptorsOwned
  BY Invariance, DescriptorsFollow, PTL

\* However send and the full socket cut it, a client's stream is the answers to it.
THEOREM StreamsWhole == Spec => []ResponsesInOrder
  BY Invariance, StreamsFollow, PTL

\* However recv cuts it, the n-th line of a client gets the n-th answer.
THEOREM AnswersPaired == Spec => []AnswersMatchRequests
  BY Invariance, AnswersFollow, PTL
=============================================================================
