----------------------------- MODULE EventLoop ------------------------------
(***************************************************************************)
(* net::EventLoop: one thread resumes coroutines in the order in which     *)
(* they became ready and sleeps in poll(2) when none is.  A coroutine runs *)
(* until it waits for a descriptor or finishes.                            *)
(*                                                                         *)
(* What the coroutines do between two suspensions, and when descriptors    *)
(* become ready, is left to the module that extends this one.  There the   *)
(* first coroutine never finishes and nobody calls stop(), so run() never  *)
(* returns.                                                                *)
(***************************************************************************)
EXTENDS Integers, Sequences, FiniteSets, Functions

CONSTANTS Coroutines,
          Nobody,        \* no coroutine
          Descriptors    \* the file descriptors coroutines may wait for

ASSUME NobodyAssumption == Nobody \notin Coroutines

VARIABLES ready,          \* ready_, a queue of coroutines
          readWaiters,    \* read_waiters_: at most one coroutine for each descriptor
          writeWaiters,   \* write_waiters_
          running,        \* the coroutine between handle.resume() and its suspension
          loop            \* "running", or "killed" with the process

loopVars == <<ready, readWaiters, writeWaiters, running, loop>>

NoWaiters == [fd \in Descriptors |-> Nobody]

\* run() is entered with one coroutine spawned.
LoopInit(first) ==
  /\ ready = <<first>>
  /\ readWaiters = NoWaiters /\ writeWaiters = NoWaiters
  /\ running = Nobody
  /\ loop = "running"

-----------------------------------------------------------------------------
(* What the running coroutine asks of the loop.                            *)

\* spawn: the new coroutine is queued, the running one goes on.
Spawn(h) ==
  /\ ready' = Append(ready, h)
  /\ UNCHANGED <<readWaiters, writeWaiters, running, loop>>

\* co_await readable(fd).
WaitRead(fd) ==
  /\ readWaiters' = [readWaiters EXCEPT ![fd] = running]
  /\ running' = Nobody
  /\ UNCHANGED <<ready, writeWaiters, loop>>

\* Fault: the coroutine is filed with the readers.
WaitWriteAsReader(fd) == WaitRead(fd)

\* co_await writable(fd).
WaitWrite(fd) ==
  /\ writeWaiters' = [writeWaiters EXCEPT ![fd] = running]
  /\ running' = Nobody
  /\ UNCHANGED <<ready, readWaiters, loop>>

\* co_return: the final suspension destroys the frame.
Finish ==
  /\ running' = Nobody
  /\ UNCHANGED <<ready, readWaiters, writeWaiters, loop>>

-----------------------------------------------------------------------------
(* run()                                                                   *)

Idle == loop = "running" /\ running = Nobody

Resume ==
  /\ Idle /\ ready # <<>>
  /\ running' = Head(ready)
  /\ ready' = Tail(ready)
  /\ UNCHANGED <<readWaiters, writeWaiters, loop>>

Orders(fds) == Bijection(1 .. Cardinality(fds), fds)

Without(waiters, fds) ==
  [fd \in Descriptors |-> IF fd \in fds THEN Nobody ELSE waiters[fd]]

\* Fault: woken readers stay registered.
PollsKeepingReaders(in, out, err) ==
  LET r == {fd \in in \cup err  : readWaiters[fd] # Nobody}
      w == {fd \in out \cup err : writeWaiters[fd] # Nobody} IN
    /\ Idle /\ ready = <<>>
    /\ r \cup w # {}
    /\ \E i \in Orders(r), j \in Orders(w) :
         ready' = [n \in DOMAIN i |-> readWaiters[i[n]]] \o
                  [n \in DOMAIN j |-> writeWaiters[j[n]]]
    /\ writeWaiters' = Without(writeWaiters, w)
    /\ UNCHANGED <<readWaiters, running, loop>>

\* poll(2) returns: of the descriptors waited for, those in `in` have input,
\* those in `out` room for output, those in `err` an error or a hang-up, which
\* counts as both.  Their waiters become ready, in the order of two unordered
\* maps, and are forgotten.  Readers come first; a descriptor with a waiter of
\* each kind, whose order would be its own, does not occur (one coroutine uses it).
\* While none is ready poll sleeps; EINTR repeats it.
Polls(in, out, err) ==
  LET r == {fd \in in \cup err  : readWaiters[fd] # Nobody}
      w == {fd \in out \cup err : writeWaiters[fd] # Nobody} IN
    /\ Idle /\ ready = <<>>
    /\ r \cup w # {}
    /\ \E i \in Orders(r), j \in Orders(w) :
         ready' = [n \in DOMAIN i |-> readWaiters[i[n]]] \o
                  [n \in DOMAIN j |-> writeWaiters[j[n]]]
    /\ readWaiters'  = Without(readWaiters, r)
    /\ writeWaiters' = Without(writeWaiters, w)
    /\ UNCHANGED <<running, loop>>

-----------------------------------------------------------------------------
(* Where a coroutine is.                                                   *)

LoopTypeOK ==
  /\ ready \in Seq(Coroutines)
  /\ readWaiters \in [Descriptors -> Coroutines \cup {Nobody}]
  /\ writeWaiters \in [Descriptors -> Coroutines \cup {Nobody}]
  /\ running \in Coroutines \cup {Nobody}
  /\ loop \in {"running", "killed"}

\* The places that hold coroutine h.
Places(h) ==
  {<<"ready", n>> : n \in {m \in DOMAIN ready : ready[m] = h}}
    \cup {<<"read", fd>> : fd \in {d \in Descriptors : readWaiters[d] = h}}
    \cup {<<"write", fd>> : fd \in {d \in Descriptors : writeWaiters[d] = h}}
    \cup (IF running = h THEN {<<"running", 0>>} ELSE {})
=============================================================================
