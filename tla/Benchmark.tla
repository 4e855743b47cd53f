----------------------------- MODULE Benchmark ------------------------------
(***************************************************************************)
(* The benchmark drivers: kv_benchmark over TCP, and run_two_sided_        *)
(* benchmark and run_one_sided_benchmark of the RDMA client.  They split   *)
(* the operations over threads, run a warm-up and a measured phase on each *)
(* thread's connection, count answers and errors, and add the counts up.   *)
(*                                                                         *)
(* A request is one step, with one of the outcomes that its transport has; *)
(* the transports have modules of their own.                               *)
(***************************************************************************)
EXTENDS Integers, FiniteSets

CONSTANTS Drivers,     \* some of "tcp", "two-sided", "one-sided"
          Clients,     \* --clients
          Ops,         \* --ops
          Warmup,      \* --warmup
          Keys,        \* what --keys generates
          Preloaded    \* the keys the one-sided server has loaded

\* The drivers refuse other arguments.
ASSUME BenchmarkAssumption ==
  /\ Clients \in Nat \ {0} /\ Ops \in Nat /\ Warmup \in Nat /\ Clients <= Ops
  /\ Drivers \subseteq {"tcp", "two-sided", "one-sided"}

VARIABLES driver,      \* which one it is
          main,        \* its main thread: "prefilling", "starting", "joining", or how it ended
          prefilled,   \* the number of keys set in advance
          worker,      \* its threads, see NewWorker
          sent         \* the requests put on the network

benchmark == <<driver, main, prefilled, worker, sent>>

Workers == 0 .. Clients - 1

NoResult == [ok |-> 0, errors |-> 0, warmOk |-> 0, warmErrors |-> 0, samples |-> 0]

\* pc: "new", "connecting", "warmup", "measured", or "returned"; left: requests of the
\* phase still to make; link: "none" without a connection, "up", or how it broke.
NewWorker == [pc |-> "new", left |-> 0, link |-> "none", result |-> NoResult]

\* The one-sided server preloads; the others are filled through a connection, or not.
BenchmarkInit ==
  /\ driver \in Drivers
  /\ main \in IF driver = "one-sided" THEN {"starting"} ELSE {"prefilling", "starting"}
  /\ prefilled = 0 /\ sent = 0
  /\ worker = [w \in Workers |-> NewWorker]

-----------------------------------------------------------------------------
(* The main thread.                                                        *)

Prefills ==
  /\ main = "prefilling" /\ prefilled < Cardinality(Keys)
  /\ prefilled' = prefilled + 1 /\ sent' = sent + 1
  /\ UNCHANGED <<driver, main, worker>>

\* No connection, no response, or another than OK.
PrefillFails ==
  /\ main = "prefilling" /\ prefilled < Cardinality(Keys)
  /\ main' = "gave up"
  /\ sent' \in {sent, sent + 1}
  /\ UNCHANGED <<driver, prefilled, worker>>

\* Over RDMA the connection is ended by a QUIT, whatever its answer.
Farewell == IF driver = "two-sided" THEN 1 ELSE 0

PrefillEnds ==
  /\ main = "prefilling" /\ prefilled = Cardinality(Keys)
  /\ main' = "starting" /\ sent' = sent + Farewell
  /\ UNCHANGED <<driver, prefilled, worker>>

\* Fault: the remainder of the division is dropped.
ShareRounded(total, w) == total \div Clients

\* The early workers get one more if the division is uneven.
Share(total, w) == total \div Clients + (IF w < total % Clients THEN 1 ELSE 0)

Launches(w) ==
  /\ main = "starting" /\ worker[w].pc = "new"
  /\ \A v \in Workers : v < w => worker[v].pc # "new"
  /\ worker' = [worker EXCEPT ![w].pc = "connecting"]
  /\ main' = IF w = Clients - 1 THEN "joining" ELSE "starting"
  /\ UNCHANGED <<driver, prefilled, sent>>

\* The main thread, when it has joined every worker, adds up a count of theirs.
Total(count) ==
  LET sum[n \in 0 .. Clients] == IF n = 0 THEN 0 ELSE sum[n - 1] + count[n - 1] IN
    sum[Clients]

Answered == Total([w \in Workers |-> worker[w].result.ok])
Failed   == Total([w \in Workers |-> worker[w].result.errors])
Warmed   == Total([w \in Workers |-> worker[w].result.warmOk])
Chilled  == Total([w \in Workers |-> worker[w].result.warmErrors])
Samples  == Total([w \in Workers |-> worker[w].result.samples])

\* Fault: errors of the warm-up are forgiven.
SucceedsIfMeasured == driver = "two-sided" \/ Failed = 0

\* The exit status.  The two-sided driver has no other way to fail than its prefill.
Succeeds == driver = "two-sided" \/ Failed + Chilled = 0

Joins ==
  /\ main = "joining" /\ \A w \in Workers : worker[w].pc = "returned"
  /\ main' = IF Succeeds THEN "success" ELSE "failure"
  /\ UNCHANGED <<driver, prefilled, worker, sent>>

-----------------------------------------------------------------------------
(* A worker.                                                               *)

Running == main \in {"starting", "joining"}

Connects(w) ==
  /\ Running /\ worker[w].pc = "connecting"
  /\ worker' = [worker EXCEPT ![w].pc = "warmup", ![w].link = "up", ![w].left = Share(Warmup, w)]
  /\ UNCHANGED <<driver, main, prefilled, sent>>

\* It counts all its operations as errors; over TCP, only the measured ones.
CannotConnect(w) ==
  /\ Running /\ worker[w].pc = "connecting"
  /\ worker' = [worker EXCEPT
                  ![w].pc = "returned",
                  ![w].result.errors = Share(Ops, w),
                  ![w].result.warmErrors = IF driver = "tcp" THEN 0 ELSE Share(Warmup, w)]
  /\ UNCHANGED <<driver, main, prefilled, sent>>

\* What a request may come to: the state of the connection after it, whether there
\* was a response, and whether it was a right one.  Over TCP the server may have
\* ended the connection, in the middle of a response too; what is sent then is
\* answered by a reset, which takes its time.  A broken queue pair fails every
\* request.  A one-sided GET of a key that is not there counts as an error.
Outcome(link, answered, valid) == [link |-> link, answered |-> answered, valid |-> valid]
NoAnswer(link) == Outcome(link, FALSE, FALSE)

Outcomes(link) ==
  CASE link = "up" /\ driver = "tcp" ->
         {Outcome("up", TRUE, TRUE), Outcome("ended", TRUE, TRUE), Outcome("ended", TRUE, FALSE),
          NoAnswer("ended"), NoAnswer("reset")}
    [] link = "ended" -> {NoAnswer("ended"), NoAnswer("reset")}
    [] link = "up" /\ driver = "two-sided" -> {Outcome("up", TRUE, TRUE), NoAnswer("broken")}
    [] link = "up" /\ driver = "one-sided" ->
         {Outcome("up", TRUE, k \in Preloaded) : k \in Keys} \cup {NoAnswer("broken")}
    [] link = "broken" -> {NoAnswer("broken")}
    [] link = "reset" -> {}

\* The counters of a phase.  Over TCP a request without response has no latency.
Counted(r, phase, o) ==
  LET one == IF o.valid THEN 1 ELSE 0 IN
  IF phase = "warmup"
  THEN [r EXCEPT !.warmOk = @ + one, !.warmErrors = @ + 1 - one]
  ELSE [r EXCEPT !.ok = @ + one, !.errors = @ + 1 - one,
                 !.samples = @ + IF driver = "tcp" /\ ~o.answered THEN 0 ELSE 1]

InPhase(w) == Running /\ worker[w].pc \in {"warmup", "measured"}

Requests(w) ==
  /\ InPhase(w) /\ worker[w].left > 0
  /\ \E o \in Outcomes(worker[w].link) :
       worker' = [worker EXCEPT ![w].left = @ - 1, ![w].link = o.link,
                                ![w].result = Counted(@, worker[w].pc, o)]
  /\ sent' = sent + 1
  /\ UNCHANGED <<driver, main, prefilled>>

\* Sending to a connection that was reset raises SIGPIPE, and nothing handles it.
IsKilled(w) ==
  /\ InPhase(w) /\ worker[w].left > 0 /\ worker[w].link = "reset"
  /\ main' = "killed"
  /\ UNCHANGED <<driver, prefilled, worker, sent>>

EndsWarmup(w) ==
  /\ InPhase(w) /\ worker[w].left = 0 /\ worker[w].pc = "warmup"
  /\ worker' = [worker EXCEPT ![w].pc = "measured", ![w].left = Share(Ops, w)]
  /\ UNCHANGED <<driver, main, prefilled, sent>>

\* Its result is where the main thread finds it.
Returns(w) ==
  /\ InPhase(w) /\ worker[w].left = 0 /\ worker[w].pc = "measured"
  /\ worker' = [worker EXCEPT ![w].pc = "returned"]
  /\ sent' = sent + Farewell
  /\ UNCHANGED <<driver, main, prefilled>>

BenchmarkNext ==
  \/ Prefills \/ PrefillFails \/ PrefillEnds \/ Joins
  \/ \E w \in Workers :
       Launches(w) \/ Connects(w) \/ CannotConnect(w) \/ Requests(w) \/ IsKilled(w)
         \/ EndsWarmup(w) \/ Returns(w)

-----------------------------------------------------------------------------
(* Properties                                                              *)

Summarized == main \in {"success", "failure"}

\* The warm-up operations of TCP workers without a connection: they are in no count.
Forgotten ==
  Total([w \in Workers |-> IF driver = "tcp" /\ worker[w].link = "none"
                             THEN Share(Warmup, w) ELSE 0])

\* However the operations are split, and whatever connections and requests fail, a
\* summary counts each measured operation once, as answered or as an error, and each
\* warm-up operation but those of unconnected TCP workers; and the latencies are
\* those of all answered operations, and of no others than measured ones.
EveryOperationCounted ==
  Summarized =>
    /\ Answered + Failed = Ops
    /\ Warmed + Chilled = Warmup - Forgotten
    /\ Answered <= Samples /\ Samples <= Ops

\* A run that reports success has had a right answer to every operation of both
\* phases, also where a worker could not connect.  The two-sided driver reports
\* success for any completed run.
SuccessMeansComplete ==
  main = "success" /\ driver # "two-sided" => Answered = Ops /\ Warmed = Warmup
=============================================================================
