-------------------------- MODULE ExperimentProofs --------------------------
(***************************************************************************)
(* What a row of the metrics collector says is true of its run, for any    *)
(* number of scripts, whatever they ask and however often; and what the    *)
(* summary of a benchmark says is true of its operations, for any number   *)
(* of workers, operations and faults.                                      *)
(*                                                                         *)
(* Requests outlive the scripts that made them, so the first argument is   *)
(* about the backlog (Queue): a start is waiting only for a script that    *)
(* has not begun its program, a stop only for one that has ended it.  Then *)
(* only the active run's program can run (Books), and what it has sent is  *)
(* the benchmark's own count (Metered); no run is in two rows.             *)
(*                                                                         *)
(* The second is that a worker's counts and what it has left are its share *)
(* at any time (Tally), that the shares are the whole (SharesAddUp), and   *)
(* that nobody counts any more when the main thread adds up (Joined).      *)
(***************************************************************************)
EXTENDS Experiment, WellFoundedInduction, TLAPS

Unstarted == {"idle", "starting", "aborted"}
Over      == {"finished", "stopping", "done"}

Types ==
  /\ script \in [Scripts -> Unstarted \cup {"running"} \cup Over]
  /\ stops \in [Scripts -> Nat]
  /\ backlog \in Seq(Request)
  /\ handling \in Handling \cup {NoRequest}
  /\ active \in Run \cup {NoRun}
  /\ traffic \in Counters /\ sent \in Int

\* Where a script may be while its request is waiting or at hand.
Pending(q) == script[q.script] \in IF q.action = "start" THEN {"starting", "aborted"} ELSE Over

Queue ==
  /\ \A i \in DOMAIN backlog : Pending(backlog[i])
  /\ \A i, j \in DOMAIN backlog :
       backlog[i].action = "start" /\ backlog[j].action = "start"
         /\ backlog[i].script = backlog[j].script => i = j
  /\ handling # NoRequest =>
       /\ Pending(handling)
       /\ handling.action = "start" =>
            \A i \in DOMAIN backlog :
              backlog[i].action = "start" => backlog[i].script # handling.script

\* Since the active run began no other program has sent anything, and its own had not
\* before, also once its script has ended; the counters are read while nobody runs.
Books ==
  /\ \A s \in Scripts : script[s] \in Unstarted => traffic[s] = 0
  /\ \A s \in Scripts : script[s] = "running" => IsActive(s)
  /\ active # NoRun =>
       /\ active.before[active.id] = 0
       /\ \A s \in Scripts \ {active.id} : active.before[s] = traffic[s]
  /\ handling # NoRequest /\ handling.stage # "dispatch" =>
       handling.action = "stop" /\ IsActive(handling.script) /\ active.stop
  /\ handling # NoRequest /\ handling.stage \in {"process", "host", "rows"} =>
       \A s \in Scripts : active.after[s] = traffic[s]

\* The device has seen what the benchmark sent, unless it went past it.
Metered == traffic[Measured] = Crossing(sent)

\* How many samples the thread may append after the stop event.
Left == CASE active.sampler \in {"waiting", "sampling last"} -> 1
          [] active.sampler = "sampling" -> 2
          [] active.sampler = "ended" -> 0

Averages ==
  handling # NoRequest /\ handling.stage \in {"host", "rows"} =>
    /\ handling.process <= active.samples
    /\ active.samples + Left <= handling.process + 2
    /\ handling.stage = "rows" =>
         handling.process <= handling.host /\ handling.host <= active.samples

IInv == Types /\ Queue /\ Books /\ Metered /\ Averages

-----------------------------------------------------------------------------
(* The steps, by what they do to the scripts, the requests and the run.    *)

\* A program of script s sends d.
Sends(s, d) ==
  /\ script[s] = "running"
  /\ Counts(s, d)
  /\ UNCHANGED <<script, stops, collector>>

\* No program sends anything; the collector or its client may.
Quiet == traffic' \in Counters /\ \A s \in Scripts : traffic'[s] = traffic[s]

\* A request is answered; the run is left to the step.
Answers ==
  /\ handling # NoRequest /\ handling' = NoRequest
  /\ script' \in [Scripts -> Unstarted \cup {"running"} \cup Over]
  /\ \A s \in Scripts :
       \/ script'[s] = script[s]
       \/ /\ s = handling.script /\ handling.action = "start" /\ script[s] = "starting"
          /\ (script'[s] = "aborted" \/ (script'[s] = "running" /\ IsActive(s)'))
       \/ /\ s = handling.script /\ handling.action = "stop" /\ script[s] = "stopping"
          /\ script'[s] \in {"done", "finished"}
  /\ Quiet /\ UNCHANGED <<stops, backlog, sent>>

\* The collector works on the stop of the active run.
Advances ==
  /\ handling # NoRequest /\ handling' # NoRequest
  /\ handling' \in Handling /\ active # NoRun /\ active' \in Run
  /\ handling'.script = handling.script /\ handling'.action = handling.action
  /\ active'.id = active.id /\ active'.before = active.before
  /\ UNCHANGED <<script, stops, backlog, traffic, sent>>

\* The sampling thread does.
SamplerSteps ==
  /\ active # NoRun /\ active' \in Run
  /\ active' = [active EXCEPT !.sampler = active'.sampler, !.samples = active'.samples]
  /\ UNCHANGED <<script, stops, backlog, handling, traffic, sent>>

\* What is exchanged with the collector is in no program's part of the counters.
LEMMA ControlQuiet == ASSUME Types, Counts(Control, 1) PROVE Quiet
BY MetricsAssumption DEF Types, Counters, Senders, Counts, Quiet

\* Every step of a benchmark sends some number of requests.
LEMMA SentType == ASSUME sent \in Int, BenchmarkNext PROVE sent' \in Int
<1>1. Farewell \in Int
  BY DEF Farewell
<1>2. Prefills \/ PrefillFails => sent' \in {sent, sent + 1}
  BY DEF Prefills, PrefillFails
<1>3. PrefillEnds => sent' = sent + Farewell
  BY DEF PrefillEnds
<1>4. Joins => sent' = sent
  BY DEF Joins
<1>5. ASSUME NEW w \in Workers PROVE Launches(w) \/ Connects(w) => sent' = sent
  BY DEF Launches, Connects
<1>6. ASSUME NEW w \in Workers PROVE CannotConnect(w) \/ IsKilled(w) \/ EndsWarmup(w) => sent' = sent
  BY DEF CannotConnect, IsKilled, EndsWarmup
<1>7. ASSUME NEW w \in Workers PROVE Requests(w) => sent' = sent + 1
  BY DEF Requests
<1>8. ASSUME NEW w \in Workers PROVE Returns(w) => sent' = sent + Farewell
  BY DEF Returns
<1>9. sent' \in {sent, sent + 1, sent + Farewell}
  BY <1>2, <1>3, <1>4, <1>5, <1>6, <1>7, <1>8 DEF BenchmarkNext
<1> QED BY <1>1, <1>9

LEMMA RunsSends == ASSUME Types, Runs PROVE \E d \in Int : Sends(Measured, d) /\ sent' \in Int
<1>1. Crossing(sent' - sent) \in Int /\ sent' \in Int
  BY SentType DEF Types, Runs, Crossing
<1>2. Sends(Measured, Crossing(sent' - sent))
  BY DEF Runs, Sends
<1> QED BY <1>1, <1>2

\* Requests that wait or are at hand are well formed.
LEMMA RequestTypes ==
  ASSUME Types
  PROVE  /\ \A i \in DOMAIN backlog :
              backlog[i].script \in Scripts /\ backlog[i].action \in {"start", "stop"}
         /\ handling # NoRequest =>
              handling.script \in Scripts /\ handling.action \in {"start", "stop"}
<1>1. ASSUME NEW i \in DOMAIN backlog PROVE backlog[i] \in Request
  BY DEF Types
<1>2. handling # NoRequest => handling \in Handling
  BY DEF Types
<1> QED BY <1>1, <1>2 DEF Request, Handling

\* A reply changes nothing but where its script is, if that still waits for it.
LEMMA RepliesAnswers ==
  ASSUME Types, NEW ok \in BOOLEAN, Replies(ok), handling # NoRequest, sent' = sent,
         ok /\ handling.action = "start" => active' # NoRun /\ active'.id = handling.script
  PROVE  Answers
<1>1. handling.script \in Scripts /\ handling.action \in {"start", "stop"}
  BY RequestTypes
<1> DEFINE waiting == /\ script[handling.script] = IF handling.action = "start" THEN "starting" ELSE "stopping"
                      /\ stops[handling.script] = handling.attempt
           next == CASE handling.action = "start" -> IF ok THEN "running" ELSE "aborted"
                     [] OTHER -> IF ok THEN "done" ELSE "finished"
<1>2. script' = [script EXCEPT ![handling.script] = IF waiting THEN next ELSE @]
  BY DEF Replies
<1>3. next \in {"running", "aborted", "done", "finished"}
  OBVIOUS
<1>4. /\ script' \in [Scripts -> Unstarted \cup {"running"} \cup Over]
      /\ \A s \in Scripts : s # handling.script \/ ~waiting => script'[s] = script[s]
      /\ waiting => script'[handling.script] = next
  <2> HIDE DEF waiting, next
  <2> DEFINE All == Unstarted \cup {"running"} \cup Over
  <2>1. script \in [Scripts -> All]
    BY DEF Types
  <2>2. next \in All
    BY <1>3 DEF Unstarted, Over
  <2> HIDE DEF All
  <2>3. script' \in [Scripts -> All]
    BY <1>1, <1>2, <2>1, <2>2
  <2>4. /\ \A s \in Scripts : s # handling.script \/ ~waiting => script'[s] = script[s]
        /\ waiting => script'[handling.script] = next
    BY <1>1, <1>2, <2>1
  <2> QED BY <2>3, <2>4 DEF All
<1>5. handling' = NoRequest /\ Quiet /\ UNCHANGED <<stops, backlog, sent>>
  BY ControlQuiet DEF Replies
<1>6. ASSUME NEW s \in Scripts
      PROVE  \/ script'[s] = script[s]
             \/ /\ s = handling.script /\ handling.action = "start" /\ script[s] = "starting"
                /\ (script'[s] = "aborted" \/ (script'[s] = "running" /\ IsActive(s)'))
             \/ /\ s = handling.script /\ handling.action = "stop" /\ script[s] = "stopping"
                /\ script'[s] \in {"done", "finished"}
  <2>1. CASE s # handling.script \/ ~waiting
    BY <2>1, <1>4
  <2>2. CASE s = handling.script /\ waiting
    <3>1. script'[s] = next
      BY <2>2, <1>4
    <3>2. CASE handling.action = "start"
      <4>1. script[s] = "starting" /\ next = IF ok THEN "running" ELSE "aborted"
        BY <2>2, <3>2
      <4>2. ok => IsActive(s)'
        BY <2>2, <3>2 DEF IsActive
      <4>3. CASE ok
        BY <2>2, <3>1, <3>2, <4>1, <4>2, <4>3
      <4>4. CASE ~ok
        BY <2>2, <3>1, <3>2, <4>1, <4>4
      <4> QED BY <4>3, <4>4
    <3>3. CASE handling.action = "stop"
      <4>1. script[s] = "stopping" /\ next = IF ok THEN "done" ELSE "finished"
        BY <2>2, <3>3
      <4> QED BY <2>2, <3>1, <3>3, <4>1
    <3> QED BY <1>1, <3>2, <3>3
  <2> QED BY <2>1, <2>2
<1> QED BY <1>4, <1>5, <1>6 DEF Answers

\* What each step of the collector is.
LEMMA CollectorAnswers ==
  ASSUME Types, Queue, Books, sent' = sent,
         StartsRun \/ RefusesStart \/ RefusesStop \/ CannotReadCounters \/ StopsRun
  PROVE  Answers
<1> USE DEF Handles
<1>1. CASE StartsRun
  <2>1. handling.script \in Scripts
    BY <1>1, RequestTypes DEF StartsRun
  <2>2. traffic \in Counters
    BY DEF Types
  <2>3. NewRun(handling.script) \in Run
    BY <2>1, <2>2 DEF NewRun, Run
  <2>4. active' # NoRun /\ active'.id = handling.script
    BY <1>1, <2>3, MetricsAssumption DEF StartsRun, NewRun
  <2> QED BY <1>1, <2>4, RepliesAnswers DEF StartsRun
<1>2. CASE RefusesStart
  BY <1>2, RepliesAnswers DEF RefusesStart
<1>3. CASE RefusesStop
  BY <1>3, RepliesAnswers DEF RefusesStop
<1>4. CASE CannotReadCounters
  BY <1>4, RepliesAnswers DEF CannotReadCounters
<1>5. CASE StopsRun
  BY <1>5, RepliesAnswers DEF StopsRun
<1> QED BY <1>1, <1>2, <1>3, <1>4, <1>5

LEMMA CollectorAdvances ==
  ASSUME Types, Books, sent' = sent,
         StopsSampler \/ ReadsCounters \/ ReadsProcessValues \/ ReadsHostValues
  PROVE  Advances
<1>1. handling \in Handling /\ handling # NoRequest
  BY DEF StopsSampler, ReadsCounters, ReadsProcessValues, ReadsHostValues, Handles, Types
<1>2. active \in Run /\ active # NoRun
  BY <1>1 DEF StopsSampler, ReadsCounters, ReadsProcessValues, ReadsHostValues, Handles, Books,
              IsActive, Types
<1>3. CASE StopsSampler
  BY <1>1, <1>2, <1>3, MetricsAssumption DEF StopsSampler, Advances, Types, Handling, Run
<1>4. CASE ReadsCounters
  BY <1>1, <1>2, <1>4, MetricsAssumption DEF ReadsCounters, Advances, Types, Handling, Run
<1>5. CASE ReadsProcessValues
  <2>1. active.samples \in Int
    BY <1>2 DEF Run
  <2> QED BY <1>1, <1>2, <1>5, <2>1, MetricsAssumption DEF ReadsProcessValues, Advances, Types, Handling
<1>6. CASE ReadsHostValues
  <2>1. active.samples \in Int
    BY <1>2 DEF Run
  <2> QED BY <1>1, <1>2, <1>6, <2>1, MetricsAssumption DEF ReadsHostValues, Advances, Types, Handling
<1> QED BY <1>3, <1>4, <1>5, <1>6

\* Where the sampling thread may be.
Sampling == {"waiting", "sampling", "sampling last", "ended"}

LEMMA SampledRun ==
  ASSUME NEW r \in Run, NEW later \in Sampling, NEW more \in Int
  PROVE  [r EXCEPT !.sampler = later, !.samples = @ + more] \in Run
<1>1. r.samples \in Int
  BY DEF Run
<1>2. r.samples + more \in Int
  BY <1>1
<1> QED BY <1>2 DEF Run, Sampling

LEMMA SamplerMoves ==
  ASSUME Types, sent' = sent, Wakes \/ Appends \/ GivesUp
  PROVE  SamplerSteps
<1>1. active # NoRun /\ active \in Run
  BY DEF Wakes, Appends, GivesUp, Types
<1>2. \E later \in Sampling, more \in Int : Sampler(later, more)
  <2>1. Wakes => \E later \in Sampling : Sampler(later, 0)
    BY DEF Wakes, Sampling
  <2>2. Appends => \E later \in Sampling, more \in {0, 1} : Sampler(later, more)
    BY DEF Appends, Sampling
  <2>3. GivesUp => Sampler("ended", 0)
    BY DEF GivesUp
  <2>4. "ended" \in Sampling /\ 0 \in Int /\ {0, 1} \subseteq Int
    BY DEF Sampling
  <2> QED BY <2>1, <2>2, <2>3, <2>4
<1>3. PICK later \in Sampling, more \in Int : Sampler(later, more)
  BY <1>2
<1>4. active' = [active EXCEPT !.sampler = later, !.samples = @ + more]
  BY <1>3 DEF Sampler
<1>5. active' \in Run
  BY <1>1, <1>4, SampledRun
<1>6. active' = [active EXCEPT !.sampler = active'.sampler, !.samples = active'.samples]
  BY <1>1, <1>4 DEF Run
<1> QED BY <1>1, <1>3, <1>5, <1>6 DEF SamplerSteps, Sampler

\* The kinds of steps there are.
Refusals == RefusesStart \/ RefusesStop \/ CannotReadCounters
Reads    == ReadsCounters \/ ReadsProcessValues \/ ReadsHostValues

LEMMA Kinds ==
  ASSUME Types, Next
  PROVE  \/ \E s \in Scripts, d \in Int : Sends(s, d) /\ sent' \in Int
         \/ /\ sent' = sent
            /\ \/ \E s \in Scripts : Finishes(s) \/ AsksToStart(s) \/ AsksToStop(s) \/ TimesOut(s)
               \/ Accepts
               \/ StartsRun \/ Refusals \/ StopsRun
               \/ StopsSampler \/ Reads
               \/ Wakes \/ Appends \/ GivesUp
<1>1. CASE Runs
  BY <1>1, RunsSends, ExperimentAssumption
<1>2. CASE Ends
  BY <1>2, ExperimentAssumption DEF Ends, benchmark
<1>3. ASSUME NEW s \in Scripts, Others(s)
      PROVE  \/ \E d \in Int : Sends(s, d) /\ sent' \in Int
             \/ sent' = sent /\ Finishes(s)
  <2>1. sent' = sent /\ sent \in Int
    BY <1>3 DEF Others, benchmark, Types
  <2>2. CASE Works(s)
    <3>1. Sends(s, 1)
      BY <2>2 DEF Works, Sends
    <3> QED BY <2>1, <3>1
  <2> QED BY <1>3, <2>1, <2>2 DEF Others
<1>4. ASSUME NEW s \in Scripts, Controls(s), UNCHANGED benchmark
      PROVE  sent' = sent /\ (AsksToStart(s) \/ AsksToStop(s) \/ TimesOut(s))
  BY <1>4 DEF Controls, benchmark
<1>5. ASSUME Collects, UNCHANGED benchmark
      PROVE  /\ sent' = sent
             /\ \/ Accepts \/ StartsRun \/ Refusals \/ StopsRun \/ StopsSampler \/ Reads
                \/ Wakes \/ Appends \/ GivesUp
  BY <1>5 DEF Collects, benchmark, Refusals, Reads
<1> QED BY <1>1, <1>2, <1>3, <1>4, <1>5 DEF Next

-----------------------------------------------------------------------------
(* Each part of the invariant, over each kind of step.                     *)

\* A new request.
LEMMA AskedTypes ==
  ASSUME Types, NEW s \in Scripts, AsksToStart(s) \/ AsksToStop(s)
  PROVE  /\ stops' \in [Scripts -> Nat]
         /\ \E r \in Request :
              /\ backlog' = Append(backlog, r) /\ r.script = s
              /\ r.action = IF AsksToStart(s) THEN "start" ELSE "stop"
<1>1. stops' \in [Scripts -> Nat]
  BY DEF AsksToStart, AsksToStop, Types
<1>2. CASE AsksToStart(s)
  <2>1. backlog' = Append(backlog, [script |-> s, action |-> "start", attempt |-> stops'[s]])
    BY <1>2 DEF AsksToStart, Asks
  <2>2. [script |-> s, action |-> "start", attempt |-> stops'[s]] \in Request
    BY <1>1 DEF Request
  <2> QED BY <1>1, <1>2, <2>1, <2>2
<1>3. CASE ~AsksToStart(s)
  <2>1. backlog' = Append(backlog, [script |-> s, action |-> "stop", attempt |-> stops'[s]])
    BY <1>3 DEF AsksToStop, Asks
  <2>2. [script |-> s, action |-> "stop", attempt |-> stops'[s]] \in Request
    BY <1>1 DEF Request
  <2> QED BY <1>1, <1>3, <2>1, <2>2
<1> QED BY <1>2, <1>3

LEMMA StepTypes == ASSUME Types, Queue, Books, Next PROVE Types'
<1>1. ASSUME NEW s \in Scripts, NEW d \in Int, Sends(s, d), sent' \in Int PROVE Types'
  BY <1>1 DEF Sends, Counts, Types, Counters, Senders, collector
<1>2. ASSUME NEW s \in Scripts, Finishes(s) \/ TimesOut(s), sent' = sent PROVE Types'
  BY <1>2 DEF Finishes, TimesOut, Types, collector, Unstarted, Over
<1>3. ASSUME NEW s \in Scripts, AsksToStart(s) \/ AsksToStop(s), sent' = sent PROVE Types'
  <2>1. backlog' \in Seq(Request)
    <3>1. PICK r \in Request : backlog' = Append(backlog, r)
      BY <1>3, AskedTypes
    <3> QED BY <3>1 DEF Types
  <2>2. stops' \in [Scripts -> Nat]
    BY <1>3, AskedTypes
  <2>3. script' \in [Scripts -> Unstarted \cup {"running"} \cup Over]
    BY <1>3 DEF AsksToStart, AsksToStop, Asks, Types, Unstarted, Over
  <2>4. Quiet /\ UNCHANGED <<handling, active>>
    BY <1>3, ControlQuiet DEF AsksToStart, AsksToStop, Asks
  <2> QED BY <1>3, <2>1, <2>2, <2>3, <2>4 DEF Quiet, Types
<1>4. CASE Accepts /\ sent' = sent
  <2>1. Head(backlog) \in Request /\ Tail(backlog) \in Seq(Request)
    BY <1>4 DEF Accepts, Types
  <2>2. handling' \in Handling
    BY <1>4, <2>1 DEF Accepts, Request, Handling
  <2> QED BY <1>4, <2>1, <2>2 DEF Accepts, Types
<1>5. CASE sent' = sent /\ (StartsRun \/ Refusals \/ StopsRun)
  <2>1. Answers
    BY <1>5, CollectorAnswers DEF Refusals
  <2>2. active' \in Run \cup {NoRun}
    <3>1. CASE StartsRun
      <4>1. handling.script \in Scripts /\ traffic \in Counters
        BY <3>1, RequestTypes DEF StartsRun, Handles, Types
      <4>2. NewRun(handling.script) \in Run
        BY <4>1 DEF NewRun, Run
      <4> QED BY <3>1, <4>2 DEF StartsRun
    <3>2. CASE Refusals \/ StopsRun
      BY <3>2 DEF Refusals, StopsRun, RefusesStart, RefusesStop, CannotReadCounters, Types
    <3> QED BY <1>5, <3>1, <3>2
  <2> QED BY <2>1, <2>2 DEF Answers, Quiet, Types
<1>6. CASE sent' = sent /\ (StopsSampler \/ Reads)
  <2>1. Advances
    BY <1>6, CollectorAdvances DEF Reads
  <2> QED BY <2>1 DEF Advances, Types
<1>7. CASE sent' = sent /\ (Wakes \/ Appends \/ GivesUp)
  <2>1. SamplerSteps
    BY <1>7, SamplerMoves
  <2> QED BY <2>1 DEF SamplerSteps, Types
<1> QED BY <1>1, <1>2, <1>3, <1>4, <1>5, <1>6, <1>7, Kinds

\* What a request has to do with its script stays so when only scripts move.
Suits(q, t) == t[q.script] \in IF q.action = "start" THEN {"starting", "aborted"} ELSE Over

LEMMA QueueKept ==
  ASSUME Queue, backlog' = backlog,
         handling' # NoRequest =>
           /\ handling # NoRequest
           /\ handling'.script = handling.script /\ handling'.action = handling.action
           /\ Suits(handling, script'),
         \A i \in DOMAIN backlog : Suits(backlog[i], script')
  PROVE  Queue'
BY DEF Queue, Pending, Suits

LEMMA MoveSuits ==
  ASSUME Types, NEW s \in Scripts, Finishes(s) \/ TimesOut(s) \/ AsksToStart(s) \/ AsksToStop(s),
         NEW q, q.script \in Scripts, q.action \in {"start", "stop"}, Pending(q)
  PROVE  Suits(q, script')
<1>1. CASE q.script # s
  <2>1. script'[q.script] = script[q.script]
    BY <1>1 DEF Finishes, TimesOut, AsksToStart, AsksToStop, Asks, Types
  <2> QED BY <2>1 DEF Pending, Suits
<1>2. CASE q.script = s
  <2>1. ~Finishes(s) /\ ~AsksToStart(s)
    BY <1>2 DEF Finishes, AsksToStart, Pending, Over
  <2>2. CASE TimesOut(s)
    BY <1>2, <2>2 DEF TimesOut, Types, Pending, Suits, Over
  <2>3. CASE AsksToStop(s)
    BY <1>2, <2>3 DEF AsksToStop, Asks, Types, Pending, Suits, Over
  <2> QED BY <2>1, <2>2, <2>3
<1> QED BY <1>1, <1>2

\* Nor does an answer disturb what the other requests have to do with their scripts.
LEMMA AnswersSuit ==
  ASSUME Types, Queue, Answers,
         NEW q, q.script \in Scripts, q.action \in {"start", "stop"}, Pending(q),
         handling.action = "start" /\ q.action = "start" => q.script # handling.script
  PROVE  Suits(q, script')
<1>1. CASE script'[q.script] = script[q.script]
  BY <1>1 DEF Pending, Suits
<1>2. CASE /\ q.script = handling.script /\ handling.action = "start"
           /\ script[q.script] = "starting"
  BY <1>2 DEF Pending, Over
<1>3. CASE /\ q.script = handling.script /\ handling.action = "stop"
           /\ script[q.script] = "stopping" /\ script'[q.script] \in {"done", "finished"}
  BY <1>3 DEF Pending, Suits, Over
<1> QED BY <1>1, <1>2, <1>3 DEF Answers

LEMMA StepQueue == ASSUME Types, Queue, Books, Next PROVE Queue'
<1>1. ASSUME NEW i \in DOMAIN backlog
      PROVE  /\ backlog[i].script \in Scripts /\ backlog[i].action \in {"start", "stop"}
             /\ Pending(backlog[i])
  BY RequestTypes DEF Queue
<1>2. handling # NoRequest =>
        /\ handling.script \in Scripts /\ handling.action \in {"start", "stop"}
        /\ Pending(handling)
  BY RequestTypes DEF Queue
<1>3. ASSUME UNCHANGED <<script, backlog>>,
             handling' # NoRequest =>
               /\ handling # NoRequest
               /\ handling'.script = handling.script /\ handling'.action = handling.action
      PROVE  Queue'
  <2>1. \A i \in DOMAIN backlog : Suits(backlog[i], script')
    BY <1>1, <1>3 DEF Pending, Suits
  <2>2. handling # NoRequest => Suits(handling, script')
    BY <1>2, <1>3 DEF Pending, Suits
  <2> QED BY <1>3, <2>1, <2>2, QueueKept
<1>4. ASSUME NEW s \in Scripts, NEW d \in Int, Sends(s, d) PROVE Queue'
  BY <1>3, <1>4 DEF Sends, collector
<1>5. ASSUME NEW s \in Scripts, Finishes(s) \/ TimesOut(s) PROVE Queue'
  <2>1. backlog' = backlog /\ handling' = handling
    BY <1>5 DEF Finishes, TimesOut, collector
  <2>2. \A i \in DOMAIN backlog : Suits(backlog[i], script')
    BY <1>1, <1>5, MoveSuits
  <2>3. handling # NoRequest => Suits(handling, script')
    BY <1>2, <1>5, MoveSuits
  <2> QED BY <2>1, <2>2, <2>3, QueueKept
<1>6. ASSUME NEW s \in Scripts, AsksToStart(s) \/ AsksToStop(s) PROVE Queue'
  <2>1. PICK r \in Request :
          /\ backlog' = Append(backlog, r) /\ r.script = s
          /\ r.action = IF AsksToStart(s) THEN "start" ELSE "stop"
    BY <1>6, AskedTypes
  <2>2. handling' = handling
    BY <1>6 DEF AsksToStart, AsksToStop, Asks
  <2>3. /\ DOMAIN backlog' = 1 .. Len(backlog) + 1 /\ DOMAIN backlog = 1 .. Len(backlog)
        /\ Len(backlog) \in Nat
        /\ \A i \in DOMAIN backlog : backlog'[i] = backlog[i]
        /\ backlog'[Len(backlog) + 1] = r
    BY <2>1 DEF Types
  <2>4. Suits(r, script')
    BY <1>6, <2>1 DEF AsksToStart, AsksToStop, Asks, Types, Suits, Over
  <2>5. \A i \in DOMAIN backlog : Suits(backlog[i], script')
    BY <1>1, <1>6, MoveSuits
  <2>6. handling # NoRequest => Suits(handling, script')
    BY <1>2, <1>6, MoveSuits
  <2>7. r.action = "start" => script[s] = "idle"
    BY <2>1 DEF AsksToStart
  \* An idle script has made no request.
  <2>8. r.action = "start" =>
          /\ \A i \in DOMAIN backlog : backlog[i].script # s
          /\ handling # NoRequest => handling.script # s
    BY <1>1, <1>2, <2>7 DEF Pending, Over
  <2>9. \A i \in DOMAIN backlog' :
          i \in DOMAIN backlog \/ (i = Len(backlog) + 1 /\ i \notin DOMAIN backlog)
    BY <2>3
  <2>10. \A i \in DOMAIN backlog' : Suits(backlog'[i], script')
    BY <2>3, <2>4, <2>5, <2>9
  <2>11. \A i, j \in DOMAIN backlog' :
           backlog'[i].action = "start" /\ backlog'[j].action = "start"
             /\ backlog'[i].script = backlog'[j].script => i = j
    BY <2>1, <2>3, <2>8, <2>9 DEF Queue
  <2>12. handling # NoRequest /\ handling.action = "start" =>
           \A i \in DOMAIN backlog' :
             backlog'[i].action = "start" => backlog'[i].script # handling.script
    BY <2>1, <2>3, <2>8, <2>9 DEF Queue
  <2> QED BY <2>2, <2>6, <2>10, <2>11, <2>12 DEF Queue, Pending, Suits
<1>7. CASE Accepts
  <2>1. /\ backlog \in Seq(Request) /\ backlog # <<>>
        /\ backlog' = Tail(backlog) /\ script' = script
    BY <1>7 DEF Accepts, Types
  <2>2. /\ 1 \in DOMAIN backlog /\ Head(backlog) = backlog[1]
        /\ \A i \in DOMAIN backlog' :
             /\ i + 1 \in DOMAIN backlog /\ backlog'[i] = backlog[i + 1]
             /\ i \in Nat \ {0}
    BY <2>1
  <2>3. handling'.script = backlog[1].script /\ handling'.action = backlog[1].action
    BY <1>7, <2>2 DEF Accepts
  <2>4. Pending(handling)'
    BY <1>1, <2>1, <2>2, <2>3 DEF Pending
  <2>5. \A i \in DOMAIN backlog' : Pending(backlog[i + 1])
    BY <1>1, <2>2
  <2>6. \A i \in DOMAIN backlog' : Suits(backlog'[i], script')
    BY <2>1, <2>2, <2>5 DEF Pending, Suits
  <2>7. \A i, j \in DOMAIN backlog' :
          backlog'[i].action = "start" /\ backlog'[j].action = "start"
            /\ backlog'[i].script = backlog'[j].script => i = j
    <3>1. SUFFICES ASSUME NEW i \in DOMAIN backlog', NEW j \in DOMAIN backlog',
                          backlog[i + 1].action = "start", backlog[j + 1].action = "start",
                          backlog[i + 1].script = backlog[j + 1].script
                   PROVE  i = j
      BY <2>2
    <3>2. i + 1 = j + 1
      BY <2>2, <3>1 DEF Queue
    <3> QED BY <2>2, <3>2
  <2>8. handling'.action = "start" =>
          \A i \in DOMAIN backlog' :
            backlog'[i].action = "start" => backlog'[i].script # handling'.script
    <3>1. SUFFICES ASSUME NEW i \in DOMAIN backlog', backlog[1].action = "start",
                          backlog[i + 1].action = "start"
                   PROVE  backlog[i + 1].script # backlog[1].script
      BY <2>2, <2>3
    <3>2. i + 1 # 1
      BY <2>2
    <3> QED BY <2>2, <3>1, <3>2 DEF Queue
  <2> QED BY <2>4, <2>6, <2>7, <2>8 DEF Queue, Pending, Suits
<1>8. CASE sent' = sent /\ (StartsRun \/ Refusals \/ StopsRun)
  <2>1. Answers
    BY <1>8, CollectorAnswers DEF Refusals
  <2>2. handling # NoRequest /\ Queue
    BY <2>1 DEF Answers
  <2>3. \A i \in DOMAIN backlog :
          handling.action = "start" /\ backlog[i].action = "start" =>
            backlog[i].script # handling.script
    BY <2>2 DEF Queue
  <2>4. \A i \in DOMAIN backlog : Suits(backlog[i], script')
    BY <1>1, <2>1, <2>3, AnswersSuit
  <2> QED BY <2>1, <2>4, QueueKept DEF Answers
<1>9. CASE sent' = sent /\ (StopsSampler \/ Reads)
  <2>1. Advances
    BY <1>9, CollectorAdvances DEF Reads
  <2> QED BY <2>1, <1>3 DEF Advances
<1>10. CASE sent' = sent /\ (Wakes \/ Appends \/ GivesUp)
  <2>1. SamplerSteps
    BY <1>10, SamplerMoves
  <2> QED BY <2>1, <1>3 DEF SamplerSteps
<1> QED BY <1>4, <1>5, <1>6, <1>7, <1>8, <1>9, <1>10, Kinds

\* A script whose run is being stopped has ended its program.
LEMMA StoppedIsOver ==
  ASSUME Types, Queue, Books, handling # NoRequest, handling.action = "stop"
  PROVE  handling.script \in Scripts /\ script[handling.script] \in Over
BY RequestTypes DEF Queue, Pending

LEMMA StepBooks == ASSUME Types, Queue, Books, Next PROVE Books'
<1>1. ASSUME NEW s \in Scripts, NEW d \in Int, Sends(s, d) PROVE Books'
  <2>1. active # NoRun /\ active.id = s
    BY <1>1 DEF Sends, Books, IsActive
  <2>2. handling # NoRequest => handling.stage = "dispatch"
    BY <1>1, <2>1, StoppedIsOver DEF Books, IsActive, Sends, Over
  <2>3. \A t \in Scripts : t # s => traffic'[t] = traffic[t]
    BY <1>1 DEF Sends, Counts, Types, Counters, Senders
  <2>4. UNCHANGED <<script, handling, active>>
    BY <1>1 DEF Sends, collector
  <2>5. \A t \in Scripts : script'[t] \in Unstarted => traffic'[t] = 0
    BY <1>1, <2>3, <2>4 DEF Sends, Books, Unstarted
  <2>6. /\ active.before[active.id] = 0
        /\ \A t \in Scripts \ {active.id} : active.before[t] = traffic'[t]
    BY <2>1, <2>3 DEF Books
  <2> QED BY <2>2, <2>4, <2>5, <2>6 DEF Books, IsActive
<1>2. ASSUME NEW s \in Scripts,
             Finishes(s) \/ AsksToStart(s) \/ AsksToStop(s) \/ TimesOut(s)
      PROVE  Books'
  <2>1. UNCHANGED <<handling, active>> /\ \A t \in Scripts : traffic'[t] = traffic[t]
    BY <1>2, ControlQuiet DEF Finishes, AsksToStart, AsksToStop, TimesOut, Asks, collector, Quiet
  <2>2. ASSUME NEW t \in Scripts
        PROVE  /\ script'[t] \in Unstarted => script[t] \in Unstarted
               /\ script'[t] = "running" => script[t] = "running"
    BY <1>2 DEF Finishes, AsksToStart, AsksToStop, TimesOut, Asks, Types, Unstarted
  <2> QED BY <2>1, <2>2 DEF Books, IsActive
<1>3. CASE Accepts
  BY <1>3 DEF Accepts, Books, IsActive
<1>4. ASSUME Answers,
             active' # NoRun =>
               /\ active'.before[active'.id] = 0
               /\ \A s \in Scripts \ {active'.id} : active'.before[s] = traffic[s],
             \A s \in Scripts : script[s] = "running" => IsActive(s)'
      PROVE  Books'
  <2>1. handling' = NoRequest /\ \A s \in Scripts : traffic'[s] = traffic[s]
    BY <1>4 DEF Answers, Quiet
  <2>2. ASSUME NEW s \in Scripts
        PROVE  /\ script'[s] \in Unstarted => script[s] \in Unstarted
               /\ script'[s] = "running" => IsActive(s)'
    BY <1>4 DEF Answers, Unstarted
  <2> QED BY <1>4, <2>1, <2>2 DEF Books
<1>5. CASE sent' = sent /\ StartsRun
  <2>1. Answers
    BY <1>5, CollectorAnswers
  <2>2. /\ active = NoRun /\ handling # NoRequest /\ handling.action = "start"
        /\ active' = NewRun(handling.script)
    BY <1>5 DEF StartsRun, Handles
  <2>3. handling.script \in Scripts /\ traffic[handling.script] = 0
    BY <2>2, RequestTypes DEF Queue, Pending, Books, Unstarted
  <2>4. active'.before = traffic /\ active'.id = handling.script
    BY <2>2 DEF NewRun
  <2>5. /\ active'.before[active'.id] = 0
        /\ \A s \in Scripts \ {active'.id} : active'.before[s] = traffic[s]
    BY <2>3, <2>4
  <2>6. \A s \in Scripts : script[s] # "running"
    BY <2>2 DEF Books, IsActive
  <2> QED BY <1>4, <2>1, <2>5, <2>6
<1>6. CASE sent' = sent /\ Refusals
  <2>1. Answers
    BY <1>6, CollectorAnswers DEF Refusals
  <2>2. active' = active
    BY <1>6 DEF Refusals, RefusesStart, RefusesStop, CannotReadCounters
  <2> QED BY <1>4, <2>1, <2>2 DEF Books, IsActive
<1>7. CASE sent' = sent /\ StopsRun
  <2>1. Answers
    BY <1>7, CollectorAnswers
  <2>2. active' = NoRun /\ handling # NoRequest /\ handling.action = "stop" /\ handling.stage = "rows"
    BY <1>7 DEF StopsRun, Handles
  <2>3. IsActive(handling.script) /\ script[handling.script] # "running"
    BY <2>2, StoppedIsOver DEF Books, Over
  <2>4. \A s \in Scripts : script[s] # "running"
    BY <2>3 DEF Books, IsActive
  <2> QED BY <1>4, <2>1, <2>2, <2>4
<1>8. CASE sent' = sent /\ (StopsSampler \/ Reads)
  <2>1. Advances
    BY <1>8, CollectorAdvances DEF Reads
  <2>2. handling'.action = "stop" /\ active'.id = handling'.script
    BY <1>8, <2>1 DEF Advances, StopsSampler, Reads, ReadsCounters, ReadsProcessValues,
                      ReadsHostValues, Handles, Books, IsActive
  <2>3. active \in Run /\ active # NoRun /\ active' \in Run /\ active' # NoRun
    BY <2>1, MetricsAssumption DEF Advances, Types
  <2>4. handling \in Handling /\ handling # NoRequest
    BY <2>1 DEF Advances, Types
  <2>5. active'.stop
    <3>1. CASE StopsSampler
      BY <3>1, <2>3 DEF StopsSampler, Run
    <3>2. CASE Reads
      <4>1. active.stop
        BY <3>2 DEF Reads, ReadsCounters, ReadsProcessValues, ReadsHostValues, Handles, Books
      <4>2. active'.stop = active.stop
        BY <3>2, <2>3 DEF Reads, ReadsCounters, ReadsProcessValues, ReadsHostValues, Run
      <4> QED BY <4>1, <4>2
    <3> QED BY <1>8, <3>1, <3>2
  <2>6. handling'.stage \in {"process", "host", "rows"} =>
          \A s \in Scripts : active'.after[s] = traffic[s]
    <3>1. CASE StopsSampler
      BY <3>1, <2>4 DEF StopsSampler, Handling
    <3>2. CASE ReadsCounters
      BY <3>2, <2>3 DEF ReadsCounters, Run
    <3>3. CASE ReadsProcessValues \/ ReadsHostValues
      BY <3>3 DEF ReadsProcessValues, ReadsHostValues, Handles, Books
    <3> QED BY <1>8, <3>1, <3>2, <3>3 DEF Reads
  <2>7. /\ \A s \in Scripts : script'[s] \in Unstarted => traffic'[s] = 0
        /\ \A s \in Scripts : script'[s] = "running" => IsActive(s)'
        /\ active'.before[active'.id] = 0
        /\ \A s \in Scripts \ {active'.id} : active'.before[s] = traffic'[s]
    BY <2>1, <2>3 DEF Advances, Books, IsActive
  <2> QED BY <2>1, <2>2, <2>3, <2>5, <2>6, <2>7 DEF Books, Advances, IsActive
<1>9. CASE sent' = sent /\ (Wakes \/ Appends \/ GivesUp)
  <2>1. SamplerSteps
    BY <1>9, SamplerMoves
  <2>2. /\ active' # NoRun /\ active'.id = active.id /\ active'.before = active.before
        /\ active'.after = active.after /\ active'.stop = active.stop
    BY <2>1, MetricsAssumption DEF SamplerSteps, Types, Run
  <2> QED BY <2>1, <2>2 DEF SamplerSteps, Books, IsActive
<1> QED BY <1>1, <1>2, <1>3, <1>5, <1>6, <1>7, <1>8, <1>9, Kinds

\* A benchmark keeps to its driver, and what crosses the device adds up.
LEMMA DriverStays == ASSUME BenchmarkNext PROVE driver' = driver
BY DEF BenchmarkNext, Prefills, PrefillFails, PrefillEnds, Launches, Joins, Connects, CannotConnect,
       Requests, IsKilled, EndsWarmup, Returns

LEMMA CrossingAdds ==
  ASSUME NEW n \in Int, NEW m \in Int PROVE Crossing(n) + Crossing(m - n) = Crossing(m)
BY DEF Crossing

LEMMA StepMetered == ASSUME Types, Metered, Next PROVE Metered'
<1>1. traffic \in Counters /\ Measured \in Senders /\ Measured # Control /\ sent \in Int
  BY MetricsAssumption, ExperimentAssumption DEF Types, Senders
<1>2. CASE Runs
  <2>1. sent' \in Int /\ driver' = driver
    BY <1>1, <1>2, SentType, DriverStays DEF Runs
  <2>2. traffic'[Measured] = traffic[Measured] + Crossing(sent' - sent)
    BY <1>1, <1>2 DEF Runs, Counts, Counters
  <2>3. traffic'[Measured] = Crossing(sent')
    BY <1>1, <2>1, <2>2, CrossingAdds DEF Metered
  <2>4. Crossing(sent)' = Crossing(sent')
    BY <2>1 DEF Crossing
  <2> QED BY <2>3, <2>4 DEF Metered
<1>3. ASSUME traffic'[Measured] = traffic[Measured], UNCHANGED benchmark PROVE Metered'
  BY <1>3 DEF Metered, Crossing, benchmark
<1>4. ASSUME NEW s \in Scripts, Others(s) PROVE Metered'
  BY <1>1, <1>3, <1>4 DEF Others, Works, Finishes, Counts, Counters
<1>5. ASSUME NEW s \in Scripts, Controls(s), UNCHANGED benchmark PROVE Metered'
  BY <1>1, <1>3, <1>5 DEF Controls, AsksToStart, AsksToStop, TimesOut, Asks, Counts, Counters
<1>6. ASSUME Collects, UNCHANGED benchmark PROVE Metered'
  <2>1. traffic' = traffic \/ Counts(Control, 1)
    BY <1>6 DEF Collects, Accepts, StartsRun, RefusesStart, RefusesStop, StopsSampler, ReadsCounters,
                CannotReadCounters, ReadsProcessValues, ReadsHostValues, StopsRun, Wakes, Appends,
                GivesUp, Sampler, Replies
  <2> QED BY <1>1, <1>3, <1>6, <2>1 DEF Counts, Counters
<1>7. CASE Ends
  BY <1>3, <1>7 DEF Ends, Finishes
<1> QED BY <1>2, <1>4, <1>5, <1>6, <1>7 DEF Next

\* One sample in hand, and one more after the stop event.
LEMMA LeftBounds ==
  ASSUME active \in Run
  PROVE  /\ Left \in Int /\ 0 <= Left /\ Left <= 2
         /\ active.samples \in Int
<1>1. active.sampler \in Sampling /\ active.samples \in Int
  BY DEF Run, Sampling
<1>2. Left \in {0, 1, 2}
  BY <1>1 DEF Left, Sampling
<1> QED BY <1>1, <1>2

LEMMA SampledShape ==
  ASSUME NEW r \in Run, NEW later, NEW more
  PROVE  /\ [r EXCEPT !.sampler = later, !.samples = @ + more].sampler = later
         /\ [r EXCEPT !.sampler = later, !.samples = @ + more].samples = r.samples + more
BY DEF Run

\* What the thread appends was among what was left, once it is told to stop.
LEMMA SamplerSpends ==
  ASSUME Types, active # NoRun, active.stop, Wakes \/ Appends \/ GivesUp
  PROVE  /\ active'.samples \in Int /\ Left' \in Int
         /\ active.samples <= active'.samples
         /\ active'.samples + Left' <= active.samples + Left
<1>1. active \in Run /\ active.samples \in Int
  BY DEF Types, Run
<1>2. CASE Wakes
  <2>1. active' = [active EXCEPT !.sampler = "sampling last", !.samples = @ + 0]
    BY <1>2 DEF Wakes, Sampler
  <2>2. active'.sampler = "sampling last"
    BY <1>1, <2>1, SampledShape
  <2>3. active'.samples = active.samples
    <3>1. active'.samples = active.samples + 0
      BY <1>1, <2>1, SampledShape
    <3> QED BY <1>1, <3>1
  <2>4. Left = 1 /\ Left' = 1
    BY <1>2, <2>2 DEF Left, Wakes
  <2> QED BY <1>1, <2>3, <2>4
<1>3. CASE Appends
  <2>1. PICK more \in {0, 1} :
          active' = [active EXCEPT !.sampler = IF active.sampler = "sampling" THEN "waiting" ELSE "ended",
                                   !.samples = @ + more]
    BY <1>3 DEF Appends, Sampler
  <2>2. /\ active'.sampler = IF active.sampler = "sampling" THEN "waiting" ELSE "ended"
        /\ active'.samples = active.samples + more
    BY <1>1, <2>1, SampledShape
  <2>3. CASE active.sampler = "sampling"
    <3>1. Left = 2 /\ Left' = 1
      BY <2>2, <2>3 DEF Left
    <3> QED BY <1>1, <2>2, <3>1
  <2>4. CASE active.sampler = "sampling last"
    <3>1. Left = 1 /\ Left' = 0
      BY <2>2, <2>4 DEF Left
    <3> QED BY <1>1, <2>2, <3>1
  <2> QED BY <1>3, <2>3, <2>4 DEF Appends
<1>4. CASE GivesUp
  <2>1. active' = [active EXCEPT !.sampler = "ended", !.samples = @ + 0]
    BY <1>4 DEF GivesUp, Sampler
  <2>2. active'.sampler = "ended" /\ active'.samples = active.samples + 0
    BY <1>1, <2>1, SampledShape
  <2>3. Left' = 0
    BY <2>2 DEF Left
  <2> QED BY <1>1, <2>2, <2>3, LeftBounds
<1> QED BY <1>2, <1>3, <1>4

LEMMA StepAverages == ASSUME IInv, Next PROVE Averages'
<1> USE DEF IInv
<1>1. handling # NoRequest => handling \in Handling /\ handling.process \in Int /\ handling.host \in Int
  BY DEF Types, Handling
<1>2. ASSUME UNCHANGED <<handling, active>> PROVE Averages'
  BY <1>2 DEF Averages, Left
<1>3. ASSUME NEW s \in Scripts,
             (\E d \in Int : Sends(s, d)) \/ Finishes(s) \/ AsksToStart(s) \/ AsksToStop(s)
               \/ TimesOut(s)
      PROVE  Averages'
  BY <1>2, <1>3 DEF Sends, Finishes, AsksToStart, AsksToStop, TimesOut, Asks, collector
<1>4. CASE Accepts
  BY <1>4 DEF Accepts, Averages
<1>5. CASE sent' = sent /\ (StartsRun \/ Refusals \/ StopsRun)
  <2>1. Answers
    BY <1>5, CollectorAnswers DEF Refusals
  <2> QED BY <2>1 DEF Answers, Averages
<1>6. CASE sent' = sent /\ (StopsSampler \/ Reads)
  <2>1. handling \in Handling /\ handling # NoRequest /\ active \in Run
    BY <1>6, CollectorAdvances DEF Advances, Types, Reads
  <2>2. CASE StopsSampler \/ ReadsCounters
    <3>1. handling'.stage \in {"join", "process"}
      BY <2>1, <2>2 DEF StopsSampler, ReadsCounters, Handling
    <3> QED BY <3>1 DEF Averages
  <2>3. CASE ReadsProcessValues
    <3>1. handling'.stage = "host" /\ handling'.process = active.samples /\ active' = active
      BY <2>1, <2>3 DEF ReadsProcessValues, Handling
    <3>2. Left' = Left
      BY <3>1 DEF Left
    <3>3. active.samples <= active.samples /\ active.samples + Left <= active.samples + 2
      BY <2>1, LeftBounds
    <3> QED BY <3>1, <3>2, <3>3 DEF Averages
  <2>4. CASE ReadsHostValues
    <3>1. /\ handling'.stage = "rows" /\ handling'.process = handling.process
          /\ handling'.host = active.samples /\ active' = active /\ handling.stage = "host"
      BY <2>1, <2>4 DEF ReadsHostValues, Handles, Handling
    <3>2. handling.process <= active.samples /\ active.samples + Left <= handling.process + 2
      BY <2>1, <3>1 DEF Averages
    <3>3. Left' = Left /\ active.samples \in Int
      BY <2>1, <3>1, LeftBounds DEF Left
    <3> QED BY <3>1, <3>2, <3>3 DEF Averages
  <2> QED BY <1>6, <2>2, <2>3, <2>4 DEF Reads
<1>7. CASE sent' = sent /\ (Wakes \/ Appends \/ GivesUp)
  <2>1. handling' = handling /\ active # NoRun /\ active \in Run
    BY <1>7, SamplerMoves DEF SamplerSteps, Types
  <2>2. SUFFICES ASSUME handling # NoRequest, handling.stage \in {"host", "rows"}
                 PROVE  /\ handling.process <= active'.samples
                        /\ active'.samples + Left' <= handling.process + 2
                        /\ handling.stage = "rows" => handling.host <= active'.samples
    BY <2>1 DEF Averages
  <2>3. /\ active'.samples \in Int /\ Left' \in Int
        /\ active.samples <= active'.samples
        /\ active'.samples + Left' <= active.samples + Left
    <3>1. active.stop
      BY <2>2 DEF Books
    <3> QED BY <1>7, <2>1, <3>1, SamplerSpends
  <2>4. active.samples \in Int /\ Left \in Int
    BY <2>1, LeftBounds
  <2>5. /\ handling.process <= active.samples
        /\ active.samples + Left <= handling.process + 2
        /\ handling.stage = "rows" => handling.host <= active.samples
    BY <2>2 DEF Averages
  <2> QED BY <1>1, <2>2, <2>3, <2>4, <2>5
<1> QED BY <1>3, <1>4, <1>5, <1>6, <1>7, Kinds

LEMMA InitInv == Init => IInv
<1> SUFFICES ASSUME Init PROVE IInv
  OBVIOUS
<1>1. Types
  <2>1. sent \in Int
    BY DEF Init, BenchmarkInit
  <2> QED BY <2>1 DEF Init, MetricsInit, Types, Counters, Unstarted
<1>2. Queue
  BY DEF Init, MetricsInit, Queue
<1>3. Books /\ Averages
  BY DEF Init, MetricsInit, Books, Averages, Senders
<1>4. Metered
  BY ExperimentAssumption DEF Init, BenchmarkInit, MetricsInit, Metered, Crossing, Senders
<1> QED BY <1>1, <1>2, <1>3, <1>4 DEF IInv

LEMMA Inductive == Spec => []IInv
<1>1. IInv /\ [Next]_vars => IInv'
  <2> SUFFICES ASSUME IInv, [Next]_vars PROVE IInv'
    OBVIOUS
  <2>1. CASE Next
    BY <2>1, StepTypes, StepQueue, StepBooks, StepMetered, StepAverages DEF IInv
  <2>2. CASE UNCHANGED vars
    <3>1. UNCHANGED <<script, stops, backlog, handling, active, traffic, sent, driver>>
      BY <2>2 DEF vars, benchmark, metrics, collector
    <3>2. Types' /\ Queue'
      BY <3>1 DEF IInv, Types, Queue, Pending
    <3>3. Books' /\ Metered' /\ Averages'
      BY <3>1 DEF IInv, Books, IsActive, Metered, Crossing, Averages, Left
    <3> QED BY <3>2, <3>3 DEF IInv
  <2> QED BY <2>1, <2>2
<1> QED BY <1>1, InitInv, PTL DEF Spec

-----------------------------------------------------------------------------
(* The results.                                                            *)

\* Whoever contends for the collector, and whatever times out: of the programs'
\* requests a row has those that its run's own program sent over the device, and no
\* others; a TCP benchmark's are all there, an RDMA benchmark's are not.
THEOREM RowsAreRight == Spec => []RowsCoverRuns
<1>1. IInv => RowsCoverRuns
  <2> SUFFICES ASSUME IInv, Handles("stop", "rows")
               PROVE  /\ \A s \in Scripts \ {active.id} : InRow(s) = 0
                      /\ InRow(active.id) = IF active.id = Measured THEN Crossing(sent)
                                                                  ELSE traffic[active.id]
    BY DEF RowsCoverRuns
  <2>1. /\ active # NoRun /\ active.id \in Scripts /\ traffic \in Counters
        /\ \A s \in Scripts : active.after[s] = traffic[s]
        /\ active.before[active.id] = 0
        /\ \A s \in Scripts \ {active.id} : active.before[s] = traffic[s]
    BY DEF IInv, Types, Run, Books, Handles, IsActive
  <2>2. \A s \in Scripts : traffic[s] \in Int
    BY <2>1 DEF Counters, Senders
  <2>3. \A s \in Scripts \ {active.id} : InRow(s) = 0
    BY <2>1, <2>2 DEF InRow
  <2>4. InRow(active.id) = traffic[active.id]
    BY <2>1, <2>2 DEF InRow
  <2> QED BY <2>3, <2>4 DEF IInv, Metered
<1> QED BY <1>1, Inductive, PTL

\* However long the sampling thread outlives the join: the averages of a row are
\* taken of the same samples, but for two.
THEOREM AveragesAgree == Spec => []SamplesAgree
<1>1. IInv => SamplesAgree
  <2> SUFFICES ASSUME IInv, Handles("stop", "rows")
               PROVE  /\ handling.process <= handling.host /\ handling.host <= active.samples
                      /\ active.samples <= handling.process + 2
    BY DEF SamplesAgree
  <2>1. /\ handling.process <= handling.host /\ handling.host <= active.samples
        /\ active.samples + Left <= handling.process + 2
    BY DEF IInv, Averages, Handles
  <2>2. active \in Run /\ handling \in Handling
    BY DEF IInv, Types, Books, Handles, IsActive
  <2>3. handling.process \in Int
    BY <2>2 DEF Handling
  <2> QED BY <2>1, <2>2, <2>3, LeftBounds
<1> QED BY <1>1, Inductive, PTL

-----------------------------------------------------------------------------
(* Adding up over the workers.                                             *)

\* What holds of no worker's predecessor is not there at all: induction up to Clients.
LEMMA Climbs ==
  ASSUME NEW S \in SUBSET (0 .. Clients), 0 \notin S,
         \A n \in 1 .. Clients : n \in S => n - 1 \in S
  PROVE  S = {}
<1> SUFFICES ASSUME S # {} PROVE FALSE
  OBVIOUS
<1>1. Clients \in Nat
  BY BenchmarkAssumption
<1>2. S \subseteq Nat
  BY <1>1
<1>3. IsWellFoundedOn(OpToRel(<, Nat), Nat)
  BY NatLessThanWellFounded
<1>4. PICK n \in S : \A m \in S : ~(<<m, n>> \in OpToRel(<, Nat))
  BY <1>2, <1>3, WFMin
<1>5. \A m \in S : ~(m < n)
  BY <1>2, <1>4 DEF OpToRel
<1>6. n \in 1 .. Clients
  BY <1>1, <1>2
<1> QED BY <1>1, <1>5, <1>6

\* The sums of the counts of the first workers.
IsSum(s, count) ==
  s = [n \in 0 .. Clients |-> IF n = 0 THEN 0 ELSE s[n - 1] + count[n - 1]]

LEMMA SumExists == ASSUME NEW count PROVE \E s : IsSum(s, count)
<1> DEFINE Upto(n, s) == s = [m \in 0 .. n |-> IF m = 0 THEN 0 ELSE s[m - 1] + count[m - 1]]
<1> DEFINE S == {n \in 0 .. Clients : ~ \E s : Upto(n, s)}
<1>1. Clients \in Nat
  BY BenchmarkAssumption
<1>2. 0 \notin S
  <2>1. Upto(0, [m \in 0 .. 0 |-> 0])
    OBVIOUS
  <2> QED BY <2>1
<1>3. ASSUME NEW n \in 1 .. Clients, n - 1 \notin S
      PROVE  n \notin S
  <2>1. n \in Nat /\ n >= 1 /\ n - 1 \in 0 .. Clients
    BY <1>1
  <2>2. PICK s : Upto(n - 1, s)
    BY <1>3, <2>1
  <2> DEFINE t == [m \in 0 .. n |-> IF m = n THEN s[n - 1] + count[n - 1] ELSE s[m]]
  <2>3. ASSUME NEW m \in 0 .. n
        PROVE  t[m] = IF m = 0 THEN 0 ELSE t[m - 1] + count[m - 1]
    <3>1. CASE m = n
      BY <2>1, <3>1
    <3>2. CASE m # n
      <4>1. m \in 0 .. n - 1 /\ t[m] = s[m]
        BY <2>1, <3>2
      <4>2. s[m] = IF m = 0 THEN 0 ELSE s[m - 1] + count[m - 1]
        BY <2>2, <4>1
      <4>3. m # 0 => m - 1 \in 0 .. n /\ m - 1 # n
        BY <2>1, <4>1
      <4> QED BY <4>1, <4>2, <4>3
    <3> QED BY <3>1, <3>2
  <2>4. Upto(n, t)
    BY <2>3
  <2> QED BY <2>4
<1>4. S = {}
  <2> HIDE DEF S
  <2>1. S \in SUBSET (0 .. Clients)
    BY DEF S
  <2> QED BY <1>2, <1>3, <2>1, Climbs
<1>5. PICK s : Upto(Clients, s)
  BY <1>1, <1>4
<1> QED BY <1>5 DEF IsSum

LEMMA TotalIsSum ==
  ASSUME NEW count PROVE \E s : IsSum(s, count) /\ Total(count) = s[Clients]
<1> DEFINE s == CHOOSE t : IsSum(t, count)
<1>1. IsSum(s, count)
  BY SumExists
<1>2. Total(count) = s[Clients]
  BY DEF Total, IsSum
<1> QED BY <1>1, <1>2

\* The steps of a sum.
LEMMA SumSteps ==
  ASSUME NEW count \in [Workers -> Int], NEW s, IsSum(s, count)
  PROVE  /\ s[0] = 0
         /\ \A n \in 1 .. Clients : n - 1 \in 0 .. Clients /\ n - 1 \in Workers
                                      /\ s[n] = s[n - 1] + count[n - 1]
         /\ \A n \in 0 .. Clients : s[n] \in Int
<1>1. Clients \in Nat /\ Clients > 0
  BY BenchmarkAssumption
<1>2. s[0] = 0
  BY <1>1 DEF IsSum
<1>3. ASSUME NEW n \in 1 .. Clients
      PROVE n - 1 \in 0 .. Clients /\ n - 1 \in Workers /\ s[n] = s[n - 1] + count[n - 1]
  BY <1>1 DEF IsSum, Workers
<1> DEFINE S == {n \in 0 .. Clients : s[n] \notin Int}
<1>4. S = {}
  <2>1. 0 \notin S
    BY <1>2
  <2>2. \A n \in 1 .. Clients : n \in S => n - 1 \in S
    BY <1>3
  <2>3. S \in SUBSET (0 .. Clients)
    OBVIOUS
  <2> HIDE DEF S
  <2> QED BY <2>1, <2>2, <2>3, Climbs
<1> QED BY <1>2, <1>3, <1>4

\* The total of sums is the sum of the totals.
LEMMA TotalAdds ==
  ASSUME NEW a \in [Workers -> Int], NEW b \in [Workers -> Int], NEW c \in [Workers -> Int],
         \A w \in Workers : c[w] = a[w] + b[w]
  PROVE  /\ Total(a) \in Int /\ Total(b) \in Int
         /\ Total(c) = Total(a) + Total(b)
<1>1. PICK x : IsSum(x, a) /\ Total(a) = x[Clients]
  BY TotalIsSum
<1>2. PICK y : IsSum(y, b) /\ Total(b) = y[Clients]
  BY TotalIsSum
<1>3. PICK z : IsSum(z, c) /\ Total(c) = z[Clients]
  BY TotalIsSum
<1> DEFINE S == {n \in 0 .. Clients : z[n] # x[n] + y[n]}
<1>4. 0 \notin S
  BY <1>1, <1>2, <1>3, SumSteps
<1>5. \A n \in 1 .. Clients : n \in S => n - 1 \in S
  <2> SUFFICES ASSUME NEW n \in 1 .. Clients, z[n - 1] = x[n - 1] + y[n - 1]
               PROVE  z[n] = x[n] + y[n]
    BY <1>1, SumSteps
  <2>1. n - 1 \in 0 .. Clients /\ n - 1 \in Workers /\ x[n] = x[n - 1] + a[n - 1]
    BY <1>1, SumSteps
  <2>2. y[n] = y[n - 1] + b[n - 1]
    BY <1>2, SumSteps
  <2>3. z[n] = z[n - 1] + c[n - 1]
    BY <1>3, SumSteps
  <2>4. x[n - 1] \in Int
    BY <1>1, <2>1, SumSteps
  <2>5. y[n - 1] \in Int
    BY <1>2, <2>1, SumSteps
  <2> QED BY <2>1, <2>2, <2>3, <2>4, <2>5
<1>6. S \in SUBSET (0 .. Clients)
  OBVIOUS
<1>7. Clients \in 0 .. Clients
  BY BenchmarkAssumption
<1>8. S = {}
  <2> HIDE DEF S
  <2> QED BY <1>4, <1>5, <1>6, Climbs
<1>9. x[Clients] \in Int
  BY <1>1, <1>7, SumSteps
<1>10. y[Clients] \in Int
  BY <1>2, <1>7, SumSteps
<1> QED BY <1>1, <1>2, <1>3, <1>7, <1>8, <1>9, <1>10

\* A total of naturals is at least each of them.
LEMMA TotalCovers ==
  ASSUME NEW a \in [Workers -> Nat]
  PROVE  Total(a) \in Nat /\ \A w \in Workers : a[w] <= Total(a)
<1>1. PICK x : IsSum(x, a) /\ Total(a) = x[Clients]
  BY TotalIsSum
<1>2. a \in [Workers -> Int] /\ Clients \in Nat
  BY BenchmarkAssumption
<1>3. ASSUME NEW n \in 1 .. Clients
      PROVE  /\ n - 1 \in 0 .. Clients /\ a[n - 1] \in Nat
             /\ x[n - 1] \in Int /\ x[n] = x[n - 1] + a[n - 1]
  <2>1. n - 1 \in 0 .. Clients /\ n - 1 \in Workers /\ x[n] = x[n - 1] + a[n - 1]
    BY <1>1, <1>2, SumSteps
  <2>2. x[n - 1] \in Int
    BY <1>1, <1>2, <2>1, SumSteps
  <2> QED BY <2>1, <2>2
<1>4. x[0] = 0
  BY <1>1, <1>2, SumSteps
<1> DEFINE S == {n \in 0 .. Clients : ~(x[n] \in Nat /\ \A w \in Workers : w < n => a[w] <= x[n])}
<1>5. 0 \notin S
  BY <1>2, <1>4 DEF Workers
<1>6. \A n \in 1 .. Clients : n \in S => n - 1 \in S
  <2> SUFFICES ASSUME NEW n \in 1 .. Clients,
                      x[n - 1] \in Nat /\ \A w \in Workers : w < n - 1 => a[w] <= x[n - 1]
               PROVE  x[n] \in Nat /\ \A w \in Workers : w < n => a[w] <= x[n]
    BY <1>3
  <2>1. x[n] \in Nat /\ x[n] >= x[n - 1] /\ x[n] >= a[n - 1] /\ n \in Nat
    BY <1>2, <1>3
  <2>2. ASSUME NEW w \in Workers, w < n PROVE a[w] <= x[n]
    <3>1. CASE w = n - 1
      BY <2>1, <3>1
    <3>2. CASE w # n - 1
      <4>1. w \in Int /\ w < n - 1
        BY <1>2, <2>1, <2>2, <3>2 DEF Workers
      <4>2. a[w] <= x[n - 1] /\ a[w] \in Nat
        BY <4>1
      <4> QED BY <2>1, <4>2
    <3> QED BY <3>1, <3>2
  <2> QED BY <2>1, <2>2
<1>7. S \in SUBSET (0 .. Clients)
  OBVIOUS
<1>8. S = {}
  <2> HIDE DEF S
  <2> QED BY <1>5, <1>6, <1>7, Climbs
<1>9. Clients \in 0 .. Clients /\ \A w \in Workers : w < Clients
  BY <1>2 DEF Workers
<1> QED BY <1>1, <1>8, <1>9

\* Dividing with remainder.
LEMMA Quotient ==
  ASSUME NEW t \in Int, NEW c \in Int, c > 0
  PROVE  t = c * (t \div c) + (t % c)
OBVIOUS

LEMMA Divided ==
  ASSUME NEW t \in Nat, NEW c \in Nat \ {0}
  PROVE  /\ t \div c \in Nat /\ t % c \in Nat /\ t % c < c
         /\ t = c * (t \div c) + (t % c)
<1>1. c > 0 /\ t \in Int /\ c \in Int
  OBVIOUS
<1>2. t = c * (t \div c) + (t % c)
  BY <1>1, Quotient
<1>3. t \div c \in Nat /\ t % c \in Nat /\ t % c < c
  OBVIOUS
<1> QED BY <1>2, <1>3

LEMMA OneMore ==
  ASSUME NEW n \in Nat, n >= 1, NEW q \in Nat, NEW r \in Nat
  PROVE  n * q + (IF n < r THEN n ELSE r)
           = ((n - 1) * q + (IF n - 1 < r THEN n - 1 ELSE r)) + (q + (IF n - 1 < r THEN 1 ELSE 0))
<1>1. n * q = (n - 1) * q + q
  OBVIOUS
<1> DEFINE a == n * q  b == (n - 1) * q
<1>2. a \in Int /\ b \in Int
  OBVIOUS
<1> HIDE DEF a, b
<1>3. a = b + q
  BY <1>1 DEF a, b
<1>4. a + (IF n < r THEN n ELSE r)
        = (b + (IF n - 1 < r THEN n - 1 ELSE r)) + (q + (IF n - 1 < r THEN 1 ELSE 0))
  BY <1>2, <1>3
<1> QED BY <1>4 DEF a, b

LEMMA ShareIsNat ==
  ASSUME NEW t \in Nat, NEW w \in Workers PROVE Share(t, w) \in Nat
<1>1. Clients \in Nat \ {0} /\ w \in Int
  BY BenchmarkAssumption DEF Workers
<1> QED BY <1>1, Divided DEF Share

\* The workers' shares are the whole.
LEMMA SharesAddUp ==
  ASSUME NEW t \in Nat PROVE Total([w \in Workers |-> Share(t, w)]) = t
<1> DEFINE a == [w \in Workers |-> Share(t, w)]
<1> DEFINE q == t \div Clients  r == t % Clients
<1>1. Clients \in Nat \ {0}
  BY BenchmarkAssumption
<1>2. q \in Nat /\ r \in Nat /\ r < Clients /\ t = Clients * q + r
  BY <1>1, Divided
<1>3. a \in [Workers -> Int]
  BY ShareIsNat
<1>4. \A w \in Workers : a[w] = q + (IF w < r THEN 1 ELSE 0)
  BY DEF Share
<1>5. PICK x : IsSum(x, a) /\ Total(a) = x[Clients]
  BY TotalIsSum
<1> HIDE DEF a, q, r
<1> DEFINE S == {n \in 0 .. Clients : x[n] # n * q + (IF n < r THEN n ELSE r)}
<1>6. 0 \notin S
  <2>1. x[0] = 0
    BY <1>3, <1>5, SumSteps
  <2>2. 0 * q + (IF 0 < r THEN 0 ELSE r) = 0
    BY <1>2
  <2> QED BY <2>1, <2>2
<1>7. \A n \in 1 .. Clients : n \in S => n - 1 \in S
  <2> SUFFICES ASSUME NEW n \in 1 .. Clients,
                      x[n - 1] = (n - 1) * q + (IF n - 1 < r THEN n - 1 ELSE r)
               PROVE  x[n] = n * q + (IF n < r THEN n ELSE r)
    BY <1>1
  <2>1. n - 1 \in Workers /\ x[n] = x[n - 1] + a[n - 1]
    BY <1>3, <1>5, SumSteps
  <2>2. a[n - 1] = q + (IF n - 1 < r THEN 1 ELSE 0)
    BY <1>4, <2>1
  <2>3. n \in Nat /\ n >= 1
    BY <1>1
  <2> QED BY <1>2, <2>1, <2>2, <2>3, OneMore
<1>8. S \in SUBSET (0 .. Clients)
  OBVIOUS
<1>9. S = {}
  <2> HIDE DEF S
  <2> QED BY <1>6, <1>7, <1>8, Climbs
<1>10. Clients \in 0 .. Clients
  BY <1>1
<1>11. x[Clients] = Clients * q + (IF Clients < r THEN Clients ELSE r)
  BY <1>9, <1>10
<1>12. (IF Clients < r THEN Clients ELSE r) = r
  BY <1>1, <1>2
<1> QED BY <1>2, <1>5, <1>11, <1>12 DEF a

-----------------------------------------------------------------------------
(* What a worker has counted.                                              *)

Result == [ok : Nat, errors : Nat, warmOk : Nat, warmErrors : Nat, samples : Nat]

Worker ==
  [pc     : {"new", "connecting", "warmup", "measured", "returned"},
   left   : Nat,
   link   : {"none", "up", "ended", "reset", "broken"},
   result : Result]

Threads == driver \in Drivers /\ worker \in [Workers -> Worker]

WarmupTally(w) ==
  LET r == worker[w].result IN
  /\ worker[w].link # "none"
  /\ r.warmOk + r.warmErrors + worker[w].left = Share(Warmup, w)
  /\ r.ok = 0 /\ r.errors = 0 /\ r.samples = 0

\* Nothing is left when it has returned.
MeasuredTally(w) ==
  LET r == worker[w].result IN
  /\ worker[w].link # "none"
  /\ r.warmOk + r.warmErrors = Share(Warmup, w)
  /\ r.ok + r.errors + worker[w].left = Share(Ops, w)
  /\ r.ok <= r.samples /\ r.samples <= r.ok + r.errors

UnconnectedTally(w) ==
  LET r == worker[w].result IN
  /\ worker[w].link = "none"
  /\ r.ok = 0 /\ r.errors = Share(Ops, w) /\ r.samples = 0
  /\ r.warmOk = 0 /\ r.warmErrors = IF driver = "tcp" THEN 0 ELSE Share(Warmup, w)

\* At any time a worker's counts and what it has left are its share.
Tally(w) ==
  /\ worker[w].pc \in {"new", "connecting"} =>
       worker[w].link = "none" /\ worker[w].result = NoResult
  /\ worker[w].pc = "warmup" => WarmupTally(w)
  /\ worker[w].pc = "measured" => MeasuredTally(w)
  /\ worker[w].pc = "returned" =>
       (MeasuredTally(w) /\ worker[w].left = 0) \/ UnconnectedTally(w)

\* The main thread sums up what no worker changes any more.
Joined ==
  Summarized =>
    /\ \A w \in Workers : worker[w].pc = "returned"
    /\ main = "success" => Succeeds

BenchmarkInv == Threads /\ (\A w \in Workers : Tally(w)) /\ Joined

-----------------------------------------------------------------------------
(* The steps of a worker.                                                  *)

\* Only worker w moves, and its main thread waits for it.
Moves(w) ==
  /\ driver' = driver /\ main' \in {"starting", "joining"}
  /\ worker'[w] \in Worker
  /\ worker' = [worker EXCEPT ![w] = worker'[w]]
  /\ Tally(w)'

LEMMA NoResultType == NoResult \in Result
BY DEF NoResult, Result

LEMMA CountedTypes ==
  ASSUME NEW r \in Result, NEW phase, NEW o
  PROVE  Counted(r, phase, o) \in Result
<1> DEFINE one == IF o.valid THEN 1 ELSE 0
           sample == IF driver = "tcp" /\ ~o.answered THEN 0 ELSE 1
           wo == r.warmOk + one  we == r.warmErrors + 1 - one
           mo == r.ok + one  me == r.errors + 1 - one  ms == r.samples + sample
<1>1. r.ok \in Nat /\ r.errors \in Nat /\ r.samples \in Nat
      /\ r.warmOk \in Nat /\ r.warmErrors \in Nat
  BY DEF Result
<1>2. wo \in Nat /\ we \in Nat /\ mo \in Nat /\ me \in Nat /\ ms \in Nat
  BY <1>1
<1>3. Counted(r, phase, o) = IF phase = "warmup"
        THEN [r EXCEPT !.warmOk = wo, !.warmErrors = we]
        ELSE [r EXCEPT !.ok = mo, !.errors = me, !.samples = ms]
  BY DEF Counted, Result
<1> HIDE DEF one, sample, wo, we, mo, me, ms
<1>4. [r EXCEPT !.warmOk = wo, !.warmErrors = we] \in Result
  BY <1>2 DEF Result
<1>5. [r EXCEPT !.ok = mo, !.errors = me, !.samples = ms] \in Result
  BY <1>2 DEF Result
<1> QED BY <1>3, <1>4, <1>5

LEMMA CountedWarmup ==
  ASSUME NEW r \in Result, NEW o
  PROVE  LET c == Counted(r, "warmup", o) IN
         /\ c.warmOk + c.warmErrors = r.warmOk + r.warmErrors + 1
         /\ c.ok = r.ok /\ c.errors = r.errors /\ c.samples = r.samples
BY DEF Counted, Result

LEMMA CountedMeasured ==
  ASSUME NEW r \in Result, NEW o, o.valid => o.answered
  PROVE  LET c == Counted(r, "measured", o) IN
         /\ c.warmOk = r.warmOk /\ c.warmErrors = r.warmErrors
         /\ c.ok + c.errors = r.ok + r.errors + 1
         /\ c.samples - r.samples \in {0, 1}
         /\ c.ok - r.ok \in {0, 1} /\ c.ok - r.ok <= c.samples - r.samples
<1> DEFINE c == Counted(r, "measured", o)
<1>1. /\ c.warmOk = r.warmOk /\ c.warmErrors = r.warmErrors
      /\ c.ok = r.ok + (IF o.valid THEN 1 ELSE 0)
      /\ c.errors = r.errors + 1 - (IF o.valid THEN 1 ELSE 0)
      /\ c.samples = r.samples + (IF driver = "tcp" /\ ~o.answered THEN 0 ELSE 1)
  BY DEF Counted, Result
<1>2. r.ok \in Nat /\ r.errors \in Nat /\ r.samples \in Nat
  BY DEF Result
<1> HIDE DEF c
<1> QED BY <1>1, <1>2 DEF c

LEMMA OutcomeTypes ==
  ASSUME NEW link, link # "none", NEW o \in Outcomes(link), driver \in Drivers,
         link \in {"up", "ended", "reset", "broken"}
  PROVE  /\ o.link \in {"up", "ended", "reset", "broken"}
         /\ o.valid => o.answered
<1>1. driver \in {"tcp", "two-sided", "one-sided"}
  BY BenchmarkAssumption
<1>2. CASE link = "up" /\ driver = "tcp"
  BY <1>2 DEF Outcomes, Outcome, NoAnswer
<1>3. CASE link = "ended"
  BY <1>3 DEF Outcomes, Outcome, NoAnswer
<1>4. CASE link = "up" /\ driver = "two-sided"
  BY <1>4 DEF Outcomes, Outcome, NoAnswer
<1>5. CASE link = "up" /\ driver = "one-sided"
  BY <1>5 DEF Outcomes, Outcome, NoAnswer
<1>6. CASE link = "broken"
  BY <1>6 DEF Outcomes, Outcome, NoAnswer
<1>7. CASE link = "reset"
  BY <1>7 DEF Outcomes
<1> QED BY <1>1, <1>2, <1>3, <1>4, <1>5, <1>6, <1>7

LEMMA LaunchMoves ==
  ASSUME Threads, NEW w \in Workers, Tally(w), Launches(w) PROVE Moves(w)
<1>1. worker[w] \in Worker
  BY DEF Threads
<1>2. /\ worker'[w] = [worker[w] EXCEPT !.pc = "connecting"]
      /\ worker' = [worker EXCEPT ![w] = worker'[w]]
  BY DEF Threads, Launches
<1>3. /\ worker'[w] \in Worker /\ worker'[w].pc = "connecting"
      /\ worker'[w].link = worker[w].link /\ worker'[w].result = worker[w].result
  BY <1>1, <1>2 DEF Worker
<1>4. worker[w].link = "none" /\ worker[w].result = NoResult
  BY DEF Tally, Launches
<1>5. Tally(w)'
  BY <1>3, <1>4 DEF Tally, NoResult
<1> QED BY <1>2, <1>3, <1>5 DEF Moves, Launches

LEMMA ConnectMoves ==
  ASSUME Threads, NEW w \in Workers, Tally(w), Connects(w) PROVE Moves(w)
<1>1. worker[w] \in Worker /\ Share(Warmup, w) \in Nat
  BY BenchmarkAssumption, ShareIsNat DEF Threads
<1>2. /\ worker'[w] = [worker[w] EXCEPT !.pc = "warmup", !.link = "up", !.left = Share(Warmup, w)]
      /\ worker' = [worker EXCEPT ![w] = worker'[w]]
  BY DEF Threads, Connects
<1>3. /\ worker'[w] \in Worker /\ worker'[w].pc = "warmup" /\ worker'[w].link = "up"
      /\ worker'[w].left = Share(Warmup, w) /\ worker'[w].result = worker[w].result
  BY <1>1, <1>2 DEF Worker
<1>4. worker[w].result = NoResult
  BY DEF Tally, Connects
<1>5. WarmupTally(w)'
  BY <1>1, <1>3, <1>4 DEF WarmupTally, NoResult, Share
<1>6. Tally(w)'
  BY <1>3, <1>5 DEF Tally
<1> QED BY <1>2, <1>3, <1>6 DEF Moves, Connects, Running

LEMMA UnconnectedMoves ==
  ASSUME Threads, NEW w \in Workers, Tally(w), CannotConnect(w) PROVE Moves(w)
<1>1. worker[w] \in Worker /\ Share(Warmup, w) \in Nat /\ Share(Ops, w) \in Nat
  BY BenchmarkAssumption, ShareIsNat DEF Threads
<1> DEFINE e == IF driver = "tcp" THEN 0 ELSE Share(Warmup, w)
<1>2. /\ worker'[w] = [worker[w] EXCEPT !.pc = "returned", !.result.errors = Share(Ops, w),
                                        !.result.warmErrors = e]
      /\ worker' = [worker EXCEPT ![w] = worker'[w]]
  BY DEF Threads, CannotConnect
<1>3. worker[w].link = "none" /\ worker[w].result = NoResult
  BY DEF Tally, CannotConnect
<1>4. e \in Nat
  BY <1>1
<1> HIDE DEF e
<1>5. worker'[w] = [worker[w] EXCEPT !.pc = "returned",
                      !.result = [@ EXCEPT !.errors = Share(Ops, w), !.warmErrors = e]]
  BY <1>1, <1>2 DEF Worker, Result
<1> DEFINE c == [NoResult EXCEPT !.errors = Share(Ops, w), !.warmErrors = e]
<1>6. /\ c \in Result /\ c.errors = Share(Ops, w) /\ c.warmErrors = e
      /\ c.ok = 0 /\ c.samples = 0 /\ c.warmOk = 0
  BY <1>1, <1>4 DEF Result, NoResult
<1>7. worker'[w] = [worker[w] EXCEPT !.pc = "returned", !.result = c]
  BY <1>1, <1>3, <1>5 DEF Worker
<1> HIDE DEF c
<1>8. /\ worker'[w].pc = "returned" /\ worker'[w].link = "none"
      /\ worker'[w].result = c /\ worker'[w] \in Worker
  BY <1>1, <1>3, <1>6, <1>7 DEF Worker
<1>9. driver' = driver
  BY DEF CannotConnect
<1>10. UnconnectedTally(w)'
  BY <1>6, <1>8, <1>9 DEF UnconnectedTally, Share, e
<1>11. Tally(w)'
  BY <1>8, <1>10 DEF Tally
<1> QED BY <1>2, <1>8, <1>9, <1>11 DEF Moves, CannotConnect, Running

LEMMA RequestMoves ==
  ASSUME Threads, NEW w \in Workers, Tally(w), Requests(w) PROVE Moves(w)
<1>1. worker[w] \in Worker /\ worker[w].left > 0
  BY DEF Threads, Requests
<1>2. PICK o \in Outcomes(worker[w].link) :
        worker' = [worker EXCEPT ![w].left = @ - 1, ![w].link = o.link,
                                 ![w].result = Counted(@, worker[w].pc, o)]
  BY DEF Requests
<1> DEFINE c == Counted(worker[w].result, worker[w].pc, o)
<1>3. /\ worker'[w] = [worker[w] EXCEPT !.left = @ - 1, !.link = o.link, !.result = c]
      /\ worker' = [worker EXCEPT ![w] = worker'[w]]
  BY <1>2 DEF Threads
<1>4. worker[w].link # "none" /\ worker[w].result \in Result /\ worker[w].left \in Nat
  BY <1>1 DEF Tally, WarmupTally, MeasuredTally, Requests, InPhase, Worker
<1>5. worker[w].link \in {"up", "ended", "reset", "broken"}
  BY <1>1, <1>4 DEF Worker
<1>6. o.link \in {"up", "ended", "reset", "broken"} /\ (o.valid => o.answered)
  BY <1>4, <1>5, OutcomeTypes DEF Threads
<1>7. c \in Result
  BY <1>4, CountedTypes
<1> HIDE DEF c
<1>8. /\ worker'[w].pc = worker[w].pc /\ worker'[w].link = o.link
      /\ worker'[w].left = worker[w].left - 1 /\ worker'[w].result = c
      /\ worker'[w] \in Worker
  <2> DEFINE l == worker[w].left - 1
  <2>1. l \in Nat
    BY <1>1, <1>4
  <2>2. worker'[w] = [worker[w] EXCEPT !.left = l, !.link = o.link, !.result = c]
    BY <1>1, <1>3 DEF Worker
  <2> HIDE DEF l
  <2>3. /\ worker'[w].pc = worker[w].pc /\ worker'[w].link = o.link
        /\ worker'[w].left = l /\ worker'[w].result = c /\ worker'[w] \in Worker
    BY <1>1, <1>6, <1>7, <2>1, <2>2 DEF Worker
  <2> QED BY <2>3 DEF l
<1>9. c.ok \in Nat /\ c.errors \in Nat /\ c.warmOk \in Nat /\ c.warmErrors \in Nat /\ c.samples \in Nat
  BY <1>7 DEF Result
<1> DEFINE r == worker[w].result
<1>10. r.ok \in Nat /\ r.errors \in Nat /\ r.warmOk \in Nat /\ r.warmErrors \in Nat /\ r.samples \in Nat
  BY <1>4 DEF Result
<1>11. Tally(w)'
  <2>1. CASE worker[w].pc = "warmup"
    <3>1. WarmupTally(w)
      BY <2>1 DEF Tally
    <3>2. /\ c.warmOk + c.warmErrors = r.warmOk + r.warmErrors + 1
          /\ c.ok = r.ok /\ c.errors = r.errors /\ c.samples = r.samples
      BY <1>4, <2>1, CountedWarmup DEF c
    <3>3. c.warmOk + c.warmErrors + (worker[w].left - 1) = Share(Warmup, w)
      <4>1. r.warmOk + r.warmErrors + worker[w].left = Share(Warmup, w)
        BY <3>1 DEF WarmupTally
      <4> DEFINE l == worker[w].left
      <4>2. l \in Nat /\ r.warmOk + r.warmErrors + l = Share(Warmup, w)
        BY <1>4, <4>1
      <4> HIDE DEF l, r
      <4>3. c.warmOk + c.warmErrors + (l - 1) = Share(Warmup, w)
        BY <1>9, <1>10, <3>2, <4>2
      <4> QED BY <4>3 DEF l
    <3>4. WarmupTally(w)'
      BY <1>6, <1>8, <3>1, <3>2, <3>3 DEF WarmupTally, Share
    <3> QED BY <1>8, <2>1, <3>4 DEF Tally
  <2>2. CASE worker[w].pc = "measured"
    <3>1. MeasuredTally(w)
      BY <2>2 DEF Tally
    <3>2. /\ c.warmOk = r.warmOk /\ c.warmErrors = r.warmErrors
          /\ c.ok + c.errors = r.ok + r.errors + 1
          /\ c.samples - r.samples \in {0, 1}
          /\ c.ok - r.ok \in {0, 1} /\ c.ok - r.ok <= c.samples - r.samples
      BY <1>4, <1>6, <2>2, CountedMeasured DEF c
    <3>3. /\ c.ok + c.errors + (worker[w].left - 1) = Share(Ops, w)
          /\ c.ok <= c.samples /\ c.samples <= c.ok + c.errors
      <4> DEFINE l == worker[w].left
      <4>1. /\ l \in Nat /\ r.ok + r.errors + l = Share(Ops, w)
            /\ r.ok <= r.samples /\ r.samples <= r.ok + r.errors
        BY <1>4, <3>1 DEF MeasuredTally
      <4> HIDE DEF l, r
      <4>2. c.ok + c.errors + (l - 1) = Share(Ops, w)
        BY <1>9, <1>10, <3>2, <4>1
      <4>3. c.ok <= c.samples /\ c.samples <= c.ok + c.errors
        BY <1>9, <1>10, <3>2, <4>1
      <4> QED BY <4>2, <4>3 DEF l
    <3>4. MeasuredTally(w)'
      BY <1>6, <1>8, <3>1, <3>2, <3>3 DEF MeasuredTally, Share
    <3> QED BY <1>8, <2>2, <3>4 DEF Tally
  <2> QED BY <2>1, <2>2 DEF Requests, InPhase
<1> QED BY <1>3, <1>8, <1>11 DEF Moves, Requests, InPhase, Running

LEMMA WarmMoves ==
  ASSUME Threads, NEW w \in Workers, Tally(w), EndsWarmup(w) PROVE Moves(w)
<1>1. worker[w] \in Worker /\ Share(Ops, w) \in Nat
  BY BenchmarkAssumption, ShareIsNat DEF Threads
<1>2. /\ worker'[w] = [worker[w] EXCEPT !.pc = "measured", !.left = Share(Ops, w)]
      /\ worker' = [worker EXCEPT ![w] = worker'[w]]
  BY DEF Threads, EndsWarmup
<1>3. /\ worker'[w] \in Worker /\ worker'[w].pc = "measured"
      /\ worker'[w].link = worker[w].link /\ worker'[w].left = Share(Ops, w)
      /\ worker'[w].result = worker[w].result
  BY <1>1, <1>2 DEF Worker
<1>4. WarmupTally(w) /\ worker[w].left = 0
  BY DEF Tally, EndsWarmup
<1> DEFINE r == worker[w].result
<1>5. r.warmOk \in Nat /\ r.warmErrors \in Nat
  BY <1>1 DEF Worker, Result
<1>6. r.warmOk + r.warmErrors = Share(Warmup, w)
  BY <1>4, <1>5 DEF WarmupTally
<1>7. MeasuredTally(w)'
  BY <1>1, <1>3, <1>4, <1>6 DEF WarmupTally, MeasuredTally, Share
<1>8. Tally(w)'
  BY <1>3, <1>7 DEF Tally
<1> QED BY <1>2, <1>3, <1>8 DEF Moves, EndsWarmup, InPhase, Running

LEMMA ReturnMoves ==
  ASSUME Threads, NEW w \in Workers, Tally(w), Returns(w) PROVE Moves(w)
<1>1. worker[w] \in Worker
  BY DEF Threads
<1>2. /\ worker'[w] = [worker[w] EXCEPT !.pc = "returned"]
      /\ worker' = [worker EXCEPT ![w] = worker'[w]]
  BY DEF Threads, Returns
<1>3. /\ worker'[w] \in Worker /\ worker'[w].pc = "returned"
      /\ worker'[w].link = worker[w].link /\ worker'[w].left = worker[w].left
      /\ worker'[w].result = worker[w].result
  BY <1>1, <1>2 DEF Worker
<1>4. MeasuredTally(w) /\ worker[w].left = 0
  BY DEF Tally, Returns
<1>5. MeasuredTally(w)'
  BY <1>3, <1>4 DEF MeasuredTally, Share
<1>6. Tally(w)'
  BY <1>3, <1>4, <1>5 DEF Tally
<1> QED BY <1>2, <1>3, <1>6 DEF Moves, Returns, InPhase, Running

-----------------------------------------------------------------------------
(* The invariant.                                                          *)

LEMMA TallyKept ==
  ASSUME Threads, NEW w \in Workers, Tally(w), driver' = driver, worker'[w] = worker[w]
  PROVE  Tally(w)'
BY DEF Tally, WarmupTally, MeasuredTally, UnconnectedTally, Share, NoResult

LEMMA BenchmarkKept ==
  ASSUME BenchmarkInv, UNCHANGED benchmark PROVE BenchmarkInv'
<1>1. Threads' /\ Joined'
  BY DEF BenchmarkInv, benchmark, Threads, Joined, Summarized, Succeeds, Failed, Chilled, Workers, Total
<1>2. \A w \in Workers : Tally(w)'
  BY TallyKept DEF BenchmarkInv, benchmark
<1> QED BY <1>1, <1>2 DEF BenchmarkInv

LEMMA BenchmarkStep ==
  ASSUME BenchmarkInv, BenchmarkNext PROVE BenchmarkInv'
<1>1. Threads /\ (\A w \in Workers : Tally(w))
  BY DEF BenchmarkInv
<1>2. ASSUME NEW w \in Workers, Moves(w) PROVE BenchmarkInv'
  <2>1. Threads'
    BY <1>1, <1>2 DEF Moves, Threads
  <2>2. ASSUME NEW v \in Workers PROVE Tally(v)'
    <3>1. CASE v = w
      BY <1>2, <3>1 DEF Moves
    <3>2. CASE v # w
      <4>1. worker'[v] = worker[v] /\ driver' = driver
        BY <1>1, <1>2, <3>2 DEF Moves, Threads
      <4> QED BY <1>1, <4>1, TallyKept
    <3> QED BY <3>1, <3>2
  <2>3. Joined'
    BY <1>2 DEF Moves, Joined, Summarized
  <2> QED BY <2>1, <2>2, <2>3 DEF BenchmarkInv
<1>3. ASSUME NEW w \in Workers,
             Launches(w) \/ Connects(w) \/ CannotConnect(w) \/ Requests(w) \/ EndsWarmup(w)
               \/ Returns(w)
      PROVE  BenchmarkInv'
  BY <1>1, <1>2, <1>3, LaunchMoves, ConnectMoves, UnconnectedMoves, RequestMoves, WarmMoves,
     ReturnMoves
<1>4. ASSUME UNCHANGED <<driver, worker>>, Joined' PROVE BenchmarkInv'
  <2>1. Threads'
    BY <1>1, <1>4 DEF Threads
  <2>2. \A w \in Workers : Tally(w)'
    BY <1>1, <1>4, TallyKept
  <2> QED BY <1>4, <2>1, <2>2 DEF BenchmarkInv
<1>5. CASE Prefills \/ PrefillFails \/ PrefillEnds
  BY <1>4, <1>5 DEF Prefills, PrefillFails, PrefillEnds, Joined, Summarized
<1>6. CASE Joins
  <2>1. Succeeds' = Succeeds
    BY <1>6 DEF Joins, Succeeds, Failed, Chilled
  <2> QED BY <1>4, <1>6, <2>1 DEF Joins, Joined
<1>7. ASSUME NEW w \in Workers, IsKilled(w) PROVE BenchmarkInv'
  BY <1>4, <1>7 DEF IsKilled, Joined, Summarized
<1> QED BY <1>3, <1>5, <1>6, <1>7 DEF BenchmarkNext

LEMMA BenchmarkStarts == Init => BenchmarkInv
<1> SUFFICES ASSUME Init PROVE BenchmarkInv
  OBVIOUS
<1>1. NewWorker \in Worker
  BY NoResultType DEF NewWorker, Worker
<1>2. Threads
  BY <1>1 DEF Init, BenchmarkInit, Threads
<1>3. \A w \in Workers : worker[w] = NewWorker
  BY DEF Init, BenchmarkInit
<1>4. \A w \in Workers : Tally(w)
  BY <1>3 DEF Tally, NewWorker
<1>5. Joined
  BY DEF Init, BenchmarkInit, Joined, Summarized
<1> QED BY <1>2, <1>4, <1>5 DEF BenchmarkInv

LEMMA BenchmarkInductive == Spec => []BenchmarkInv
<1>1. BenchmarkInv /\ [Next]_vars => BenchmarkInv'
  <2> SUFFICES ASSUME BenchmarkInv, [Next]_vars PROVE BenchmarkInv'
    OBVIOUS
  <2>1. BenchmarkNext \/ UNCHANGED benchmark
    BY DEF Next, Runs, Ends, Others, vars
  <2> QED BY <2>1, BenchmarkStep, BenchmarkKept
<1> QED BY <1>1, BenchmarkStarts, PTL DEF Spec

-----------------------------------------------------------------------------
(* The summary of the benchmark.                                           *)

LEMMA ResultTypes ==
  ASSUME Threads, NEW w \in Workers
  PROVE  LET r == worker[w].result IN
         /\ r.ok \in Nat /\ r.errors \in Nat /\ r.samples \in Nat
         /\ r.warmOk \in Nat /\ r.warmErrors \in Nat
BY DEF Threads, Worker, Result

\* A worker that has returned has counted its share.
LEMMA ReturnedShares ==
  ASSUME Threads, NEW w \in Workers, Tally(w), worker[w].pc = "returned"
  PROVE  LET r == worker[w].result IN
         /\ r.ok + r.errors = Share(Ops, w)
         /\ r.ok <= r.samples /\ r.samples <= Share(Ops, w)
         /\ IF driver = "tcp" /\ worker[w].link = "none"
            THEN r.warmOk = 0 /\ r.warmErrors = 0
            ELSE r.warmOk + r.warmErrors = Share(Warmup, w)
         /\ worker[w].link = "none" => r.errors = Share(Ops, w)
<1> DEFINE r == worker[w].result
<1>1. /\ r.ok \in Nat /\ r.errors \in Nat /\ r.samples \in Nat
      /\ r.warmOk \in Nat /\ r.warmErrors \in Nat
  BY ResultTypes
<1>2. Share(Ops, w) \in Nat /\ Share(Warmup, w) \in Nat
  BY BenchmarkAssumption, ShareIsNat
<1>3. CASE MeasuredTally(w) /\ worker[w].left = 0
  <2>1. /\ worker[w].link # "none" /\ r.warmOk + r.warmErrors = Share(Warmup, w)
        /\ r.ok + r.errors + 0 = Share(Ops, w)
        /\ r.ok <= r.samples /\ r.samples <= r.ok + r.errors
    BY <1>3 DEF MeasuredTally
  <2>2. r.ok + r.errors = Share(Ops, w)
    BY <1>1, <2>1
  <2> QED BY <2>1, <2>2
<1>4. CASE UnconnectedTally(w)
  <2>1. /\ worker[w].link = "none" /\ r.ok = 0 /\ r.errors = Share(Ops, w) /\ r.samples = 0
        /\ r.warmOk = 0 /\ r.warmErrors = IF driver = "tcp" THEN 0 ELSE Share(Warmup, w)
    BY <1>4 DEF UnconnectedTally
  <2>2. r.ok + r.errors = Share(Ops, w) /\ r.ok <= r.samples /\ r.samples <= Share(Ops, w)
    BY <1>2, <2>1
  <2>3. driver # "tcp" => r.warmOk + r.warmErrors = Share(Warmup, w)
    BY <1>2, <2>1
  <2> QED BY <2>1, <2>2, <2>3
<1> QED BY <1>3, <1>4 DEF Tally

\* Totals keep an order of counts.
LEMMA TotalOrders ==
  ASSUME NEW a \in [Workers -> Int], NEW b \in [Workers -> Int],
         \A w \in Workers : a[w] <= b[w]
  PROVE  Total(a) <= Total(b)
<1> DEFINE d == [w \in Workers |-> b[w] - a[w]]
<1>1. d \in [Workers -> Nat] /\ d \in [Workers -> Int]
  OBVIOUS
<1>2. \A w \in Workers : b[w] = a[w] + d[w]
  OBVIOUS
<1> HIDE DEF d
<1>3. Total(a) \in Int /\ Total(b) = Total(a) + Total(d)
  BY <1>1, <1>2, TotalAdds
<1>4. Total(d) \in Nat
  BY <1>1, TotalCovers
<1> QED BY <1>3, <1>4

LEMMA SummaryCounts ==
  ASSUME BenchmarkInv, Summarized
  PROVE  /\ Answered \in Int /\ Failed \in Nat /\ Warmed \in Int /\ Chilled \in Nat
         /\ Answered + Failed = Ops
         /\ Forgotten \in Int /\ Warmed + Chilled + Forgotten = Warmup
         /\ Answered <= Samples /\ Samples <= Ops
<1>1. /\ Threads /\ Ops \in Nat /\ Warmup \in Nat
      /\ \A w \in Workers : Tally(w) /\ worker[w].pc = "returned"
  BY BenchmarkAssumption DEF BenchmarkInv, Joined
<1> DEFINE ok == [w \in Workers |-> worker[w].result.ok]
           er == [w \in Workers |-> worker[w].result.errors]
           wo == [w \in Workers |-> worker[w].result.warmOk]
           we == [w \in Workers |-> worker[w].result.warmErrors]
           sa == [w \in Workers |-> worker[w].result.samples]
           fo == [w \in Workers |-> IF driver = "tcp" /\ worker[w].link = "none"
                                     THEN Share(Warmup, w) ELSE 0]
           os == [w \in Workers |-> Share(Ops, w)]
           ws == [w \in Workers |-> Share(Warmup, w)]
           wt == [w \in Workers |-> wo[w] + we[w]]
<1>2. /\ \A w \in Workers : Share(Ops, w) \in Nat
      /\ \A w \in Workers : Share(Warmup, w) \in Nat
  BY <1>1, ShareIsNat
<1>3. /\ ok \in [Workers -> Nat] /\ er \in [Workers -> Nat] /\ sa \in [Workers -> Nat]
      /\ wo \in [Workers -> Nat] /\ we \in [Workers -> Nat]
  BY <1>1, ResultTypes
<1>4. os \in [Workers -> Nat] /\ ws \in [Workers -> Nat] /\ fo \in [Workers -> Nat]
  BY <1>2
<1>5. wt \in [Workers -> Nat] /\ \A w \in Workers : wt[w] = wo[w] + we[w]
  BY <1>3
<1>6. ASSUME NEW w \in Workers
      PROVE  /\ os[w] = ok[w] + er[w]
             /\ ok[w] <= sa[w] /\ sa[w] <= os[w]
             /\ ws[w] = wt[w] + fo[w]
  <2> DEFINE r == worker[w].result
  <2>1. /\ r.ok + r.errors = Share(Ops, w)
        /\ r.ok <= r.samples /\ r.samples <= Share(Ops, w)
        /\ IF driver = "tcp" /\ worker[w].link = "none"
           THEN r.warmOk = 0 /\ r.warmErrors = 0
           ELSE r.warmOk + r.warmErrors = Share(Warmup, w)
    BY <1>1, ReturnedShares
  <2>2. ok[w] = r.ok /\ er[w] = r.errors /\ sa[w] = r.samples /\ os[w] = Share(Ops, w)
        /\ wt[w] = r.warmOk + r.warmErrors /\ ws[w] = Share(Warmup, w)
        /\ fo[w] = IF driver = "tcp" /\ worker[w].link = "none" THEN Share(Warmup, w) ELSE 0
    OBVIOUS
  <2>3. Share(Warmup, w) \in Nat
    BY <1>2
  <2> HIDE DEF ok, er, sa, os, ws, wt, fo
  <2>4. ws[w] = wt[w] + fo[w]
    BY <2>1, <2>2, <2>3
  <2> QED BY <2>1, <2>2, <2>4
<1>7. /\ Answered = Total(ok) /\ Failed = Total(er) /\ Warmed = Total(wo)
      /\ Chilled = Total(we) /\ Samples = Total(sa) /\ Forgotten = Total(fo)
  BY DEF Answered, Failed, Warmed, Chilled, Samples, Forgotten
<1>8. Total(os) = Ops /\ Total(ws) = Warmup
  BY <1>1, SharesAddUp
<1> HIDE DEF ok, er, wo, we, sa, fo, os, ws, wt
<1>9. \A f \in [Workers -> Nat] : f \in [Workers -> Int]
  OBVIOUS
<1>10. /\ Total(ok) \in Int /\ Total(er) \in Int
       /\ Total(os) = Total(ok) + Total(er)
  BY <1>3, <1>4, <1>6, <1>9, TotalAdds
<1>11. /\ Total(wo) \in Int /\ Total(we) \in Int
       /\ Total(wt) = Total(wo) + Total(we)
  BY <1>3, <1>5, <1>9, TotalAdds
<1>12. /\ Total(wt) \in Int /\ Total(fo) \in Int
       /\ Total(ws) = Total(wt) + Total(fo)
  BY <1>4, <1>5, <1>6, <1>9, TotalAdds
<1>13. Total(er) \in Nat /\ Total(we) \in Nat
  BY <1>3, TotalCovers
<1>14. Total(ok) <= Total(sa)
  BY <1>3, <1>6, <1>9, TotalOrders
<1>15. Total(sa) <= Total(os)
  BY <1>3, <1>4, <1>6, <1>9, TotalOrders
<1> QED BY <1>7, <1>8, <1>10, <1>11, <1>12, <1>13, <1>14, <1>15

\* However the operations are split, for any number of workers, whichever of them
\* connect, and whatever their requests come to: the summary counts every operation
\* once, and has a latency for every answer.
THEOREM SummariesAddUp == Spec => []EveryOperationCounted
<1>1. BenchmarkInv => EveryOperationCounted
  <2> SUFFICES ASSUME BenchmarkInv, Summarized
               PROVE  /\ Answered + Failed = Ops
                      /\ Warmed + Chilled = Warmup - Forgotten
                      /\ Answered <= Samples /\ Samples <= Ops
    BY DEF EveryOperationCounted
  <2>1. /\ Warmed \in Int /\ Chilled \in Nat /\ Forgotten \in Int
        /\ Warmed + Chilled + Forgotten = Warmup
    BY SummaryCounts
  <2> QED BY <2>1, SummaryCounts
<1> QED BY <1>1, BenchmarkInductive, PTL

LEMMA EveryoneMeasures ==
  ASSUME NEW w \in Workers PROVE Share(Ops, w) \in Nat /\ Share(Ops, w) >= 1
<1>1. Share(Ops, w) \in Nat
  BY BenchmarkAssumption, ShareIsNat
<1>2. Clients \in Nat \ {0} /\ Ops \in Nat /\ Clients <= Ops
  BY BenchmarkAssumption
<1>3. Ops \div Clients >= 1 /\ Ops \div Clients \in Nat
  <2> DEFINE q == Ops \div Clients  r == Ops % Clients
  <2>1. q \in Nat /\ r \in Nat /\ r < Clients /\ Ops = Clients * q + r
    BY <1>2, Divided
  <2> HIDE DEF q, r
  <2>2. q # 0
    <3> SUFFICES ASSUME q = 0 PROVE FALSE
      OBVIOUS
    <3>1. Clients * q = 0
      BY <1>2
    <3> QED BY <1>2, <2>1, <3>1
  <2>3. q >= 1 /\ q \in Nat
    BY <2>1, <2>2
  <2> QED BY <2>3 DEF q
<1>4. (IF w < Ops % Clients THEN 1 ELSE 0) \in {0, 1}
  OBVIOUS
<1> QED BY <1>1, <1>3, <1>4 DEF Share

\* A TCP worker without a connection keeps the run from succeeding, although its
\* warm-up operations are in no count, since every worker has a measured one.
THEOREM SuccessesAreComplete == Spec => []SuccessMeansComplete
<1>1. BenchmarkInv => SuccessMeansComplete
  <2> SUFFICES ASSUME BenchmarkInv, main = "success", driver # "two-sided"
               PROVE  Answered = Ops /\ Warmed = Warmup
    BY DEF SuccessMeansComplete
  <2>1. /\ Threads /\ Failed + Chilled = 0
        /\ \A w \in Workers : Tally(w) /\ worker[w].pc = "returned"
    BY DEF BenchmarkInv, Joined, Summarized, Succeeds
  <2>2. /\ Answered \in Int /\ Failed \in Nat /\ Warmed \in Int /\ Chilled \in Nat
        /\ Answered + Failed = Ops /\ Forgotten \in Int
        /\ Warmed + Chilled + Forgotten = Warmup
    BY SummaryCounts DEF Summarized
  <2>3. Failed = 0 /\ Chilled = 0
    BY <2>1, <2>2
  <2>4. ASSUME NEW w \in Workers PROVE worker[w].link # "none"
    <3> DEFINE er == [v \in Workers |-> worker[v].result.errors]
    <3>1. er \in [Workers -> Nat] /\ Failed = Total(er)
      BY <2>1, ResultTypes DEF Failed
    <3>2. er[w] <= 0 /\ er[w] = worker[w].result.errors
      <4> HIDE DEF er
      <4>1. er[w] <= 0
        BY <2>3, <3>1, TotalCovers
      <4> QED BY <4>1 DEF er
    <3>3. worker[w].link = "none" => worker[w].result.errors = Share(Ops, w)
      BY <2>1, ReturnedShares
    <3>4. Share(Ops, w) >= 1 /\ Share(Ops, w) \in Nat
      BY EveryoneMeasures
    <3> HIDE DEF er
    <3> QED BY <3>2, <3>3, <3>4
  <2>5. Forgotten = 0
    <3> DEFINE zero == [w \in Workers |-> 0]
    <3>1. Forgotten = Total(zero)
      <4>1. zero = [w \in Workers |-> IF driver = "tcp" /\ worker[w].link = "none"
                                      THEN Share(Warmup, w) ELSE 0]
        BY <2>4
      <4> QED BY <4>1 DEF Forgotten
    <3>2. zero \in [Workers -> Int] /\ \A w \in Workers : zero[w] = zero[w] + zero[w]
      OBVIOUS
    <3> HIDE DEF zero
    <3>3. Total(zero) \in Int /\ Total(zero) = Total(zero) + Total(zero)
      BY <3>2, TotalAdds
    <3> DEFINE t == Total(zero)
    <3>4. t \in Int /\ t = t + t
      BY <3>3
    <3> HIDE DEF t
    <3>5. t = 0
      BY <3>4
    <3> QED BY <3>1, <3>5 DEF t
  <2> QED BY <2>2, <2>3, <2>5, BenchmarkAssumption
<1> QED BY <1>1, BenchmarkInductive, PTL
=============================================================================
