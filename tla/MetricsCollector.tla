-------------------------- MODULE MetricsCollector --------------------------
(***************************************************************************)
(* The metrics collector: a server of one request at a time that measures  *)
(* one run at a time, and the experiment scripts that start a run on it,   *)
(* run a program, and stop the run, through metrics_client.                *)
(*                                                                         *)
(* A sampling thread of the collector appends to the run's samples while   *)
(* it is active, and for a while after.  The collector reads the counters  *)
(* of one network device, which whatever crosses it adds to: requests of   *)
(* the scripts' programs, and those to the collector itself, which listens *)
(* on the same address (README.md:85-111).                                 *)
(***************************************************************************)
EXTENDS Integers, Sequences

CONSTANTS Scripts,
          MaxSamples,   \* bound: timed samples of a run
          MaxWork,      \* bound: requests of a script's program
          MaxStops,     \* bound: stop commands of a script
          Control,      \* stands for the collector and metrics_client as senders
          NoRun, NoRequest

VARIABLES script,      \* where each script is
          stops,       \* the stop commands it has given
          backlog,     \* requests that were made and not accepted
          handling,    \* the request at hand: [script, action, attempt, stage, process, host]
          active,      \* the active run, see NewRun
          traffic      \* the network counters, by who added to them

collector == <<backlog, handling, active>>
metrics   == <<script, stops, collector, traffic>>

\* The device adds everything up, and the code sees the sum of these parts only.
Senders == Scripts \cup {Control}
Counters == [Senders -> Int]

\* A script has a run_id of its own, and may give the stop command again.
Request == [script : Scripts, action : {"start", "stop"}, attempt : Nat]

\* process, host: how many samples have been averaged for the row.
Handling == [script : Scripts, action : {"start", "stop"}, attempt : Nat,
             stage : {"dispatch", "join", "process", "host", "rows"}, process : Int, host : Int]

\* before, after: the counters; stop: the stop event; sampler: where the thread is;
\* samples: how many it has appended.  A thread that outlives its run is left out:
\* nobody looks at its samples any more.
Run == [id : Scripts, before : Counters, after : Counters, stop : BOOLEAN,
        sampler : {"waiting", "sampling", "sampling last", "ended"}, samples : Int]

ASSUME MetricsAssumption ==
  Control \notin Scripts /\ NoRun \notin Run /\ NoRequest \notin Handling

NewRun(s) == [id |-> s, before |-> traffic, after |-> traffic, stop |-> FALSE,
              sampler |-> "waiting", samples |-> 0]

MetricsInit ==
  /\ script = [s \in Scripts |-> "idle"] /\ stops = [s \in Scripts |-> 0]
  /\ backlog = <<>> /\ handling = NoRequest /\ active = NoRun
  /\ traffic = [s \in Senders |-> 0]

\* What n messages of s that cross the device do to its counters.
Counts(s, n) == traffic' = [traffic EXCEPT ![s] = @ + n]

-----------------------------------------------------------------------------
(* The scripts.                                                            *)

\* metrics_client connects and sends its request.
Asks(s, action, waiting) ==
  /\ backlog' = Append(backlog, [script |-> s, action |-> action, attempt |-> stops'[s]])
  /\ script' = [script EXCEPT ![s] = waiting]
  /\ Counts(Control, 1)
  /\ UNCHANGED <<handling, active>>

AsksToStart(s) ==
  /\ script[s] = "idle"
  /\ stops' = stops /\ Asks(s, "start", "starting")

\* Its program makes a request over the device.
Works(s) ==
  /\ script[s] = "running" /\ traffic[s] < MaxWork
  /\ Counts(s, 1)
  /\ UNCHANGED <<script, stops, collector>>

\* The program ends, and its status is kept for later.
Finishes(s) ==
  /\ script[s] = "running"
  /\ script' = [script EXCEPT ![s] = "finished"]
  /\ UNCHANGED <<stops, collector, traffic>>

AsksToStop(s) ==
  /\ script[s] = "finished" /\ stops[s] < MaxStops
  /\ stops' = [stops EXCEPT ![s] = @ + 1] /\ Asks(s, "stop", "stopping")

\* metrics_client gives up after ten seconds.  set -e ends the script, before the
\* program if it was starting; whoever runs it may give the stop command again.
TimesOut(s) ==
  /\ script[s] \in {"starting", "stopping"}
  /\ script' = [script EXCEPT ![s] = IF @ = "starting" THEN "aborted" ELSE "finished"]
  /\ UNCHANGED <<stops, collector, traffic>>

-----------------------------------------------------------------------------
(* The collector.                                                          *)

Accepts ==
  /\ handling = NoRequest /\ backlog # <<>>
  /\ handling' = [script |-> Head(backlog).script, action |-> Head(backlog).action,
                  attempt |-> Head(backlog).attempt, stage |-> "dispatch",
                  process |-> 0, host |-> 0]
  /\ backlog' = Tail(backlog)
  /\ UNCHANGED <<script, stops, active, traffic>>

Handles(action, stage) ==
  handling # NoRequest /\ handling.action = action /\ handling.stage = stage

\* The response is sent; it reaches the script if it still waits for this one.
Replies(ok) ==
  LET s == handling.script
      waiting == /\ script[s] = IF handling.action = "start" THEN "starting" ELSE "stopping"
                 /\ stops[s] = handling.attempt
      next == CASE handling.action = "start" -> IF ok THEN "running" ELSE "aborted"
                [] OTHER -> IF ok THEN "done" ELSE "finished"
  IN /\ handling' = NoRequest
     /\ script' = [script EXCEPT ![s] = IF waiting THEN next ELSE @]
     /\ Counts(Control, 1)
     /\ UNCHANGED <<stops, backlog>>

\* Fault: a run that is active is replaced.
StartsAnyway ==
  /\ Handles("start", "dispatch")
  /\ active' = NewRun(handling.script) /\ Replies(TRUE)

\* start_run, no run being active.
StartsRun ==
  /\ Handles("start", "dispatch") /\ active = NoRun
  /\ active' = NewRun(handling.script) /\ Replies(TRUE)

\* A run is active, or its process or the counters cannot be read.
RefusesStart ==
  /\ Handles("start", "dispatch")
  /\ active' = active /\ Replies(FALSE)

IsActive(s) == active # NoRun /\ active.id = s

\* stop_run: there is no run, or it is another one.
RefusesStop ==
  /\ Handles("stop", "dispatch") /\ ~IsActive(handling.script)
  /\ active' = active /\ Replies(FALSE)

StopsSampler ==
  /\ Handles("stop", "dispatch") /\ IsActive(handling.script)
  /\ active' = [active EXCEPT !.stop = TRUE]
  /\ handling' = [handling EXCEPT !.stage = "join"]
  /\ UNCHANGED <<script, stops, backlog, traffic>>

\* join(timeout=2.0) returns when the thread has ended, or when it has not; then
\* the counters are read.
ReadsCounters ==
  /\ Handles("stop", "join")
  /\ active' = [active EXCEPT !.after = traffic]
  /\ handling' = [handling EXCEPT !.stage = "process"]
  /\ UNCHANGED <<script, stops, backlog, traffic>>

\* They cannot be read: the run stays active.
CannotReadCounters ==
  /\ Handles("stop", "join")
  /\ active' = active /\ Replies(FALSE)

\* The list comprehensions over the samples, one after the other.
ReadsProcessValues ==
  /\ Handles("stop", "process")
  /\ handling' = [handling EXCEPT !.stage = "host", !.process = active.samples]
  /\ UNCHANGED <<script, stops, backlog, active, traffic>>

ReadsHostValues ==
  /\ Handles("stop", "host")
  /\ handling' = [handling EXCEPT !.stage = "rows", !.host = active.samples]
  /\ UNCHANGED <<script, stops, backlog, active, traffic>>

\* The rows are made, with the number of samples, and no run is active; if the
\* script has gone, the rows are lost.
StopsRun ==
  /\ Handles("stop", "rows")
  /\ active' = NoRun /\ Replies(TRUE)

-----------------------------------------------------------------------------
(* The sampling thread of the active run.                                  *)

Sampler(next, appended) ==
  /\ active' = [active EXCEPT !.sampler = next, !.samples = @ + appended]
  /\ UNCHANGED <<script, stops, backlog, handling, traffic>>

\* wait() returns at the end of the interval, or because of the stop event.
Wakes ==
  /\ active # NoRun /\ active.sampler = "waiting"
  /\ active.stop \/ active.samples < MaxSamples
  /\ Sampler(IF active.stop THEN "sampling last" ELSE "sampling", 0)

\* Fault: what wait() returned is not looked at.
AppendsAgain ==
  /\ active # NoRun /\ active.sampler \in {"sampling", "sampling last"}
  /\ active.samples < MaxSamples + 3
  /\ Sampler("waiting", 1)

\* It appends what it sampled, unless no time has passed, and goes on until wait()
\* has returned for the stop event.
Appends ==
  /\ active # NoRun /\ active.sampler \in {"sampling", "sampling last"}
  /\ \E appended \in {0, 1} :
       Sampler(IF active.sampler = "sampling" THEN "waiting" ELSE "ended", appended)

\* The process it samples has gone, before the first sample or at a later one.
GivesUp ==
  /\ active # NoRun /\ active.sampler # "ended"
  /\ Sampler("ended", 0)

-----------------------------------------------------------------------------
Collects ==
  \/ Accepts \/ StartsRun \/ RefusesStart \/ RefusesStop \/ StopsSampler
  \/ ReadsCounters \/ CannotReadCounters \/ ReadsProcessValues \/ ReadsHostValues \/ StopsRun
  \/ Wakes \/ Appends \/ GivesUp

Controls(s) == AsksToStart(s) \/ AsksToStop(s) \/ TimesOut(s)

-----------------------------------------------------------------------------
(* Properties                                                              *)

\* A row's averages of process and host, and its number of samples, are taken of the
\* same samples, but for at most the two that a thread which outlived the join still
\* appends: the one it was taking when it was told to stop, and a last.
SamplesAgree ==
  Handles("stop", "rows") =>
    /\ handling.process <= handling.host /\ handling.host <= active.samples
    /\ active.samples <= handling.process + 2
=============================================================================
