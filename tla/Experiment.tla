----------------------------- MODULE Experiment -----------------------------
(***************************************************************************)
(* Experiments: the script Measured runs the benchmark drivers between the *)
(* start and the stop of its run, while other scripts try to use the same  *)
(* collector for programs of their own.                                    *)
(***************************************************************************)
EXTENDS Benchmark, MetricsCollector

CONSTANT Measured

ASSUME ExperimentAssumption == Measured \in Scripts

vars == <<benchmark, metrics>>

Init == BenchmarkInit /\ MetricsInit

\* The requests that cross the device whose counters are read: those that bypass the
\* kernel do not (final_report.tex:324-329, 466-471, 515-522).
Crossing(n) == IF driver = "tcp" THEN n ELSE 0

\* A step of the benchmark is what the script's program does.
Runs ==
  /\ script[Measured] = "running" /\ BenchmarkNext
  /\ Counts(Measured, Crossing(sent' - sent))
  /\ UNCHANGED <<script, stops, collector>>

Ended == main \in {"success", "failure", "gave up", "killed"}

\* run_with_optional_metrics stops the run whatever the program's status.
Ends == Ended /\ Finishes(Measured) /\ UNCHANGED benchmark

Others(s) == s # Measured /\ (Works(s) \/ Finishes(s)) /\ UNCHANGED benchmark

Next ==
  \/ Runs \/ Ends
  \/ \E s \in Scripts : Others(s) \/ (Controls(s) /\ UNCHANGED benchmark)
  \/ (Collects /\ UNCHANGED benchmark)

Spec == Init /\ [][Next]_vars

-----------------------------------------------------------------------------
(* Properties                                                              *)

\* What the messages of s contribute to the row of the active run.
InRow(s) == active.after[s] - active.before[s]

\* Of the programs' requests a row has all that its own program sent over the device,
\* from its first to its last, and none that another program sent, however requests to
\* the collector are refused, repeated, fail, or time out.  So the row of a TCP
\* benchmark has each of its requests, and the row of an RDMA benchmark none of them.
\* Any row also has the exchanges of all scripts with the collector while the run is
\* active, and what sets up connections, which is not modelled.
RowsCoverRuns ==
  Handles("stop", "rows") =>
    /\ \A s \in Scripts \ {active.id} : InRow(s) = 0
    /\ InRow(active.id) = IF active.id = Measured THEN Crossing(sent) ELSE traffic[active.id]
=============================================================================
