--------------------------- MODULE MCExperimentRun ---------------------------
(* The workloads TLC runs ExperimentRun on. *)
EXTENDS ExperimentRun

CONSTANTS p1, p2, s1, c1

\* A production configuration with every command and product declared.
Full == [profile |-> "production", requires |-> TRUE,
         command |-> Stages, produced |-> Stages, reuse |-> FALSE]

\* The smoke baseline, without commands.
Smoke == [profile |-> "smoke", requires |-> FALSE, command |-> {}, produced |-> {}, reuse |-> FALSE]

\* A production configuration whose export command declares no produced_onnx.
Undeclared == [Full EXCEPT !.requires = FALSE, !.produced = {"training", "evaluation"}]

With(c, who, n) ==
  [config |-> c, callers |-> who, faults |-> n, onnx |-> [a \in Creators |-> "nothing"]]

\* The same for every ONNX of fs that a package request may be handed.
Handing(w, fs) == {[w EXCEPT !.onnx = f] : f \in [Creators -> fs]}

\* Every pair of callers with a fault; a pair of pipelines with a creator that is handed
\* an ONNX, without one; two baselines of which the second reuses the ONNX of the first;
\* and one pipeline in every configuration.
MCWorkloads ==
  {With(Full, {p1, p2}, 1), With(Full, {p1, s1}, 1), With([Smoke EXCEPT !.reuse = TRUE], {p1, p2}, 0)}
  \cup Handing(With(Full, {p1, c1}, 1), Handed) \cup Handing(With(Smoke, {p1, c1}, 1), Handed)
  \cup Handing(With(Full, {p1, p2, c1}, 0), Handed \ {"nothing"})
  \cup {With(c, {p1}, 1) : c \in ConfigType}

UndeclaredWorkloads == {With(Undeclared, {p1, p2}, 0)}
=============================================================================
