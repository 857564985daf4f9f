--------------------------- MODULE MCPipelineJobs ---------------------------
(***************************************************************************)
(* PipelineJobs on small instances.                                        *)
(***************************************************************************)
EXTENDS PipelineJobs, TLC

CONSTANTS j1, j2, c1, c2, k1, i1, i2, w1, w2, r1, r2

OneJob == {j1}
TwoJobs == {j1, j2}
OneConfig == {c1}
TwoConfigs == {c1, c2}
OneKey == {k1}
\* Both files name the same experiment.
OneKeyOf == [c \in Configs |-> k1]
\* The second file's requests ask for no run record.
PersistFirst == [c \in Configs |-> c = c1]
OneInstance == {i1}
TwoInstances == {i1, i2}
OneId == {w1}
TwoIds == {w1, w2}
OneClient == {r1}
TwoClients == {r1, r2}

\* Jobs, ids and clients are interchangeable; configs are not (Persist).
JobSymmetry == Permutations(Jobs) \cup Permutations(WorkerIds) \cup Permutations(Clients)
FullSymmetry == JobSymmetry \cup Permutations(Instances)
=============================================================================
