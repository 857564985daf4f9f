------------------------ MODULE MCDeploymentFeedback ------------------------
(***************************************************************************)
(* DeploymentFeedback on small instances.                                  *)
(***************************************************************************)
EXTENDS DeploymentFeedback

CONSTANTS v1, v2, i1, i2

OneVersion == {v1}
TwoVersions == {v1, v2}
OneInstance == {i1}
TwoInstances == {i1, i2}
\* Three of the five statuses: a path, a way back and a third status to reject.
ThreeStatuses == {"approved", "active", "retired"}
TwoStatuses == {"approved", "active"}
=============================================================================
