--------------------------- MODULE MCStageCommand ---------------------------
(* Instances of StageCommand for TLC. *)
EXTENDS StageCommand

CONSTANT loader

\* Training prints two lines and forks a data loader, export does neither.
TwoLines  == <<2, 0>>
OneHelper == <<{loader}, {}>>
=============================================================================
