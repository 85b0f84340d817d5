--------------------------- MODULE MCRemoteTiming ---------------------------
(* Finite instances of RemoteTiming for TLC.                                *)
EXTENDS RemoteTiming

CONSTANTS v1, v2

TwoVersions == {v1, v2}
=============================================================================
