--------------------------- MODULE MC_CallSession ---------------------------
(* One socket, one call, two audio sources, two handlers awaiting at a     *)
(* time.  No symmetry: the run checks liveness.                            *)
EXTENDS CallSession, TLC
=============================================================================
