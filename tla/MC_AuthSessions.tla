--------------------------- MODULE MC_AuthSessions ---------------------------
(* One member with two requests at a time.  Sessions are numbered as they   *)
(* are created; requests are interchangeable.                               *)
EXTENDS AuthSessions, TLC

ProcSymmetry == Permutations(Procs)
==============================================================================
