---------------------------- MODULE MC_Credentials ----------------------------
(* One user; requests are interchangeable.                                  *)
EXTENDS Credentials, TLC

ProcSymmetry == Permutations(Procs)
===============================================================================
