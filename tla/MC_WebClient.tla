----------------------------- MODULE MC_WebClient -----------------------------
(* Two pages with two requests each; both are interchangeable.              *)
EXTENDS WebClient, TLC

Symmetry == Permutations(Pages) \cup Permutations(Calls)
===============================================================================
