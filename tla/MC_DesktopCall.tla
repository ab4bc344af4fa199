---------------------------- MODULE MC_DesktopCall ----------------------------
(* DesktopCall and AudioCapture for TLC, in one run: a behaviour takes the *)
(* steps of one of them.                                                   *)
EXTENDS DesktopCall, AudioCapture

CONSTANTS t1, t2
AnyToggle == {TRUE, FALSE}
BlockSizes == {2, 6}
TwoTicks == {t1, t2}

VARIABLE half

MCInit == DesktopInit /\ AudioInit /\ half \in {"call", "audio"}
MCNext ==
  \/ half = "call" /\ DesktopNext /\ UNCHANGED half /\ UNCHANGED audio
  \/ half = "audio" /\ AudioNext /\ UNCHANGED half /\ UNCHANGED desktop
MCSpec == MCInit /\ [][MCNext]_<<desktop, half, audio>> /\ DesktopFairness
=============================================================================
