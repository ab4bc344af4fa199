----------------------------- MODULE MC_CallAssist -----------------------------
(* CallAssist and CallRecord for TLC, one after the other in one run: a    *)
(* behaviour takes the steps of one of them.                               *)
EXTENDS CallAssist, CallRecord

CONSTANTS c1, c2, w1, w2

VARIABLE half \* which of the two takes the steps

MCInit == AssistInit /\ RecordInit /\ half \in {"live", "record"}
MCNext ==
  \/ half = "live" /\ AssistNext /\ UNCHANGED half /\ UNCHANGED recordVars
  \/ half = "record" /\ RecordNext /\ UNCHANGED half /\ UNCHANGED assistVars
MCSpec == MCInit /\ [][MCNext]_<<assistVars, half, recordVars>> /\ AssistFairness /\ RecordFairness

\* What agents wait for comes: their texts are read by a question, the summary
\* of the call is written.
AnswersArrive == TextIsHeard /\ SummaryArrives
=============================================================================
