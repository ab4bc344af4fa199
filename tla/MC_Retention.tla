----------------------------- MODULE MC_Retention -----------------------------
(* Two workers; only the second organization has calls and mails.          *)
EXTENDS Retention
===============================================================================
