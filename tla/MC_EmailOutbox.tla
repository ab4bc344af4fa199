-------------------------- MODULE MC_EmailOutbox --------------------------
(* Two workers, a crash-prone environment and one or two mails.            *)
EXTENDS EmailOutbox

AllFaults == {"crash", "lost_response", "db_error"}
NoFaults == {}
=============================================================================
