-------------------------- MODULE RecordingPromise --------------------------
(***************************************************************************)
(* What becomes of one recording, as whoever made it or wants it gone is   *)
(* promised it: its fate only moves on, its audio is removed only when it  *)
(* is doomed, it is buried once and after its audio, and its burial is     *)
(* told at most once.                                                      *)
(***************************************************************************)
VARIABLES
    fate,       \* how far the recording is
    audio,      \* what its key in the store holds
    astray,     \* whether a deletion looked for its audio in another store
    told        \* whether an audit row tells of its burial

promised == <<fate, audio, astray, told>>

Fates  == {"none", "awaited", "kept", "overdue", "condemned", "buried"}
Audio  == {"never", "stored", "removed", "late"}
Silent == {"removed", "late"}

Init == fate = "none" /\ audio = "never" /\ ~astray /\ told = "no"

Announce == fate = "none" /\ fate' = "awaited" /\ UNCHANGED <<audio, astray, told>>

\* Published, and with a retention of no time overdue at once.
Publish ==
    /\ fate = "awaited" /\ fate' \in {"kept", "overdue"}
    /\ UNCHANGED <<audio, astray, told>>

Expire == fate = "kept" /\ fate' = "overdue" /\ UNCHANGED <<audio, astray, told>>

Condemn ==
    /\ fate \in {"awaited", "kept", "overdue", "condemned"} /\ fate' = "condemned"
    /\ UNCHANGED <<audio, astray, told>>

Fill ==
    /\ fate # "none"
    /\ audio' = IF audio \in Silent THEN "late" ELSE "stored"
    /\ UNCHANGED <<fate, astray, told>>

Remove ==
    /\ fate \in {"overdue", "condemned", "buried"}
    /\ audio' = "removed"
    /\ UNCHANGED <<fate, astray, told>>

Miss ==
    /\ fate \in {"condemned", "buried"}
    /\ astray' = TRUE
    /\ UNCHANGED <<fate, audio, told>>

\* Its audit row is written with it, or is still to come.
Bury ==
    /\ fate \in {"overdue", "condemned"}
    /\ audio \in Silent \/ astray
    /\ fate' = "buried"
    /\ told = "no" /\ told' \in {"no", "yes"}
    /\ UNCHANGED <<audio, astray>>

\* A tally whose tick died is never told.
Tell ==
    /\ fate = "buried" /\ told = "no" /\ told' \in {"yes", "never"}
    /\ UNCHANGED <<fate, audio, astray>>

Next == Announce \/ Publish \/ Expire \/ Condemn \/ Fill \/ Remove \/ Miss \/ Bury \/ Tell

PromiseSpec == Init /\ [][Next]_promised
=============================================================================
