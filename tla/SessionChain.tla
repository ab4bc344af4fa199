----------------------------- MODULE SessionChain -----------------------------
(***************************************************************************)
(* What the refresh tokens of one membership promise whoever holds them: a *)
(* session is opened by a login, in a family of its own, lives until it is *)
(* revoked, and hands its place to at most one successor, which takes over *)
(* its family and its factor.                                              *)
(***************************************************************************)
EXTENDS Naturals

CONSTANTS Sessions, None

VARIABLES
  live,      \* sessions that are not revoked
  used,      \* sessions that exist or existed
  successor, \* the session a rotation put in the place of another
  family,    \* the first session of the login a session comes from
  factor     \* sessions that passed a second factor

vars == <<live, used, successor, family, factor>>

Init ==
  /\ live = {} /\ used = {} /\ factor = {}
  /\ successor = [s \in Sessions |-> None]
  /\ family = [s \in Sessions |-> None]

\* A login, with or without a second factor.
Open(s) ==
  /\ s \notin used
  /\ used' = used \cup {s} /\ live' = live \cup {s}
  /\ family' = [family EXCEPT ![s] = s]
  /\ factor' \in {factor, factor \cup {s}}
  /\ UNCHANGED successor

\* The token of s is exchanged for one of t.
Rotate(s, t) ==
  /\ s \in live /\ t \notin used
  /\ used' = used \cup {t} /\ live' = (live \ {s}) \cup {t}
  /\ successor' = [successor EXCEPT ![s] = t]
  /\ family' = [family EXCEPT ![t] = family[s]]
  /\ factor' = IF s \in factor THEN factor \cup {t} ELSE factor

Revoke(S) ==
  /\ S \subseteq live
  /\ live' = live \ S
  /\ UNCHANGED <<used, successor, family, factor>>

\* The holder of s confirms a second factor.
Confirm(s) ==
  /\ s \in live
  /\ factor' = factor \cup {s}
  /\ UNCHANGED <<live, used, successor, family>>

Next ==
  \/ \E s \in Sessions : Open(s) \/ Confirm(s)
  \/ \E s, t \in Sessions : Rotate(s, t)
  \/ \E S \in SUBSET Sessions : Revoke(S)

Spec == Init /\ [][Next]_vars
===============================================================================
