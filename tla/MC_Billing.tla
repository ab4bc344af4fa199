------------------------------ MODULE MC_Billing ------------------------------
(* Seats, PlanLimits and the two sides of the activity log for TLC, one    *)
(* after the other in one run: a behaviour takes the steps of one of them. *)
(* What the first two share, the row of the organization, is part of each. *)
EXTENDS Seats, PlanLimits, ActivityRecord, ActivityFeed, TLC

CONSTANTS o1, o2, ann, bob, cat, r1, r2, k1, k2, q, call, recording

VARIABLE part \* which of them takes the steps

\* Room for one row of each kind, and for two chunks.
MCCaps == [key \in Keys |-> IF key = "knowledge_chunks" THEN 2 ELSE 1]

ASSUME PlanConfigured == PlanBounds

\* One e-mail invited by two organizations, and a second to the first, which
\* has a member who is disabled and enabled, and two seats.
MCAddresses == {<<o1, ann>>, <<o2, ann>>, <<o1, bob>>, <<o1, cat>>}
MCFounders == {<<o1, cat>>}
MCLimits == {2}
Swaps == Permutations(Requests)

\* Two payloads to be refused and two that only look like it.
MCSlips ==
  { { <<<<"customer">>, <<"api", "key">>>> }, { <<<<"csrf", "token">>>> },
    { <<<<"customer">>, <<"drawer">>>> }, { <<<<"auth", "token", "id">>>> } }

\* All of the time there is, and its second millisecond.
MCRanges == {<<0, 1>>, <<1, 1>>}

MCInit ==
  /\ Init /\ PlanInit /\ AuditInit /\ FeedInit
  /\ part \in {"seats", "rows", "record", "feed"}
  /\ part # "feed" =>
       load = Resting([action |-> AnyAction, range |-> <<0, 1>>], 1) /\ chosen = load.filter
MCNext ==
  \/ part = "seats" /\ Next /\ UNCHANGED <<part, planVars, auditVars, feedVars>>
  \/ part = "rows" /\ PlanNext /\ UNCHANGED <<part, vars, auditVars, feedVars>>
  \/ part = "record" /\ AuditNext /\ UNCHANGED <<part, vars, planVars, feedVars>>
  \/ part = "feed" /\ FeedNext /\ UNCHANGED <<part, vars, planVars, auditVars>>
MCSpec == MCInit /\ [][MCNext]_<<vars, part, planVars, auditVars, feedVars>>
=============================================================================
