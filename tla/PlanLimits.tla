------------------------------ MODULE PlanLimits ------------------------------
(***************************************************************************)
(* The hard caps of a plan on customers, knowledge bases, their chunks and *)
(* the calls of a month.  Every path that adds a counted row locks the     *)
(* row of the organization, counts, and inserts before it commits; a path  *)
(* that removes one writes an audit row, whose foreign key waits for that  *)
(* lock.  The month goes on whatever waits.                                *)
(*                                                                         *)
(* Sources: services/billing.ts, repositories/billing.ts, and the callers  *)
(* services/customers.ts, services/knowledge.ts, services/calls.ts.        *)
(***************************************************************************)
EXTENDS Naturals, FiniteSets

CONSTANTS
  Clients,   \* transactions at a time
  Bases,     \* bound: knowledge bases ever created
  MaxChunks, \* bound: chunks of one replacement
  MaxRows,   \* bound: customers at a time and calls of a month
  Months,    \* bound: the months that are seen, 1, 2, ...
  Caps,      \* BILLING_PLAN_LIMITS of the plan, by key
  NoCap      \* null: unlimited

Keys == {"customers", "knowledge_bases", "knowledge_chunks", "monthly_calls"}

\* What the constants must satisfy.
PlanBounds ==
  /\ MaxChunks \in Nat \ {0} /\ MaxRows \in Nat /\ Months \in Nat \ {0}
  /\ IsFiniteSet(Bases) /\ Bases # {}
  /\ NoCap \notin Nat /\ Caps \in [Keys -> Nat \cup {NoCap}]

VARIABLES
  customers, \* rows of customers that are not deleted
  base,      \* knowledge_bases
  chunks,    \* the chunks of each base
  calls,     \* the calls started in each month
  month,     \* the clock
  doing,     \* the transaction of each client
  orgLock    \* the client that has the row of the organization FOR UPDATE

counted == <<customers, base, chunks, calls>>
planVars == <<counted, month, doing, orgLock>>

MonthNumbers == 1 .. Months
Insertions == [key : Keys, base : Bases, adds : 0 .. MaxChunks, began : MonthNumbers,
                 at : {"lock", "count", "write"}]
Idle == [key |-> "none"]

PlanTypeOK ==
  /\ customers \in 0 .. MaxRows
  /\ base \in [Bases -> {"absent", "live", "deleted"}]
  /\ chunks \in [Bases -> 0 .. MaxChunks]
  /\ calls \in [MonthNumbers -> 0 .. MaxRows]
  /\ month \in MonthNumbers
  /\ doing \in [Clients -> Insertions \cup {Idle}]
  /\ orgLock \subseteq Clients

PlanInit ==
  /\ customers = 0 /\ month = 1 /\ orgLock = {}
  /\ base = [k \in Bases |-> "absent"] /\ chunks = [k \in Bases |-> 0]
  /\ calls = [m \in MonthNumbers |-> 0]
  /\ doing = [p \in Clients |-> Idle]

-----------------------------------------------------------------------------
(* getCurrentBillingUsage                                                  *)

Live == {k \in Bases : base[k] = "live"}
ChunkRows == {r \in Live \X (1 .. MaxChunks) : r[2] <= chunks[r[1]]}
ChunkTotal == Cardinality(ChunkRows)

Usage(key) ==
  CASE key = "customers" -> customers
    [] key = "knowledge_bases" -> Cardinality(Live)
    [] key = "knowledge_chunks" -> ChunkTotal
    [] key = "monthly_calls" -> calls[month]

Within(key, n) == Caps[key] = NoCap \/ n <= Caps[key]

\* The total a replacement leads to: the chunks of the base are counted even
\* when it is deleted, and then nothing will be written.
Target(k, n) == LET total == ChunkTotal + n IN IF total > chunks[k] THEN total - chunks[k] ELSE 0

Allowed(d) ==
  IF d.key = "knowledge_chunks"
  THEN Target(d.base, d.adds) = 0 \/ Within(d.key, Target(d.base, d.adds))
  ELSE Within(d.key, Usage(d.key) + 1)

-----------------------------------------------------------------------------
(* createCustomer, createKnowledgeBase, createCall, replaceKnowledgeChunks *)

Is(p, at) == doing[p] # Idle /\ doing[p].at = at

\* The transaction starts: now() of the database is this moment from here on.
Begin(p, key, k, n) ==
  /\ doing[p] = Idle
  /\ doing' = [doing EXCEPT ![p] =
       [key |-> key, base |-> k, adds |-> n, began |-> month, at |-> "lock"]]
  /\ UNCHANGED <<counted, month, orgLock>>

BugLock(p) ==
  /\ Is(p, "lock")
  /\ orgLock' = orgLock \cup {p}
  /\ doing' = [doing EXCEPT ![p].at = "count"]
  /\ UNCHANGED <<counted, month>>

\* lockCurrentOrganization
Lock(p) ==
  /\ Is(p, "lock") /\ orgLock = {}
  /\ orgLock' = {p}
  /\ doing' = [doing EXCEPT ![p].at = "count"]
  /\ UNCHANGED <<counted, month>>

Closes(p) == doing' = [doing EXCEPT ![p] = Idle] /\ orgLock' = orgLock \ {p}

\* assertPlanAllows and assertPlanAllowsAbsolute: over the cap is a 403.
Count(p) ==
  /\ Is(p, "count")
  /\ IF Allowed(doing[p]) THEN doing' = [doing EXCEPT ![p].at = "write"] /\ UNCHANGED orgLock
     ELSE Closes(p)
  /\ UNCHANGED <<counted, month>>

\* started_at is now() of the transaction, the month it began in.
MonthOf(d) == d.began

InsertCustomer(d) ==
  /\ d.key = "customers" /\ customers < MaxRows
  /\ customers' = customers + 1
  /\ UNCHANGED <<base, chunks, calls>>

InsertBase(d) ==
  /\ d.key = "knowledge_bases"
  /\ base' = [base EXCEPT ![d.base] = IF @ = "absent" THEN "live" ELSE @]
  /\ UNCHANGED <<customers, chunks, calls>>

\* Nothing for a base that is deleted by now: a 404.
ReplaceChunks(d) ==
  /\ d.key = "knowledge_chunks"
  /\ chunks' = IF base[d.base] = "live" THEN [chunks EXCEPT ![d.base] = d.adds] ELSE chunks
  /\ UNCHANGED <<customers, base, calls>>

InsertCall(d) ==
  /\ d.key = "monthly_calls" /\ calls[MonthOf(d)] < MaxRows
  /\ calls' = [calls EXCEPT ![MonthOf(d)] = @ + 1]
  /\ UNCHANGED <<customers, base, chunks>>

\* The insert, the audit row and COMMIT
Write(p) ==
  /\ Is(p, "write")
  /\ Closes(p)
  /\ \/ InsertCustomer(doing[p])
     \/ InsertBase(doing[p])
     \/ ReplaceChunks(doing[p])
     \/ InsertCall(doing[p])
  /\ UNCHANGED month

-----------------------------------------------------------------------------
(* The paths that remove a row, and the clock                              *)

\* deleteCustomer
DeleteCustomer ==
  /\ customers > 0 /\ orgLock = {}
  /\ customers' = customers - 1
  /\ UNCHANGED <<base, chunks, calls, month, doing, orgLock>>

\* softDeleteKnowledgeBase: its chunks stay
DeleteBase(k) ==
  /\ base[k] = "live" /\ orgLock = {}
  /\ base' = [base EXCEPT ![k] = "deleted"]
  /\ UNCHANGED <<customers, chunks, calls, month, doing, orgLock>>

MonthEnds ==
  /\ month < Months
  /\ month' = month + 1
  /\ UNCHANGED <<counted, doing, orgLock>>

AnyBase == CHOOSE k \in Bases : TRUE

PlanNext ==
  \/ \E p \in Clients, key \in {"customers", "monthly_calls"} : Begin(p, key, AnyBase, 1)
  \/ \E p \in Clients, k \in Bases : base[k] = "absent" /\ Begin(p, "knowledge_bases", k, 1)
  \/ \E p \in Clients, k \in Bases, n \in 0 .. MaxChunks : base[k] = "live" /\ Begin(p, "knowledge_chunks", k, n)
  \/ \E p \in Clients : Lock(p)
  \/ \E p \in Clients : Count(p)
  \/ \E p \in Clients : Write(p)
  \/ DeleteCustomer
  \/ \E k \in Bases : DeleteBase(k)
  \/ MonthEnds

PlanSpec == PlanInit /\ [][PlanNext]_planVars

-----------------------------------------------------------------------------
(* Properties                                                              *)

\* No cap of the plan is ever exceeded, two transactions at the last free
\* unit included: each counts what the one before it has committed.  Of the
\* months, the current one is meant.
PlanHolds == \A key \in Keys : Within(key, Usage(key))

\* A month that is over stays within the cap too: the count and the row agree
\* on the month (services/calls.ts, createCall).
EveryMonthHolds == \A m \in MonthNumbers : Within("monthly_calls", calls[m])

=============================================================================
