----------------------------- MODULE Billing_proofs -----------------------------
(***************************************************************************)
(* Proofs about Seats and PlanLimits, for every number of transactions,    *)
(* rows and caps: no cap of a plan is exceeded, invitations are kept and   *)
(* transactions never wait for each other. About ActivityFeed, for every   *)
(* number of rows and page sizes: the feed shows the log it reads. About   *)
(* ActivityRecord, for every number of writers and every payload: a change *)
(* is committed with its row, and nothing secret is in the log.            *)
(***************************************************************************)
EXTENDS Seats, PlanLimits, ActivityRecord, ActivityFeed, FiniteSetTheorems, TLAPS

-----------------------------------------------------------------------------
(* PlanLimits: the inductive invariant                                     *)

\* Who has counted and not ended has the row of the organization locked.
Holder ==
  /\ \A p \in Clients : p \in orgLock <=> Is(p, "count") \/ Is(p, "write")
  /\ \A p, q \in orgLock : p = q

\* A base that is not there yet has no chunks, a month to come no calls.
Ahead ==
  /\ \A k \in Bases : base[k] = "absent" => chunks[k] = 0
  /\ \A m \in MonthNumbers : m > month => calls[m] = 0
  /\ \A p \in Clients : doing[p] # Idle => doing[p].began <= month

\* What was allowed still is when it is written; of the months, in the one it
\* was counted in.
StillAllowed(p) ==
  Is(p, "write") =>
    (doing[p].key = "monthly_calls" /\ doing[p].began # month) \/ Allowed(doing[p])

CapInv ==
  /\ PlanTypeOK /\ Holder /\ Ahead /\ PlanHolds
  /\ \A p \in Clients : StillAllowed(p)

-----------------------------------------------------------------------------
(* Counting                                                                *)

\* n rows of one base
LEMMA Column ==
    ASSUME NEW k, NEW n \in Nat
    PROVE  IsFiniteSet({k} \X (1 .. n)) /\ Cardinality({k} \X (1 .. n)) = n
<1>1. IsFiniteSet(1 .. n) /\ Cardinality(1 .. n) = n
  <2>1. IsFiniteSet(1 .. n) /\ Cardinality(1 .. n) = IF 1 > n THEN 0 ELSE n - 1 + 1
    BY FS_Interval
  <2>. QED BY <2>1
<1>2. IsFiniteSet({k}) /\ Cardinality({k}) = 1
  BY FS_Singleton
<1>3. IsFiniteSet({k} \X (1 .. n)) /\ Cardinality({k} \X (1 .. n)) = 1 * n
  BY <1>1, <1>2, FS_Product
<1>. QED BY <1>3

\* Of two disjoint sets the second is counted on top.
LEMMA Disjoint ==
    ASSUME NEW S, NEW T, IsFiniteSet(S), IsFiniteSet(T), S \cap T = {}
    PROVE  /\ IsFiniteSet(S \cup T) /\ Cardinality(S \cup T) = Cardinality(S) + Cardinality(T)
           /\ Cardinality(S) \in Nat /\ Cardinality(T) \in Nat
<1>1. Cardinality({}) = 0
  BY FS_EmptySet
<1>2. Cardinality(S) \in Nat /\ Cardinality(T) \in Nat
  BY FS_CardinalityType
<1>3. /\ IsFiniteSet(S \cup T)
      /\ Cardinality(S \cup T) = Cardinality(S) + Cardinality(T) - Cardinality(S \cap T)
  BY FS_Union
<1>4. Cardinality(S \cap T) = 0
  BY <1>1
<1>5. Cardinality(S \cup T) = Cardinality(S) + Cardinality(T)
  BY <1>2, <1>3, <1>4
<1>. QED BY <1>2, <1>3, <1>5

LEMMA Bounds ==
    ASSUME PlanBounds
    PROVE  /\ MaxChunks \in Nat \ {0} /\ MaxRows \in Nat /\ Months \in Nat \ {0}
           /\ IsFiniteSet(Bases) /\ Bases # {} /\ AnyBase \in Bases
           /\ \A key \in Keys : Caps[key] \in Nat \/ Caps[key] = NoCap
           /\ MonthNumbers \subseteq Nat
<1>1. /\ MaxChunks \in Nat \ {0} /\ MaxRows \in Nat /\ Months \in Nat \ {0}
      /\ IsFiniteSet(Bases) /\ Bases # {}
  BY DEF PlanBounds
<1>2. AnyBase \in Bases
  BY <1>1 DEF AnyBase
<1>3. \A key \in Keys : Caps[key] \in Nat \/ Caps[key] = NoCap
  BY DEF PlanBounds
<1>4. MonthNumbers \subseteq Nat
  BY <1>1 DEF MonthNumbers
<1>. QED BY <1>1, <1>2, <1>3, <1>4

\* A cap that holds for a number holds for a smaller one.
LEMMA WithinLess ==
    ASSUME PlanBounds, NEW key \in Keys, NEW m \in Nat, NEW n \in Nat, m <= n, Within(key, n)
    PROVE  Within(key, m)
BY Bounds DEF Within

LEMMA LiveIs ==
    ASSUME PlanBounds
    PROVE  /\ Live \subseteq Bases /\ IsFiniteSet(Live) /\ Cardinality(Live) \in Nat
           /\ IsFiniteSet(ChunkRows) /\ ChunkTotal \in Nat
<1>1. IsFiniteSet(Live) /\ Live \subseteq Bases
  BY Bounds, FS_Subset DEF Live
<1>2. IsFiniteSet(1 .. MaxChunks)
  BY Bounds, FS_Interval
<1>3. IsFiniteSet(Live \X (1 .. MaxChunks))
  BY <1>1, <1>2, FS_Product
<1>4. IsFiniteSet(ChunkRows)
  BY <1>3, FS_Subset DEF ChunkRows
<1>5. Cardinality(Live) \in Nat
  BY <1>1, FS_CardinalityType
<1>6. ChunkTotal \in Nat
  BY <1>4, FS_CardinalityType DEF ChunkTotal
<1>. QED BY <1>1, <1>4, <1>5, <1>6

\* The rows of one live base and those of the others
LEMMA ChunksOf ==
    ASSUME PlanBounds, NEW k \in Live, chunks[k] \in 0 .. MaxChunks
    PROVE  LET rest == {r \in ChunkRows : r[1] # k} IN
           /\ IsFiniteSet(rest) /\ Cardinality(rest) \in Nat
           /\ ChunkTotal = Cardinality(rest) + chunks[k]
<1>. DEFINE rest == {r \in ChunkRows : r[1] # k}
            mine == {k} \X (1 .. chunks[k])
<1>1. ChunkRows = rest \cup mine
  BY Bounds DEF ChunkRows
<1>2. rest \cap mine = {}
  OBVIOUS
<1>3. IsFiniteSet(rest)
  BY LiveIs, FS_Subset
<1>4. IsFiniteSet(mine) /\ Cardinality(mine) = chunks[k]
  <2>1. chunks[k] \in Nat
    BY Bounds
  <2>. QED BY <2>1, Column
<1>. HIDE DEF rest, mine
<1>5. Cardinality(rest \cup mine) = Cardinality(rest) + Cardinality(mine) /\ Cardinality(rest) \in Nat
  BY <1>2, <1>3, <1>4, Disjoint
<1>6. ChunkTotal = Cardinality(rest) + chunks[k]
  BY <1>1, <1>4, <1>5 DEF ChunkTotal
<1>. QED BY <1>3, <1>5, <1>6 DEF rest

\* What a replacement makes of the total.
LEMMA ReplacedTotal ==
    ASSUME PlanBounds, NEW k \in Live, NEW n \in 0 .. MaxChunks,
           chunks \in [Bases -> 0 .. MaxChunks], base' = base, chunks' = [chunks EXCEPT ![k] = n]
    PROVE  ChunkTotal' = Target(k, n)
<1>. DEFINE rest == {r \in ChunkRows : r[1] # k}
            mine == {k} \X (1 .. n)
<1>0. chunks[k] \in 0 .. MaxChunks /\ n \in Nat /\ k \in Bases /\ chunks[k] \in Nat
  BY Bounds, LiveIs
<1>1. IsFiniteSet(rest) /\ Cardinality(rest) \in Nat /\ ChunkTotal = Cardinality(rest) + chunks[k]
  BY <1>0, ChunksOf
<1>2. ChunkRows' = rest \cup mine
  <2>1. Live' = Live
    BY DEF Live
  <2>2. chunks'[k] = n /\ \A b \in Bases \ {k} : chunks'[b] = chunks[b]
    BY <1>0
  <2>3. ChunkRows' = {r \in Live \X (1 .. MaxChunks) : r[2] <= chunks'[r[1]]}
    BY <2>1 DEF ChunkRows
  <2>4. \A b \in Live, c \in 1 .. MaxChunks :
          (c <= chunks'[b]) <=> (b # k /\ c <= chunks[b]) \/ (b = k /\ c <= n)
    BY <2>2, LiveIs
  <2>5. rest = {r \in Live \X (1 .. MaxChunks) : r[1] # k /\ r[2] <= chunks[r[1]]}
    BY DEF ChunkRows
  <2>6. mine = {r \in Live \X (1 .. MaxChunks) : r[1] = k /\ r[2] <= n}
    BY <1>0, Bounds
  <2>. HIDE DEF rest, mine
  <2>. QED BY <2>3, <2>4, <2>5, <2>6
<1>3. rest \cap mine = {}
  OBVIOUS
<1>4. IsFiniteSet(mine) /\ Cardinality(mine) = n
  BY <1>0, Column
<1>. HIDE DEF rest, mine
<1>5. ChunkTotal' = Cardinality(rest) + n
  <2>1. Cardinality(rest \cup mine) = Cardinality(rest) + Cardinality(mine)
    BY <1>1, <1>3, <1>4, Disjoint
  <2>. QED BY <1>2, <1>4, <2>1 DEF ChunkTotal
<1>. QED BY <1>0, <1>1, <1>5 DEF Target

-----------------------------------------------------------------------------
(* PlanLimits: the steps                                                   *)

LEMMA InsertionIs ==
    ASSUME PlanTypeOK, NEW p \in Clients, doing[p] # Idle
    PROVE  /\ doing[p] \in Insertions /\ doing[p].key \in Keys /\ doing[p].base \in Bases
           /\ doing[p].adds \in 0 .. MaxChunks /\ doing[p].began \in MonthNumbers
<1>1. doing[p] \in Insertions
  BY DEF PlanTypeOK
<1>. QED BY <1>1 DEF Insertions

LEMMA NotIdle ==
    ASSUME NEW d \in Insertions PROVE d # Idle
<1>1. d.key \in Keys
  BY DEF Insertions
<1>2. Idle.key \notin Keys
  BY DEF Idle, Keys
<1>. QED BY <1>1, <1>2

\* A step of p that leaves the counted rows and the month.
LEMMA OneGoesOn ==
    ASSUME PlanBounds, CapInv, NEW p \in Clients, NEW d \in Insertions,
           doing' = [doing EXCEPT ![p] = d], UNCHANGED <<counted, month>>,
           d.began <= month,
           \/ d.at = "lock" /\ orgLock' = orgLock /\ p \notin orgLock
           \/ d.at = "count" /\ orgLock = {} /\ orgLock' = {p}
           \/ d.at = "write" /\ orgLock' = orgLock /\ p \in orgLock /\ Allowed(d)
    PROVE  CapInv'
<1>0. /\ PlanTypeOK /\ Holder /\ Ahead /\ PlanHolds /\ \A q \in Clients : StillAllowed(q)
      /\ UNCHANGED <<customers, base, chunks, calls, month>>
  BY DEF CapInv, counted
<1>1. /\ doing' \in [Clients -> Insertions \cup {Idle}] /\ doing'[p] = d
      /\ \A q \in Clients \ {p} : doing'[q] = doing[q]
      /\ d # Idle
  BY <1>0, NotIdle DEF PlanTypeOK
<1>2. /\ Is(p, "count")' <=> d.at = "count"
      /\ Is(p, "write")' <=> d.at = "write"
      /\ \A q \in Clients \ {p} : /\ Is(q, "count")' <=> Is(q, "count")
                                  /\ Is(q, "write")' <=> Is(q, "write")
  BY <1>1 DEF Is
<1>3. PlanTypeOK'
  BY <1>0, <1>1 DEF PlanTypeOK
<1>4. Holder'
  <2>1. \A q \in Clients : q \in orgLock' <=> Is(q, "count")' \/ Is(q, "write")'
    BY <1>0, <1>2 DEF Holder
  <2>2. \A q, r \in orgLock' : q = r
    BY <1>0 DEF Holder
  <2>. QED BY <2>1, <2>2 DEF Holder
<1>5. Ahead'
  BY <1>0, <1>1 DEF Ahead
<1>6. \A key \in Keys : Usage(key)' = Usage(key)
  BY <1>0 DEF Usage, Live, ChunkTotal, ChunkRows
<1>7. PlanHolds'
  BY <1>0, <1>6 DEF PlanHolds, Within
<1>8. \A e : Allowed(e)' <=> Allowed(e)
  BY <1>0 DEF Allowed, Usage, Target, Live, ChunkTotal, ChunkRows, Within
<1>9. ASSUME NEW q \in Clients PROVE StillAllowed(q)'
  <2>1. CASE q = p
    BY <1>1, <1>2, <1>8, <2>1 DEF StillAllowed, Allowed, Usage, Target, Live, ChunkTotal, ChunkRows, Within
  <2>2. CASE q # p
    BY <1>0, <1>1, <1>2, <1>8, <2>2 DEF StillAllowed
  <2>. QED BY <2>1, <2>2
<1>. QED BY <1>3, <1>4, <1>5, <1>7, <1>9 DEF CapInv


\* The holder of the row ends, or nobody holds it: no count is pending.
LEMMA NobodyCounts ==
    ASSUME CapInv, PlanTypeOK', Ahead', PlanHolds',
           \/ \E p \in Clients : p \in orgLock /\ Closes(p)
           \/ orgLock = {} /\ UNCHANGED <<doing, orgLock>>
    PROVE  CapInv'
<1>0. Holder /\ PlanTypeOK
  BY DEF CapInv
<1>1. orgLock' = {} /\ \A q \in Clients : ~Is(q, "count")' /\ ~Is(q, "write")'
  <2>1. CASE orgLock = {} /\ UNCHANGED <<doing, orgLock>>
    <3>1. \A q \in Clients : ~Is(q, "count") /\ ~Is(q, "write")
      BY <1>0, <2>1 DEF Holder
    <3>. QED BY <2>1, <3>1 DEF Is
  <2>2. CASE \E p \in Clients : p \in orgLock /\ Closes(p)
    <3>1. PICK p \in Clients : p \in orgLock /\ Closes(p)
      BY <2>2
    <3>2. orgLock' = {} /\ \A q \in Clients \ {p} : q \notin orgLock
      BY <1>0, <3>1 DEF Holder, Closes
    <3>3. doing'[p] = Idle /\ \A q \in Clients \ {p} : doing'[q] = doing[q]
      BY <1>0, <3>1 DEF Closes, PlanTypeOK
    <3>4. ~Is(p, "count")' /\ ~Is(p, "write")'
      BY <3>3 DEF Is
    <3>5. \A q \in Clients \ {p} : ~Is(q, "count")' /\ ~Is(q, "write")'
      BY <1>0, <3>2, <3>3 DEF Is, Holder
    <3>. QED BY <3>2, <3>4, <3>5
  <2>. QED BY <2>1, <2>2
<1>2. Holder'
  BY <1>1 DEF Holder
<1>3. \A q \in Clients : StillAllowed(q)'
  BY <1>1 DEF StillAllowed
<1>. QED BY <1>2, <1>3 DEF CapInv

LEMMA InsertCustomerStep ==
    ASSUME PlanBounds, CapInv, NEW p \in Clients, Is(p, "write"), Closes(p),
           InsertCustomer(doing[p]), month' = month
    PROVE  CapInv'
<1>0. /\ PlanTypeOK /\ Ahead /\ PlanHolds /\ p \in orgLock
      /\ customers < MaxRows /\ customers' = customers + 1 /\ UNCHANGED <<base, chunks, calls>>
      /\ doing[p].key = "customers" /\ Allowed(doing[p])
  BY DEF CapInv, InsertCustomer, Holder, StillAllowed
<1>1. doing' \in [Clients -> Insertions \cup {Idle}] /\ orgLock' \subseteq Clients
  BY <1>0 DEF PlanTypeOK, Closes
<1>2. PlanTypeOK'
  BY <1>0, <1>1, Bounds DEF PlanTypeOK
<1>3. Ahead'
  BY <1>0 DEF Ahead, Closes, PlanTypeOK
<1>4. PlanHolds'
  <2>1. Within("customers", customers')
    BY <1>0 DEF Allowed, Usage
  <2>2. \A key \in Keys \ {"customers"} : Usage(key)' = Usage(key)
    BY <1>0 DEF Usage, Live, ChunkTotal, ChunkRows, Keys
  <2>3. Usage("customers")' = customers'
    BY DEF Usage
  <2>4. ASSUME NEW key \in Keys PROVE Within(key, Usage(key))'
    <3>1. CASE key = "customers"
      BY <2>1, <2>3, <3>1 DEF Within
    <3>2. CASE key # "customers"
      BY <1>0, <2>2, <3>2 DEF PlanHolds, Within
    <3>. QED BY <3>1, <3>2
  <2>. QED BY <2>4 DEF PlanHolds
<1>. QED BY <1>0, <1>2, <1>3, <1>4, NobodyCounts

LEMMA InsertBaseStep ==
    ASSUME PlanBounds, CapInv, NEW p \in Clients, Is(p, "write"), Closes(p),
           InsertBase(doing[p]), month' = month
    PROVE  CapInv'
<1>. DEFINE k == doing[p].base
            x == IF base[k] = "absent" THEN "live" ELSE base[k]
<1>0. /\ PlanTypeOK /\ Ahead /\ PlanHolds /\ p \in orgLock
      /\ base' = [base EXCEPT ![k] = x] /\ UNCHANGED <<customers, chunks, calls>>
      /\ doing[p].key = "knowledge_bases" /\ Allowed(doing[p]) /\ doing[p] # Idle
  BY DEF CapInv, InsertBase, Holder, StillAllowed, Is
<1>1. k \in Bases
  BY <1>0, InsertionIs
<1>2. /\ base' \in [Bases -> {"absent", "live", "deleted"}] /\ base'[k] = x
      /\ \A b \in Bases \ {k} : base'[b] = base[b]
  BY <1>0, <1>1 DEF PlanTypeOK
<1>3. PlanTypeOK'
  <2>1. doing' \in [Clients -> Insertions \cup {Idle}] /\ orgLock' \subseteq Clients
    BY <1>0 DEF PlanTypeOK, Closes
  <2>. QED BY <1>0, <1>2, <2>1 DEF PlanTypeOK
<1>4. Ahead'
  BY <1>0, <1>1, <1>2 DEF Ahead, Closes, PlanTypeOK
<1>5. CASE base[k] # "absent"
  <2>1. base' = base
    BY <1>0, <1>5 DEF PlanTypeOK
  <2>2. \A key \in Keys : Usage(key)' = Usage(key)
    BY <1>0, <2>1 DEF Usage, Live, ChunkTotal, ChunkRows
  <2>3. PlanHolds'
    BY <1>0, <2>2 DEF PlanHolds, Within
  <2>. QED BY <1>0, <1>3, <1>4, <2>3, NobodyCounts
<1>6. CASE base[k] = "absent"
  <2>1. Live' = Live \cup {k} /\ k \notin Live
    BY <1>1, <1>2, <1>6 DEF Live
  <2>2. Cardinality(Live') = Cardinality(Live) + 1
    BY <2>1, LiveIs, FS_AddElement
  <2>3. ChunkRows' = ChunkRows
    <3>1. chunks[k] = 0
      BY <1>0, <1>1, <1>6 DEF Ahead
    <3>2. ChunkRows' = {r \in Live' \X (1 .. MaxChunks) : r[2] <= chunks[r[1]]}
      BY <1>0 DEF ChunkRows
    <3>. QED BY <2>1, <3>1, <3>2, Bounds DEF ChunkRows
  <2>4. Within("knowledge_bases", Usage("knowledge_bases"))'
    <3>1. Allowed(doing[p]) => Within("knowledge_bases", Cardinality(Live) + 1)
      BY <1>0 DEF Allowed, Usage
    <3>. QED BY <1>0, <2>2, <3>1 DEF Usage, Within
  <2>5. \A key \in Keys \ {"knowledge_bases"} : Usage(key)' = Usage(key)
    BY <1>0, <2>3 DEF Usage, ChunkTotal, Keys
  <2>6. PlanHolds'
    BY <1>0, <2>4, <2>5 DEF PlanHolds, Within
  <2>. QED BY <1>0, <1>3, <1>4, <2>6, NobodyCounts
<1>. QED BY <1>5, <1>6


LEMMA ReplaceChunksStep ==
    ASSUME PlanBounds, CapInv, NEW p \in Clients, Is(p, "write"), Closes(p),
           ReplaceChunks(doing[p]), month' = month
    PROVE  CapInv'
<1>. DEFINE k == doing[p].base
            n == doing[p].adds
<1>0. /\ PlanTypeOK /\ Ahead /\ PlanHolds /\ p \in orgLock
      /\ chunks' = IF base[k] = "live" THEN [chunks EXCEPT ![k] = n] ELSE chunks
      /\ UNCHANGED <<customers, base, calls>>
      /\ doing[p].key = "knowledge_chunks" /\ Allowed(doing[p]) /\ doing[p] # Idle
  BY DEF CapInv, ReplaceChunks, Holder, StillAllowed, Is
<1>1. k \in Bases /\ n \in 0 .. MaxChunks /\ chunks \in [Bases -> 0 .. MaxChunks]
  BY <1>0, InsertionIs DEF PlanTypeOK
<1>2. PlanTypeOK'
  <2>1. doing' \in [Clients -> Insertions \cup {Idle}] /\ orgLock' \subseteq Clients
    BY <1>0 DEF PlanTypeOK, Closes
  <2>2. chunks' \in [Bases -> 0 .. MaxChunks]
    BY <1>0, <1>1
  <2>. QED BY <1>0, <2>1, <2>2 DEF PlanTypeOK
<1>3. Ahead'
  <2>1. \A b \in Bases : base[b] # "live" => chunks'[b] = chunks[b]
    BY <1>0, <1>1
  <2>2. \A b \in Bases : base'[b] = "absent" => chunks'[b] = 0
    BY <1>0, <2>1 DEF Ahead
  <2>3. \A q \in Clients : doing'[q] # Idle => doing[q] # Idle /\ doing'[q] = doing[q]
    BY <1>0 DEF Closes, PlanTypeOK
  <2>. QED BY <1>0, <2>2, <2>3 DEF Ahead
<1>4. \A key \in Keys \ {"knowledge_chunks"} : Usage(key)' = Usage(key)
  BY <1>0 DEF Usage, Live, Keys
<1>5. Within("knowledge_chunks", ChunkTotal)'
  <2>1. CASE base[k] = "live"
    <3>1. k \in Live
      BY <1>1, <2>1 DEF Live
    <3>2. ChunkTotal' = Target(k, n)
      BY <1>0, <1>1, <2>1, <3>1, ReplacedTotal
    <3>3. Target(k, n) = 0 \/ Within("knowledge_chunks", Target(k, n))
      BY <1>0 DEF Allowed
    <3>4. Within("knowledge_chunks", 0)
      BY Bounds DEF Within, Keys
    <3>. QED BY <3>2, <3>3, <3>4 DEF Within
  <2>2. CASE base[k] # "live"
    <3>1. ChunkTotal' = ChunkTotal
      BY <1>0, <2>2 DEF ChunkTotal, ChunkRows, Live
    <3>. QED BY <1>0, <3>1 DEF PlanHolds, Within, Keys, Usage
  <2>. QED BY <2>1, <2>2
<1>6. PlanHolds'
  <2>1. Usage("knowledge_chunks")' = ChunkTotal'
    BY DEF Usage
  <2>. QED BY <1>0, <1>4, <1>5, <2>1 DEF PlanHolds, Within
<1>. QED BY <1>0, <1>2, <1>3, <1>6, NobodyCounts

\* The month the call was counted in is the one it is written to, if it is still
\* the present one.
LEMMA InsertCallStep ==
    ASSUME PlanBounds, CapInv, NEW p \in Clients, Is(p, "write"), Closes(p),
           InsertCall(doing[p]), month' = month
    PROVE  CapInv'
<1>. DEFINE m == doing[p].began
<1>0. /\ PlanTypeOK /\ Ahead /\ PlanHolds /\ p \in orgLock /\ StillAllowed(p)
      /\ calls[m] < MaxRows /\ calls' = [calls EXCEPT ![m] = calls[m] + 1]
      /\ UNCHANGED <<customers, base, chunks>>
      /\ doing[p].key = "monthly_calls" /\ doing[p] # Idle
  BY DEF CapInv, InsertCall, MonthOf, Holder, Is
<1>1. m \in MonthNumbers /\ m <= month /\ month \in MonthNumbers /\ calls \in [MonthNumbers -> 0 .. MaxRows]
  BY <1>0, InsertionIs DEF PlanTypeOK, Ahead
<1>2. /\ calls' \in [MonthNumbers -> 0 .. MaxRows] /\ calls'[m] = calls[m] + 1
      /\ \A i \in MonthNumbers \ {m} : calls'[i] = calls[i]
  BY <1>0, <1>1, Bounds
<1>3. PlanTypeOK'
  <2>1. doing' \in [Clients -> Insertions \cup {Idle}] /\ orgLock' \subseteq Clients
    BY <1>0 DEF PlanTypeOK, Closes
  <2>. QED BY <1>0, <1>2, <2>1 DEF PlanTypeOK
<1>4. Ahead'
  <2>1. \A i \in MonthNumbers : i > month' => calls'[i] = 0
    BY <1>0, <1>1, <1>2, Bounds DEF Ahead
  <2>2. \A q \in Clients : doing'[q] # Idle => doing[q] # Idle /\ doing'[q] = doing[q]
    BY <1>0 DEF Closes, PlanTypeOK
  <2>. QED BY <1>0, <2>1, <2>2 DEF Ahead
<1>5. \A key \in Keys \ {"monthly_calls"} : Usage(key)' = Usage(key)
  BY <1>0 DEF Usage, Live, ChunkTotal, ChunkRows, Keys
<1>6. Within("monthly_calls", calls'[month])
  <2>1. CASE m = month
    <3>1. Allowed(doing[p])
      BY <1>0, <2>1 DEF StillAllowed
    <3>2. Within("monthly_calls", calls[month] + 1)
      BY <1>0, <3>1 DEF Allowed, Usage
    <3>. QED BY <1>2, <2>1, <3>2
  <2>2. CASE m # month
    <3>1. calls'[month] = calls[month]
      BY <1>1, <1>2, <2>2
    <3>. QED BY <1>0, <3>1 DEF PlanHolds, Keys, Usage
  <2>. QED BY <2>1, <2>2
<1>7. PlanHolds'
  <2>1. Usage("monthly_calls")' = calls'[month]
    BY DEF Usage
  <2>. QED BY <1>0, <1>5, <1>6, <2>1 DEF PlanHolds, Within
<1>. QED BY <1>0, <1>3, <1>4, <1>7, NobodyCounts

\* A row is removed while nobody holds the organization.
LEMMA RemovalSteps ==
    ASSUME PlanBounds, CapInv, DeleteCustomer \/ \E k \in Bases : DeleteBase(k)
    PROVE  CapInv'
<1>0. PlanTypeOK /\ Ahead /\ PlanHolds
  BY DEF CapInv
<1>1. CASE DeleteCustomer
  <2>0. /\ customers > 0 /\ customers \in 0 .. MaxRows /\ customers' = customers - 1 /\ orgLock = {}
        /\ UNCHANGED <<base, chunks, calls, month, doing, orgLock>>
    BY <1>0, <1>1 DEF DeleteCustomer, PlanTypeOK
  <2>1. PlanTypeOK' /\ Ahead'
    BY <1>0, <2>0, Bounds DEF PlanTypeOK, Ahead
  <2>2. Within("customers", customers')
    <3>1. Within("customers", customers)
      BY <1>0 DEF PlanHolds, Keys, Usage
    <3>2. "customers" \in Keys /\ customers' \in Nat /\ customers \in Nat /\ customers' <= customers
      BY <2>0, Bounds DEF Keys
    <3>. QED BY <3>1, <3>2, WithinLess
  <2>3. \A key \in Keys \ {"customers"} : Usage(key)' = Usage(key)
    BY <2>0 DEF Usage, Live, ChunkTotal, ChunkRows, Keys
  <2>4. Usage("customers")' = customers'
    BY DEF Usage
  <2>5. PlanHolds'
    BY <1>0, <2>2, <2>3, <2>4 DEF PlanHolds, Within
  <2>. QED BY <2>0, <2>1, <2>5, NobodyCounts
<1>2. CASE \E k \in Bases : DeleteBase(k)
  <2>0. PICK k \in Bases :
          /\ base[k] = "live" /\ orgLock = {} /\ base' = [base EXCEPT ![k] = "deleted"]
          /\ UNCHANGED <<customers, chunks, calls, month, doing, orgLock>>
    BY <1>2 DEF DeleteBase
  <2>1. PlanTypeOK'
    BY <1>0, <2>0 DEF PlanTypeOK
  <2>2. Ahead'
    BY <1>0, <2>0 DEF PlanTypeOK, Ahead
  <2>3. Live' \subseteq Live /\ ChunkRows' \subseteq ChunkRows
    <3>1. Live' \subseteq Live
      BY <1>0, <2>0 DEF Live, PlanTypeOK
    <3>. QED BY <2>0, <3>1 DEF ChunkRows
  <2>4. /\ Cardinality(Live') \in Nat /\ Cardinality(Live') <= Cardinality(Live)
        /\ ChunkTotal' \in Nat /\ ChunkTotal' <= ChunkTotal
    <3>1. \A S, T : IsFiniteSet(S) /\ T \in SUBSET S =>
             IsFiniteSet(T) /\ Cardinality(T) <= Cardinality(S) /\ Cardinality(T) \in Nat
      BY FS_Subset, FS_CardinalityType
    <3>2. Cardinality(Live') \in Nat /\ Cardinality(Live') <= Cardinality(Live)
      BY <2>3, <3>1, LiveIs
    <3>3. Cardinality(ChunkRows') \in Nat /\ Cardinality(ChunkRows') <= Cardinality(ChunkRows)
      BY <2>3, <3>1, LiveIs
    <3>. QED BY <3>2, <3>3 DEF ChunkTotal
  <2>5. \A key \in {"customers", "monthly_calls"} : Usage(key)' = Usage(key)
    BY <2>0 DEF Usage
  <2>6. Within("knowledge_bases", Usage("knowledge_bases"))'
    <3>1. Within("knowledge_bases", Cardinality(Live))
      BY <1>0 DEF PlanHolds, Keys, Usage
    <3>2. Within("knowledge_bases", Cardinality(Live'))
      BY <2>4, <3>1, WithinLess, LiveIs DEF Keys
    <3>. QED BY <3>2 DEF Usage, Within
  <2>7. Within("knowledge_chunks", Usage("knowledge_chunks"))'
    <3>1. Within("knowledge_chunks", ChunkTotal)
      BY <1>0 DEF PlanHolds, Keys, Usage
    <3>2. Within("knowledge_chunks", ChunkTotal')
      BY <2>4, <3>1, WithinLess, LiveIs DEF Keys
    <3>. QED BY <3>2 DEF Usage, Within
  <2>8. PlanHolds'
    BY <1>0, <2>5, <2>6, <2>7 DEF PlanHolds, Within, Keys
  <2>. QED BY <2>0, <2>1, <2>2, <2>8, NobodyCounts
<1>. QED BY <1>1, <1>2


\* A new month has no calls, and a call that is under way belongs to an older one.
LEMMA MonthEndsStep ==
    ASSUME PlanBounds, CapInv, MonthEnds PROVE CapInv'
<1>0. /\ PlanTypeOK /\ Holder /\ Ahead /\ PlanHolds /\ \A q \in Clients : StillAllowed(q)
      /\ month < Months /\ month' = month + 1 /\ month \in Nat /\ month' \in MonthNumbers
      /\ UNCHANGED <<customers, base, chunks, calls, doing, orgLock>>
  <2>1. month \in MonthNumbers /\ month < Months
    BY DEF CapInv, PlanTypeOK, MonthEnds
  <2>2. month \in Nat /\ month + 1 \in MonthNumbers
    BY <2>1, Bounds DEF MonthNumbers
  <2>. QED BY <2>2 DEF CapInv, MonthEnds, counted
<1>1. PlanTypeOK'
  BY <1>0 DEF PlanTypeOK
<1>2. Holder'
  BY <1>0 DEF Holder, Is
<1>3. Ahead'
  <2>1. \A p \in Clients : doing[p] # Idle => doing[p].began \in Nat
    BY <1>0, InsertionIs, Bounds
  <2>2. \A m \in MonthNumbers : m > month' => m > month
    BY <1>0, Bounds
  <2>. QED BY <1>0, <2>1, <2>2 DEF Ahead
<1>4. \A key \in Keys \ {"monthly_calls"} : Usage(key)' = Usage(key)
  BY <1>0 DEF Usage, Live, ChunkTotal, ChunkRows, Keys
<1>5. PlanHolds'
  <2>1. calls[month'] = 0
    BY <1>0 DEF Ahead
  <2>2. Within("monthly_calls", Usage("monthly_calls"))'
    <3>1. Usage("monthly_calls")' = 0
      BY <1>0, <2>1 DEF Usage
    <3>. QED BY <3>1, Bounds DEF Within, Keys
  <2>. QED BY <1>0, <1>4, <2>2 DEF PlanHolds, Within
<1>6. ASSUME NEW q \in Clients PROVE StillAllowed(q)'
  <2>. SUFFICES ASSUME Is(q, "write")', ~(doing'[q].key = "monthly_calls" /\ doing'[q].began # month')
                PROVE  Allowed(doing[q])'
    BY <1>0 DEF StillAllowed
  <2>1. Is(q, "write") /\ doing[q] # Idle /\ doing'[q] = doing[q]
    BY <1>0 DEF Is
  <2>2. doing[q].began <= month /\ doing[q].began \in Nat /\ doing[q].key \in Keys
    BY <1>0, <2>1, InsertionIs, Bounds DEF Ahead
  <2>3. doing[q].key # "monthly_calls"
    BY <1>0, <2>1, <2>2
  <2>4. Allowed(doing[q])
    BY <1>0, <2>1, <2>3 DEF StillAllowed
  <2>5. ChunkTotal' = ChunkTotal /\ Usage(doing[q].key)' = Usage(doing[q].key)
    BY <1>0, <1>4, <2>2, <2>3 DEF ChunkTotal, ChunkRows, Live
  <2>6. Target(doing[q].base, doing[q].adds)' = Target(doing[q].base, doing[q].adds)
    BY <1>0, <2>5 DEF Target
  <2>. QED BY <2>1, <2>4, <2>5, <2>6 DEF Allowed, Within
<1>. QED BY <1>1, <1>2, <1>3, <1>5, <1>6 DEF CapInv

LEMMA PlanInitially ==
    ASSUME PlanBounds, PlanInit PROVE CapInv
<1>0. /\ customers = 0 /\ month = 1 /\ orgLock = {}
      /\ base = [k \in Bases |-> "absent"] /\ chunks = [k \in Bases |-> 0]
      /\ calls = [m \in MonthNumbers |-> 0] /\ doing = [p \in Clients |-> Idle]
  BY DEF PlanInit
<1>1. PlanTypeOK
  <2>1. month \in MonthNumbers /\ customers \in 0 .. MaxRows
    BY <1>0, Bounds DEF MonthNumbers
  <2>2. /\ base \in [Bases -> {"absent", "live", "deleted"}] /\ chunks \in [Bases -> 0 .. MaxChunks]
        /\ calls \in [MonthNumbers -> 0 .. MaxRows]
    BY <1>0, Bounds
  <2>3. doing \in [Clients -> Insertions \cup {Idle}] /\ orgLock \subseteq Clients
    BY <1>0
  <2>. QED BY <2>1, <2>2, <2>3 DEF PlanTypeOK
<1>2. Holder /\ Ahead /\ \A p \in Clients : StillAllowed(p)
  BY <1>0 DEF Holder, Ahead, StillAllowed, Is
<1>3. Live = {} /\ ChunkRows = {}
  BY <1>0 DEF Live, ChunkRows
<1>4. Cardinality({}) = 0
  BY FS_EmptySet
<1>5. ASSUME NEW key \in Keys PROVE Within(key, Usage(key))
  <2>1. Usage(key) = 0
    BY <1>0, <1>1, <1>3, <1>4 DEF Usage, ChunkTotal, Keys, PlanTypeOK
  <2>. QED BY <2>1, Bounds DEF Within
<1>. QED BY <1>1, <1>2, <1>5 DEF CapInv, PlanHolds

LEMMA PlanStutter ==
    ASSUME CapInv, UNCHANGED planVars PROVE CapInv'
<1>0. UNCHANGED <<customers, base, chunks, calls, month, doing, orgLock>>
  BY DEF planVars, counted
<1>1. /\ PlanTypeOK' /\ Ahead' /\ PlanHolds'
  BY <1>0 DEF CapInv, PlanTypeOK, Ahead, PlanHolds, Within, Usage, Live, ChunkTotal, ChunkRows
<1>2. Holder'
  BY <1>0 DEF CapInv, Holder, Is
<1>3. \A q \in Clients : StillAllowed(q)'
  BY <1>0 DEF CapInv, StillAllowed, Is, Allowed, Target, Within, Usage, Live, ChunkTotal, ChunkRows
<1>. QED BY <1>1, <1>2, <1>3 DEF CapInv

LEMMA BeginStep ==
    ASSUME PlanBounds, CapInv, NEW p \in Clients, NEW key \in Keys, NEW k \in Bases,
           NEW n \in 0 .. MaxChunks, Begin(p, key, k, n)
    PROVE  CapInv'
<1>. DEFINE d == [key |-> key, base |-> k, adds |-> n, began |-> month, at |-> "lock"]
<1>1. /\ doing[p] = Idle /\ doing' = [doing EXCEPT ![p] = d] /\ UNCHANGED <<counted, month, orgLock>>
  BY DEF Begin
<1>2. d \in Insertions /\ d.began = month /\ d.at = "lock" /\ month <= month
  BY Bounds DEF CapInv, PlanTypeOK, Insertions
<1>3. p \notin orgLock
  BY <1>1 DEF CapInv, Holder, Is
<1>. HIDE DEF d
<1>. QED BY <1>1, <1>2, <1>3, OneGoesOn

LEMMA LockStep ==
    ASSUME PlanBounds, CapInv, NEW p \in Clients, Lock(p) PROVE CapInv'
<1>. DEFINE d == [doing[p] EXCEPT !.at = "count"]
<1>1. /\ Is(p, "lock") /\ orgLock = {} /\ orgLock' = {p} /\ doing' = [doing EXCEPT ![p] = d]
      /\ UNCHANGED <<counted, month>> /\ doing[p] # Idle /\ PlanTypeOK /\ Ahead
  BY DEF Lock, Is, CapInv
<1>2. doing[p] \in Insertions
  BY <1>1, InsertionIs
<1>3. d \in Insertions /\ d.began = doing[p].began /\ d.at = "count"
  BY <1>2 DEF Insertions
<1>4. doing[p].began <= month
  BY <1>1 DEF Ahead
<1>. HIDE DEF d
<1>. QED BY <1>1, <1>3, <1>4, OneGoesOn

LEMMA CountStep ==
    ASSUME PlanBounds, CapInv, NEW p \in Clients, Count(p) PROVE CapInv'
<1>. DEFINE d == [doing[p] EXCEPT !.at = "write"]
<1>1. /\ Is(p, "count") /\ doing[p] # Idle /\ PlanTypeOK /\ Ahead /\ PlanHolds
      /\ UNCHANGED <<counted, month>> /\ p \in orgLock
  BY DEF Count, Is, CapInv, Holder
<1>2. CASE Allowed(doing[p])
  <2>1. doing' = [doing EXCEPT ![p] = d] /\ orgLock' = orgLock
    BY <1>2 DEF Count
  <2>2. doing[p] \in Insertions /\ doing[p].began <= month
    BY <1>1, InsertionIs DEF Ahead
  <2>3. /\ d \in Insertions /\ d.began = doing[p].began /\ d.at = "write"
        /\ d.key = doing[p].key /\ d.base = doing[p].base /\ d.adds = doing[p].adds
    BY <2>2 DEF Insertions
  <2>. HIDE DEF d
  <2>4. Allowed(d)
    BY <1>2, <2>3 DEF Allowed
  <2>. QED BY <1>1, <2>1, <2>2, <2>3, <2>4, OneGoesOn
<1>3. CASE ~Allowed(doing[p])
  <2>1. Closes(p) /\ UNCHANGED <<customers, base, chunks, calls, month>>
    BY <1>1, <1>3 DEF Count, counted
  <2>2. doing' \in [Clients -> Insertions \cup {Idle}] /\ orgLock' \subseteq Clients
    BY <1>1, <2>1 DEF PlanTypeOK, Closes
  <2>3. PlanTypeOK' /\ PlanHolds'
    BY <1>1, <2>1, <2>2 DEF PlanTypeOK, PlanHolds, Within, Usage, Live, ChunkTotal, ChunkRows
  <2>4. Ahead'
    BY <1>1, <2>1 DEF Ahead, Closes, PlanTypeOK
  <2>. QED BY <1>1, <2>1, <2>3, <2>4, NobodyCounts
<1>. QED BY <1>2, <1>3

LEMMA PlanStepwise ==
    ASSUME PlanBounds, CapInv, [PlanNext]_planVars PROVE CapInv'
<1>1. CASE \E p \in Clients, key \in {"customers", "monthly_calls"} : Begin(p, key, AnyBase, 1)
  <2>1. AnyBase \in Bases /\ 1 \in 0 .. MaxChunks /\ {"customers", "monthly_calls"} \subseteq Keys
    BY Bounds DEF Keys
  <2>. QED BY <1>1, <2>1, BeginStep
<1>2. CASE \E p \in Clients, k \in Bases :
             base[k] = "absent" /\ Begin(p, "knowledge_bases", k, 1)
  <2>1. 1 \in 0 .. MaxChunks /\ "knowledge_bases" \in Keys
    BY Bounds DEF Keys
  <2>. QED BY <1>2, <2>1, BeginStep
<1>3. CASE \E p \in Clients, k \in Bases, n \in 0 .. MaxChunks :
             base[k] = "live" /\ Begin(p, "knowledge_chunks", k, n)
  <2>1. "knowledge_chunks" \in Keys
    BY DEF Keys
  <2>. QED BY <1>3, <2>1, BeginStep
<1>4. CASE \E p \in Clients : Lock(p) \/ Count(p)
  BY <1>4, LockStep, CountStep
<1>5. CASE \E p \in Clients : Write(p)
  BY <1>5, InsertCustomerStep, InsertBaseStep, ReplaceChunksStep, InsertCallStep DEF Write
<1>6. CASE DeleteCustomer \/ \E k \in Bases : DeleteBase(k)
  BY <1>6, RemovalSteps
<1>7. CASE MonthEnds
  BY <1>7, MonthEndsStep
<1>8. CASE UNCHANGED planVars
  BY <1>8, PlanStutter
<1>. QED BY <1>1, <1>2, <1>3, <1>4, <1>5, <1>6, <1>7, <1>8 DEF PlanNext

LEMMA PlanInvariance == ASSUME PlanBounds PROVE PlanSpec => []CapInv
<1>1. PlanInit => CapInv
  BY PlanInitially
<1>2. CapInv /\ [PlanNext]_planVars => CapInv'
  BY PlanStepwise
<1>. QED BY <1>1, <1>2, PTL DEF PlanSpec

\* No cap of a plan is exceeded, however many transactions meet at the last free
\* unit: each counts under the lock it inserts under (assertPlanAllows).
THEOREM CapsHold == ASSUME PlanBounds PROVE PlanSpec => []PlanHolds
<1>1. CapInv => PlanHolds
  BY DEF CapInv
<1>. QED BY <1>1, PlanInvariance, PTL

\* The counts, clocks and locks of PlanLimits keep their types.
THEOREM PlanTyping == ASSUME PlanBounds PROVE PlanSpec => []PlanTypeOK
<1>1. CapInv => PlanTypeOK
  BY DEF CapInv
<1>. QED BY <1>1, PlanInvariance, PTL


-----------------------------------------------------------------------------
(* Seats: the inductive invariant                                          *)

\* Links are minted in their order; one that is there opens an invitation that
\* is there, and an invitation that is there has an address.
Rowed ==
  /\ \A t, u \in Links : link[t].state = "absent" /\ t <= u => link[u].state = "absent"
  /\ \A t \in Links : IF link[t].state = "absent" THEN link[t].invitation = None
                      ELSE /\ link[t].invitation \in Ids
                           /\ invitation[link[t].invitation].status # "absent"
  /\ \A i \in Ids : invitation[i].status # "absent" => invitation[i].address \in Addresses

\* An invitation that is pending is opened by its newest link, and no other is.
Opened(i) ==
  IF Pending(i)
  THEN \E t \in Links : ActiveLinks(i) = {t} /\ \A u \in Links : link[u].invitation = i => u <= t
  ELSE ActiveLinks(i) = {}

InvLock(T) == <<"invitation", T.invitation>>
LinkLock(T) == <<"link", T.link>>
OrgLock(T) == <<"org", T.address[1]>>
ShareLock(T) == <<"share", T.address[1]>>
UserLock(T) == <<"user", T.address[2]>>

\* What a transaction holds and waits for: the invitation, its link, the user,
\* the organization.
Lined(T) ==
  LET both == {InvLock(T), LinkLock(T)} IN
  \/ T.held = {} /\ T.wants = InvLock(T) /\ T.invitation # None /\ T.link = None /\ T.op # "accept"
  \/ T.held = {} /\ T.wants = InvLock(T) /\ T.invitation # None /\ T.link # None /\ T.op = "accept"
  \/ /\ T.held = {InvLock(T)} /\ T.invitation # None /\ T.link = None /\ T.op # "accept"
     /\ \E t \in ActiveLinks(T.invitation) : T.wants = <<"link", t>>
  \/ T.held = {InvLock(T)} /\ T.wants = LinkLock(T) /\ T.invitation # None /\ T.link # None /\ T.op = "accept"
  \/ T.held = {} /\ T.wants = OrgLock(T) /\ T.op = "create" /\ T.invitation = None /\ T.link = None
  \/ T.held = {OrgLock(T)} /\ T.wants = None /\ T.op = "create" /\ T.invitation = None /\ T.link = None
  \/ /\ T.invitation # None /\ T.link \in ActiveLinks(T.invitation)
     /\ \/ T.held = both /\ T.wants = OrgLock(T) /\ T.op = "create"
        \/ T.held = both \cup {OrgLock(T)} /\ T.wants = None /\ T.op = "create"
        \/ T.held = both /\ T.wants = ShareLock(T) /\ T.op \in {"resend", "cancel", "accept"}
        \/ T.held = both /\ T.wants = UserLock(T) /\ T.op = "accept"
        \/ T.held = both \cup {UserLock(T)} /\ T.wants = ShareLock(T) /\ T.op = "accept"

\* What it has read still is so: rows it has no lock on keep their address and
\* their invitation, an invitation it holds is pending, and the seat it has
\* counted is free.
Knows(T) ==
  /\ T.invitation # None =>
       invitation[T.invitation].status # "absent" /\ invitation[T.invitation].address = T.address
  /\ T.op = "accept" => T.link # None /\ T.invitation # None /\ link[T.link].invitation = T.invitation
  /\ T.invitation # None /\ T.held # {} => Pending(T.invitation)
  /\ T.op = "create" /\ T.wants = None =>
       Room(T.address[1], Seats(T.address[1]) + 1 - (IF T.invitation = None THEN 0 ELSE 1))

\* No two transactions hold locks that conflict.
Exclusive ==
  \A p, q \in Requests : p # q /\ tx[p] # None /\ tx[q] # None =>
    \A a \in tx[p].held, b \in tx[q].held : ~Conflict(a, b)

\* There is a row left for each one that will insert.
AbsentIds == {i \in Ids : invitation[i].status = "absent"}
AbsentLinks == {t \in Links : link[t].state = "absent"}
Reserved ==
  Cardinality(Creating) <= Cardinality(AbsentIds) /\ Cardinality(Minting) <= Cardinality(AbsentLinks)

SeatInv ==
  /\ TypeOK /\ Rowed /\ Exclusive /\ Reserved
  /\ \A i \in Ids : Opened(i)
  /\ \A p \in Requests : tx[p] # None => Lined(tx[p]) /\ Knows(tx[p])


-----------------------------------------------------------------------------
(* Rows and locks                                                          *)

\* A set of numbers has a least one.
LEMMA Least ==
    ASSUME NEW S \in SUBSET Nat, S # {}
    PROVE  \E m \in S : \A k \in S : m <= k
<1>. DEFINE R == OpToRel(<, Nat)
<1>1. IsWellFoundedOn(R, Nat)
  BY NatLessThanWellFounded
<1>. HIDE DEF R
<1>2. PICK m \in S : \A k \in S : ~ (<<k, m>> \in R)
  BY <1>1, WFMin
<1>3. \A k \in S : k < m => <<k, m>> \in R
  BY DEF R, OpToRel
<1>4. ASSUME NEW k \in S PROVE m <= k
  <2>1. ~ (k < m) /\ k \in Nat /\ m \in Nat
    BY <1>2, <1>3
  <2>. QED BY <2>1
<1>. QED BY <1>4

LEMMA Nones ==
    /\ None \notin Ids /\ None \notin Links /\ None \notin Locks /\ None \notin Transactions
    /\ Ids \subseteq Nat /\ Links \subseteq Nat /\ IsFiniteSet(Requests) /\ IsFiniteSet(Addresses)
    /\ IsFiniteSet(Ids) /\ IsFiniteSet(Links) /\ Movable \subseteq Addresses
    /\ Founders \subseteq Addresses
<1>1. /\ None \notin Ids /\ None \notin Links /\ None \notin Locks /\ None \notin Transactions
      /\ MaxInvitations \in Nat /\ MaxTokens \in Nat
      /\ IsFiniteSet(Requests) /\ IsFiniteSet(Addresses) /\ Movable \subseteq Addresses
      /\ Founders \subseteq Addresses
  BY SeatNone, SeatBounds, SeatFounders
<1>2. Ids \subseteq Nat /\ Links \subseteq Nat
  BY <1>1 DEF Ids, Links
<1>3. IsFiniteSet(Ids) /\ IsFiniteSet(Links)
  BY <1>1, FS_Interval DEF Ids, Links
<1>. QED BY <1>1, <1>2, <1>3

LEMMA TransactionIs ==
    ASSUME NEW T \in Transactions
    PROVE  /\ T.op \in {"create", "resend", "cancel", "accept"} /\ T.address \in Addresses
           /\ T.invitation \in Ids \cup {None} /\ T.link \in Links \cup {None}
           /\ T.held \subseteq Locks /\ T.wants \in Locks \cup {None} /\ T # None
BY Nones DEF Transactions

LEMMA RunningIs ==
    ASSUME SeatInv, NEW p \in Requests, tx[p] # None
    PROVE  tx[p] \in Transactions /\ Lined(tx[p]) /\ Knows(tx[p])
BY DEF SeatInv, TypeOK

LEMMA LocksAre ==
    ASSUME NEW T \in Transactions
    PROVE  /\ T.invitation # None => InvLock(T) \in Locks
           /\ T.link # None => LinkLock(T) \in Locks
           /\ OrgLock(T) \in Locks /\ ShareLock(T) \in Locks /\ UserLock(T) \in Locks
           /\ \A t \in Links : <<"link", t>> \in Locks
           /\ \A i \in Ids : <<"invitation", i>> \in Locks
<1>1. T.address[1] \in Orgs /\ T.address[2] \in Emails
  BY TransactionIs DEF Orgs, Emails
<1>. QED BY <1>1, TransactionIs DEF Locks, InvLock, LinkLock, OrgLock, ShareLock, UserLock

LEMMA Mutual ==
    ASSUME NEW a, NEW b, Conflict(a, b) PROVE Conflict(b, a)
BY DEF Conflict

\* createInvitation and mintToken take a row that is not there yet.
LEMMA NextIdIs ==
    ASSUME AbsentIds # {}
    PROVE  NextId \in Ids /\ invitation[NextId].status = "absent"
<1>1. AbsentIds \in SUBSET Nat
  BY Nones DEF AbsentIds
<1>2. PICK m \in AbsentIds : \A k \in AbsentIds : m <= k
  BY <1>1, Least
<1>3. \E i \in Ids : invitation[i].status = "absent"
                      /\ \A j \in Ids : invitation[j].status = "absent" => i <= j
  BY <1>2 DEF AbsentIds
<1>. QED BY <1>3 DEF NextId

LEMMA NextLinkIs ==
    ASSUME AbsentLinks # {}
    PROVE  /\ NextLink \in Links /\ link[NextLink].state = "absent"
           /\ \A u \in Links : link[u].state = "absent" => NextLink <= u
<1>1. AbsentLinks \in SUBSET Nat
  BY Nones DEF AbsentLinks
<1>2. PICK m \in AbsentLinks : \A k \in AbsentLinks : m <= k
  BY <1>1, Least
<1>3. \E t \in Links : link[t].state = "absent"
                        /\ \A u \in Links : link[u].state = "absent" => t <= u
  BY <1>2 DEF AbsentLinks
<1>. QED BY <1>3 DEF NextLink


-----------------------------------------------------------------------------
(* Seats: the steps of a transaction                                       *)

LEMMA InvStage ==
    ASSUME NEW T \in Transactions, Lined(T), T.wants # None, T.wants[1] = "invitation"
    PROVE  /\ T.held = {} /\ T.wants = InvLock(T) /\ T.invitation # None
           /\ T.op = "accept" <=> T.link # None
<1>1. \A t : <<"link", t>>[1] # "invitation"
  OBVIOUS
<1>2. /\ LinkLock(T)[1] # "invitation" /\ OrgLock(T)[1] # "invitation"
      /\ ShareLock(T)[1] # "invitation" /\ UserLock(T)[1] # "invitation"
  BY DEF LinkLock, OrgLock, ShareLock, UserLock
<1>. QED BY <1>1, <1>2 DEF Lined

LEMMA LinkStage ==
    ASSUME NEW T \in Transactions, Lined(T), T.wants # None, T.wants[1] = "link"
    PROVE  /\ T.held = {InvLock(T)} /\ T.invitation # None
           /\ T.op # "accept" => /\ T.link = None /\ T.wants = <<"link", T.wants[2]>>
                                 /\ T.wants[2] \in ActiveLinks(T.invitation)
           /\ T.op = "accept" => T.link # None /\ T.wants = LinkLock(T)
<1>1. \A t : <<"link", t>>[2] = t
  OBVIOUS
<1>2. /\ InvLock(T)[1] # "link" /\ OrgLock(T)[1] # "link"
      /\ ShareLock(T)[1] # "link" /\ UserLock(T)[1] # "link"
  BY DEF InvLock, OrgLock, ShareLock, UserLock
<1>. QED BY <1>1, <1>2 DEF Lined

LEMMA OrgStage ==
    ASSUME NEW T \in Transactions, Lined(T), T.wants # None, T.wants[1] = "org"
    PROVE  /\ T.op = "create" /\ T.wants = OrgLock(T)
           /\ \/ T.held = {} /\ T.invitation = None /\ T.link = None
              \/ /\ T.held = {InvLock(T), LinkLock(T)} /\ T.invitation # None
                 /\ T.link \in ActiveLinks(T.invitation)
<1>1. \A t : <<"link", t>>[1] # "org"
  OBVIOUS
<1>2. /\ InvLock(T)[1] # "org" /\ LinkLock(T)[1] # "org"
      /\ ShareLock(T)[1] # "org" /\ UserLock(T)[1] # "org"
  BY DEF InvLock, LinkLock, ShareLock, UserLock
<1>. QED BY <1>1, <1>2 DEF Lined

LEMMA UserStage ==
    ASSUME NEW T \in Transactions, Lined(T), T.wants # None, T.wants[1] = "user"
    PROVE  /\ T.op = "accept" /\ T.wants = UserLock(T) /\ T.held = {InvLock(T), LinkLock(T)}
           /\ T.invitation # None /\ T.link \in ActiveLinks(T.invitation)
<1>1. \A t : <<"link", t>>[1] # "user"
  OBVIOUS
<1>2. /\ InvLock(T)[1] # "user" /\ LinkLock(T)[1] # "user"
      /\ ShareLock(T)[1] # "user" /\ OrgLock(T)[1] # "user"
  BY DEF InvLock, LinkLock, ShareLock, OrgLock
<1>. QED BY <1>1, <1>2 DEF Lined

LEMMA ShareStage ==
    ASSUME NEW T \in Transactions, Lined(T), T.wants # None, T.wants[1] = "share"
    PROVE  /\ T.op \in {"resend", "cancel", "accept"} /\ T.wants = ShareLock(T)
           /\ T.held \in {{InvLock(T), LinkLock(T)}, {InvLock(T), LinkLock(T)} \cup {UserLock(T)}}
           /\ T.invitation # None /\ T.link \in ActiveLinks(T.invitation)
<1>1. \A t : <<"link", t>>[1] # "share"
  OBVIOUS
<1>2. /\ InvLock(T)[1] # "share" /\ LinkLock(T)[1] # "share"
      /\ UserLock(T)[1] # "share" /\ OrgLock(T)[1] # "share"
  BY DEF InvLock, LinkLock, UserLock, OrgLock
<1>. QED BY <1>1, <1>2 DEF Lined

\* What waits for nothing is about to write.
LEMMA WriteStage ==
    ASSUME NEW T \in Transactions, Lined(T), T.wants = None
    PROVE  /\ T.op = "create" /\ OrgLock(T) \in T.held
           /\ \/ T.held = {OrgLock(T)} /\ T.invitation = None /\ T.link = None
              \/ /\ T.held = {InvLock(T), LinkLock(T)} \cup {OrgLock(T)} /\ T.invitation # None
                 /\ T.link \in ActiveLinks(T.invitation)
<1>1. \A t \in Links : <<"link", t>> # None
  BY Nones, LocksAre
<1>2. \A i : ActiveLinks(i) \subseteq Links
  BY DEF ActiveLinks
<1>3. /\ T.invitation # None => InvLock(T) # None
      /\ T.link # None => LinkLock(T) # None
      /\ OrgLock(T) # None /\ ShareLock(T) # None /\ UserLock(T) # None
  BY Nones, LocksAre
<1>4. T.link \in Links => T.link # None
  BY Nones
<1>. QED BY <1>1, <1>2, <1>3, <1>4 DEF Lined

\* The lock it waited for conflicts with none.
LEMMA Granted ==
    ASSUME SeatInv, NEW p \in Requests, NEW op, NEW kind, Gets(p, op, kind)
    PROVE  /\ tx[p] # None /\ tx[p] \in Transactions /\ tx[p].op = op /\ Lined(tx[p]) /\ Knows(tx[p])
           /\ tx[p].wants # None /\ tx[p].wants[1] = kind
           /\ \A q \in Requests \ {p} : tx[q] # None =>
                \A k \in tx[q].held : ~Conflict(tx[p].wants, k)
<1>1. tx[p] # None /\ tx[p].op = op /\ tx[p].wants # None /\ tx[p].wants[1] = kind /\ Blockers(p) = {}
  BY DEF Gets
<1>2. ASSUME NEW q \in Requests \ {p}, tx[q] # None, NEW k \in tx[q].held
      PROVE  ~Conflict(tx[p].wants, k)
  BY <1>1, <1>2 DEF Blockers
<1>. QED BY <1>1, <1>2, RunningIs

\* Statements that write nothing: p goes on, starts or ends.
LEMMA Goes ==
    ASSUME SeatInv, UNCHANGED rows, NEW p \in Requests, NEW T \in Transactions \cup {None},
           tx' = [tx EXCEPT ![p] = T],
           T # None => /\ Lined(T) /\ Knows(T)
                       /\ \A q \in Requests \ {p} : tx[q] # None =>
                            \A a \in T.held, b \in tx[q].held : ~Conflict(a, b),
           Reserved'
    PROVE  SeatInv'
<1>0. /\ TypeOK /\ Rowed /\ Exclusive
      /\ UNCHANGED <<invitation, link, member, users, limit>>
      /\ tx'[p] = T /\ \A q \in Requests \ {p} : tx'[q] = tx[q]
  BY DEF SeatInv, TypeOK, rows
<1>1. TypeOK'
  BY <1>0 DEF TypeOK
<1>2. Rowed' /\ \A i \in Ids : Opened(i)'
  BY <1>0 DEF SeatInv, Rowed, Opened, Pending, ActiveLinks
<1>3. \A U \in Transactions : (Lined(U)' <=> Lined(U)) /\ (Knows(U)' <=> Knows(U))
  <2>1. \A i : ActiveLinks(i)' = ActiveLinks(i) /\ (Pending(i)' <=> Pending(i))
    BY <1>0 DEF ActiveLinks, Pending
  <2>2. \A o : Seats(o)' = Seats(o)
    BY <1>0 DEF Seats, Pending
  <2>3. \A o, n : Room(o, n)' <=> Room(o, n)
    BY <1>0 DEF Room
  <2>4. \A U \in Transactions : Lined(U)' <=> Lined(U)
    BY <2>1 DEF Lined, InvLock, LinkLock, OrgLock, ShareLock, UserLock
  <2>5. \A U \in Transactions : Knows(U)' <=> Knows(U)
    BY <1>0, <2>1, <2>2, <2>3 DEF Knows
  <2>. QED BY <2>4, <2>5
<1>4. ASSUME NEW q \in Requests, tx'[q] # None PROVE Lined(tx[q])' /\ Knows(tx[q])'
  <2>1. CASE q = p
    BY <1>0, <1>3, <1>4, <2>1 DEF Lined, Knows
  <2>2. CASE q # p
    <3>1. tx'[q] = tx[q] /\ tx[q] \in Transactions /\ Lined(tx[q]) /\ Knows(tx[q])
      BY <1>0, <1>4, <2>2, RunningIs
    <3>. QED BY <1>3, <3>1
  <2>. QED BY <2>1, <2>2
<1>5. Exclusive'
  <2>. SUFFICES ASSUME NEW q \in Requests, NEW r \in Requests, q # r, tx'[q] # None, tx'[r] # None,
                       NEW a \in tx'[q].held, NEW b \in tx'[r].held
                PROVE  ~Conflict(a, b)
    BY DEF Exclusive, Conflict
  <2>1. CASE q = p
    BY <1>0, <2>1
  <2>2. CASE r = p
    <3>1. ~Conflict(b, a)
      BY <1>0, <2>2
    <3>. QED BY <3>1, Mutual
  <2>3. CASE q # p /\ r # p
    BY <1>0, <2>3 DEF Exclusive
  <2>. QED BY <2>1, <2>2, <2>3
<1>. QED BY <1>1, <1>2, <1>4, <1>5 DEF SeatInv


LEMMA Counts ==
    /\ IsFiniteSet(Creating) /\ IsFiniteSet(Minting) /\ IsFiniteSet(AbsentIds) /\ IsFiniteSet(AbsentLinks)
    /\ Cardinality(Creating) \in Nat /\ Cardinality(Minting) \in Nat
    /\ Cardinality(AbsentIds) \in Nat /\ Cardinality(AbsentLinks) \in Nat
<1>1. Creating \in SUBSET Requests /\ Minting \in SUBSET Requests
  BY DEF Creating, Minting
<1>2. AbsentIds \in SUBSET Ids /\ AbsentLinks \in SUBSET Links
  BY DEF AbsentIds, AbsentLinks
<1>3. /\ IsFiniteSet(Creating) /\ IsFiniteSet(Minting)
      /\ IsFiniteSet(AbsentIds) /\ IsFiniteSet(AbsentLinks)
  BY <1>1, <1>2, Nones, FS_Subset
<1>. QED BY <1>3, FS_CardinalityType

\* p goes on with what it does, or ends.
LEMMA GoesOn ==
    ASSUME SeatInv, UNCHANGED rows, NEW p \in Requests, tx[p] # None,
           NEW T \in Transactions \cup {None}, tx' = [tx EXCEPT ![p] = T],
           T # None => /\ T.op = tx[p].op /\ Lined(T) /\ Knows(T)
                       /\ T.held \subseteq tx[p].held \cup {tx[p].wants}
                       /\ T.held \subseteq tx[p].held \/ (Blockers(p) = {} /\ tx[p].wants # None)
    PROVE  SeatInv'
<1>0. /\ TypeOK /\ Exclusive /\ Reserved /\ UNCHANGED <<invitation, link>>
      /\ tx'[p] = T /\ \A q \in Requests \ {p} : tx'[q] = tx[q]
  BY DEF SeatInv, TypeOK, rows
<1>1. Creating' \in SUBSET Creating /\ Minting' \in SUBSET Minting
  BY <1>0 DEF Creating, Minting
<1>2. AbsentIds' = AbsentIds /\ AbsentLinks' = AbsentLinks
  BY <1>0 DEF AbsentIds, AbsentLinks
<1>3. Reserved'
  <2>1. /\ IsFiniteSet(Creating') /\ Cardinality(Creating') <= Cardinality(Creating)
        /\ IsFiniteSet(Minting') /\ Cardinality(Minting') <= Cardinality(Minting)
    BY <1>1, Counts, FS_Subset
  <2>2. Cardinality(Creating') \in Nat /\ Cardinality(Minting') \in Nat
    BY <2>1, FS_CardinalityType
  <2>. QED BY <1>0, <1>2, <2>1, <2>2, Counts DEF Reserved
<1>4. ASSUME T # None, NEW q \in Requests \ {p}, tx[q] # None, NEW a \in T.held, NEW b \in tx[q].held
      PROVE  ~Conflict(a, b)
  <2>1. CASE a \in tx[p].held
    BY <1>0, <1>4, <2>1 DEF Exclusive
  <2>2. CASE a \notin tx[p].held
    <3>1. a = tx[p].wants /\ Blockers(p) = {} /\ tx[p].wants # None
      BY <1>4, <2>2
    <3>. QED BY <1>4, <3>1 DEF Blockers
  <2>. QED BY <2>1, <2>2
<1>. QED BY <1>3, <1>4, Goes

\* p starts: it holds nothing yet, and there is a row for what it will insert.
LEMMA Begins ==
    ASSUME SeatInv, NEW p \in Requests, NEW op \in {"create", "resend", "cancel", "accept"},
           NEW x \in Addresses, NEW i \in Ids \cup {None}, NEW t \in Links \cup {None},
           NEW wants \in Locks \cup {None}, Starts(p, op, x, i, t, wants),
           op = "create" => HasId, op \in {"create", "resend"} => HasLink,
           \A U \in Transactions :
             (U.op = op /\ U.address = x /\ U.invitation = i /\ U.link = t /\ U.held = {} /\ U.wants = wants)
               => Lined(U) /\ Knows(U)
    PROVE  SeatInv'
<1>. DEFINE T == [op |-> op, address |-> x, invitation |-> i, link |-> t, held |-> {}, wants |-> wants]
<1>1. /\ T \in Transactions /\ T.op = op /\ T.address = x /\ T.invitation = i /\ T.link = t
      /\ T.held = {} /\ T.wants = wants /\ T # None
  BY Nones DEF Transactions
<1>2. tx[p] = None /\ tx' = [tx EXCEPT ![p] = T] /\ UNCHANGED rows
  BY DEF Starts
<1>. HIDE DEF T
<1>3. Lined(T) /\ Knows(T)
  BY <1>1
<1>4. Reserved'
  <2>0. /\ tx'[p] = T /\ \A q \in Requests \ {p} : tx'[q] = tx[q]
        /\ UNCHANGED <<invitation, link>> /\ Reserved
    BY <1>2 DEF SeatInv, TypeOK, rows
  <2>1. AbsentIds' = AbsentIds /\ AbsentLinks' = AbsentLinks
    BY <2>0 DEF AbsentIds, AbsentLinks
  <2>2. Cardinality(Creating') <= Cardinality(AbsentIds)
    <3>1. CASE op = "create"
      <4>1. Creating' = Creating \cup {p} /\ p \notin Creating
        BY <1>1, <1>2, <2>0, <3>1 DEF Creating
      <4>2. Cardinality(Creating') = Cardinality(Creating) + 1
        BY <4>1, Counts, FS_AddElement
      <4>3. Cardinality(AbsentIds) > Cardinality(Creating)
        BY <3>1 DEF HasId, AbsentIds
      <4>. QED BY <4>2, <4>3, Counts
    <3>2. CASE op # "create"
      <4>1. Creating' = Creating
        BY <1>1, <1>2, <2>0, <3>2 DEF Creating
      <4>. QED BY <2>0, <4>1 DEF Reserved
    <3>. QED BY <3>1, <3>2
  <2>3. Cardinality(Minting') <= Cardinality(AbsentLinks)
    <3>1. CASE op \in {"create", "resend"}
      <4>1. Minting' = Minting \cup {p} /\ p \notin Minting
        BY <1>1, <1>2, <2>0, <3>1 DEF Minting
      <4>2. Cardinality(Minting') = Cardinality(Minting) + 1
        BY <4>1, Counts, FS_AddElement
      <4>3. Cardinality(AbsentLinks) > Cardinality(Minting)
        BY <3>1 DEF HasLink, AbsentLinks
      <4>. QED BY <4>2, <4>3, Counts
    <3>2. CASE op \notin {"create", "resend"}
      <4>1. Minting' = Minting
        BY <1>1, <1>2, <2>0, <3>2 DEF Minting
      <4>. QED BY <2>0, <4>1 DEF Reserved
    <3>. QED BY <3>1, <3>2
  <2>. QED BY <2>1, <2>2, <2>3 DEF Reserved
<1>5. T.held = {}
  BY <1>1
<1>. QED BY <1>1, <1>2, <1>3, <1>4, <1>5, Goes


LEMMA HoldsIs ==
    ASSUME SeatInv, NEW p \in Requests, tx[p] # None, tx[p].wants # None,
           NEW next \in Locks \cup {None}, Holds(p, next)
    PROVE  \E T \in Transactions :
             /\ tx' = [tx EXCEPT ![p] = T]
             /\ T.op = tx[p].op /\ T.address = tx[p].address /\ T.invitation = tx[p].invitation
             /\ T.link = tx[p].link /\ T.held = tx[p].held \cup {tx[p].wants} /\ T.wants = next
<1>. DEFINE T == [tx[p] EXCEPT !.held = @ \cup {tx[p].wants}, !.wants = next]
<1>1. tx[p] \in Transactions
  BY RunningIs
<1>2. tx' = [tx EXCEPT ![p] = T]
  BY <1>1 DEF Holds, SeatInv, TypeOK
<1>3. /\ T \in Transactions
      /\ T.op = tx[p].op /\ T.address = tx[p].address /\ T.invitation = tx[p].invitation
      /\ T.link = tx[p].link /\ T.held = tx[p].held \cup {tx[p].wants} /\ T.wants = next
  BY <1>1, TransactionIs DEF Transactions
<1>. QED BY <1>2, <1>3

LEMMA EndsIs ==
    ASSUME SeatInv, UNCHANGED rows, NEW p \in Requests, tx[p] # None, Ends(p)
    PROVE  SeatInv'
BY GoesOn DEF Ends

LEMMA BeginCreateStep ==
    ASSUME SeatInv, NEW p \in Requests, NEW x \in Addresses, BeginCreate(p, x) PROVE SeatInv'
<1>1. <<"org", x[1]>> \in Locks /\ <<"org", x[1]>> # None
  BY Nones DEF Locks, Orgs
<1>2. CASE Starts(p, "create", x, None, None, <<"org", x[1]>>)
  <2>1. ASSUME NEW U \in Transactions, U.op = "create", U.address = x, U.invitation = None,
               U.link = None, U.held = {}, U.wants = <<"org", x[1]>>
        PROVE  Lined(U) /\ Knows(U)
    BY <1>1, <2>1 DEF Lined, Knows, OrgLock
  <2>2. HasId /\ HasLink
    BY DEF BeginCreate
  <2>3. /\ "create" \in {"create", "resend", "cancel", "accept"} /\ None \in Ids \cup {None}
        /\ None \in Links \cup {None} /\ <<"org", x[1]>> \in Locks \cup {None}
    BY <1>1
  <2>. QED BY <1>2, <2>1, <2>2, <2>3, Begins
<1>3. CASE \E i \in PendingOf(x) : Starts(p, "create", x, i, None, <<"invitation", i>>)
  <2>1. PICK i \in PendingOf(x) : Starts(p, "create", x, i, None, <<"invitation", i>>)
    BY <1>3
  <2>2. i \in Ids /\ i # None /\ Pending(i) /\ invitation[i].address = x
    BY <2>1, Nones DEF PendingOf
  <2>3. <<"invitation", i>> \in Locks /\ <<"invitation", i>> # None
    BY <2>2, Nones DEF Locks
  <2>4. ASSUME NEW U \in Transactions, U.op = "create", U.address = x, U.invitation = i,
               U.link = None, U.held = {}, U.wants = <<"invitation", i>>
        PROVE  Lined(U) /\ Knows(U)
    BY <2>2, <2>3, <2>4 DEF Lined, Knows, InvLock, Pending
  <2>5. HasId /\ HasLink
    BY DEF BeginCreate
  <2>. QED BY <2>1, <2>2, <2>3, <2>4, <2>5, Begins
<1>. QED BY <1>2, <1>3 DEF BeginCreate

LEMMA BeginChangeStep ==
    ASSUME SeatInv, NEW p \in Requests, NEW op \in {"resend", "cancel"}, NEW i \in Ids,
           BeginChange(p, op, i)
    PROVE  SeatInv'
<1>. DEFINE x == invitation[i].address
<1>1. /\ Pending(i) /\ (op = "resend" => HasLink)
      /\ Starts(p, op, x, i, None, <<"invitation", i>>)
  BY DEF BeginChange
<1>2. x \in Addresses /\ i # None
  BY <1>1, Nones DEF SeatInv, Rowed, Pending
<1>3. <<"invitation", i>> \in Locks /\ <<"invitation", i>> # None
  BY Nones DEF Locks
<1>4. ASSUME NEW U \in Transactions, U.op = op, U.address = x, U.invitation = i,
             U.link = None, U.held = {}, U.wants = <<"invitation", i>>
      PROVE  Lined(U) /\ Knows(U)
  BY <1>1, <1>2, <1>3, <1>4 DEF Lined, Knows, InvLock, Pending
<1>. HIDE DEF x
<1>. QED BY <1>1, <1>2, <1>3, <1>4, Begins

LEMMA BeginAcceptStep ==
    ASSUME SeatInv, NEW p \in Requests, NEW t \in Links, BeginAccept(p, t) PROVE SeatInv'
<1>. DEFINE i == link[t].invitation
            x == invitation[i].address
<1>1. link[t].state = "live" /\ Starts(p, "accept", x, i, t, <<"invitation", i>>)
  BY DEF BeginAccept
<1>2. /\ i \in Ids /\ invitation[i].status # "absent" /\ x \in Addresses /\ i # None /\ t # None
  BY <1>1, Nones DEF SeatInv, Rowed
<1>. HIDE DEF i, x
<1>3. <<"invitation", i>> \in Locks /\ <<"invitation", i>> # None
  BY <1>2, Nones DEF Locks
<1>4. ASSUME NEW U \in Transactions, U.op = "accept", U.address = x, U.invitation = i,
             U.link = t, U.held = {}, U.wants = <<"invitation", i>>
      PROVE  Lined(U) /\ Knows(U)
  BY <1>2, <1>3, <1>4 DEF Lined, Knows, InvLock, i, x
<1>. QED BY <1>1, <1>2, <1>3, <1>4, Begins

LEMMA CreateMeetsPendingStep ==
    ASSUME SeatInv, NEW p \in Requests, CreateMeetsPending(p) PROVE SeatInv'
<1>. DEFINE i == tx[p].invitation
            t == ActiveLink(i)
<1>1. /\ Gets(p, "create", "invitation") /\ UNCHANGED rows
      /\ IF Pending(i) THEN Holds(p, <<"link", t>>)
         ELSE tx' = [tx EXCEPT ![p].invitation = None, ![p].wants = <<"org", tx[p].address[1]>>]
  BY DEF CreateMeetsPending
<1>2. /\ tx[p] # None /\ tx[p] \in Transactions /\ tx[p].op = "create" /\ Knows(tx[p])
      /\ tx[p].wants # None /\ Blockers(p) = {}
      /\ tx[p].held = {} /\ tx[p].wants = InvLock(tx[p]) /\ i # None /\ tx[p].link = None
  BY <1>1, Granted, InvStage DEF Gets
<1>3. i \in Ids
  BY <1>2, TransactionIs
<1>. HIDE DEF i
<1>4. CASE Pending(i)
  <2>1. t \in ActiveLinks(i) /\ t \in Links
    BY <1>3, <1>4 DEF SeatInv, Opened, ActiveLink, ActiveLinks
  <2>. HIDE DEF t
  <2>2. <<"link", t>> \in Locks /\ <<"link", t>> # None
    BY <2>1, Nones DEF Locks
  <2>3. PICK T \in Transactions :
             /\ tx' = [tx EXCEPT ![p] = T]
             /\ T.op = tx[p].op /\ T.address = tx[p].address /\ T.invitation = tx[p].invitation
             /\ T.link = tx[p].link /\ T.held = tx[p].held \cup {tx[p].wants} /\ T.wants = <<"link", t>>
    BY <1>1, <1>2, <1>4, <2>2, HoldsIs
  <2>4. Lined(T)
    BY <1>2, <2>1, <2>3 DEF Lined, InvLock, i
  <2>5. Knows(T)
    BY <1>2, <1>4, <2>2, <2>3 DEF Knows, i
  <2>. QED BY <1>1, <1>2, <2>3, <2>4, <2>5, GoesOn
<1>5. CASE ~Pending(i)
  <2>. DEFINE T == [tx[p] EXCEPT !.invitation = None, !.wants = <<"org", tx[p].address[1]>>]
  <2>1. <<"org", tx[p].address[1]>> \in Locks /\ <<"org", tx[p].address[1]>> # None
    BY <1>2, LocksAre, Nones DEF OrgLock
  <2>2. /\ T \in Transactions /\ T.op = "create" /\ T.address = tx[p].address /\ T.invitation = None
        /\ T.link = None /\ T.held = {} /\ T.wants = <<"org", tx[p].address[1]>>
    BY <1>2, <2>1 DEF Transactions
  <2>3. tx' = [tx EXCEPT ![p] = T]
    BY <1>1, <1>2, <1>5 DEF SeatInv, TypeOK
  <2>. HIDE DEF T
  <2>4. Lined(T) /\ Knows(T)
    BY <2>1, <2>2 DEF Lined, Knows, OrgLock
  <2>. QED BY <1>1, <1>2, <2>2, <2>3, <2>4, GoesOn
<1>. QED BY <1>4, <1>5


LEMMA CreateMeetsLinkStep ==
    ASSUME SeatInv, NEW p \in Requests, CreateMeetsLink(p) PROVE SeatInv'
<1>. DEFINE t == tx[p].wants[2]
            T == [tx[p] EXCEPT !.link = t, !.held = @ \cup {<<"link", t>>},
                               !.wants = <<"org", tx[p].address[1]>>]
<1>1. /\ Gets(p, "create", "link") /\ UNCHANGED rows
      /\ (tx' = [tx EXCEPT ![p].link = t, ![p].held = @ \cup {<<"link", t>>},
                           ![p].wants = <<"org", tx[p].address[1]>>]) \/ Ends(p)
  BY DEF CreateMeetsLink
<1>2. /\ tx[p] # None /\ tx[p] \in Transactions /\ tx[p].op = "create" /\ Knows(tx[p])
      /\ tx[p].wants # None /\ Blockers(p) = {} /\ tx[p].invitation # None
      /\ tx[p].held = {InvLock(tx[p])} /\ tx[p].wants = <<"link", t>>
      /\ t \in ActiveLinks(tx[p].invitation)
  BY <1>1, Granted, LinkStage DEF Gets
<1>3. t \in Links /\ t # None /\ <<"link", t>> \in Locks
  BY <1>2, Nones DEF ActiveLinks, Locks
<1>4. <<"org", tx[p].address[1]>> \in Locks /\ <<"org", tx[p].address[1]>> # None
  BY <1>2, LocksAre, Nones DEF OrgLock
<1>. HIDE DEF t
<1>5. CASE tx' = [tx EXCEPT ![p].link = t, ![p].held = @ \cup {<<"link", t>>},
                            ![p].wants = <<"org", tx[p].address[1]>>]
  <2>1. tx' = [tx EXCEPT ![p] = T]
    BY <1>5, <1>2 DEF SeatInv, TypeOK
  <2>2. /\ T \in Transactions /\ T.op = "create" /\ T.address = tx[p].address
        /\ T.invitation = tx[p].invitation /\ T.link = t
        /\ T.held = {InvLock(tx[p])} \cup {<<"link", t>>} /\ T.wants = <<"org", tx[p].address[1]>>
    BY <1>2, <1>3, <1>4, TransactionIs DEF Transactions
  <2>. HIDE DEF T
  <2>3. Lined(T)
    BY <1>2, <2>2 DEF Lined, InvLock, LinkLock, OrgLock
  <2>4. Knows(T)
    BY <1>2, <1>4, <2>2 DEF Knows
  <2>. QED BY <1>1, <1>2, <2>1, <2>2, <2>3, <2>4, GoesOn
<1>. QED BY <1>1, <1>2, <1>5, EndsIs

LEMMA CreateCountsStep ==
    ASSUME SeatInv, NEW p \in Requests, CreateCounts(p) PROVE SeatInv'
<1>. DEFINE o == tx[p].address[1]
<1>1. /\ Gets(p, "create", "org") /\ UNCHANGED rows
      /\ \/ Room(o, Seats(o) + 1 - (IF tx[p].invitation = None THEN 0 ELSE 1)) /\ Holds(p, None)
         \/ Ends(p)
  BY DEF CreateCounts, AssertPlanAllows
<1>2. /\ tx[p] # None /\ tx[p] \in Transactions /\ tx[p].op = "create" /\ Knows(tx[p])
      /\ tx[p].wants # None /\ Blockers(p) = {} /\ tx[p].wants = OrgLock(tx[p])
      /\ \/ tx[p].held = {} /\ tx[p].invitation = None /\ tx[p].link = None
         \/ /\ tx[p].held = {InvLock(tx[p]), LinkLock(tx[p])} /\ tx[p].invitation # None
            /\ tx[p].link \in ActiveLinks(tx[p].invitation)
  BY <1>1, Granted, OrgStage DEF Gets
<1>3. CASE Room(o, Seats(o) + 1 - (IF tx[p].invitation = None THEN 0 ELSE 1)) /\ Holds(p, None)
  <2>1. PICK T \in Transactions :
             /\ tx' = [tx EXCEPT ![p] = T]
             /\ T.op = tx[p].op /\ T.address = tx[p].address /\ T.invitation = tx[p].invitation
             /\ T.link = tx[p].link /\ T.held = tx[p].held \cup {tx[p].wants} /\ T.wants = None
    BY <1>2, <1>3, HoldsIs
  <2>2. Lined(T)
    BY <1>2, <2>1 DEF Lined, InvLock, LinkLock, OrgLock
  <2>3. Knows(T)
    BY <1>2, <1>3, <2>1 DEF Knows
  <2>. QED BY <1>1, <1>2, <2>1, <2>2, <2>3, GoesOn
<1>. QED BY <1>1, <1>2, <1>3, EndsIs

LEMMA ChangeLocksStep ==
    ASSUME SeatInv, NEW p \in Requests, NEW op \in {"resend", "cancel"}, ChangeLocks(p, op)
    PROVE  SeatInv'
<1>. DEFINE i == tx[p].invitation
            t == ActiveLink(i)
<1>1. /\ Gets(p, op, "invitation") /\ UNCHANGED rows
      /\ (Pending(i) /\ Holds(p, <<"link", t>>)) \/ Ends(p)
  BY DEF ChangeLocks
<1>2. /\ tx[p] # None /\ tx[p] \in Transactions /\ tx[p].op = op /\ Knows(tx[p])
      /\ tx[p].wants # None /\ Blockers(p) = {}
      /\ tx[p].held = {} /\ tx[p].wants = InvLock(tx[p]) /\ i # None /\ tx[p].link = None
  BY <1>1, Granted, InvStage DEF Gets
<1>3. i \in Ids
  BY <1>2, TransactionIs
<1>4. CASE Pending(i) /\ Holds(p, <<"link", t>>)
  <2>1. t \in ActiveLinks(i) /\ t \in Links
    BY <1>3, <1>4 DEF SeatInv, Opened, ActiveLink, ActiveLinks
  <2>. HIDE DEF t, i
  <2>2. <<"link", t>> \in Locks /\ <<"link", t>> # None
    BY <2>1, Nones DEF Locks
  <2>3. PICK T \in Transactions :
             /\ tx' = [tx EXCEPT ![p] = T]
             /\ T.op = tx[p].op /\ T.address = tx[p].address /\ T.invitation = tx[p].invitation
             /\ T.link = tx[p].link /\ T.held = tx[p].held \cup {tx[p].wants} /\ T.wants = <<"link", t>>
    BY <1>2, <1>4, <2>2, HoldsIs
  <2>4. Lined(T)
    BY <1>2, <2>1, <2>3 DEF Lined, InvLock, i
  <2>5. Knows(T)
    BY <1>2, <1>4, <2>2, <2>3 DEF Knows, i
  <2>. QED BY <1>1, <1>2, <2>3, <2>4, <2>5, GoesOn
<1>. QED BY <1>1, <1>2, <1>4, EndsIs

LEMMA ChangeLocksLinkStep ==
    ASSUME SeatInv, NEW p \in Requests, NEW op \in {"resend", "cancel"}, ChangeLocksLink(p, op)
    PROVE  SeatInv'
<1>. DEFINE t == tx[p].wants[2]
            T == [tx[p] EXCEPT !.link = t, !.held = @ \cup {tx[p].wants},
                               !.wants = <<"share", tx[p].address[1]>>]
<1>1. /\ Gets(p, op, "link") /\ UNCHANGED rows
      /\ tx' = [tx EXCEPT ![p].link = t, ![p].held = @ \cup {tx[p].wants},
                          ![p].wants = <<"share", tx[p].address[1]>>]
  BY DEF ChangeLocksLink
<1>2. /\ tx[p] # None /\ tx[p] \in Transactions /\ tx[p].op = op /\ Knows(tx[p])
      /\ tx[p].wants # None /\ Blockers(p) = {} /\ tx[p].invitation # None
      /\ tx[p].held = {InvLock(tx[p])} /\ tx[p].wants = <<"link", t>>
      /\ t \in ActiveLinks(tx[p].invitation)
  BY <1>1, Granted, LinkStage DEF Gets
<1>3. t \in Links /\ t # None /\ <<"link", t>> \in Locks
  BY <1>2, Nones DEF ActiveLinks, Locks
<1>4. <<"share", tx[p].address[1]>> \in Locks /\ <<"share", tx[p].address[1]>> # None
  BY <1>2, LocksAre, Nones DEF ShareLock
<1>. HIDE DEF t
<1>5. tx' = [tx EXCEPT ![p] = T]
  BY <1>1, <1>2 DEF SeatInv, TypeOK
<1>6. /\ T \in Transactions /\ T.op = op /\ T.address = tx[p].address
      /\ T.invitation = tx[p].invitation /\ T.link = t
      /\ T.held = {InvLock(tx[p])} \cup {<<"link", t>>} /\ T.wants = <<"share", tx[p].address[1]>>
  BY <1>2, <1>3, <1>4, TransactionIs DEF Transactions
<1>. HIDE DEF T
<1>7. Lined(T)
  BY <1>2, <1>6 DEF Lined, InvLock, LinkLock, ShareLock
<1>8. Knows(T)
  BY <1>2, <1>4, <1>6 DEF Knows
<1>9. T.held \subseteq tx[p].held \cup {tx[p].wants} /\ T.op = tx[p].op
  BY <1>2, <1>6
<1>. QED BY <1>1, <1>2, <1>5, <1>6, <1>7, <1>8, <1>9, GoesOn

LEMMA AcceptLocksStep ==
    ASSUME SeatInv, NEW p \in Requests, AcceptLocks(p) PROVE SeatInv'
<1>. DEFINE next == <<"link", tx[p].link>>
<1>1. /\ Gets(p, "accept", "invitation") /\ UNCHANGED rows
      /\ (Pending(tx[p].invitation) /\ Holds(p, next)) \/ Ends(p)
  BY DEF AcceptLocks
<1>2. /\ tx[p] # None /\ tx[p] \in Transactions /\ tx[p].op = "accept" /\ Knows(tx[p])
      /\ tx[p].wants # None /\ Blockers(p) = {} /\ tx[p].link # None
      /\ tx[p].held = {} /\ tx[p].wants = InvLock(tx[p]) /\ tx[p].invitation # None
  BY <1>1, Granted, InvStage DEF Gets
<1>3. CASE Pending(tx[p].invitation) /\ Holds(p, next)
  <2>1. next \in Locks /\ next # None
    BY <1>2, LocksAre, Nones DEF LinkLock
  <2>2. PICK T \in Transactions :
             /\ tx' = [tx EXCEPT ![p] = T]
             /\ T.op = tx[p].op /\ T.address = tx[p].address /\ T.invitation = tx[p].invitation
             /\ T.link = tx[p].link /\ T.held = tx[p].held \cup {tx[p].wants} /\ T.wants = next
    BY <1>2, <1>3, <2>1, HoldsIs
  <2>3. Lined(T)
    BY <1>2, <2>2 DEF Lined, InvLock, LinkLock
  <2>4. Knows(T)
    BY <1>2, <1>3, <2>2 DEF Knows
  <2>. QED BY <1>1, <1>2, <2>2, <2>3, <2>4, GoesOn
<1>. QED BY <1>1, <1>2, <1>3, EndsIs


LEMMA AcceptValidatesStep ==
    ASSUME SeatInv, NEW p \in Requests, AcceptValidates(p) PROVE SeatInv'
<1>. DEFINE x == tx[p].address
<1>1. /\ Gets(p, "accept", "link") /\ UNCHANGED rows
      /\ \/ Ends(p)
         \/ Good(tx[p].link) /\ Holds(p, <<"user", x[2]>>)
         \/ Good(tx[p].link) /\ Holds(p, <<"share", x[1]>>)
  BY DEF AcceptValidates
<1>2. /\ tx[p] # None /\ tx[p] \in Transactions /\ tx[p].op = "accept" /\ Knows(tx[p])
      /\ tx[p].wants # None /\ Blockers(p) = {} /\ tx[p].invitation # None /\ tx[p].link # None
      /\ tx[p].held = {InvLock(tx[p])} /\ tx[p].wants = LinkLock(tx[p])
  BY <1>1, Granted, LinkStage DEF Gets
<1>3. ASSUME Good(tx[p].link),
             NEW next \in {<<"user", x[2]>>, <<"share", x[1]>>}, Holds(p, next)
      PROVE  SeatInv'
  <2>1. next \in Locks /\ next # None
    BY <1>2, <1>3, LocksAre, Nones DEF UserLock, ShareLock
  <2>2. PICK T \in Transactions :
             /\ tx' = [tx EXCEPT ![p] = T]
             /\ T.op = tx[p].op /\ T.address = x /\ T.invitation = tx[p].invitation
             /\ T.link = tx[p].link /\ T.held = tx[p].held \cup {tx[p].wants} /\ T.wants = next
    BY <1>2, <1>3, <2>1, HoldsIs
  <2>3. tx[p].link \in ActiveLinks(tx[p].invitation)
    <3>1. tx[p].link \in Links /\ link[tx[p].link].invitation = tx[p].invitation
      BY <1>2, TransactionIs DEF Knows
    <3>. QED BY <1>3, <3>1 DEF ActiveLinks, Good
  <2>4. Lined(T)
    BY <1>2, <1>3, <2>2, <2>3 DEF Lined, InvLock, LinkLock, UserLock, ShareLock
  <2>5. Knows(T)
    BY <1>2, <2>1, <2>2 DEF Knows
  <2>. QED BY <1>1, <1>2, <2>2, <2>4, <2>5, GoesOn
<1>4. CASE Ends(p)
  BY <1>1, <1>2, <1>4, EndsIs
<1>. QED BY <1>1, <1>3, <1>4

LEMMA AcceptInsertsUserStep ==
    ASSUME SeatInv, NEW p \in Requests, AcceptInsertsUser(p) PROVE SeatInv'
<1>. DEFINE x == tx[p].address
            share == <<"share", x[1]>>
            T == [tx[p] EXCEPT !.wants = share]
<1>1. /\ Gets(p, "accept", "user") /\ UNCHANGED rows
      /\ Ends(p) \/ tx' = [tx EXCEPT ![p].wants = share] \/ Holds(p, share)
  BY DEF AcceptInsertsUser
<1>2. /\ tx[p] # None /\ tx[p] \in Transactions /\ tx[p].op = "accept" /\ Knows(tx[p])
      /\ tx[p].wants # None /\ Blockers(p) = {} /\ tx[p].invitation # None
      /\ tx[p].held = {InvLock(tx[p]), LinkLock(tx[p])} /\ tx[p].wants = UserLock(tx[p])
      /\ tx[p].link \in ActiveLinks(tx[p].invitation)
  BY <1>1, Granted, UserStage DEF Gets
<1>3. share \in Locks /\ share # None
  BY <1>2, LocksAre, Nones DEF ShareLock
<1>4. CASE tx' = [tx EXCEPT ![p].wants = share]
  <2>1. tx' = [tx EXCEPT ![p] = T]
    BY <1>4, <1>2 DEF SeatInv, TypeOK
  <2>2. /\ T \in Transactions /\ T.op = "accept" /\ T.address = x /\ T.invitation = tx[p].invitation
        /\ T.link = tx[p].link /\ T.held = tx[p].held /\ T.wants = share
    BY <1>2, <1>3 DEF Transactions
  <2>. HIDE DEF T
  <2>3. Lined(T)
    BY <1>2, <2>2 DEF Lined, InvLock, LinkLock, ShareLock
  <2>4. Knows(T)
    BY <1>2, <1>3, <2>2 DEF Knows
  <2>. QED BY <1>1, <1>2, <2>1, <2>2, <2>3, <2>4, GoesOn
<1>5. CASE Holds(p, share)
  <2>1. PICK U \in Transactions :
             /\ tx' = [tx EXCEPT ![p] = U]
             /\ U.op = tx[p].op /\ U.address = x /\ U.invitation = tx[p].invitation
             /\ U.link = tx[p].link /\ U.held = tx[p].held \cup {tx[p].wants} /\ U.wants = share
    BY <1>2, <1>3, <1>5, HoldsIs
  <2>2. Lined(U)
    BY <1>2, <2>1 DEF Lined, InvLock, LinkLock, UserLock, ShareLock
  <2>3. Knows(U)
    BY <1>2, <1>3, <2>1 DEF Knows
  <2>. QED BY <1>1, <1>2, <2>1, <2>2, <2>3, GoesOn
<1>6. CASE Ends(p)
  BY <1>1, <1>2, <1>6, EndsIs
<1>. QED BY <1>1, <1>4, <1>5, <1>6


-----------------------------------------------------------------------------
(* Seats: what a commit changes                                            *)

LEMMA SeatsAre ==
    ASSUME NEW o
    PROVE  LET S == {x \in Addresses : x[1] = o /\ member[x] = "active"}
               P == {i \in Ids : Pending(i) /\ invitation[i].address[1] = o}
           IN /\ Seats(o) = Cardinality(S) + Cardinality(P) /\ Seats(o) \in Nat
              /\ IsFiniteSet(S) /\ IsFiniteSet(P) /\ Cardinality(S) \in Nat /\ Cardinality(P) \in Nat
<1>. DEFINE S == {x \in Addresses : x[1] = o /\ member[x] = "active"}
            P == {i \in Ids : Pending(i) /\ invitation[i].address[1] = o}
<1>1. S \in SUBSET Addresses /\ P \in SUBSET Ids
  OBVIOUS
<1>2. Seats(o) = Cardinality(S) + Cardinality(P)
  BY DEF Seats
<1>. HIDE DEF S, P
<1>3. IsFiniteSet(S) /\ IsFiniteSet(P)
  BY <1>1, Nones, FS_Subset
<1>4. Cardinality(S) \in Nat /\ Cardinality(P) \in Nat
  BY <1>3, FS_CardinalityType
<1>. QED BY <1>2, <1>3, <1>4 DEF S, P

LEMMA SeatsNat ==
    /\ \A o \in Orgs : Seats(o) \in Nat
    /\ \A o \in Orgs : Seats(o)' \in Nat
<1>1. \A o \in Orgs : Seats(o) \in Nat
  BY SeatsAre
<1>2. (\A o \in Orgs : Seats(o) \in Nat)'
  BY <1>1, PTL
<1>. QED BY <1>1, <1>2

\* An organization whose members and invitations stay keeps its seats.
LEMMA SeatsElsewhere ==
    ASSUME NEW o,
           \A x \in Addresses : x[1] = o => member'[x] = member[x],
           \A i \in Ids : (Pending(i) /\ invitation[i].address[1] = o)'
                            <=> (Pending(i) /\ invitation[i].address[1] = o)
    PROVE  Seats(o)' = Seats(o)
<1>1. {x \in Addresses : x[1] = o /\ member'[x] = "active"} = {x \in Addresses : x[1] = o /\ member[x] = "active"}
  OBVIOUS
<1>2. {i \in Ids : Pending(i)' /\ invitation'[i].address[1] = o}
        = {i \in Ids : Pending(i) /\ invitation[i].address[1] = o}
  OBVIOUS
<1>. QED BY <1>1, <1>2 DEF Seats

\* The lock of an invitation has one holder.
LEMMA Alone ==
    ASSUME SeatInv, NEW p \in Requests, NEW q \in Requests, p # q, tx[p] # None, tx[q] # None,
           InvLock(tx[p]) \in tx[p].held, tx[q].held # {}, tx[q].invitation # None
    PROVE  tx[p].invitation # tx[q].invitation
<1>1. Lined(tx[q]) /\ Exclusive
  BY RunningIs DEF SeatInv
<1>2. InvLock(tx[q]) \in tx[q].held
  BY <1>1 DEF Lined
<1>3. ~Conflict(InvLock(tx[p]), InvLock(tx[q]))
  BY <1>1, <1>2 DEF Exclusive
<1>4. InvLock(tx[p])[1] # "share"
  BY DEF InvLock
<1>. QED BY <1>3, <1>4 DEF Conflict, InvLock

\* Rows change; the transactions that go on keep what they know.
LEMMA Settles ==
    ASSUME SeatInv, TypeOK', Rowed', Reserved', limit' = limit,
           \A i \in Ids : Opened(i)',
           \A q \in Requests : tx'[q] \in {tx[q], None},
           \A i \in Ids : invitation[i].status # "absent" =>
             invitation'[i].status # "absent" /\ invitation'[i].address = invitation[i].address,
           \A t \in Links : link[t].state # "absent" => link'[t].invitation = link[t].invitation,
           \A q \in Requests, i \in Ids :
             (tx'[q] # None /\ tx[q] # None /\ tx[q].invitation = i /\ tx[q].held # {}) =>
               Pending(i)' /\ ActiveLinks(i) \subseteq ActiveLinks(i)',
           \A q \in Requests, o \in Orgs :
             (/\ tx'[q] # None /\ tx[q] # None /\ tx[q].op = "create" /\ tx[q].wants = None
              /\ tx[q].address[1] = o) => Seats(o)' <= Seats(o)
    PROVE  SeatInv'
<1>0. Exclusive /\ Rowed /\ TypeOK
  BY DEF SeatInv
<1>1. Exclusive'
  BY <1>0 DEF Exclusive, Conflict
<1>2. ASSUME NEW q \in Requests, tx'[q] # None PROVE Lined(tx[q])' /\ Knows(tx[q])'
  <2>. DEFINE T == tx[q]
              i == T.invitation
  <2>0. tx'[q] = T /\ T # None /\ T \in Transactions /\ Lined(T) /\ Knows(T)
    BY <1>2, RunningIs
  <2>1. /\ T.invitation \in Ids \cup {None} /\ T.link \in Links \cup {None} /\ T.address \in Addresses
        /\ (i # None /\ T.held # {}) =>
             Pending(i)' /\ ActiveLinks(i) \subseteq ActiveLinks(i)'
    BY <1>2, <2>0, TransactionIs
  <2>2. Lined(T)'
    BY <2>0, <2>1 DEF Lined, InvLock, LinkLock, OrgLock, ShareLock, UserLock
  <2>3. i # None => invitation'[i].status # "absent" /\ invitation'[i].address = T.address
    BY <2>0, <2>1 DEF Knows
  <2>4. T.op = "accept" => T.link # None /\ i # None /\ link'[T.link].invitation = i
    BY <1>0, <2>0, <2>1, Nones DEF Knows, Rowed
  <2>5. ASSUME T.op = "create", T.wants = None
        PROVE  Room(T.address[1], Seats(T.address[1]) + 1 - (IF i = None THEN 0 ELSE 1))'
    <3>. DEFINE o == T.address[1]
                d == IF i = None THEN 0 ELSE 1
    <3>1. o \in Orgs /\ (limit[o] = None \/ limit[o] \in Nat)
      BY <1>0, <2>1, SeatLimits DEF TypeOK, Orgs
    <3>2. Room(o, Seats(o) + 1 - d) /\ Seats(o)' <= Seats(o)
      BY <1>2, <2>0, <2>5, <3>1 DEF Knows
    <3>3. Seats(o) \in Nat /\ Seats(o)' \in Nat /\ d \in {0, 1}
      BY <2>0, <3>1, SeatsNat
    <3>. HIDE DEF o, d
    <3>4. limit'[o] = None \/ Seats(o)' + 1 - d <= limit'[o]
      BY <3>2, <3>3, <3>1 DEF Room
    <3>5. limit'[o] = None \/ (Seats(o)' + 1 - d <= limit'[o])
      BY <3>4
    <3>. QED BY <2>0, <3>5 DEF Room, o, d
  <2>6. Knows(T)'
    BY <2>0, <2>1, <2>3, <2>4, <2>5 DEF Knows
  <2>. QED BY <2>0, <2>2, <2>6 DEF Lined, Knows
<1>. QED BY <1>1, <1>2 DEF SeatInv


\* mintToken: the new link is the newest, the old one opens nothing any more.
LEMMA ReplacingIs ==
    ASSUME SeatInv, AbsentLinks # {}, NEW i \in Ids, NEW old \in Links \cup {None},
           old # None => old \notin AbsentLinks, link' = Replacing(i, old),
           Pending(i) => ActiveLinks(i) \subseteq {old}
    PROVE  /\ link' \in [Links -> LinkRows]
           /\ NextLink \in AbsentLinks /\ AbsentLinks' = AbsentLinks \ {NextLink}
           /\ \A t \in Links : link[t].state # "absent" =>
                link'[t].state # "absent" /\ link'[t].invitation = link[t].invitation
           /\ link'[NextLink].invitation = i
           /\ \A t \in Links : link'[t].state = "absent" => link[t].state = "absent" /\ link'[t] = link[t]
           /\ \A t, u \in Links : link'[t].state = "absent" /\ t <= u => link'[u].state = "absent"
           /\ ActiveLinks(i)' = {NextLink}
           /\ \A t \in Links : link'[t].invitation = i => t <= NextLink
           /\ \A j \in Ids \ {i} : ActiveLinks(j)' = ActiveLinks(j) \ {old}
<1>. DEFINE n == NextLink
            x == [invitation |-> i, state |-> "live"]
<1>0. /\ link \in [Links -> LinkRows] /\ Rowed /\ Opened(i)
      /\ n \in Links /\ link[n].state = "absent" /\ Links \subseteq Nat
      /\ \A u \in Links : link[u].state = "absent" => n <= u
  BY NextLinkIs, Nones DEF SeatInv, TypeOK
<1>1. link' = [t \in Links |-> IF t = n THEN x
                               ELSE IF t = old THEN [link[t] EXCEPT !.state = "invalidated"] ELSE link[t]]
  BY DEF Replacing
<1>2. x \in LinkRows /\ x.invitation = i /\ x.state = "live"
  BY DEF LinkRows
<1>. HIDE DEF n, x
<1>3. \A r \in LinkRows : LET y == [r EXCEPT !.state = "invalidated"] IN
        y \in LinkRows /\ y.invitation = r.invitation /\ y.state = "invalidated"
  BY DEF LinkRows
<1>4. old # n
  BY <1>0, Nones DEF AbsentLinks
<1>5. /\ link'[n] = x
      /\ \A t \in Links \ {n} : t # old => link'[t] = link[t]
      /\ \A t \in Links \ {n} : t = old => /\ link'[t] \in LinkRows
                                           /\ link'[t].invitation = link[t].invitation
                                           /\ link'[t].state = "invalidated"
      /\ link' \in [Links -> LinkRows]
  <2>1. link'[n] = x /\ \A t \in Links \ {n} : t # old => link'[t] = link[t]
    BY <1>0, <1>1
  <2>2. ASSUME NEW t \in Links \ {n}, t = old
        PROVE  link'[t] \in LinkRows /\ link'[t].invitation = link[t].invitation /\ link'[t].state = "invalidated"
    <3>1. link'[t] = [link[t] EXCEPT !.state = "invalidated"] /\ link[t] \in LinkRows
      BY <1>0, <1>1, <2>2
    <3>. QED BY <1>3, <3>1
  <2>3. \A t \in Links : link'[t] \in LinkRows
    BY <1>0, <1>2, <2>1, <2>2
  <2>4. link' = [t \in Links |-> link'[t]]
    BY <1>1
  <2>5. link' \in [Links -> LinkRows]
    BY <2>3, <2>4
  <2>. QED BY <2>1, <2>2, <2>5
<1>6. n \in AbsentLinks /\ AbsentLinks' = AbsentLinks \ {n}
  <2>1. \A t \in Links : link'[t].state = "absent" <=> link[t].state = "absent" /\ t # n
    BY <1>0, <1>2, <1>5, Nones DEF AbsentLinks
  <2>. QED BY <1>0, <2>1 DEF AbsentLinks
<1>7. \A t \in Links : link[t].state # "absent" =>
        link'[t].state # "absent" /\ link'[t].invitation = link[t].invitation
  BY <1>0, <1>5
<1>8. \A t \in Links : link'[t].state = "absent" => link[t].state = "absent" /\ link'[t] = link[t]
  BY <1>2, <1>5
<1>9. \A t, u \in Links : link'[t].state = "absent" /\ t <= u => link'[u].state = "absent"
  <2>. SUFFICES ASSUME NEW t \in Links, NEW u \in Links, link'[t].state = "absent", t <= u
                PROVE  link'[u].state = "absent"
    OBVIOUS
  <2>1. link[t].state = "absent" /\ t # n
    BY <1>2, <1>5, <1>8
  <2>2. link[u].state = "absent"
    BY <1>0, <2>1 DEF Rowed
  <2>3. u # n
    <3>1. n <= t
      BY <1>0, <2>1
    <3>. QED BY <1>0, <2>1, <3>1
  <2>4. u # old
    BY <2>2, Nones DEF AbsentLinks
  <2>. QED BY <1>5, <2>2, <2>3, <2>4
<1>10. ActiveLinks(i)' = {n}
  <2>1. \A t \in Links \ {n} : link[t].state \in {"live", "expired"} /\ link[t].invitation = i => t = old
    BY <1>0 DEF Opened, ActiveLinks
  <2>2. \A t \in Links \ {n} : ~(link'[t].state \in {"live", "expired"} /\ link'[t].invitation = i)
    BY <1>5, <2>1
  <2>. QED BY <1>0, <1>2, <1>5, <2>2 DEF ActiveLinks
<1>11. ASSUME NEW t \in Links, link'[t].invitation = i PROVE t <= n
  <2>1. CASE t = n
    BY <1>0, <2>1
  <2>2. CASE t # n
    <3>1. link[t].invitation = i
      BY <1>5, <1>11, <2>2
    <3>2. link[t].state # "absent"
      BY <1>0, <3>1, Nones DEF Rowed
    <3>3. ~ (n <= t)
      BY <1>0, <3>2 DEF Rowed
    <3>. QED BY <1>0, <3>3
  <2>. QED BY <2>1, <2>2
<1>12. ASSUME NEW j \in Ids \ {i} PROVE ActiveLinks(j)' = ActiveLinks(j) \ {old}
  <2>1. \A t \in Links \ {n} : (link'[t].state \in {"live", "expired"} /\ link'[t].invitation = j)
           <=> (link[t].state \in {"live", "expired"} /\ link[t].invitation = j /\ t # old)
    BY <1>5
  <2>2. n \notin ActiveLinks(j) /\ link'[n].invitation # j
    BY <1>0, <1>2, <1>5 DEF ActiveLinks
  <2>. QED BY <2>1, <2>2 DEF ActiveLinks
<1>. QED BY <1>2, <1>5, <1>6, <1>7, <1>8, <1>9, <1>10, <1>11, <1>12 DEF n


\* ... so links and invitations fit each other after it.
LEMMA Reopened ==
    ASSUME SeatInv, AbsentLinks # {}, NEW i \in Ids, NEW old \in Links \cup {None},
           old # None => old \notin AbsentLinks, link' = Replacing(i, old),
           Pending(i) => ActiveLinks(i) \subseteq {old}, Pending(i)',
           \A j \in Ids : invitation[j].status # "absent" => invitation'[j].status # "absent",
           \A j \in Ids : invitation'[j].status # "absent" => invitation'[j].address \in Addresses,
           \A j \in Ids \ {i} : Pending(j)' => Pending(j) /\ old \notin ActiveLinks(j),
           \A j \in Ids \ {i} : ~Pending(j)' => ActiveLinks(j) \subseteq {old}
    PROVE  Rowed' /\ \A j \in Ids : Opened(j)'
<1>. DEFINE n == NextLink
<1>1. /\ n \in AbsentLinks /\ AbsentLinks' = AbsentLinks \ {n} /\ n \in Links
      /\ \A t \in Links : link[t].state # "absent" =>
                link'[t].state # "absent" /\ link'[t].invitation = link[t].invitation
      /\ link'[n].invitation = i
      /\ \A t \in Links : link'[t].state = "absent" => link[t].state = "absent" /\ link'[t] = link[t]
      /\ \A t, u \in Links : link'[t].state = "absent" /\ t <= u => link'[u].state = "absent"
      /\ ActiveLinks(i)' = {n}
      /\ \A t \in Links : link'[t].invitation = i => t <= n
      /\ \A j \in Ids \ {i} : ActiveLinks(j)' = ActiveLinks(j) \ {old}
  <2>1. AbsentLinks \subseteq Links
    BY DEF AbsentLinks
  <2>. QED BY <2>1, ReplacingIs
<1>. HIDE DEF n
<1>2. \A t \in Links : link'[t].state # "absent" /\ link[t].state = "absent" => t = n
  BY <1>1 DEF AbsentLinks
<1>3. \A t \in Links \ {n} : link'[t].invitation = link[t].invitation
  BY <1>1, <1>2
<1>4. Rowed /\ (invitation'[i].status # "absent")
  BY DEF SeatInv, Pending
<1>5. Rowed'
  <2>1. ASSUME NEW t \in Links
        PROVE  IF link'[t].state = "absent" THEN link'[t].invitation = None
               ELSE link'[t].invitation \in Ids /\ invitation'[link'[t].invitation].status # "absent"
    <3>1. CASE link'[t].state = "absent"
      BY <1>1, <1>4, <3>1 DEF Rowed
    <3>2. CASE link'[t].state # "absent" /\ t = n
      BY <1>1, <1>4, <3>2
    <3>3. CASE link'[t].state # "absent" /\ t # n
      BY <1>1, <1>2, <1>3, <1>4, <3>3 DEF Rowed
    <3>. QED BY <3>1, <3>2, <3>3
  <2>. QED BY <1>1, <2>1 DEF Rowed
<1>6. Opened(i)'
  BY <1>1 DEF Opened
<1>7. ASSUME NEW j \in Ids \ {i} PROVE Opened(j)'
  <2>1. Opened(j) /\ ActiveLinks(j)' = ActiveLinks(j) \ {old}
    BY <1>1 DEF SeatInv
  <2>2. CASE ~Pending(j)'
    BY <2>1, <2>2 DEF Opened
  <2>3. CASE Pending(j)'
    <3>1. Pending(j) /\ old \notin ActiveLinks(j)
      BY <2>3
    <3>2. PICK t \in Links : ActiveLinks(j) = {t} /\ \A u \in Links : link[u].invitation = j => u <= t
      BY <2>1, <3>1 DEF Opened
    <3>3. ActiveLinks(j)' = {t} /\ \A u \in Links : link'[u].invitation = j => u <= t
      BY <1>1, <1>3, <2>1, <3>1, <3>2
    <3>. QED BY <2>3, <3>3 DEF Opened
  <2>. QED BY <2>2, <2>3
<1>. QED BY <1>5, <1>6, <1>7

\* A request that ends frees what was kept for it.
LEMMA Spared ==
    ASSUME SeatInv, NEW p \in Requests, tx[p] # None, Ends(p),
           \/ AbsentIds' = AbsentIds
           \/ tx[p].op = "create" /\ \E i \in AbsentIds : AbsentIds' = AbsentIds \ {i},
           \/ AbsentLinks' = AbsentLinks
           \/ tx[p].op \in {"create", "resend"} /\ \E t \in AbsentLinks : AbsentLinks' = AbsentLinks \ {t}
    PROVE  Reserved'
<1>0. /\ Reserved /\ tx'[p] = None /\ \A q \in Requests \ {p} : tx'[q] = tx[q]
  BY DEF SeatInv, TypeOK, Ends
<1>1. /\ Creating' = Creating \ {p} /\ Minting' = Minting \ {p}
  BY <1>0 DEF Creating, Minting
<1>2. /\ IsFiniteSet(Creating) /\ IsFiniteSet(Minting) /\ IsFiniteSet(AbsentIds) /\ IsFiniteSet(AbsentLinks)
      /\ Cardinality(Creating) \in Nat /\ Cardinality(Minting) \in Nat
      /\ Cardinality(AbsentIds) \in Nat /\ Cardinality(AbsentLinks) \in Nat
  BY Counts
<1>3. ASSUME NEW S, IsFiniteSet(S), Cardinality(S) \in Nat
      PROVE  /\ Cardinality(S \ {p}) <= Cardinality(S) /\ Cardinality(S \ {p}) \in Nat
             /\ p \in S => Cardinality(S \ {p}) = Cardinality(S) - 1
  <2>1. IsFiniteSet(S \ {p}) /\ Cardinality(S \ {p}) = IF p \in S THEN Cardinality(S) - 1 ELSE Cardinality(S)
    BY <1>3, FS_RemoveElement
  <2>2. Cardinality(S \ {p}) \in Nat
    BY <2>1, FS_CardinalityType
  <2>. QED BY <1>3, <2>1, <2>2
<1>4. /\ Cardinality(Creating \ {p}) <= Cardinality(Creating) /\ Cardinality(Creating \ {p}) \in Nat
      /\ p \in Creating => Cardinality(Creating \ {p}) = Cardinality(Creating) - 1
  BY <1>2, <1>3
<1>7. /\ Cardinality(Minting \ {p}) <= Cardinality(Minting) /\ Cardinality(Minting \ {p}) \in Nat
      /\ p \in Minting => Cardinality(Minting \ {p}) = Cardinality(Minting) - 1
  BY <1>2, <1>3
<1>5. Cardinality(Creating') <= Cardinality(AbsentIds')
  <2>1. CASE AbsentIds' = AbsentIds
    BY <1>0, <1>1, <1>2, <1>4, <2>1 DEF Reserved
  <2>2. CASE tx[p].op = "create" /\ \E i \in AbsentIds : AbsentIds' = AbsentIds \ {i}
    <3>1. PICK i \in AbsentIds : AbsentIds' = AbsentIds \ {i}
      BY <2>2
    <3>2. Cardinality(AbsentIds') = Cardinality(AbsentIds) - 1
      BY <1>2, <3>1, FS_RemoveElement
    <3>3. p \in Creating
      BY <2>2 DEF Creating
    <3>. QED BY <1>0, <1>1, <1>2, <1>4, <3>2, <3>3 DEF Reserved
  <2>. QED BY <2>1, <2>2
<1>6. Cardinality(Minting') <= Cardinality(AbsentLinks')
  <2>1. CASE AbsentLinks' = AbsentLinks
    BY <1>0, <1>1, <1>2, <1>7, <2>1 DEF Reserved
  <2>2. CASE tx[p].op \in {"create", "resend"} /\ \E t \in AbsentLinks : AbsentLinks' = AbsentLinks \ {t}
    <3>1. PICK t \in AbsentLinks : AbsentLinks' = AbsentLinks \ {t}
      BY <2>2
    <3>2. Cardinality(AbsentLinks') = Cardinality(AbsentLinks) - 1
      BY <1>2, <3>1, FS_RemoveElement
    <3>3. p \in Minting
      BY <2>2 DEF Minting
    <3>. QED BY <1>0, <1>1, <1>2, <1>7, <3>2, <3>3 DEF Reserved
  <2>. QED BY <2>1, <2>2
<1>. QED BY <1>5, <1>6 DEF Reserved

\* What waits with nothing left to lock is a create that holds its organization.
LEMMA Writer ==
    ASSUME SeatInv, NEW q \in Requests, tx[q] # None, tx[q].op = "create", tx[q].wants = None
    PROVE  OrgLock(tx[q]) \in tx[q].held
BY RunningIs, WriteStage

\* A transaction that waits to share its organization gets it when none writes there.
LEMMA Quiet ==
    ASSUME SeatInv, NEW p \in Requests, NEW op, Gets(p, op, "share"), NEW q \in Requests \ {p},
           tx[q] # None, tx[q].op = "create", tx[q].wants = None
    PROVE  tx[q].address[1] # tx[p].address[1]
<1>1. /\ tx[p].wants = ShareLock(tx[p])
      /\ \A k \in tx[q].held : ~Conflict(tx[p].wants, k)
  BY Granted, ShareStage
<1>2. OrgLock(tx[q]) \in tx[q].held
  BY Writer
<1>3. ~Conflict(ShareLock(tx[p]), OrgLock(tx[q]))
  BY <1>1, <1>2
<1>. QED BY <1>3 DEF Conflict, ShareLock, OrgLock

LEMMA ResendCommitsStep ==
    ASSUME SeatInv, NEW p \in Requests, ResendCommits(p) PROVE SeatInv'
<1>. DEFINE i == tx[p].invitation
            old == tx[p].link
<1>1. /\ Gets(p, "resend", "share") /\ Ends(p) /\ link' = Replacing(i, old)
      /\ UNCHANGED <<invitation, member, users, limit>>
  BY DEF ResendCommits
<1>2. /\ tx[p] # None /\ tx[p] \in Transactions /\ tx[p].op = "resend" /\ Knows(tx[p])
      /\ InvLock(tx[p]) \in tx[p].held /\ i # None /\ old \in ActiveLinks(i)
  BY <1>1, Granted, ShareStage
<1>3. /\ i \in Ids /\ Pending(i) /\ old \in Links \cup {None} /\ old \notin AbsentLinks
  BY <1>2, TransactionIs DEF Knows, ActiveLinks, AbsentLinks
<1>4. /\ tx' = [tx EXCEPT ![p] = None] /\ tx'[p] = None
      /\ \A q \in Requests \ {p} : tx'[q] = tx[q]
  BY <1>1 DEF Ends, SeatInv, TypeOK
<1>. HIDE DEF i, old
<1>5. ActiveLinks(i) \subseteq {old}
  BY <1>2, <1>3 DEF SeatInv, Opened
<1>6. AbsentLinks # {}
  <2>1. p \in Minting /\ Reserved
    BY <1>2 DEF Minting, SeatInv
  <2>2. Cardinality(Minting) # 0
    BY <2>1, Counts, FS_EmptySet
  <2>3. Cardinality(AbsentLinks) # 0
    BY <2>1, <2>2, Counts DEF Reserved
  <2>. QED BY <2>3, FS_EmptySet
<1>7. \A j \in Ids : Pending(j)' <=> Pending(j)
  BY <1>1 DEF Pending
<1>8. ASSUME NEW j \in Ids \ {i} PROVE old \notin ActiveLinks(j)
  BY <1>2 DEF ActiveLinks
<1>9. Rowed' /\ \A j \in Ids : Opened(j)'
  <2>1. \A j \in Ids : invitation[j].status # "absent" => invitation[j].address \in Addresses
    BY DEF SeatInv, Rowed
  <2>2. \A j \in Ids \ {i} : ~Pending(j) => ActiveLinks(j) \subseteq {old}
    BY DEF SeatInv, Opened
  <2>. QED BY <1>1, <1>3, <1>5, <1>6, <1>7, <1>8, <2>1, <2>2, Reopened
<1>10. /\ link' \in [Links -> LinkRows] /\ NextLink \in AbsentLinks /\ AbsentLinks' = AbsentLinks \ {NextLink}
       /\ \A t \in Links : link[t].state # "absent" => link'[t].invitation = link[t].invitation
       /\ \A j \in Ids \ {i} : ActiveLinks(j)' = ActiveLinks(j) \ {old}
  BY <1>1, <1>3, <1>5, <1>6, ReplacingIs
<1>11. TypeOK'
  BY <1>1, <1>4, <1>10 DEF SeatInv, TypeOK
<1>12. AbsentIds' = AbsentIds
  BY <1>1 DEF AbsentIds
<1>13. Reserved'
  BY <1>1, <1>2, <1>10, <1>12, Spared
<1>14. ASSUME NEW q \in Requests, NEW j \in Ids, tx'[q] # None, tx[q] # None, tx[q].invitation = j,
              tx[q].held # {}
       PROVE  Pending(j)' /\ ActiveLinks(j) \subseteq ActiveLinks(j)'
  <2>1. q # p
    BY <1>4, <1>14
  <2>2. j # None
    BY Nones
  <2>3. i # j
    BY <1>2, <1>14, <2>1, <2>2, Alone DEF i
  <2>4. Pending(j)
    BY <1>14, <2>2, RunningIs DEF Knows
  <2>. QED BY <1>7, <1>8, <1>10, <2>3, <2>4
<1>15. ASSUME NEW o \in Orgs PROVE Seats(o)' <= Seats(o)
  <2>1. Seats(o)' = Seats(o)
    BY <1>1, SeatsElsewhere DEF Pending
  <2>. QED BY <2>1, SeatsNat
<1>. QED BY <1>1, <1>4, <1>9, <1>10, <1>11, <1>13, <1>14, <1>15, Settles

\* An invitation gets its final answer and its link is spent.
LEMMA Finishes ==
    ASSUME SeatInv, NEW p \in Requests, tx[p] # None, Ends(p), NEW i \in Ids, NEW old \in Links,
           tx[p].invitation = i, InvLock(tx[p]) \in tx[p].held, old \in ActiveLinks(i),
           \A q \in Requests \ {p} : (tx[q] # None /\ tx[q].op = "create" /\ tx[q].wants = None)
             => tx[q].address[1] # tx[p].address[1],
           invitation' \in [Ids -> Invitations], \A j \in Ids \ {i} : invitation'[j] = invitation[j],
           invitation'[i].status \in {"accepted", "canceled"},
           invitation'[i].address = invitation[i].address,
           link' \in [Links -> LinkRows], \A t \in Links \ {old} : link'[t] = link[t],
           link'[old].state \in {"consumed", "invalidated"}, link'[old].invitation = i,
           member' \in [Addresses -> {"none", "active", "disabled"}],
           \A y \in Addresses : y[1] # tx[p].address[1] => member'[y] = member[y],
           users' \subseteq Emails, limit' = limit
    PROVE  SeatInv'
<1>1. /\ tx' = [tx EXCEPT ![p] = None] /\ tx'[p] = None
      /\ \A q \in Requests \ {p} : tx'[q] = tx[q]
  BY DEF Ends, SeatInv, TypeOK
<1>2. /\ tx[p] \in Transactions /\ Knows(tx[p]) /\ TypeOK /\ Rowed /\ Opened(i)
      /\ link[old].state \in {"live", "expired"} /\ link[old].invitation = i
  BY RunningIs DEF SeatInv, ActiveLinks
<1>3. i # None /\ Pending(i) /\ invitation[i].address = tx[p].address /\ tx[p].address \in Addresses
  BY <1>2, Nones, TransactionIs DEF Knows
<1>4. ActiveLinks(i) = {old}
  BY <1>2, <1>3 DEF Opened
<1>5. /\ \A j \in Ids \ {i} : invitation'[j] = invitation[j]
      /\ invitation'[i].status \in {"accepted", "canceled"} /\ invitation'[i].address = invitation[i].address
      /\ \A t \in Links \ {old} : link'[t] = link[t]
      /\ link'[old].state \in {"consumed", "invalidated"} /\ link'[old].invitation = i
  OBVIOUS
<1>6. TypeOK'
  BY <1>1, <1>2 DEF TypeOK
<1>7. \A j \in Ids : invitation[j].status # "absent" =>
        invitation'[j].status # "absent" /\ invitation'[j].address = invitation[j].address
  BY <1>3, <1>5 DEF Pending
<1>8. \A t \in Links : /\ link'[t].invitation = link[t].invitation
                       /\ link'[t].state = "absent" <=> link[t].state = "absent"
  BY <1>2, <1>5
<1>9. Rowed'
  <2>1. \A j \in Ids : invitation'[j].status # "absent" => invitation'[j].address \in Addresses
    BY <1>2, <1>3, <1>5 DEF Rowed, Pending
  <2>2. \A t \in Links : IF link'[t].state = "absent" THEN link'[t].invitation = None
          ELSE link'[t].invitation \in Ids /\ invitation'[link'[t].invitation].status # "absent"
    BY <1>2, <1>7, <1>8 DEF Rowed
  <2>3. \A t, u \in Links : link'[t].state = "absent" /\ t <= u => link'[u].state = "absent"
    BY <1>2, <1>8 DEF Rowed
  <2>. QED BY <2>1, <2>2, <2>3 DEF Rowed
<1>10. ActiveLinks(i)' = {} /\ \A j \in Ids \ {i} : ActiveLinks(j)' = ActiveLinks(j)
  <2>1. \A t \in Links : ~ (link'[t].state \in {"live", "expired"} /\ link'[t].invitation = i)
    BY <1>4, <1>5 DEF ActiveLinks
  <2>2. \A j \in Ids \ {i}, t \in Links :
          (link'[t].state \in {"live", "expired"} /\ link'[t].invitation = j)
            <=> (link[t].state \in {"live", "expired"} /\ link[t].invitation = j)
    BY <1>2, <1>5
  <2>3. ActiveLinks(i)' = {}
    BY <2>1 DEF ActiveLinks
  <2>4. \A j \in Ids \ {i} : ActiveLinks(j)' = ActiveLinks(j)
    BY <2>2 DEF ActiveLinks
  <2>. QED BY <2>3, <2>4
<1>11. ~Pending(i)' /\ \A j \in Ids \ {i} : Pending(j)' <=> Pending(j)
  BY <1>5 DEF Pending
<1>12. Opened(i)'
  BY <1>10, <1>11 DEF Opened
<1>13. ASSUME NEW j \in Ids \ {i} PROVE Opened(j)'
  <2>1. Opened(j)
    BY DEF SeatInv
  <2>. QED BY <1>8, <1>10, <1>11, <2>1 DEF Opened
<1>14. Reserved'
  <2>1. AbsentIds' = AbsentIds
    BY <1>3, <1>5 DEF AbsentIds, Pending
  <2>2. AbsentLinks' = AbsentLinks
    BY <1>8 DEF AbsentLinks
  <2>. QED BY <2>1, <2>2, Spared
<1>15. ASSUME NEW q \in Requests, NEW j \in Ids, tx'[q] # None, tx[q] # None, tx[q].invitation = j,
              tx[q].held # {}
       PROVE  Pending(j)' /\ ActiveLinks(j) \subseteq ActiveLinks(j)'
  <2>1. q # p /\ j # None
    BY <1>1, <1>15, Nones
  <2>2. i # j
    BY <1>15, <2>1, Alone
  <2>3. Pending(j)
    BY <1>15, <2>1, RunningIs DEF Knows
  <2>. QED BY <1>10, <1>11, <2>2, <2>3
<1>16. ASSUME NEW q \in Requests, NEW o \in Orgs, tx'[q] # None, tx[q] # None, tx[q].op = "create",
              tx[q].wants = None, tx[q].address[1] = o
       PROVE  Seats(o)' <= Seats(o)
  <2>1. o # tx[p].address[1]
    BY <1>1, <1>16
  <2>2. \A j \in Ids : (Pending(j) /\ invitation[j].address[1] = o)'
                          <=> (Pending(j) /\ invitation[j].address[1] = o)
    BY <1>3, <1>5, <1>11, <2>1
  <2>3. \A x \in Addresses : x[1] = o => member'[x] = member[x]
    BY <2>1
  <2>4. Seats(o)' = Seats(o)
    BY <2>2, <2>3, SeatsElsewhere
  <2>. QED BY <2>4, SeatsNat
<1>17. \A j \in Ids : Opened(j)'
  BY <1>12, <1>13
<1>18. \A q \in Requests : tx'[q] \in {tx[q], None}
  BY <1>1
<1>. QED BY <1>6, <1>7, <1>8, <1>9, <1>14, <1>15, <1>16, <1>17, <1>18, Settles

LEMMA CancelCommitsStep ==
    ASSUME SeatInv, NEW p \in Requests, CancelCommits(p) PROVE SeatInv'
<1>. DEFINE i == tx[p].invitation
            old == tx[p].link
            row == [invitation[i] EXCEPT !.status = "canceled"]
            spent == [link[old] EXCEPT !.state = "invalidated"]
<1>1. /\ Gets(p, "cancel", "share") /\ Ends(p)
      /\ invitation' = [invitation EXCEPT ![i].status = "canceled"]
      /\ link' = [link EXCEPT ![old] = spent] /\ UNCHANGED <<member, users, limit>>
  BY DEF CancelCommits, Invalidated
<1>2. /\ tx[p] # None /\ tx[p] \in Transactions
      /\ InvLock(tx[p]) \in tx[p].held /\ i # None /\ old \in ActiveLinks(i)
  BY <1>1, Granted, ShareStage
<1>3. /\ i \in Ids /\ old \in Links /\ invitation[i] \in Invitations /\ link[old] \in LinkRows
      /\ link[old].invitation = i /\ TypeOK
  BY <1>2, TransactionIs DEF SeatInv, TypeOK, ActiveLinks
<1>4. row \in Invitations /\ row.status = "canceled" /\ row.address = invitation[i].address
  BY <1>3 DEF Invitations
<1>5. spent \in LinkRows /\ spent.state = "invalidated" /\ spent.invitation = i
  BY <1>3 DEF LinkRows
<1>6. /\ invitation' = [invitation EXCEPT ![i] = row] /\ link' = [link EXCEPT ![old] = spent]
  BY <1>1, <1>3 DEF TypeOK
<1>10. /\ invitation' \in [Ids -> Invitations] /\ invitation'[i] = row
       /\ \A j \in Ids \ {i} : invitation'[j] = invitation[j]
  BY <1>3, <1>4, <1>6 DEF TypeOK
<1>11. /\ link' \in [Links -> LinkRows] /\ link'[old] = spent
       /\ \A t \in Links \ {old} : link'[t] = link[t]
  BY <1>3, <1>5, <1>6 DEF TypeOK
<1>7. /\ member' \in [Addresses -> {"none", "active", "disabled"}] /\ users' \subseteq Emails
      /\ member' = member
  BY <1>1, <1>3 DEF TypeOK
<1>8. \A q \in Requests \ {p} : (tx[q] # None /\ tx[q].op = "create" /\ tx[q].wants = None)
        => tx[q].address[1] # tx[p].address[1]
  BY <1>1, Quiet
<1>9. tx[p].invitation = i
  OBVIOUS
<1>. HIDE DEF i, old, row, spent
<1>12. \A y \in Addresses : y[1] # tx[p].address[1] => member'[y] = member[y]
  BY <1>7
<1>13. invitation'[i].status \in {"accepted", "canceled"} /\ invitation'[i].address = invitation[i].address
  BY <1>4, <1>10
<1>14. link'[old].state \in {"consumed", "invalidated"} /\ link'[old].invitation = i
  BY <1>5, <1>11
<1>15. limit' = limit
  BY <1>1
<1>. QED BY <1>1, <1>2, <1>3, <1>7, <1>8, <1>9, <1>10, <1>11, <1>12, <1>13, <1>14, <1>15, Finishes

LEMMA AcceptCommitsStep ==
    ASSUME SeatInv, NEW p \in Requests, AcceptCommits(p) PROVE SeatInv'
<1>. DEFINE i == tx[p].invitation
            old == tx[p].link
            x == tx[p].address
            row == [invitation[i] EXCEPT !.status = "accepted"]
            spent == [link[old] EXCEPT !.state = "consumed"]
<1>1. Gets(p, "accept", "share") /\ Ends(p)
  BY DEF AcceptCommits
<1>2. /\ tx[p] # None /\ tx[p] \in Transactions
      /\ InvLock(tx[p]) \in tx[p].held /\ i # None /\ old \in ActiveLinks(i)
  BY <1>1, Granted, ShareStage
<1>3. CASE UNCHANGED rows
  BY <1>1, <1>2, <1>3, EndsIs
<1>4. CASE ~ UNCHANGED rows
  <2>1. /\ member' = [member EXCEPT ![x] = "active"] /\ users' = users \cup {x[2]}
        /\ invitation' = [invitation EXCEPT ![i].status = "accepted"]
        /\ link' = [link EXCEPT ![old].state = "consumed"] /\ limit' = limit
    BY <1>4 DEF AcceptCommits, Accepted
  <2>2. /\ i \in Ids /\ old \in Links /\ invitation[i] \in Invitations /\ link[old] \in LinkRows
        /\ link[old].invitation = i /\ TypeOK /\ x \in Addresses
    BY <1>2, TransactionIs DEF SeatInv, TypeOK, ActiveLinks
  <2>3. row \in Invitations /\ row.status = "accepted" /\ row.address = invitation[i].address
    BY <2>2 DEF Invitations
  <2>4. spent \in LinkRows /\ spent.state = "consumed" /\ spent.invitation = i
    BY <2>2 DEF LinkRows
  <2>5. invitation' = [invitation EXCEPT ![i] = row] /\ link' = [link EXCEPT ![old] = spent]
    BY <2>1, <2>2 DEF TypeOK
  <2>10. /\ invitation' \in [Ids -> Invitations] /\ invitation'[i] = row
         /\ \A j \in Ids \ {i} : invitation'[j] = invitation[j]
    BY <2>2, <2>3, <2>5 DEF TypeOK
  <2>11. /\ link' \in [Links -> LinkRows] /\ link'[old] = spent
         /\ \A t \in Links \ {old} : link'[t] = link[t]
    BY <2>2, <2>4, <2>5 DEF TypeOK
  <2>13. invitation'[i].status \in {"accepted", "canceled"} /\ invitation'[i].address = invitation[i].address
    BY <2>3, <2>10
  <2>14. link'[old].state \in {"consumed", "invalidated"} /\ link'[old].invitation = i
    BY <2>4, <2>11
  <2>6. member' \in [Addresses -> {"none", "active", "disabled"}] /\ users' \subseteq Emails
    BY <2>1, <2>2 DEF TypeOK, Emails
  <2>7. \A y \in Addresses : y[1] # tx[p].address[1] => member'[y] = member[y]
    BY <2>1, <2>2 DEF TypeOK
  <2>8. \A q \in Requests \ {p} : (tx[q] # None /\ tx[q].op = "create" /\ tx[q].wants = None)
          => tx[q].address[1] # tx[p].address[1]
    BY <1>1, Quiet
  <2>9. tx[p].invitation = i
    OBVIOUS
  <2>. HIDE DEF i, old, x, row, spent
  <2>. QED BY <1>1, <1>2, <2>1, <2>2, <2>6, <2>7, <2>8, <2>9, <2>10, <2>11, <2>13, <2>14, Finishes
<1>. QED BY <1>3, <1>4

\* What createInvitation writes: a pending row, in the place of the expired one.
LEMMA CreateWrites ==
    ASSUME SeatInv, NEW p \in Requests, CreateCommits(p), ~ UNCHANGED rows
    PROVE  \E n \in Ids, c \in Ids \cup {None}, old \in Links \cup {None}, x \in Addresses :
             /\ n = NextId /\ c = tx[p].invitation /\ old = tx[p].link /\ x = tx[p].address
             /\ link' = Replacing(n, old) /\ UNCHANGED <<member, users, limit>>
             /\ AbsentLinks # {} /\ invitation[n].status = "absent" /\ ~Pending(n) /\ n \in AbsentIds
             /\ c # None => /\ c \in Ids /\ Pending(c) /\ c # n /\ invitation[c].address = x
                            /\ ActiveLinks(c) = {old} /\ old \in Links /\ old \notin AbsentLinks
             /\ c = None => old = None
             /\ invitation' \in [Ids -> Invitations]
             /\ invitation'[n].status = "pending" /\ invitation'[n].address = x
             /\ c # None => invitation'[c].status = "canceled" /\ invitation'[c].address = x
             /\ \A i \in Ids \ {n, c} : invitation'[i] = invitation[i]
<1>5. PICK c, old, x, n : c = tx[p].invitation /\ old = tx[p].link /\ x = tx[p].address /\ n = NextId
  OBVIOUS
<1>. DEFINE row == [address |-> x, status |-> "pending"]
<1>1. tx[p] # None /\ tx[p].op = "create" /\ tx[p].wants = None
  BY DEF CreateCommits
<1>2. /\ tx[p] \in Transactions /\ Knows(tx[p]) /\ OrgLock(tx[p]) \in tx[p].held
      /\ \/ c = None /\ old = None
         \/ c # None /\ InvLock(tx[p]) \in tx[p].held /\ old \in ActiveLinks(c)
  BY <1>1, <1>5, RunningIs, WriteStage
<1>3. invitation' = Replaced(p) /\ link' = Replacing(n, old) /\ UNCHANGED <<member, users, limit>>
  BY <1>5 DEF CreateCommits
<1>4. AbsentIds # {} /\ AbsentLinks # {}
  <2>1. p \in Creating /\ p \in Minting /\ Reserved
    BY <1>1 DEF Creating, Minting, SeatInv
  <2>2. Cardinality(Creating) # 0 /\ Cardinality(Minting) # 0
    BY <2>1, Counts, FS_EmptySet
  <2>3. Cardinality(AbsentIds) # 0 /\ Cardinality(AbsentLinks) # 0
    BY <2>1, <2>2, Counts DEF Reserved
  <2>. QED BY <2>3, FS_EmptySet
<1>6. n \in Ids /\ invitation[n].status = "absent" /\ ~Pending(n) /\ n \in AbsentIds
  BY <1>4, <1>5, NextIdIs DEF Pending, AbsentIds
<1>7. TypeOK /\ x \in Addresses /\ c \in Ids \cup {None} /\ old \in Links \cup {None}
  BY <1>2, <1>5, TransactionIs DEF SeatInv
<1>8. c # None => /\ c \in Ids /\ Pending(c) /\ c # n /\ invitation[c].address = x
                  /\ ActiveLinks(c) = {old} /\ old \in Links /\ old \notin AbsentLinks
  <2>1. ASSUME c # None PROVE Pending(c) /\ c \in Ids /\ invitation[c].address = x /\ Opened(c)
    BY <1>2, <1>5, <1>7, <2>1 DEF Knows, SeatInv
  <2>2. ASSUME c # None PROVE ActiveLinks(c) = {old} /\ old \in Links /\ old \notin AbsentLinks
    BY <1>2, <2>1, <2>2 DEF Opened, ActiveLinks, AbsentLinks
  <2>. QED BY <1>6, <2>1, <2>2
<1>9. row \in Invitations /\ row.status = "pending" /\ row.address = x
  BY <1>7 DEF Invitations
<1>10. invitation' = [i \in Ids |-> IF i = n THEN row
                                    ELSE IF i = c THEN [invitation[i] EXCEPT !.status = "canceled"]
                                    ELSE invitation[i]]
  BY <1>3, <1>5 DEF Replaced
<1>. HIDE DEF row
<1>11. invitation'[n] = row /\ \A i \in Ids \ {n, c} : invitation'[i] = invitation[i]
  BY <1>6, <1>10
<1>12. ASSUME c # None
       PROVE  invitation'[c] \in Invitations /\ invitation'[c].status = "canceled" /\ invitation'[c].address = x
  <2>1. invitation'[c] = [invitation[c] EXCEPT !.status = "canceled"] /\ invitation[c] \in Invitations
    BY <1>7, <1>8, <1>10, <1>12 DEF TypeOK
  <2>. QED BY <1>8, <1>12, <2>1 DEF Invitations
<1>13. invitation' \in [Ids -> Invitations]
  <2>1. \A i \in Ids : invitation'[i] \in Invitations
    BY <1>7, <1>9, <1>11, <1>12, Nones DEF TypeOK
  <2>2. invitation' = [i \in Ids |-> invitation'[i]]
    BY <1>10
  <2>. QED BY <2>1, <2>2
<1>14. c = None => old = None
  BY <1>2
<1>15. c # None => invitation'[c].status = "canceled" /\ invitation'[c].address = x
  BY <1>12
<1>16. invitation'[n].status = "pending" /\ invitation'[n].address = x
  BY <1>9, <1>11
<1>. QED BY <1>3, <1>4, <1>5, <1>6, <1>7, <1>8, <1>11, <1>13, <1>14, <1>15, <1>16

LEMMA CreateCommitsStep ==
    ASSUME SeatInv, NEW p \in Requests, CreateCommits(p) PROVE SeatInv'
<1>1. tx[p] # None /\ tx[p].op = "create" /\ tx[p].wants = None /\ Ends(p)
  BY DEF CreateCommits
<1>2. /\ tx[p] \in Transactions /\ OrgLock(tx[p]) \in tx[p].held
      /\ tx[p].invitation # None =>
           InvLock(tx[p]) \in tx[p].held /\ tx[p].link \in ActiveLinks(tx[p].invitation)
  BY <1>1, RunningIs, WriteStage
<1>3. CASE UNCHANGED rows
  BY <1>1, <1>3, EndsIs
<1>4. CASE ~ UNCHANGED rows
  <2>1. PICK n \in Ids, c \in Ids \cup {None}, old \in Links \cup {None}, x \in Addresses :
             /\ n = NextId /\ c = tx[p].invitation /\ old = tx[p].link /\ x = tx[p].address
             /\ link' = Replacing(n, old) /\ UNCHANGED <<member, users, limit>>
             /\ AbsentLinks # {} /\ invitation[n].status = "absent" /\ ~Pending(n) /\ n \in AbsentIds
             /\ c # None => /\ c \in Ids /\ Pending(c) /\ c # n /\ invitation[c].address = x
                            /\ ActiveLinks(c) = {old} /\ old \in Links /\ old \notin AbsentLinks
             /\ c = None => old = None
             /\ invitation' \in [Ids -> Invitations]
             /\ invitation'[n].status = "pending" /\ invitation'[n].address = x
             /\ c # None => invitation'[c].status = "canceled" /\ invitation'[c].address = x
             /\ \A i \in Ids \ {n, c} : invitation'[i] = invitation[i]
    BY <1>4, CreateWrites
  <2>2. TypeOK /\ Rowed /\ Exclusive
    BY DEF SeatInv
  <2>9. /\ Pending(n)'
        /\ c # None => ~Pending(c)'
        /\ \A i \in Ids \ {n, c} : Pending(i)' <=> Pending(i)
    BY <2>1 DEF Pending
  <2>10. /\ tx' = [tx EXCEPT ![p] = None] /\ tx'[p] = None
         /\ \A q \in Requests \ {p} : tx'[q] = tx[q]
    BY <1>1, <2>2 DEF Ends, TypeOK
  <2>11. \A j \in Ids : invitation[j].status # "absent" =>
           invitation'[j].status # "absent" /\ invitation'[j].address = invitation[j].address
    BY <2>1, Nones
  <2>12. \A j \in Ids : invitation'[j].status # "absent" => invitation'[j].address \in Addresses
    BY <2>2, <2>1, Nones DEF Rowed
  <2>13. \A j \in Ids \ {n} : old \in ActiveLinks(j) => j = c
    BY <1>2, <2>1, <2>2, Nones DEF ActiveLinks
  <2>14. \A j \in Ids \ {n} : Pending(j)' => Pending(j) /\ old \notin ActiveLinks(j)
    BY <2>9, <2>13, Nones
  <2>15. \A j \in Ids \ {n} : ~Pending(j)' => ActiveLinks(j) \subseteq {old}
    BY <2>1, <2>9, Nones DEF SeatInv, Opened
  <2>16. (Pending(n) => ActiveLinks(n) \subseteq {old}) /\ (old # None => old \notin AbsentLinks)
    BY <1>2, <2>1
  <2>17. Rowed' /\ \A j \in Ids : Opened(j)'
    BY <2>1, <2>2, <2>9, <2>11, <2>12, <2>14, <2>15, <2>16, Reopened
  <2>18. /\ link' \in [Links -> LinkRows] /\ NextLink \in AbsentLinks /\ AbsentLinks' = AbsentLinks \ {NextLink}
         /\ \A t \in Links : link[t].state # "absent" => link'[t].invitation = link[t].invitation
         /\ \A j \in Ids \ {n} : ActiveLinks(j)' = ActiveLinks(j) \ {old}
    BY <2>1, <2>2, <2>16, ReplacingIs
  <2>19. TypeOK'
    BY <2>1, <2>2, <2>10, <2>18 DEF TypeOK
  <2>20. AbsentIds' = AbsentIds \ {n}
    <3>1. \A i \in Ids : invitation'[i].status = "absent" <=> invitation[i].status = "absent" /\ i # n
      BY <2>1, Nones DEF Pending
    <3>. QED BY <3>1 DEF AbsentIds
  <2>21. Reserved'
    BY <1>1, <2>1, <2>18, <2>20, Spared
  <2>22. ASSUME NEW q \in Requests, NEW j \in Ids, tx'[q] # None, tx[q] # None, tx[q].invitation = j,
                tx[q].held # {}
         PROVE  Pending(j)' /\ ActiveLinks(j) \subseteq ActiveLinks(j)'
    <3>1. q # p /\ j # None
      BY <2>10, <2>22, Nones
    <3>2. Pending(j)
      BY <2>22, <3>1, RunningIs DEF Knows
    <3>3. j # n
      BY <2>1, <3>2
    <3>4. j # c
      <4>1. CASE c = None
        BY <3>1, <4>1
      <4>2. CASE c # None
        <5>1. InvLock(tx[p]) \in tx[p].held
          BY <1>2, <2>1, <4>2
        <5>. QED BY <1>1, <2>1, <2>22, <3>1, <5>1, Alone
      <4>. QED BY <4>1, <4>2
    <3>5. Pending(j)' /\ old \notin ActiveLinks(j)
      BY <2>9, <2>13, <3>2, <3>3, <3>4
    <3>. QED BY <2>18, <3>3, <3>5
  <2>23. ASSUME NEW q \in Requests, NEW o \in Orgs, tx'[q] # None, tx[q] # None, tx[q].op = "create",
                tx[q].wants = None, tx[q].address[1] = o
         PROVE  Seats(o)' <= Seats(o)
    <3>1. q # p /\ OrgLock(tx[q]) \in tx[q].held
      BY <2>10, <2>23, Writer
    <3>2. ~Conflict(OrgLock(tx[p]), OrgLock(tx[q]))
      BY <1>1, <1>2, <2>2, <2>23, <3>1 DEF Exclusive
    <3>3. o # x[1]
      BY <2>1, <2>23, <3>2 DEF Conflict, OrgLock
    <3>4. \A j \in Ids : (Pending(j) /\ invitation[j].address[1] = o)'
                            <=> (Pending(j) /\ invitation[j].address[1] = o)
      BY <2>1, <2>9, <3>3, Nones
    <3>5. Seats(o)' = Seats(o)
      BY <2>1, <3>4, SeatsElsewhere
    <3>. QED BY <3>5, SeatsNat
  <2>24. \A q \in Requests : tx'[q] \in {tx[q], None}
    BY <2>10
  <2>. QED BY <2>1, <2>11, <2>17, <2>18, <2>19, <2>21, <2>22, <2>23, <2>24, Settles
<1>. QED BY <1>3, <1>4

LEMMA SetStatusStep ==
    ASSUME SeatInv, NEW x \in Movable, NEW from \in {"active", "disabled"}, NEW to \in {"active", "disabled"},
           SetStatus(x, from, to)
    PROVE  SeatInv'
<1>1. /\ member' = [member EXCEPT ![x] = to] /\ OrgFree(x[1])
      /\ UNCHANGED <<invitation, link, users, limit, tx>>
  BY DEF SetStatus
<1>2. TypeOK /\ Rowed /\ Reserved
  BY DEF SeatInv
<1>3. /\ TypeOK' /\ \A y \in Addresses : y # x => member'[y] = member[y]
  BY <1>1, <1>2 DEF TypeOK
<1>4. Rowed' /\ Reserved' /\ \A j \in Ids : Opened(j)'
  BY <1>1, <1>2 DEF SeatInv, Rowed, Reserved, Opened, ActiveLinks, Pending, Creating, Minting, AbsentIds, AbsentLinks
<1>5. \A i \in Ids : (Pending(i)' <=> Pending(i)) /\ ActiveLinks(i)' = ActiveLinks(i)
  BY <1>1 DEF Pending, ActiveLinks
<1>6. ASSUME NEW q \in Requests, NEW i \in Ids, tx[q] # None, tx[q].invitation = i, tx[q].held # {}
      PROVE  Pending(i)' /\ ActiveLinks(i) \subseteq ActiveLinks(i)'
  BY <1>5, <1>6, RunningIs, Nones DEF Knows
<1>7. ASSUME NEW q \in Requests, NEW o \in Orgs, tx[q] # None, tx[q].op = "create",
             tx[q].wants = None, tx[q].address[1] = o
      PROVE  Seats(o)' <= Seats(o)
  <2>1. <<"org", o>> \in tx[q].held
    BY <1>7, Writer DEF OrgLock
  <2>2. o # x[1]
    BY <1>1, <1>7, <2>1 DEF OrgFree
  <2>3. Seats(o)' = Seats(o)
    BY <1>1, <1>3, <2>2, SeatsElsewhere DEF Pending
  <2>. QED BY <2>3, SeatsNat
<1>8. \A q \in Requests : tx'[q] \in {tx[q], None}
  BY <1>1
<1>. QED BY <1>1, <1>3, <1>4, <1>6, <1>7, <1>8, Settles

LEMMA SeatExpireStep ==
    ASSUME SeatInv, NEW t \in Links, Expires(t) PROVE SeatInv'
<1>1. /\ link[t].state = "live" /\ link' = [link EXCEPT ![t].state = "expired"]
      /\ UNCHANGED <<invitation, member, users, limit, tx>>
  BY DEF Expires
<1>2. TypeOK /\ Rowed /\ Reserved /\ link \in [Links -> LinkRows]
  BY DEF SeatInv, TypeOK
<1>3. /\ link' \in [Links -> LinkRows]
      /\ \A u \in Links : /\ link'[u].invitation = link[u].invitation
                          /\ u # t => link'[u] = link[u]
      /\ link'[t].state = "expired"
  BY <1>1, <1>2 DEF LinkRows
<1>4. TypeOK'
  BY <1>1, <1>2, <1>3 DEF TypeOK
<1>5. \A u \in Links : link'[u].state = "absent" <=> link[u].state = "absent"
  BY <1>1, <1>3
<1>6. \A i \in Ids : (Pending(i)' <=> Pending(i)) /\ ActiveLinks(i)' = ActiveLinks(i)
  <2>1. \A i \in Ids : Pending(i)' <=> Pending(i)
    BY <1>1 DEF Pending
  <2>2. \A i \in Ids, u \in Links : (link'[u].state \in {"live", "expired"} /\ link'[u].invitation = i)
           <=> (link[u].state \in {"live", "expired"} /\ link[u].invitation = i)
    BY <1>1, <1>3
  <2>3. \A i \in Ids : ActiveLinks(i)' = ActiveLinks(i)
    BY <2>2 DEF ActiveLinks
  <2>. QED BY <2>1, <2>3
<1>7. Rowed'
  BY <1>1, <1>2, <1>3, <1>5 DEF Rowed
<1>8. ASSUME NEW i \in Ids PROVE Opened(i)'
  <2>1. Opened(i)
    BY DEF SeatInv
  <2>. QED BY <1>3, <1>6, <2>1 DEF Opened
<1>9. Reserved'
  <2>1. Creating' = Creating /\ Minting' = Minting /\ AbsentIds' = AbsentIds
    BY <1>1 DEF Creating, Minting, AbsentIds
  <2>2. AbsentLinks' = AbsentLinks
    BY <1>5 DEF AbsentLinks
  <2>. QED BY <1>2, <2>1, <2>2 DEF Reserved
<1>10. ASSUME NEW q \in Requests, NEW i \in Ids, tx[q] # None, tx[q].invitation = i, tx[q].held # {}
      PROVE  Pending(i)' /\ ActiveLinks(i) \subseteq ActiveLinks(i)'
  BY <1>6, <1>10, RunningIs, Nones DEF Knows
<1>11. ASSUME NEW o \in Orgs PROVE Seats(o)' <= Seats(o)
  <2>1. Seats(o)' = Seats(o)
    BY <1>1, SeatsElsewhere DEF Pending
  <2>. QED BY <2>1, SeatsNat
<1>12. \A q \in Requests : tx'[q] \in {tx[q], None}
  BY <1>1
<1>. QED BY <1>1, <1>3, <1>4, <1>7, <1>8, <1>9, <1>10, <1>11, <1>12, Settles

LEMMA SeatInitially == Init => SeatInv
<1>. SUFFICES ASSUME Init PROVE SeatInv
  OBVIOUS
<1>1. /\ invitation = [i \in Ids |-> [address |-> None, status |-> "absent"]]
      /\ link = [t \in Links |-> [invitation |-> None, state |-> "absent"]]
      /\ member = [x \in Addresses |-> IF x \in Founders THEN "active" ELSE "none"]
      /\ users = {x[2] : x \in Founders} /\ limit \in [Orgs -> Limits]
      /\ tx = [p \in Requests |-> None]
  BY DEF Init
<1>2. TypeOK
  <2>1. invitation \in [Ids -> Invitations] /\ link \in [Links -> LinkRows]
    BY <1>1 DEF Invitations, LinkRows
  <2>2. users \subseteq Emails
    BY <1>1, Nones DEF Emails
  <2>. QED BY <1>1, <2>1, <2>2 DEF TypeOK
<1>3. Rowed
  BY <1>1 DEF Rowed
<1>4. \A i \in Ids : ~Pending(i) /\ ActiveLinks(i) = {}
  BY <1>1 DEF Pending, ActiveLinks
<1>5. \A p \in Requests : tx[p] = None
  BY <1>1
<1>6. Creating = {} /\ Minting = {}
  BY <1>5 DEF Creating, Minting
<1>7. Reserved
  <2>1. Cardinality({}) = 0
    BY FS_EmptySet
  <2>. QED BY <1>6, <2>1, Counts DEF Reserved
<1>8. Exclusive
  BY <1>5 DEF Exclusive
<1>. QED BY <1>2, <1>3, <1>4, <1>5, <1>7, <1>8 DEF SeatInv, Opened

LEMMA SeatStutter ==
    ASSUME SeatInv, UNCHANGED vars PROVE SeatInv'
<1>1. UNCHANGED <<invitation, link, member, users, limit, tx>>
  BY DEF vars, rows
<1>2. TypeOK' /\ Rowed' /\ Reserved' /\ \A j \in Ids : Opened(j)'
  <2>1. TypeOK /\ Rowed /\ Reserved
    BY DEF SeatInv
  <2>2. TypeOK' /\ Rowed'
    BY <1>1, <2>1 DEF TypeOK, Rowed
  <2>3. Reserved'
    BY <1>1, <2>1 DEF Reserved, Creating, Minting, AbsentIds, AbsentLinks
  <2>4. \A j \in Ids : Opened(j)'
    BY <1>1 DEF SeatInv, Opened, ActiveLinks, Pending
  <2>. QED BY <2>2, <2>3, <2>4
<1>3. \A i \in Ids : (Pending(i)' <=> Pending(i)) /\ ActiveLinks(i)' = ActiveLinks(i)
  BY <1>1 DEF Pending, ActiveLinks
<1>4. ASSUME NEW q \in Requests, NEW i \in Ids, tx[q] # None, tx[q].invitation = i, tx[q].held # {}
      PROVE  Pending(i)' /\ ActiveLinks(i) \subseteq ActiveLinks(i)'
  BY <1>3, <1>4, RunningIs, Nones DEF Knows
<1>5. ASSUME NEW o \in Orgs PROVE Seats(o)' <= Seats(o)
  <2>1. Seats(o)' = Seats(o)
    BY <1>1, SeatsElsewhere DEF Pending
  <2>. QED BY <2>1, SeatsNat
<1>6. \A q \in Requests : tx'[q] \in {tx[q], None}
  BY <1>1
<1>. QED BY <1>1, <1>2, <1>4, <1>5, <1>6, Settles

LEMMA SeatStepwise ==
    ASSUME SeatInv, [Next]_vars PROVE SeatInv'
<1>1. ASSUME NEW p \in Requests, Request(p) PROVE SeatInv'
  <2>1. CASE \E x \in Addresses : BeginCreate(p, x)
    BY <2>1, BeginCreateStep
  <2>2. CASE CreateMeetsPending(p) \/ CreateMeetsLink(p) \/ CreateCounts(p) \/ CreateCommits(p)
    BY <2>2, CreateMeetsPendingStep, CreateMeetsLinkStep, CreateCountsStep, CreateCommitsStep
  <2>3. CASE \E op \in {"resend", "cancel"}, i \in Ids : BeginChange(p, op, i)
    BY <2>3, BeginChangeStep
  <2>4. CASE \E op \in {"resend", "cancel"} : ChangeLocks(p, op) \/ ChangeLocksLink(p, op)
    BY <2>4, ChangeLocksStep, ChangeLocksLinkStep
  <2>5. CASE ResendCommits(p) \/ CancelCommits(p)
    BY <2>5, ResendCommitsStep, CancelCommitsStep
  <2>6. CASE \E t \in Links : BeginAccept(p, t)
    BY <2>6, BeginAcceptStep
  <2>7. CASE AcceptLocks(p) \/ AcceptValidates(p) \/ AcceptInsertsUser(p) \/ AcceptCommits(p)
    BY <2>7, AcceptLocksStep, AcceptValidatesStep, AcceptInsertsUserStep, AcceptCommitsStep
  <2>. QED BY <1>1, <2>1, <2>2, <2>3, <2>4, <2>5, <2>6, <2>7 DEF Request
<1>2. ASSUME NEW x \in Movable, SetStatus(x, "active", "disabled") \/ SetStatus(x, "disabled", "active")
      PROVE  SeatInv'
  BY <1>2, SetStatusStep
<1>3. ASSUME NEW t \in Links, Expires(t) PROVE SeatInv'
  BY <1>3, SeatExpireStep
<1>. QED BY <1>1, <1>2, <1>3, SeatStutter DEF Next

LEMMA SeatInvariance == Spec => []SeatInv
<1>1. SeatInv /\ [Next]_vars => SeatInv'
  BY SeatStepwise
<1>. QED BY <1>1, SeatInitially, PTL DEF Spec

-----------------------------------------------------------------------------
(* What follows from it                                                    *)

\* The order in which every transaction asks for its locks
Level(k) ==
  IF k[1] = "invitation" THEN 1 ELSE IF k[1] = "link" THEN 2 ELSE IF k[1] = "user" THEN 3 ELSE 4

LEMMA Climbs ==
    ASSUME SeatInv, NEW p \in Requests, tx[p] # None, tx[p].wants # None
    PROVE  /\ Level(tx[p].wants) \in 1 .. 4
           /\ \A h \in tx[p].held : Level(h) < Level(tx[p].wants)
<1>. DEFINE T == tx[p]
<1>1. Lined(T) /\ T.wants # None
  BY RunningIs
<1>2. /\ Level(InvLock(T)) = 1 /\ Level(LinkLock(T)) = 2 /\ Level(UserLock(T)) = 3
      /\ Level(OrgLock(T)) = 4 /\ Level(ShareLock(T)) = 4 /\ \A t : Level(<<"link", t>>) = 2
  BY DEF Level, InvLock, LinkLock, UserLock, OrgLock, ShareLock
<1>3. Level(T.wants) \in 1 .. 4
  BY DEF Level
<1>. HIDE DEF T
<1>4. \A h \in T.held : Level(h) < Level(T.wants)
  BY <1>1, <1>2 DEF Lined
<1>. QED BY <1>3, <1>4 DEF T

\* The locks are asked for in one order, the invitation, its link, the user, the
\* organization: no set of transactions waits for itself.
THEOREM NoWaiting == Spec => []NoWaitCycle
<1>1. SeatInv => NoWaitCycle
  <2>. SUFFICES ASSUME SeatInv, NEW S \in SUBSET Requests, S # {}
                PROVE  \E p \in S : Blockers(p) \cap S = {}
    BY DEF NoWaitCycle
  <2>1. CASE \E p \in S : tx[p] = None \/ tx[p].wants = None
    BY <2>1 DEF Blockers
  <2>2. CASE \A p \in S : tx[p] # None /\ tx[p].wants # None
    <3>. DEFINE below == {4 - Level(tx[p].wants) : p \in S}
    <3>1. \A p \in S : Level(tx[p].wants) \in 1 .. 4
      BY <2>2, Climbs
    <3>2. below \in SUBSET Nat /\ below # {}
      BY <3>1
    <3>3. PICK m \in below : \A k \in below : m <= k
      BY <3>2, Least
    <3>4. PICK p \in S : m = 4 - Level(tx[p].wants)
      BY <3>3
    <3>5. ASSUME NEW q \in Blockers(p) \cap S PROVE FALSE
      <4>1. PICK k \in tx[q].held : Conflict(tx[p].wants, k)
        BY <3>5 DEF Blockers
      <4>2. Level(tx[p].wants) = Level(k)
        BY <4>1 DEF Conflict, Level
      <4>3. Level(k) < Level(tx[q].wants)
        BY <2>2, <3>5, <4>1, Climbs
      <4>4. m <= 4 - Level(tx[q].wants)
        BY <3>3, <3>5
      <4>5. Level(tx[p].wants) \in 1 .. 4 /\ Level(tx[q].wants) \in 1 .. 4
        BY <3>1, <3>5
      <4>. QED BY <3>4, <4>2, <4>3, <4>4, <4>5
    <3>. QED BY <3>5
  <2>. QED BY <2>1, <2>2
<1>. QED BY <1>1, SeatInvariance, PTL

\* The rows and the transactions of Seats keep their types.
THEOREM SeatTyping == Spec => []TypeOK
<1>1. SeatInv => TypeOK
  BY DEF SeatInv
<1>. QED BY <1>1, SeatInvariance, PTL

\* An accepted invitation: what the commit of the acceptance changes.
LEMMA AcceptWrites ==
    ASSUME SeatInv, NEW p \in Requests, AcceptCommits(p), ~ UNCHANGED rows
    PROVE  \E i \in Ids, t \in Links, x \in Addresses :
             /\ Pending(i) /\ invitation[i].address = x /\ member[x] = "none"
             /\ link[t].state \in {"live", "expired"} /\ link[t].invitation = i
             /\ \A u \in Links : link[u].invitation = i => u <= t
             /\ \A y \in Addresses : member'[y] = IF y = x THEN "active" ELSE member[y]
             /\ invitation'[i].status = "accepted" /\ \A j \in Ids \ {i} : invitation'[j] = invitation[j]
             /\ link'[t].state = "consumed" /\ limit' = limit
<1>1. PICK i, t, x : i = tx[p].invitation /\ t = tx[p].link /\ x = tx[p].address
  OBVIOUS
<1>2. /\ Gets(p, "accept", "share") /\ member[x] = "none" /\ member' = [member EXCEPT ![x] = "active"]
      /\ invitation' = [invitation EXCEPT ![i].status = "accepted"]
      /\ link' = [link EXCEPT ![t].state = "consumed"] /\ limit' = limit
  BY <1>1 DEF AcceptCommits, Accepted
<1>3. /\ tx[p] \in Transactions /\ Knows(tx[p])
      /\ tx[p].held # {} /\ i # None /\ t \in ActiveLinks(i)
  <2>1. tx[p] \in Transactions /\ Knows(tx[p]) /\ Lined(tx[p]) /\ tx[p].wants # None /\ tx[p].wants[1] = "share"
    BY <1>2, Granted
  <2>2. InvLock(tx[p]) \in tx[p].held /\ tx[p].invitation # None /\ tx[p].link \in ActiveLinks(tx[p].invitation)
    BY <2>1, ShareStage
  <2>. QED BY <1>1, <2>1, <2>2
<1>4. /\ i \in Ids /\ t \in Links /\ x \in Addresses /\ TypeOK /\ Opened(i)
      /\ Pending(i) /\ invitation[i].address = x
      /\ link[t].state \in {"live", "expired"} /\ link[t].invitation = i
  BY <1>1, <1>3, TransactionIs DEF Knows, ActiveLinks, SeatInv
<1>5. \A u \in Links : link[u].invitation = i => u <= t
  BY <1>3, <1>4 DEF Opened
<1>6. /\ invitation[i] \in Invitations /\ link[t] \in LinkRows
      /\ invitation'[i] = [invitation[i] EXCEPT !.status = "accepted"]
      /\ link'[t] = [link[t] EXCEPT !.state = "consumed"]
      /\ \A j \in Ids \ {i} : invitation'[j] = invitation[j]
      /\ \A y \in Addresses : member'[y] = IF y = x THEN "active" ELSE member[y]
  BY <1>2, <1>4 DEF TypeOK
<1>7. invitation'[i].status = "accepted" /\ link'[t].state = "consumed"
  BY <1>6 DEF Invitations, LinkRows
<1>. QED BY <1>2, <1>4, <1>5, <1>6, <1>7

\* The other statements and commits leave the members and what is not pending alone.
LEMMA OthersKeep ==
    ASSUME SeatInv, [Next]_vars
    PROVE  \/ \E p \in Requests : CreateCommits(p) /\ ~ UNCHANGED rows
           \/ \E p \in Requests : AcceptCommits(p) /\ ~ UNCHANGED rows
           \/ /\ member' = member /\ limit' = limit
              /\ \A i \in Ids : ~Pending(i) => invitation'[i] = invitation[i]
              /\ \A i \in Ids : invitation'[i].address = invitation[i].address
           \/ \E x \in Movable : /\ member[x] \in {"active", "disabled"} /\ member'[x] # member[x]
                                 /\ member'[x] # "none"
                                 /\ \A y \in Addresses : y # x => member'[y] = member[y]
                                 /\ invitation' = invitation
<1>0. TypeOK
  BY DEF SeatInv
<1>1. ASSUME UNCHANGED rows
      PROVE  /\ member' = member /\ limit' = limit
             /\ \A i \in Ids : ~Pending(i) => invitation'[i] = invitation[i]
             /\ \A i \in Ids : invitation'[i].address = invitation[i].address
  BY <1>1 DEF rows
<1>2. ASSUME NEW p \in Requests, Request(p), ~ UNCHANGED rows, ~ CreateCommits(p), ~ AcceptCommits(p)
      PROVE  ResendCommits(p) \/ CancelCommits(p)
  BY <1>2 DEF Request, BeginCreate, BeginChange, BeginAccept, Starts, CreateMeetsPending, CreateMeetsLink,
              CreateCounts, ChangeLocks, ChangeLocksLink, AcceptLocks, AcceptValidates, AcceptInsertsUser
<1>3. ASSUME NEW p \in Requests, ResendCommits(p) \/ CancelCommits(p)
      PROVE  /\ member' = member /\ limit' = limit
             /\ \A i \in Ids : ~Pending(i) => invitation'[i] = invitation[i]
             /\ \A i \in Ids : invitation'[i].address = invitation[i].address
  <2>1. CASE ResendCommits(p)
    BY <2>1 DEF ResendCommits
  <2>2. CASE CancelCommits(p)
    <3>1. PICK i : i = tx[p].invitation
      OBVIOUS
    <3>2. Gets(p, "cancel", "share") /\ invitation' = [invitation EXCEPT ![i].status = "canceled"]
          /\ UNCHANGED <<member, limit>>
      BY <2>2, <3>1 DEF CancelCommits
    <3>7. tx[p] \in Transactions /\ Knows(tx[p]) /\ Lined(tx[p]) /\ tx[p].wants # None /\ tx[p].wants[1] = "share"
      BY <3>2, Granted
    <3>3. tx[p] \in Transactions /\ Knows(tx[p]) /\ tx[p].held # {} /\ i # None
      BY <3>1, <3>7, ShareStage
    <3>4. i \in Ids /\ Pending(i) /\ invitation[i] \in Invitations
      BY <1>0, <3>1, <3>3, TransactionIs DEF Knows, TypeOK
    <3>5. /\ invitation'[i] = [invitation[i] EXCEPT !.status = "canceled"]
          /\ \A j \in Ids \ {i} : invitation'[j] = invitation[j]
      BY <1>0, <3>2, <3>4 DEF TypeOK
    <3>6. invitation'[i].address = invitation[i].address
      BY <3>4, <3>5 DEF Invitations
    <3>. QED BY <3>2, <3>4, <3>5, <3>6
  <2>. QED BY <1>3, <2>1, <2>2
<1>4. ASSUME NEW x \in Movable, NEW from \in {"active", "disabled"}, NEW to \in {"active", "disabled"},
             from # to, SetStatus(x, from, to)
      PROVE  /\ member[x] \in {"active", "disabled"} /\ member'[x] # member[x] /\ member'[x] # "none"
             /\ \A y \in Addresses : y # x => member'[y] = member[y]
             /\ invitation' = invitation
  <2>1. x \in Addresses
    BY Nones
  <2>. QED BY <1>0, <1>4, <2>1 DEF SetStatus, TypeOK
<1>5. ASSUME NEW t \in Links, Expires(t)
      PROVE  /\ member' = member /\ limit' = limit
             /\ \A i \in Ids : ~Pending(i) => invitation'[i] = invitation[i]
             /\ \A i \in Ids : invitation'[i].address = invitation[i].address
  BY <1>5 DEF Expires
<1>6. CASE \E p \in Requests : Request(p)
  BY <1>1, <1>2, <1>3, <1>6
<1>7. CASE \E x \in Movable : SetStatus(x, "active", "disabled") \/ SetStatus(x, "disabled", "active")
  BY <1>4, <1>7
<1>8. CASE \E t \in Links : Expires(t)
  BY <1>5, <1>8
<1>9. CASE UNCHANGED vars
  BY <1>1, <1>9 DEF vars
<1>. QED BY <1>6, <1>7, <1>8, <1>9 DEF Next

LEMMA FinalStep ==
    ASSUME SeatInv, [Next]_vars, NEW i \in Ids, invitation[i].status \in {"accepted", "canceled"}
    PROVE  invitation'[i] = invitation[i]
<1>1. ~Pending(i) /\ invitation[i].status # "absent"
  BY DEF Pending
<1>2. CASE \E p \in Requests : CreateCommits(p) /\ ~ UNCHANGED rows
  <2>1. PICK n \in Ids, c \in Ids \cup {None} :
             /\ invitation[n].status = "absent" /\ (c # None => Pending(c))
             /\ \A j \in Ids \ {n, c} : invitation'[j] = invitation[j]
    <3>1. PICK p \in Requests : CreateCommits(p) /\ ~ UNCHANGED rows
      BY <1>2
    <3>2. \E n \in Ids, c \in Ids \cup {None}, old \in Links \cup {None}, x \in Addresses :
             /\ invitation[n].status = "absent" /\ (c # None => Pending(c))
             /\ \A j \in Ids \ {n, c} : invitation'[j] = invitation[j]
      BY <3>1, CreateWrites
    <3>. QED BY <3>2
  <2>. QED BY <1>1, <2>1, Nones
<1>3. CASE \E p \in Requests : AcceptCommits(p) /\ ~ UNCHANGED rows
  BY <1>1, <1>3, AcceptWrites
<1>. QED BY <1>1, <1>2, <1>3, OthersKeep

LEMMA JoinStep ==
    ASSUME SeatInv, [Next]_vars, NEW x \in Addresses, member[x] = "none", member'[x] # "none"
    PROVE  /\ Seats(x[1])' = Seats(x[1])
           /\ \E t \in Links : /\ link[t].state \in {"live", "expired"} /\ link'[t].state = "consumed"
                               /\ invitation[link[t].invitation].address = x
                               /\ \A u \in Links : link[u].invitation = link[t].invitation => u <= t
<1>1. PICK p \in Requests : AcceptCommits(p) /\ ~ UNCHANGED rows
  <2>1. ASSUME NEW p \in Requests, CreateCommits(p), ~ UNCHANGED rows PROVE member' = member
    BY <2>1, CreateWrites
  <2>. QED BY <2>1, OthersKeep
<1>2. PICK i \in Ids, t \in Links, y \in Addresses :
             /\ Pending(i) /\ invitation[i].address = y /\ member[y] = "none"
             /\ link[t].state \in {"live", "expired"} /\ link[t].invitation = i
             /\ \A u \in Links : link[u].invitation = i => u <= t
             /\ \A z \in Addresses : member'[z] = IF z = y THEN "active" ELSE member[z]
             /\ invitation'[i].status = "accepted" /\ \A j \in Ids \ {i} : invitation'[j] = invitation[j]
             /\ link'[t].state = "consumed" /\ limit' = limit
  BY <1>1, AcceptWrites
<1>3. x = y
  BY <1>2
<1>4. PICK o : o = x[1]
  OBVIOUS
<1>. DEFINE S == {z \in Addresses : z[1] = o /\ member[z] = "active"}
            P == {j \in Ids : Pending(j) /\ invitation[j].address[1] = o}
<1>5. /\ Seats(o) = Cardinality(S) + Cardinality(P)
      /\ IsFiniteSet(S) /\ IsFiniteSet(P) /\ Cardinality(S) \in Nat /\ Cardinality(P) \in Nat
  BY SeatsAre
<1>6. S' = S \cup {x} /\ x \notin S
  BY <1>2, <1>3, <1>4
<1>7. P' = P \ {i} /\ i \in P
  BY <1>2, <1>3, <1>4 DEF Pending
<1>8. Seats(o)' = Cardinality(S') + Cardinality(P')
  BY DEF Seats
<1>. HIDE DEF S, P
<1>9. Cardinality(S') = Cardinality(S) + 1 /\ Cardinality(P') = Cardinality(P) - 1
  BY <1>5, <1>6, <1>7, FS_AddElement, FS_RemoveElement
<1>10. Seats(o)' = Seats(o)
  BY <1>5, <1>8, <1>9
<1>. QED BY <1>2, <1>3, <1>4, <1>10

LEMMA BoughtStep ==
    ASSUME SeatInv, [Next]_vars, NEW o \in Orgs, Seats(o)' > Seats(o), member' = member
    PROVE  limit[o] = None \/ Seats(o)' <= limit[o]
<1>. DEFINE S == {z \in Addresses : z[1] = o /\ member[z] = "active"}
            P == {j \in Ids : Pending(j) /\ invitation[j].address[1] = o}
<1>1. /\ Seats(o) = Cardinality(S) + Cardinality(P) /\ Seats(o) \in Nat
      /\ IsFiniteSet(S) /\ IsFiniteSet(P) /\ Cardinality(S) \in Nat /\ Cardinality(P) \in Nat
  BY SeatsAre
<1>2. S' = S /\ Seats(o)' = Cardinality(S') + Cardinality(P') /\ Seats(o)' \in Nat
  <2>1. S' = S
    OBVIOUS
  <2>2. Seats(o)' = Cardinality(S') + Cardinality(P')
    BY DEF Seats
  <2>3. Seats(o)' \in Nat
    BY SeatsNat
  <2>. QED BY <2>1, <2>2, <2>3
<1>3. CASE P' \subseteq P
  <2>. HIDE DEF S, P
  <2>1. Cardinality(P') <= Cardinality(P) /\ Cardinality(P') \in Nat
    BY <1>1, <1>3, FS_Subset, FS_CardinalityType
  <2>. QED BY <1>1, <1>2, <2>1
<1>4. CASE \E p \in Requests : CreateCommits(p) /\ ~ UNCHANGED rows
  <2>1. PICK p \in Requests : CreateCommits(p) /\ ~ UNCHANGED rows
    BY <1>4
  <2>2. PICK n \in Ids, c \in Ids \cup {None}, x \in Addresses :
             /\ c = tx[p].invitation /\ x = tx[p].address /\ ~Pending(n)
             /\ c # None => Pending(c) /\ c \in Ids /\ c # n /\ invitation[c].address = x
             /\ invitation'[n].status = "pending" /\ invitation'[n].address = x
             /\ c # None => invitation'[c].status = "canceled" /\ invitation'[c].address = x
             /\ \A i \in Ids \ {n, c} : invitation'[i] = invitation[i]
    BY <2>1, CreateWrites
  <2>3. CASE o # x[1]
    <3>1. ASSUME NEW j \in Ids, Pending(j)', invitation'[j].address[1] = o
          PROVE  Pending(j) /\ invitation[j].address[1] = o
      <4>1. j # n /\ j # c
        BY <2>2, <2>3, <3>1, Nones
      <4>. QED BY <2>2, <3>1, <4>1 DEF Pending
    <3>2. P' \subseteq P
      BY <3>1
    <3>. QED BY <1>3, <3>2
  <2>4. CASE o = x[1]
    <3>. DEFINE d == IF c = None THEN 0 ELSE 1
    <3>1. Room(o, Seats(o) + 1 - d)
      <4>1. tx[p] # None /\ tx[p].op = "create" /\ tx[p].wants = None
        BY <2>1 DEF CreateCommits
      <4>2. Knows(tx[p])
        BY <4>1, RunningIs
      <4>. QED BY <2>2, <2>4, <4>1, <4>2 DEF Knows
    <3>2. P' = (P \ {c}) \cup {n} /\ n \notin P \ {c}
      BY <2>2, <2>4, Nones DEF Pending
    <3>3. c # None <=> c \in P
      BY <2>2, <2>4, Nones
    <3>. HIDE DEF S, P
    <3>4. IsFiniteSet(P \ {c}) /\ Cardinality(P \ {c}) = Cardinality(P) - d /\ Cardinality(P \ {c}) \in Nat
      BY <1>1, <3>3, FS_RemoveElement, FS_CardinalityType
    <3>5. Cardinality(P') = Cardinality(P \ {c}) + 1
      BY <3>2, <3>4, FS_AddElement
    <3>6. Seats(o)' = Seats(o) + 1 - d
      BY <1>1, <1>2, <3>4, <3>5
    <3>. QED BY <3>1, <3>6 DEF Room
  <2>. QED BY <2>3, <2>4
<1>5. ASSUME NEW p \in Requests, AcceptCommits(p), ~ UNCHANGED rows PROVE FALSE
  BY <1>5, AcceptWrites
<1>6. ASSUME \A i \in Ids : ~Pending(i) => invitation'[i] = invitation[i],
             \A i \in Ids : invitation'[i].address = invitation[i].address
      PROVE  P' \subseteq P
  BY <1>6 DEF Pending
<1>7. (invitation' = invitation) => P' \subseteq P
  BY DEF Pending
<1>. QED BY <1>3, <1>4, <1>5, <1>6, <1>7, OthersKeep

\* An invitation leads to what was paid for: one link opens it while it is
\* pending and no other does, an accepted or canceled one stays so, who joins
\* spends the newest link and takes the seat of the invitation, and a seat is
\* added only when the plan has it, in every interleaving of the requests.
THEOREM InvitationsKept == Spec => InvitationsAreKept
<1>1. SeatInv => OneLinkWhilePending
  <2>1. \A t : Cardinality({t}) = 1
    BY FS_Singleton
  <2>2. Cardinality({}) = 0
    BY FS_EmptySet
  <2>. SUFFICES ASSUME SeatInv, NEW i \in Ids
                PROVE  Cardinality(ActiveLinks(i)) = IF Pending(i) THEN 1 ELSE 0
    BY DEF OneLinkWhilePending
  <2>3. Opened(i)
    BY DEF SeatInv
  <2>4. CASE Pending(i)
    <3>1. PICK t \in Links : ActiveLinks(i) = {t}
      BY <2>3, <2>4 DEF Opened
    <3>. QED BY <2>1, <2>4, <3>1
  <2>5. CASE ~Pending(i)
    <3>1. ActiveLinks(i) = {}
      BY <2>3, <2>5 DEF Opened
    <3>. QED BY <2>2, <2>5, <3>1
  <2>. QED BY <2>4, <2>5
<1>2. SeatInv /\ [Next]_vars => [\A i \in Ids : invitation[i].status \in {"accepted", "canceled"} =>
                                   invitation'[i] = invitation[i]]_vars
  BY FinalStep
<1>3. SeatInv /\ [Next]_vars =>
        [\A x \in Addresses : member[x] = "none" /\ member'[x] # "none" =>
           /\ Seats(x[1])' = Seats(x[1])
           /\ \E t \in Links : /\ link[t].state \in {"live", "expired"} /\ link'[t].state = "consumed"
                               /\ invitation[link[t].invitation].address = x
                               /\ \A u \in Links : link[u].invitation = link[t].invitation => u <= t]_vars
  BY JoinStep
<1>4. SeatInv /\ [Next]_vars =>
        [\A o \in Orgs : Seats(o)' > Seats(o) /\ member' = member =>
           (limit[o] = None \/ Seats(o)' <= limit[o])]_vars
  BY BoughtStep
<1>. QED BY <1>1, <1>2, <1>3, <1>4, SeatInvariance, PTL
       DEF Spec, InvitationsAreKept, FinalIsFinal, JoinsThroughTheNewestLink, SeatsAreBought

-----------------------------------------------------------------------------
(* ActivityFeed: the inductive invariant                                   *)

Committed == {i \in RowIds : entries[i].st = "in"}

\* What the panel knows of are rows of the log.
FeedSees ==
  /\ shown \subseteq Committed /\ load.page \subseteq Committed /\ owed \subseteq Committed
  /\ cursor \in Committed \cup {NoRow} /\ load.last \in Committed \cup {NoRow}

\* The cursor is the oldest row shown. Without one, and with a page to come,
\* the list is empty.
CursorIsLast ==
  /\ cursor # NoRow => cursor \in shown
  /\ cursor # NoRow => \A j \in shown : j = cursor \/ Older(cursor, j)
  /\ (cursor = NoRow /\ (button \/ load.st # "idle")) => (shown = {} /\ asked = {})
  /\ asked = {} => shown = {} /\ cursor = NoRow

HasPage == load.st \in {"probe", "answer"}

\* The page under way lies below the cursor; its last row is its oldest.
PageIsBelow ==
  /\ \A i \in load.page : Matches(load.filter, i) /\ (cursor = NoRow \/ Older(i, cursor))
  /\ load.page = {} <=> load.last = NoRow
  /\ load.page # {} => load.last \in load.page
  /\ \A j \in load.page : j = load.last \/ Older(load.last, j)
  /\ (load.st = "probe" \/ load.more) => load.page # {}
  /\ load.page # {} => HasPage

\* A row is shown, in the page under way, or older than that with more to come.
Awaited(i) ==
  \/ i \in shown
  \/ i \in load.page
  \/ /\ load.last # NoRow
     /\ Older(i, load.last)
     /\ load.st = "answer" => load.more

\* What is owed matches the one filter asked with, and is shown, in the page
\* under way, or older than that.
OwedIsAhead ==
  /\ (HasPage /\ cursor = NoRow) => \A i \in owed : Matches(load.filter, i)
  /\ (HasPage /\ asked \subseteq {load.filter}) => \A i \in owed : Awaited(i)
  /\ \A f \in Filters : asked = {f} =>
       /\ \A i \in shown : Matches(f, i)
       /\ cursor = NoRow => owed \subseteq shown
       /\ cursor # NoRow => \A i \in owed : Matches(f, i) /\ (i \in shown \/ Older(i, cursor))

FeedInv == FeedTypeOK /\ FeedSees /\ CursorIsLast /\ PageIsBelow /\ OwedIsAhead

LEMMA MsIsInt == ASSUME NEW t \in 0..MaxTime PROVE Ms(t) \in Int
<1>1. t \in Int /\ Milli \in Nat \ {0} BY FeedAssumption
<1> QED BY <1>1 DEF Ms

\* The order of the log is one.
LEMMA OlderOnward ==
  ASSUME FeedTypeOK, NEW i \in RowIds, NEW j \in RowIds, NEW k \in RowIds, Older(i, j), Older(j, k)
  PROVE  Older(i, k)
<1> DEFINE ms(r) == Ms(entries[r].at)
<1>1. ms(i) \in Int /\ ms(j) \in Int /\ ms(k) \in Int
  <2>1. \A r \in RowIds : entries[r].at \in 0..MaxTime BY DEF FeedTypeOK, Row
  <2> QED BY <2>1, MsIsInt
<1>2. i \in Int /\ j \in Int /\ k \in Int BY FeedAssumption
<1>3. \A a, b \in RowIds : Older(a, b) <=> (ms(a) < ms(b) \/ (ms(a) = ms(b) /\ a < b)) BY DEF Older
<1> HIDE DEF ms
<1> QED BY <1>1, <1>2, <1>3

\* A page holds rows of the query; what it leaves out is older than its last
\* row, and then there is more, or a probe that will tell.
LEMMA QueryFinds ==
  ASSUME FeedTypeOK, Query
  PROVE  /\ load'.page \subseteq Listed(load.filter, cursor)
         /\ load'.last \in LastOf(load'.page)
         /\ load'.more \in BOOLEAN
         /\ load'.st \in {"probe", "answer"}
         /\ load' = [load EXCEPT !.page = load'.page, !.last = load'.last,
                                 !.more = load'.more, !.st = load'.st]
         /\ (load'.more \/ load'.st = "probe") => load'.page # {}
         /\ \A i \in Listed(load.filter, cursor) \ load'.page :
              /\ load'.page # {} /\ Older(i, load'.last)
              /\ load'.st = "answer" => load'.more
<1> DEFINE S == Listed(load.filter, cursor)
           peek == IF load.limit < MaxLimit THEN load.limit + 1 ELSE MaxLimit
           more(got) == peek > load.limit /\ Cardinality(got) = peek
           st(m, p) == IF ~m /\ load.limit = MaxLimit /\ Cardinality(p) = MaxLimit
                       THEN "probe" ELSE "answer"
<1>1. PICK got \in Newest(S, peek) :
        \E page \in IF more(got) THEN Newest(got, load.limit) ELSE {got} :
          \E last \in LastOf(page) :
            load' = [load EXCEPT !.page = page, !.last = last, !.more = more(got),
                                 !.st = st(more(got), page)]
  BY DEF Query
<1>a. PICK page \in IF more(got) THEN Newest(got, load.limit) ELSE {got} :
        \E last \in LastOf(page) :
          load' = [load EXCEPT !.page = page, !.last = last, !.more = more(got),
                               !.st = st(more(got), page)]
  BY <1>1
<1>2. PICK last \in LastOf(page) :
        load' = [load EXCEPT !.page = page, !.last = last, !.more = more(got),
                             !.st = st(more(got), page)]
  BY <1>a
<1>3. load \in Load /\ load.limit \in 1..MaxLimit /\ MaxLimit \in Nat \ {0}
  BY FeedAssumption DEF FeedTypeOK, Load
<1>4. more(got) \in BOOLEAN OBVIOUS
<1>5. /\ peek \in Nat \ {0} /\ peek >= load.limit
      /\ peek <= load.limit => (load.limit = MaxLimit /\ peek = MaxLimit)
  BY <1>3
<1>6. got \subseteq S /\ (\A i \in S \ got, j \in got : Older(i, j))
      /\ (Cardinality(got) = peek \/ got = S)
  BY DEF Newest
<1>7. Cardinality({}) = 0 BY FS_EmptySet
<1> HIDE DEF S, peek
<1>8. CASE more(got)
  <2>1. page \subseteq got /\ (\A i \in got \ page, j \in page : Older(i, j))
        /\ Cardinality(page) <= load.limit /\ (Cardinality(page) = load.limit \/ page = got)
    BY <1>a, <1>8 DEF Newest
  <2>2. page # {} BY <2>1, <1>7, <1>8, <1>5, <1>3
  <2>3. last \in page BY <2>2 DEF LastOf
  <2>4. \A i \in S \ page : Older(i, last) BY <2>1, <2>3, <1>6
  <2>5. /\ load'.page = page /\ load'.last = last /\ load'.more = TRUE /\ load'.st = "answer"
        /\ load' = [load EXCEPT !.page = page, !.last = last, !.more = TRUE, !.st = "answer"]
    BY <1>2, <1>3, <1>8 DEF Load
  <2> QED BY <2>1, <2>2, <2>4, <2>5, <1>6 DEF S
<1>9. CASE ~more(got)
  <2>1. page = got BY <1>a, <1>9
  <2>2. /\ load'.page = page /\ load'.last = last /\ load'.more = FALSE
        /\ load'.st = st(FALSE, page) /\ load'.st \in {"probe", "answer"}
        /\ load' = [load EXCEPT !.page = page, !.last = last, !.more = FALSE, !.st = load'.st]
    BY <1>2, <1>3, <1>9 DEF Load
  <2>3. load'.st = "probe" => page # {} BY <2>2, <1>3, <1>7
  <2>4. ASSUME NEW i \in S \ page
        PROVE  page # {} /\ Older(i, last) /\ load'.st = "probe"
    <3>1. Cardinality(got) = peek BY <2>1, <2>4, <1>6
    <3>2. load.limit = MaxLimit /\ peek = MaxLimit BY <3>1, <1>9, <1>5, <1>3
    <3>3. load'.st = "probe" BY <3>1, <3>2, <2>1, <2>2
    <3>4. last \in page BY <3>3, <2>3 DEF LastOf
    <3> QED BY <3>3, <3>4, <2>1, <2>3, <2>4, <1>6
  <2> QED BY <2>1, <2>2, <2>3, <2>4, <1>6 DEF S
<1> QED BY <1>8, <1>9

LEMMA FeedTyping == FeedTypeOK /\ [FeedNext]_feedVars => FeedTypeOK'
<1> SUFFICES ASSUME FeedTypeOK, [FeedNext]_feedVars PROVE FeedTypeOK' OBVIOUS
<1> USE DEF FeedTypeOK
<1>0. ASSUME NEW f \in Filters, NEW n \in 1..MaxLimit
      PROVE Resting(f, n) \in Load /\ [Resting(f, n) EXCEPT !.st = "asked"] \in Load
  BY <1>0 DEF Resting, Load
<1>a. load.filter \in Filters /\ load.limit \in 1..MaxLimit BY DEF Load
<1>b. \A f \in Filters : Ask(f) => load' \in Load BY <1>0, <1>a DEF Ask
<1>c. \A f, c : Listed(f, c) \subseteq RowIds BY DEF Listed
<1>1. CASE Tick BY <1>1, FeedAssumption DEF Tick, panelVars
<1>2. ASSUME NEW i \in RowIds, BeginRow(i) PROVE FeedTypeOK'
  <2>1. entries[i] \in Row /\ now \in 0..MaxTime OBVIOUS
  <2>2. [entries[i] EXCEPT !.st = "open", !.at = now] \in Row BY <2>1 DEF Row
  <2>3. entries' = [entries EXCEPT ![i] = [entries[i] EXCEPT !.st = "open", !.at = now]]
    BY <1>2 DEF BeginRow
  <2> QED BY <1>2, <2>2, <2>3 DEF BeginRow, panelVars
<1>3. ASSUME NEW i \in RowIds, NEW a \in Actions, CommitRow(i, a) PROVE FeedTypeOK'
  <2>1. entries[i] \in Row OBVIOUS
  <2>2. [entries[i] EXCEPT !.st = "in", !.action = a] \in Row BY <2>1 DEF Row
  <2>3. entries' = [entries EXCEPT ![i] = [entries[i] EXCEPT !.st = "in", !.action = a]]
    BY <1>3 DEF CommitRow
  <2> QED BY <1>3, <2>2, <2>3 DEF CommitRow, panelVars
<1>4. ASSUME NEW i \in RowIds, RollBackRow(i) PROVE FeedTypeOK'
  <2>1. NoRowYet \in Row BY FeedAssumption DEF NoRowYet, Row
  <2> QED BY <1>4, <2>1 DEF RollBackRow, panelVars
<1>5. ASSUME NEW f \in Filters, Choose(f) PROVE FeedTypeOK'
  BY <1>5, <1>b DEF Choose, Reload, logVars
<1>6. CASE Refresh BY <1>6, <1>b DEF Refresh, Reload, logVars
<1>7. CASE LoadMore BY <1>7, <1>b DEF LoadMore, logVars
<1>8. CASE Query
  <2>1. load' \in Load
    <3>1. load'.page \subseteq RowIds BY <1>8, <1>c, QueryFinds
    <3>2. load'.last \in RowIds \cup {NoRow} BY <1>8, <3>1, QueryFinds DEF LastOf
    <3> QED BY <1>8, <3>1, <3>2, QueryFinds DEF Load
  <2> QED BY <1>8, <1>c, <2>1 DEF Query, logVars
<1>9. CASE Probe BY <1>9 DEF Probe, Load, logVars
<1>10. CASE Receive
  <2>1. load.page \subseteq RowIds /\ load.last \in RowIds \cup {NoRow} /\ load.more \in BOOLEAN
    BY DEF Load
  <2> QED BY <1>10, <1>0, <1>a, <2>1 DEF Receive, logVars
<1>11. CASE LoadFails BY <1>11, <1>0, <1>a DEF LoadFails, logVars
<1>12. CASE UNCHANGED feedVars BY <1>12 DEF feedVars, logVars, panelVars
<1> QED BY <1>1, <1>2, <1>3, <1>4, <1>5, <1>6, <1>7, <1>8, <1>9, <1>10, <1>11, <1>12 DEF FeedNext

\* Rows that are in the log stay as they are: what was true of them still is.
LEMMA FeedFrame ==
  ASSUME FeedInv, FeedTypeOK', UNCHANGED <<load, shown, cursor, button, asked, owed>>,
         \A i \in Committed : entries'[i] = entries[i]
  PROVE  FeedInv'
<1>1. /\ Committed \subseteq Committed'
      /\ \A i, j \in Committed : Older(i, j)' <=> Older(i, j)
      /\ \A f, i : i \in Committed => (Matches(f, i)' <=> Matches(f, i))
  BY DEF Committed, Older, Ms, Matches
<1>2. FeedSees' BY <1>1 DEF FeedInv, FeedSees
<1>3. CursorIsLast' BY <1>1 DEF FeedInv, FeedSees, CursorIsLast
<1>4. PageIsBelow'
  <2>1. \A i \in load'.page : Matches(load.filter, i)' /\ (cursor = NoRow \/ Older(i, cursor)')
    BY <1>1 DEF FeedInv, FeedSees, PageIsBelow
  <2>2. \A j \in load.page : j = load.last \/ Older(load.last, j)'
    BY <1>1 DEF FeedInv, FeedSees, PageIsBelow
  <2> QED BY <2>1, <2>2 DEF FeedInv, PageIsBelow, HasPage
<1>5. OwedIsAhead'
  <2>1. \A i \in owed : Awaited(i) => Awaited(i)' BY <1>1 DEF FeedInv, FeedSees, Awaited
  <2>2. \A i \in owed : cursor # NoRow => (Older(i, cursor)' <=> Older(i, cursor))
    BY <1>1 DEF FeedInv, FeedSees
  <2>3. \A f, i : i \in owed \cup shown => (Matches(f, i)' <=> Matches(f, i))
    BY <1>1 DEF FeedInv, FeedSees
  <2> HIDE <1>1
  <2>4. (HasPage' /\ cursor' = NoRow) => \A i \in owed' : Matches(load.filter, i)'
    BY <2>3 DEF FeedInv, OwedIsAhead, HasPage
  <2>5. (HasPage' /\ asked' \subseteq {load'.filter}) => \A i \in owed' : Awaited(i)'
    BY <2>1 DEF FeedInv, OwedIsAhead, HasPage
  <2>6. ASSUME NEW f \in Filters, asked = {f}
        PROVE  /\ \A i \in shown : Matches(f, i)'
               /\ cursor = NoRow => owed \subseteq shown
               /\ cursor # NoRow => \A i \in owed : Matches(f, i)' /\ (i \in shown \/ Older(i, cursor)')
    BY <2>2, <2>3, <2>6 DEF FeedInv, OwedIsAhead
  <2> QED BY <2>4, <2>5, <2>6 DEF OwedIsAhead
<1> QED BY <1>2, <1>3, <1>4, <1>5 DEF FeedInv

\* A new request has no page yet, and starts from the end of the list or, with
\* the list cleared, from the top.
LEMMA FeedAsks ==
  ASSUME FeedInv, FeedTypeOK', UNCHANGED entries,
         load'.page = {}, load'.last = NoRow, load'.more = FALSE, load'.st \in {"idle", "asked"},
         \/ /\ shown' = {} /\ asked' = {} /\ owed' = {} /\ cursor' = NoRow
         \/ /\ UNCHANGED <<shown, cursor, button, asked, owed>>
            /\ load'.st # "idle" => (cursor = NoRow => shown = {} /\ asked = {})
  PROVE  FeedInv'
<1>1. /\ Committed' = Committed
      /\ \A i, j : Older(i, j)' <=> Older(i, j)
      /\ \A f, i : Matches(f, i)' <=> Matches(f, i)
  BY DEF Committed, Older, Matches
<1>2. FeedSees' BY <1>1 DEF FeedInv, FeedSees
<1>3. CursorIsLast' BY <1>1 DEF FeedInv, CursorIsLast
<1>4. PageIsBelow' /\ ~HasPage' BY DEF PageIsBelow, HasPage
<1>5. OwedIsAhead'
  <2>1. ASSUME NEW f \in Filters, asked' = {f}
        PROVE  /\ \A i \in shown' : Matches(f, i)'
               /\ cursor' = NoRow => owed' \subseteq shown'
               /\ cursor' # NoRow =>
                    \A i \in owed' : Matches(f, i)' /\ (i \in shown' \/ Older(i, cursor)')
    BY <1>1, <2>1 DEF FeedInv, OwedIsAhead
  <2> QED BY <1>4, <2>1 DEF OwedIsAhead
<1> QED BY <1>2, <1>3, <1>4, <1>5 DEF FeedInv

LEMMA FeedQuery == ASSUME FeedInv, FeedTypeOK', Query PROVE FeedInv'
<1> DEFINE S == Listed(load.filter, cursor)
<1>1. /\ UNCHANGED <<entries, shown, cursor, button, asked>>
      /\ load.st = "asked" /\ load'.filter = load.filter
      /\ owed' = IF cursor = NoRow THEN Listed(load.filter, NoRow) ELSE owed
  <2>1. FeedTypeOK /\ load \in Load BY DEF FeedInv, FeedTypeOK
  <2>2. load'.filter = load.filter BY <2>1, QueryFinds DEF Load
  <2> QED BY <2>2 DEF Query, logVars
<1>2. /\ load'.page \subseteq S /\ load'.last \in LastOf(load'.page)
      /\ load'.st \in {"probe", "answer"} /\ load'.more \in BOOLEAN
      /\ (load'.more \/ load'.st = "probe") => load'.page # {}
      /\ \A i \in S \ load'.page :
           load'.page # {} /\ Older(i, load'.last) /\ (load'.st = "answer" => load'.more)
  BY QueryFinds DEF FeedInv
<1>3. /\ Committed' = Committed
      /\ \A i, j : Older(i, j)' <=> Older(i, j)
      /\ \A f, i : Matches(f, i)' <=> Matches(f, i)
  BY <1>1 DEF Committed, Older, Matches
<1>4. \A i \in S : i \in Committed /\ Matches(load.filter, i) /\ (cursor = NoRow \/ Older(i, cursor))
  BY DEF Listed, Matches, Committed
<1>5. \A i \in Committed : Matches(load.filter, i) /\ (cursor = NoRow \/ Older(i, cursor)) => i \in S
  BY DEF Listed, Committed
<1>6. Committed \subseteq RowIds /\ NoRow \notin RowIds BY FeedAssumption DEF Committed
<1>7. /\ load'.page = {} => load'.last = NoRow
      /\ load'.page # {} => load'.last \in load'.page
      /\ \A j \in load'.page : j = load'.last \/ Older(load'.last, j)
  BY <1>2 DEF LastOf
<1> HIDE DEF S
<1>8. FeedSees'
  <2>1. shown \subseteq Committed /\ owed \subseteq Committed /\ cursor \in Committed \cup {NoRow}
    BY DEF FeedInv, FeedSees
  <2>2. Listed(load.filter, NoRow) \subseteq Committed BY DEF Listed, Matches, Committed
  <2>3. load'.page \subseteq Committed /\ load'.last \in Committed \cup {NoRow}
    BY <1>2, <1>4, <1>7
  <2> QED BY <1>1, <1>3, <2>1, <2>2, <2>3 DEF FeedSees
<1>9. CursorIsLast' BY <1>1, <1>3 DEF FeedInv, CursorIsLast
<1>10. PageIsBelow'
  <2>1. \A i \in load'.page :
          Matches(load.filter, i)' /\ (cursor' = NoRow \/ Older(i, cursor)')
    BY <1>1, <1>2, <1>3, <1>4
  <2>2. load'.page = {} <=> load'.last = NoRow BY <1>2, <1>4, <1>6, <1>7
  <2>3. \A j \in load'.page : j = load'.last \/ Older(load.last, j)'
    BY <1>1, <1>7 DEF Older
  <2> QED BY <1>2, <1>7, <2>1, <2>2, <2>3 DEF PageIsBelow, HasPage
<1>11. OwedIsAhead'
  <2>1. ASSUME cursor = NoRow, NEW i \in owed' PROVE Matches(load.filter, i) /\ i \in S
    BY <1>1, <2>1 DEF Listed, S
  <2>2. ASSUME asked \subseteq {load.filter}, NEW i \in owed'
        PROVE  i \in shown \/ i \in S
    <3>1. CASE cursor = NoRow BY <3>1, <2>1, <2>2
    <3>2. CASE cursor # NoRow
      <4>1. i \in owed /\ i \in Committed BY <3>2, <2>2, <1>1 DEF FeedInv, FeedSees
      <4>2. asked = {load.filter} /\ load.filter \in Filters
        BY <3>2, <2>2 DEF FeedInv, CursorIsLast, FeedTypeOK, Load
      <4>3. Matches(load.filter, i) /\ (i \in shown \/ Older(i, cursor))
        BY <4>1, <4>2, <3>2 DEF FeedInv, OwedIsAhead
      <4> QED BY <4>1, <4>3, <1>5
    <3> QED BY <3>1, <3>2
  <2>3. ASSUME NEW i \in S PROVE Awaited(i)'
    <3>1. i \in load'.page \/ (load'.page # {} /\ Older(i, load'.last)
                               /\ (load'.st = "answer" => load'.more))
      BY <1>2
    <3>2. load'.page # {} => load'.last # NoRow BY <1>2, <1>4, <1>6, <1>7
    <3>3. Older(i, load'.last) => Older(i, load.last)' BY <1>1 DEF Older
    <3> QED BY <3>1, <3>2, <3>3 DEF Awaited
  <2>4. \A i \in shown : Awaited(i)' BY <1>1 DEF Awaited
  <2>5. (HasPage' /\ cursor' = NoRow) => \A i \in owed' : Matches(load.filter, i)'
    BY <2>1, <1>1, <1>3
  <2>6. (HasPage' /\ asked' \subseteq {load'.filter}) => \A i \in owed' : Awaited(i)'
    BY <2>2, <2>3, <2>4, <1>1
  <2>7. ASSUME NEW f \in Filters, asked = {f}
        PROVE  /\ \A i \in shown : Matches(f, i)'
               /\ cursor # NoRow
               /\ \A i \in owed' : Matches(f, i)' /\ (i \in shown \/ Older(i, cursor)')
    <3>1. cursor # NoRow BY <2>7, <1>1 DEF FeedInv, CursorIsLast
    <3> QED BY <3>1, <2>7, <1>1, <1>3 DEF FeedInv, OwedIsAhead
  <2> QED BY <2>5, <2>6, <2>7, <1>1 DEF OwedIsAhead
<1> QED BY <1>8, <1>9, <1>10, <1>11 DEF FeedInv

LEMMA FeedProbe == ASSUME FeedInv, FeedTypeOK', Probe PROVE FeedInv'
<1>1. /\ UNCHANGED <<entries, shown, cursor, button, asked, owed>> /\ load.st = "probe"
      /\ load'.filter = load.filter /\ load'.page = load.page /\ load'.last = load.last
      /\ load'.st = "answer" /\ load'.more = (Listed(load.filter, load.last) # {})
  BY DEF FeedInv, FeedTypeOK, Load, Probe, logVars
<1>2. /\ Committed' = Committed
      /\ \A i, j : Older(i, j)' <=> Older(i, j)
      /\ \A f, i : Matches(f, i)' <=> Matches(f, i)
      /\ \A i : Older(i, load.last)' <=> Older(i, load.last)
      /\ \A i : Older(load.last, i)' <=> Older(load.last, i)
  BY <1>1 DEF Committed, Older, Matches
<1>3. load.page # {} /\ HasPage BY <1>1 DEF FeedInv, PageIsBelow, HasPage
<1>4. FeedSees' BY <1>1, <1>2 DEF FeedInv, FeedSees
<1>5. CursorIsLast' BY <1>1, <1>2 DEF FeedInv, CursorIsLast
<1>6. PageIsBelow' BY <1>1, <1>2, <1>3 DEF FeedInv, PageIsBelow, HasPage
<1>7. OwedIsAhead'
  <2>1. ASSUME asked \subseteq {load.filter}, NEW i \in owed PROVE Awaited(i)'
    <3>1. Awaited(i) BY <2>1, <1>3 DEF FeedInv, OwedIsAhead
    <3>2. CASE i \in shown \/ i \in load.page BY <3>2, <1>1 DEF Awaited
    <3>3. CASE load.last # NoRow /\ Older(i, load.last)
      <4>1. i \in RowIds /\ load.filter \in Filters
        BY <2>1 DEF FeedInv, FeedTypeOK, Load
      <4>2. Matches(load.filter, i)
        <5>1. CASE cursor = NoRow BY <5>1, <1>3, <2>1 DEF FeedInv, OwedIsAhead
        <5>2. CASE cursor # NoRow
          <6>1. asked = {load.filter} BY <5>2, <2>1 DEF FeedInv, CursorIsLast
          <6> QED BY <6>1, <5>2, <4>1, <2>1 DEF FeedInv, OwedIsAhead
        <5> QED BY <5>1, <5>2
      <4>3. load'.more BY <4>1, <4>2, <3>3, <1>1 DEF Listed
      <4> QED BY <4>3, <3>3, <1>1, <1>2 DEF Awaited
    <3> QED BY <3>1, <3>2, <3>3 DEF Awaited
  <2> QED BY <1>1, <1>2, <1>3, <2>1 DEF FeedInv, OwedIsAhead, HasPage
<1> QED BY <1>4, <1>5, <1>6, <1>7 DEF FeedInv

\* The page of the end of the list lies below all that is shown.
LEMMA PageBelowShown ==
  ASSUME FeedInv, NEW i \in load.page, NEW j \in shown PROVE Older(i, j)
<1>1. load.st # "idle" BY DEF FeedInv, PageIsBelow, HasPage
<1>2. cursor # NoRow BY <1>1 DEF FeedInv, CursorIsLast
<1>3. Older(i, cursor) /\ (j = cursor \/ Older(cursor, j)) BY <1>2 DEF FeedInv, PageIsBelow, CursorIsLast
<1>4. i \in RowIds /\ j \in RowIds /\ cursor \in RowIds BY <1>2 DEF FeedInv, FeedTypeOK, Load
<1> QED BY <1>3, <1>4, OlderOnward DEF FeedInv

LEMMA FeedReceive == ASSUME FeedInv, FeedTypeOK', Receive PROVE FeedInv'
<1> DEFINE f0 == load.filter
<1>1. /\ UNCHANGED <<entries, owed>> /\ load.st = "answer" /\ HasPage
      /\ shown' = shown \cup load.page
      /\ cursor' = IF load.more THEN load.last ELSE NoRow
      /\ button' = load.more /\ asked' = asked \cup {f0}
      /\ load'.st = "idle" /\ load'.page = {} /\ load'.last = NoRow /\ load'.more = FALSE
  BY DEF Receive, Resting, logVars, HasPage
<1>2. /\ Committed' = Committed
      /\ \A i, j : Older(i, j)' <=> Older(i, j)
      /\ \A f, i : Matches(f, i)' <=> Matches(f, i)
  BY <1>1 DEF Committed, Older, Matches
<1>3. load.more \in BOOLEAN /\ f0 \in Filters BY DEF FeedInv, FeedTypeOK, Load
<1>4. load.more => load.last # NoRow /\ load.last \in load.page
  BY DEF FeedInv, PageIsBelow
<1>5. \A j \in shown \cup load.page : load.more => j = load.last \/ Older(load.last, j)
  BY <1>4, PageBelowShown DEF FeedInv, PageIsBelow
<1>6. FeedSees' BY <1>1, <1>2, <1>3 DEF FeedInv, FeedSees
<1>7. CursorIsLast'
  <2>1. cursor' # NoRow => load.more /\ cursor' = load.last BY <1>1, <1>3
  <2>2. cursor' # NoRow => cursor' \in shown' BY <2>1, <1>1, <1>4
  <2>3. \A i : load.more => (Older(cursor, i)' <=> Older(load.last, i)) BY <1>1, <1>3 DEF Older
  <2>4. cursor' # NoRow => \A j \in shown' : j = cursor' \/ Older(cursor, j)'
    BY <2>1, <2>3, <1>1, <1>5
  <2>5. ~(cursor' = NoRow /\ (button' \/ load'.st # "idle")) BY <1>1, <1>3, <1>4
  <2>6. asked' # {} BY <1>1
  <2> QED BY <2>2, <2>4, <2>5, <2>6 DEF CursorIsLast
<1>8. PageIsBelow' /\ ~HasPage' BY <1>1 DEF PageIsBelow, HasPage
<1>9. OwedIsAhead'
  <2>1. ASSUME NEW f \in Filters, asked' = {f}
        PROVE  /\ \A i \in shown' : Matches(f, i)'
               /\ cursor' = NoRow => owed' \subseteq shown'
               /\ cursor' # NoRow =>
                    \A i \in owed' : Matches(f, i)' /\ (i \in shown' \/ Older(i, cursor)')
    <3>1. f = f0 /\ asked \subseteq {f0} /\ (asked = {} \/ asked = {f0}) BY <2>1, <1>1
    <3>2. \A i \in shown : Matches(f0, i)
      <4>1. asked = {} => shown = {} BY DEF FeedInv, CursorIsLast
      <4>2. asked = {f0} => \A i \in shown : Matches(f0, i) BY <1>3 DEF FeedInv, OwedIsAhead
      <4> QED BY <4>1, <4>2, <3>1
    <3>3. \A i \in load.page : Matches(f0, i) BY DEF FeedInv, PageIsBelow
    <3>4. \A i \in owed : i \in shown' \/ (load.more /\ Older(i, load.last))
      <4>1. \A i \in owed : Awaited(i) BY <3>1, <1>1 DEF FeedInv, OwedIsAhead
      <4> QED BY <4>1, <1>1 DEF Awaited
    <3>5. \A i \in owed : Matches(f0, i) \/ ~load.more
      <4>1. CASE cursor = NoRow BY <4>1, <1>1 DEF FeedInv, OwedIsAhead
      <4>2. CASE cursor # NoRow
        <5>1. asked = {f0} BY <4>2, <3>1 DEF FeedInv, CursorIsLast
        <5> QED BY <5>1, <4>2, <1>3 DEF FeedInv, OwedIsAhead
      <4> QED BY <4>1, <4>2
    <3>6. \A i : load.more => (Older(i, cursor)' <=> Older(i, load.last)) BY <1>1 DEF Older
    <3>7. cursor' = NoRow <=> ~load.more BY <1>1, <1>3, <1>4
    <3>8. \A i \in shown' : Matches(f, i)' BY <3>1, <3>2, <3>3, <1>1, <1>2
    <3>9. cursor' = NoRow => owed' \subseteq shown' BY <3>4, <3>7, <1>1
    <3>10. ASSUME cursor' # NoRow, NEW i \in owed'
           PROVE  Matches(f, i)' /\ (i \in shown' \/ Older(i, cursor)')
      BY <3>10, <3>1, <3>4, <3>5, <3>6, <3>7, <1>1, <1>2
    <3> QED BY <3>8, <3>9, <3>10
  <2> QED BY <1>8, <2>1 DEF OwedIsAhead
<1> QED BY <1>6, <1>7, <1>8, <1>9 DEF FeedInv

LEMMA FeedInvStep == FeedInv /\ [FeedNext]_feedVars => FeedInv'
<1> SUFFICES ASSUME FeedInv, [FeedNext]_feedVars PROVE FeedInv' OBVIOUS
<1>0. FeedTypeOK' BY FeedTyping DEF FeedInv
<1>a. \A f : Ask(f) => /\ load'.page = {} /\ load'.last = NoRow /\ load'.more = FALSE
                       /\ load'.st = "asked"
  BY DEF Ask, Resting
<1>b. \A i \in RowIds : i \in Committed <=> entries[i].st = "in" BY DEF Committed
<1>c. entries \in [RowIds -> Row] BY DEF FeedInv, FeedTypeOK
<1>d. \A f : Reload(f) => FeedInv' BY <1>0, <1>a, FeedAsks DEF Reload, logVars
<1>1. CASE Tick BY <1>1, <1>0, FeedFrame DEF Tick, panelVars
<1>2. ASSUME NEW i \in RowIds, BeginRow(i) PROVE FeedInv'
  <2>1. \A j \in Committed : entries'[j] = entries[j]
    BY <1>2, <1>b, <1>c DEF BeginRow, Committed
  <2> QED BY <1>2, <2>1, <1>0, FeedFrame DEF BeginRow, panelVars
<1>3. ASSUME NEW i \in RowIds, NEW a \in Actions, CommitRow(i, a) PROVE FeedInv'
  <2>1. \A j \in Committed : entries'[j] = entries[j]
    BY <1>3, <1>b, <1>c DEF CommitRow, Committed
  <2> QED BY <1>3, <2>1, <1>0, FeedFrame DEF CommitRow, panelVars
<1>4. ASSUME NEW i \in RowIds, RollBackRow(i) PROVE FeedInv'
  <2>1. \A j \in Committed : entries'[j] = entries[j]
    BY <1>4, <1>b, <1>c DEF RollBackRow, Committed
  <2> QED BY <1>4, <2>1, <1>0, FeedFrame DEF RollBackRow, panelVars
<1>5. ASSUME NEW f \in Filters, Choose(f) PROVE FeedInv'
  <2>1. CASE Reload(f) BY <2>1, <1>d
  <2>2. CASE UNCHANGED <<logVars, load, shown, cursor, button, asked, owed>>
    BY <2>2, <1>0, FeedFrame DEF logVars
  <2> QED BY <1>5, <2>1, <2>2 DEF Choose
<1>6. CASE Refresh BY <1>6, <1>d DEF Refresh
<1>7. CASE LoadMore
  <2>1. cursor = NoRow => shown = {} /\ asked = {} BY <1>7 DEF LoadMore, FeedInv, CursorIsLast
  <2> QED BY <1>7, <2>1, <1>0, <1>a, FeedAsks DEF LoadMore, logVars
<1>8. CASE Query BY <1>8, <1>0, FeedQuery
<1>9. CASE Probe BY <1>9, <1>0, FeedProbe
<1>10. CASE Receive BY <1>10, <1>0, FeedReceive
<1>11. CASE LoadFails BY <1>11, <1>0, FeedAsks DEF LoadFails, Resting, logVars
<1>12. CASE UNCHANGED feedVars BY <1>12, <1>0, FeedFrame DEF feedVars, logVars, panelVars
<1> QED BY <1>1, <1>2, <1>3, <1>4, <1>5, <1>6, <1>7, <1>8, <1>9, <1>10, <1>11, <1>12 DEF FeedNext

LEMMA FeedInvStart == FeedInit => FeedInv
<1> SUFFICES ASSUME FeedInit PROVE FeedInv OBVIOUS
<1>1. FeedTypeOK
  <2>1. NoRowYet \in Row BY FeedAssumption DEF NoRowYet, Row
  <2>2. load \in Load BY DEF FeedInit, Resting, Load
  <2>3. now \in 0..MaxTime /\ entries \in [RowIds -> Row] BY <2>1, FeedAssumption DEF FeedInit
  <2>4. chosen \in Filters /\ button \in BOOLEAN BY DEF FeedInit
  <2>5. shown = {} /\ cursor = NoRow /\ asked = {} /\ owed = {} BY DEF FeedInit
  <2> QED BY <2>2, <2>3, <2>4, <2>5 DEF FeedTypeOK
<1>2. /\ load.st = "idle" /\ load.page = {} /\ load.last = NoRow /\ load.more = FALSE
      /\ shown = {} /\ asked = {} /\ owed = {} /\ cursor = NoRow
  BY DEF FeedInit, Resting
<1> QED BY <1>1, <1>2 DEF FeedInv, FeedSees, CursorIsLast, PageIsBelow, OwedIsAhead, HasPage

\* The feed of the activity log, under one filter: a page goes on where the
\* list ends, and at its end every row of the start is shown (the route
\* GET /activity-log with its probe, listForCurrentOrg, loadAuditLog).
THEOREM FeedTrue == FeedSpec => []FeedIsTrue
<1>1. FeedInv => FeedIsTrue
  <2>1. FeedInv => PagesGoOn BY PageBelowShown DEF PagesGoOn
  <2>2. FeedInv => ListIsWhole BY DEF FeedInv, OwedIsAhead, ListIsWhole
  <2> QED BY <2>1, <2>2 DEF FeedIsTrue
<1> QED BY <1>1, FeedInvStart, FeedInvStep, PTL DEF FeedSpec

-----------------------------------------------------------------------------
(* ActivityRecord: what the code records is never refused                  *)

\* A key is clean when none of its words is forbidden.
LEMMA CleanKeys ==
  /\ \A a : a \notin ForbiddenWords => ~ForbiddenKey(<<a>>)
  /\ \A a, b : a \notin ForbiddenWords /\ b \notin ForbiddenWords => ~ForbiddenKey(<<a, b>>)
  /\ \A a, b, c : a \notin ForbiddenWords /\ b \notin ForbiddenWords /\ c \notin ForbiddenWords
       => ~ForbiddenKey(<<a, b, c>>)
  /\ \A a, b, c, d : a \notin ForbiddenWords /\ b \notin ForbiddenWords /\ c \notin ForbiddenWords
                     /\ d \notin ForbiddenWords
       => ~ForbiddenKey(<<a, b, c, d>>)
<1>1. \A a : WordsOf(<<a>>) = {a} BY DEF WordsOf
<1>2. \A a, b : WordsOf(<<a, b>>) = {a, b} BY DEF WordsOf
<1>3. \A a, b, c : WordsOf(<<a, b, c>>) = {a, b, c} BY DEF WordsOf
<1>4. \A a, b, c, d : WordsOf(<<a, b, c, d>>) = {a, b, c, d} BY DEF WordsOf
<1> QED BY <1>1, <1>2, <1>3, <1>4 DEF ForbiddenKey

LEMMA FlatIsClean ==
  ASSUME NEW ks, \A k \in ks : ~ForbiddenKey(k) PROVE Sanitizes(Flat(ks))
<1>1. \A path \in Flat(ks) : \E k \in ks : path = <<k>> BY DEF Flat
<1>2. \A k : Len(<<k>>) = 1 /\ <<k>>[1] = k OBVIOUS
<1> QED BY <1>1, <1>2 DEF Sanitizes

\* The keys of the events.
KnownKeys ==
  { <<"actor", "type">>, <<"agent", "user", "id">>, <<"assignee", "user", "id">>, <<"batch", "size">>,
    <<"batches">>, <<"content", "type">>, <<"cutoff">>, <<"delete", "pending", "retried", "count">>,
    <<"deleted", "count">>, <<"direction">>, <<"duration", "seconds">>, <<"expires", "at">>,
    <<"failed", "attempt", "count">>, <<"failed", "count">>, <<"fields">>, <<"final", "status">>,
    <<"flow">>, <<"from">>, <<"from", "assignee", "user", "id">>, <<"from", "role">>,
    <<"from", "status">>, <<"invitation", "id">>, <<"is", "active">>, <<"kind">>, <<"locked", "until">>,
    <<"members", "without", "mfa", "count">>, <<"membership", "id">>, <<"method">>, <<"notes", "length">>,
    <<"object", "not", "found", "count">>, <<"previous", "customer", "id">>, <<"previous", "status">>,
    <<"reason">>, <<"recovered", "count">>, <<"retention", "days">>, <<"role">>, <<"scope">>,
    <<"size", "bytes">>, <<"sort", "order">>, <<"status">>, <<"stuck", "after", "seconds">>, <<"to">>,
    <<"to", "assignee", "user", "id">>, <<"to", "role">>, <<"to", "status">>, <<"ttl", "seconds">>,
    <<"uploaded", "before">>, <<"window", "days">>, CallId, CustomerId, RecordingId, TeamId }

LEMMA KnownAreClean == \A k \in KnownKeys : ~ForbiddenKey(k)
BY CleanKeys DEF KnownKeys, ForbiddenWords, CallId, CustomerId, RecordingId, TeamId

\* The row of e is neither refused by the sanitizer nor by the table.
Fine(e) == Sanitizes(e.payload) /\ Admitted(e)

LEMMA LoginFine == \A e \in LoginEvents : Fine(e)
<1>1. \A e \in LoginEvents : \E ks \in SUBSET KnownKeys : e.payload = Flat(ks)
  BY DEF LoginEvents, App, Service, Event, KnownKeys
<1>2. \A e \in LoginEvents : Admitted(e)
  BY DEF LoginEvents, App, Service, Event, Admitted, AllowedActions, TargetTypes, ReadsBack
<1> QED BY <1>1, <1>2, FlatIsClean, KnownAreClean DEF Fine

LEMMA FactorFine == \A e \in FactorEvents : Fine(e)
<1>1. \A e \in FactorEvents : \E pool \in {"app", "service"} :
        \/ e = Event("mfa.setup_started", "user", pool, Flat({<<"flow">>, <<"method">>}))
        \/ e = Event("mfa.failed_attempt", "user", pool,
                     Flat({<<"flow">>, <<"failed", "attempt", "count">>}))
        \/ e = Event("mfa.locked", "user", pool, Flat({<<"flow">>, <<"locked", "until">>}))
        \/ e = Event("mfa.enabled", "user", pool, Flat({<<"method">>}))
        \/ e = App("mfa.disabled", "user", {<<"method">>})
  <2> DEFINE Of(pool) ==
        { Event("mfa.setup_started", "user", pool, Flat({<<"flow">>, <<"method">>})),
          Event("mfa.failed_attempt", "user", pool, Flat({<<"flow">>, <<"failed", "attempt", "count">>})),
          Event("mfa.locked", "user", pool, Flat({<<"flow">>, <<"locked", "until">>})),
          Event("mfa.enabled", "user", pool, Flat({<<"method">>})) }
  <2>1. FactorEvents = {App("mfa.disabled", "user", {<<"method">>})}
                       \cup UNION {Of(pool) : pool \in {"app", "service"}}
    BY DEF FactorEvents
  <2> QED BY <2>1
<1>2. \A e \in FactorEvents : \E ks \in SUBSET KnownKeys : e.payload = Flat(ks)
  BY <1>1 DEF App, Event, KnownKeys
<1>3. \A e \in FactorEvents : Admitted(e)
  BY <1>1 DEF App, Event, Admitted, AllowedActions, TargetTypes, ReadsBack
<1> QED BY <1>2, <1>3, FlatIsClean, KnownAreClean DEF Fine

LEMMA OrganizationFine == \A e \in OrganizationEvents : Fine(e)
<1>1. \A e \in OrganizationEvents : \E ks \in SUBSET KnownKeys : e.payload = Flat(ks)
  BY DEF OrganizationEvents, App, Service, Event, KnownKeys, Nothing, Fields
<1>2. \A e \in OrganizationEvents : Admitted(e)
  BY DEF OrganizationEvents, App, Service, Event, Admitted, AllowedActions, TargetTypes, ReadsBack
<1> QED BY <1>1, <1>2, FlatIsClean, KnownAreClean DEF Fine

LEMMA MembershipFine == \A e \in MembershipEvents : Fine(e)
<1>1. \A e \in MembershipEvents : \E ks \in SUBSET KnownKeys : e.payload = Flat(ks)
  BY DEF MembershipEvents, App, Service, Event, KnownKeys
<1>2. \A e \in MembershipEvents : Admitted(e)
  BY DEF MembershipEvents, App, Service, Event, Admitted, AllowedActions, TargetTypes, ReadsBack
<1> QED BY <1>1, <1>2, FlatIsClean, KnownAreClean DEF Fine

LEMMA InvitationFine == \A e \in InvitationEvents : Fine(e)
<1>1. \A e \in InvitationEvents : \E ks \in SUBSET KnownKeys : e.payload = Flat(ks)
  BY DEF InvitationEvents, App, Service, Event, KnownKeys, TeamId
<1>2. \A e \in InvitationEvents : Admitted(e)
  BY DEF InvitationEvents, App, Service, Event, Admitted, AllowedActions, TargetTypes, ReadsBack
<1> QED BY <1>1, <1>2, FlatIsClean, KnownAreClean DEF Fine

LEMMA CustomerFine == \A e \in CustomerEvents : Fine(e)
<1>1. \A e \in CustomerEvents : \E ks \in SUBSET KnownKeys : e.payload = Flat(ks)
  BY DEF CustomerEvents, App, Service, Event, KnownKeys, Nothing, Fields
<1>2. \A e \in CustomerEvents : Admitted(e)
  BY DEF CustomerEvents, App, Service, Event, Admitted, AllowedActions, TargetTypes, ReadsBack
<1> QED BY <1>1, <1>2, FlatIsClean, KnownAreClean DEF Fine

LEMMA CallFine == \A e \in CallEvents : Fine(e)
<1>1. \A e \in CallEvents : \E ks \in SUBSET KnownKeys : e.payload = Flat(ks)
  BY DEF CallEvents, App, Service, Event, KnownKeys, CustomerId
<1>2. \A e \in CallEvents : Admitted(e)
  BY DEF CallEvents, App, Service, Event, Admitted, AllowedActions, TargetTypes, ReadsBack
<1> QED BY <1>1, <1>2, FlatIsClean, KnownAreClean DEF Fine

LEMMA LinkFine == \A e \in LinkEvents : Fine(e)
<1>1. \A e \in LinkEvents : \E ks \in SUBSET KnownKeys : e.payload = Flat(ks)
  BY DEF LinkEvents, App, Service, Event, KnownKeys, CustomerId
<1>2. \A e \in LinkEvents : Admitted(e)
  BY DEF LinkEvents, App, Service, Event, Admitted, AllowedActions, TargetTypes, ReadsBack
<1> QED BY <1>1, <1>2, FlatIsClean, KnownAreClean DEF Fine

LEMMA NoteFine == \A e \in NoteEvents : Fine(e)
<1>1. \A e \in NoteEvents : \E ks \in SUBSET KnownKeys : e.payload = Flat(ks)
  BY DEF NoteEvents, App, Service, Event, KnownKeys, Fields
<1>2. \A e \in NoteEvents : Admitted(e)
  BY DEF NoteEvents, App, Service, Event, Admitted, AllowedActions, TargetTypes, ReadsBack
<1> QED BY <1>1, <1>2, FlatIsClean, KnownAreClean DEF Fine

LEMMA ItemFine == \A e \in ItemEvents : Fine(e)
<1>1. \A e \in ItemEvents : \E ks \in SUBSET KnownKeys : e.payload = Flat(ks)
  BY DEF ItemEvents, App, Service, Event, KnownKeys, CallId
<1>2. \A e \in ItemEvents : Admitted(e)
  BY DEF ItemEvents, App, Service, Event, Admitted, AllowedActions, TargetTypes, ReadsBack
<1> QED BY <1>1, <1>2, FlatIsClean, KnownAreClean DEF Fine

LEMMA KnowledgeFine == \A e \in KnowledgeEvents : Fine(e)
<1>1. \A e \in KnowledgeEvents : \E ks \in SUBSET KnownKeys : e.payload = Flat(ks)
  BY DEF KnowledgeEvents, App, Service, Event, KnownKeys, Nothing, Fields
<1>2. \A e \in KnowledgeEvents : Admitted(e)
  BY DEF KnowledgeEvents, App, Service, Event, Admitted, AllowedActions, TargetTypes, ReadsBack
<1> QED BY <1>1, <1>2, FlatIsClean, KnownAreClean DEF Fine

LEMMA TemplateFine == \A e \in TemplateEvents : Fine(e)
<1>1. \A e \in TemplateEvents : \E ks \in SUBSET KnownKeys : e.payload = Flat(ks)
  BY DEF TemplateEvents, App, Service, Event, KnownKeys, Nothing, Fields
<1>2. \A e \in TemplateEvents : Admitted(e)
  BY DEF TemplateEvents, App, Service, Event, Admitted, AllowedActions, TargetTypes, ReadsBack
<1> QED BY <1>1, <1>2, FlatIsClean, KnownAreClean DEF Fine

LEMMA ViewFine == \A e \in ViewEvents : Fine(e)
<1>1. \A e \in ViewEvents : \E ks \in SUBSET KnownKeys : e.payload = Flat(ks)
  BY DEF ViewEvents, App, Service, Event, KnownKeys, TeamId
<1>2. \A e \in ViewEvents : Admitted(e)
  BY DEF ViewEvents, App, Service, Event, Admitted, AllowedActions, TargetTypes, ReadsBack
<1> QED BY <1>1, <1>2, FlatIsClean, KnownAreClean DEF Fine

LEMMA UploadFine == \A e \in UploadEvents : Fine(e)
<1>1. \A e \in UploadEvents : \E ks \in SUBSET KnownKeys : e.payload = Flat(ks)
  BY DEF UploadEvents, App, Service, Event, KnownKeys, RecordingId
<1>2. \A e \in UploadEvents : Admitted(e)
  BY DEF UploadEvents, App, Service, Event, Admitted, AllowedActions, TargetTypes, ReadsBack
<1> QED BY <1>1, <1>2, FlatIsClean, KnownAreClean DEF Fine

LEMMA RecordingFine == \A e \in RecordingEvents : Fine(e)
<1>1. \A e \in RecordingEvents : \E ks \in SUBSET KnownKeys : e.payload = Flat(ks)
  BY DEF RecordingEvents, App, Service, Event, KnownKeys, RecordingId
<1>2. \A e \in RecordingEvents : Admitted(e)
  BY DEF RecordingEvents, App, Service, Event, Admitted, AllowedActions, TargetTypes, ReadsBack
<1> QED BY <1>1, <1>2, FlatIsClean, KnownAreClean DEF Fine

\* The sweep of recordings also tells how many went from each store.
LEMMA RetentionFine == \A e \in RetentionEvents : Fine(e)
<1> DEFINE sweep == {<<"actor", "type">>, <<"cutoff">>, <<"deleted", "count">>, <<"batch", "size">>,
                     <<"batches">>, <<"retention", "days">>}
           swept == sweep \cup {<<"uploaded", "before">>, <<"object", "not", "found", "count">>,
                                <<"failed", "count">>, <<"delete", "pending", "retried", "count">>}
           stores == {<<<<"storage", "provider", "counts">>, <<p>>>> : p \in {"local", "s3", "minio"}}
<1>1. sweep \subseteq KnownKeys /\ swept \subseteq KnownKeys BY DEF KnownKeys
<1>2. Sanitizes(Flat(sweep)) /\ Sanitizes(Flat(swept)) BY <1>1, FlatIsClean, KnownAreClean
<1>3. Sanitizes(stores)
  <2>1. \A p \in {"local", "s3", "minio"} :
          ~ForbiddenKey(<<"storage", "provider", "counts">>) /\ ~ForbiddenKey(<<p>>)
    BY CleanKeys DEF ForbiddenWords
  <2>2. \A k, l : Len(<<k, l>>) = 2 /\ <<k, l>>[1] = k /\ <<k, l>>[2] = l OBVIOUS
  <2> QED BY <2>1, <2>2 DEF Sanitizes
<1>4. Sanitizes(Flat(swept) \cup stores) BY <1>2, <1>3 DEF Sanitizes
<1>5. Sanitizes(Flat({<<"actor", "type">>, <<"cutoff">>, <<"recovered", "count">>,
                      <<"stuck", "after", "seconds">>}))
  <2>1. {<<"actor", "type">>, <<"cutoff">>, <<"recovered", "count">>, <<"stuck", "after", "seconds">>}
          \subseteq KnownKeys
    BY DEF KnownKeys
  <2> QED BY <2>1, FlatIsClean, KnownAreClean
<1>6. \A e \in RetentionEvents : Sanitizes(e.payload)
  <2>1. RetentionEvents =
          { App("retention.transcripts_deleted", "organization", sweep),
            App("email_outbox.sending_recovered", "organization",
                {<<"actor", "type">>, <<"cutoff">>, <<"recovered", "count">>,
                 <<"stuck", "after", "seconds">>}),
            Event("retention.recordings_deleted", "organization", "app", Flat(swept) \cup stores) }
    BY DEF RetentionEvents
  <2> HIDE DEF sweep, swept, stores
  <2> QED BY <2>1, <1>2, <1>4, <1>5 DEF App, Event
<1>7. \A e \in RetentionEvents : Admitted(e)
  BY DEF RetentionEvents, App, Event, Admitted, AllowedActions, TargetTypes, ReadsBack
<1> QED BY <1>6, <1>7 DEF Fine

LEMMA HelpersFine == \A e \in Helpers : Fine(e)
BY LoginFine, FactorFine, OrganizationFine, MembershipFine, InvitationFine, CustomerFine, CallFine,
   LinkFine, NoteFine, ItemFine, KnowledgeFine, TemplateFine, ViewFine, UploadFine, RecordingFine,
   RetentionFine DEF Helpers

-----------------------------------------------------------------------------
(* ActivityRecord: the inductive invariant                                 *)

States == {"none", "begun", "changed", "recorded", "answered", "refused"}

Writing ==
  [st : States, event : Helpers \cup Slips \cup {NoEvent}, row : BOOLEAN,
   why : {"none", "sanitizer", "table", "failure"}]

\* What is committed is answered; a row is there to be written only when the
\* sanitizer and the table let it through.
WriterOK(w) ==
  LET j == writer[w]
  IN /\ j.st \in States
     /\ j.st = "none" \/ j.event \in Helpers \cup Slips
     /\ (w \in changes) <=> (j.st = "answered")
     /\ j.row => j.st \in {"recorded", "answered"} /\ Fine(j.event)
     /\ j.st \in {"recorded", "answered"} => j.row \/ BestEffort(j.event)
     /\ j.st = "refused" /\ (j.event \in Helpers \/ BestEffort(j.event)) => j.why = "failure"

AuditInv ==
  /\ writer \in [Writers -> Writing]
  /\ \A w \in Writers : WriterOK(w)
  /\ \A r \in log : /\ r.of \in Writers /\ r.payload = writer[r.of].event.payload
                    /\ writer[r.of].st = "answered" /\ writer[r.of].row
  /\ \A w \in Writers : writer[w].st = "answered" /\ writer[w].row => \E r \in log : r.of = w

\* One writer goes on, and is not one that has committed.
LEMMA OneWriter ==
  ASSUME AuditInv, NEW w \in Writers, writer[w].st # "answered", UNCHANGED <<changes, log>>,
         NEW j \in Writing,
         writer' = [writer EXCEPT ![w] = j], WriterOK(w)', j.st # "answered"
  PROVE  AuditInv'
<1>1. writer \in [Writers -> Writing] BY DEF AuditInv
<1>2. writer'[w] = j /\ \A v \in Writers \ {w} : writer'[v] = writer[v] BY <1>1
<1>3. \A v \in Writers : WriterOK(v)'
  <2>1. \A v \in Writers \ {w} : WriterOK(v) => WriterOK(v)' BY <1>2 DEF WriterOK
  <2> QED BY <2>1 DEF AuditInv
<1>4. \A r \in log : r.of # w BY DEF AuditInv
<1>5. \A r \in log : /\ r.of \in Writers /\ r.payload = writer'[r.of].event.payload
                     /\ writer'[r.of].st = "answered" /\ writer'[r.of].row
  BY <1>2, <1>4 DEF AuditInv
<1>6. \A v \in Writers : writer'[v].st = "answered" /\ writer'[v].row => \E r \in log : r.of = v
  BY <1>2 DEF AuditInv
<1>7. writer' \in [Writers -> Writing] BY <1>1
<1> QED BY <1>3, <1>5, <1>6, <1>7 DEF AuditInv

LEMMA AuditStep == AuditInv /\ [AuditNext]_auditVars => AuditInv'
<1> SUFFICES ASSUME AuditInv, [AuditNext]_auditVars PROVE AuditInv' OBVIOUS
<1>0. writer \in [Writers -> Writing] /\ \A w \in Writers : WriterOK(w) BY DEF AuditInv
<1>1. ASSUME NEW w \in Writers, NEW e \in Helpers \cup Slips, BeginWriter(w, e) PROVE AuditInv'
  <2> DEFINE j == [writer[w] EXCEPT !.st = "begun", !.event = e]
  <2>1. j \in Writing BY <1>0 DEF Writing, States
  <2>2. writer' = [writer EXCEPT ![w] = j] /\ writer'[w] = j BY <1>0, <1>1 DEF BeginWriter
  <2>3. writer[w].st = "none" /\ UNCHANGED <<changes, log>> BY <1>1 DEF BeginWriter
  <2>4. ~writer[w].row /\ w \notin changes BY <1>0, <2>3 DEF WriterOK
  <2>5. WriterOK(w)' BY <2>2, <2>3, <2>4, <1>0 DEF WriterOK, States, Writing
  <2> QED BY <2>1, <2>2, <2>3, <2>5, <1>0, OneWriter DEF Writing
<1>2. ASSUME NEW w \in Writers, Change(w) PROVE AuditInv'
  <2> DEFINE j == [writer[w] EXCEPT !.st = "changed"]
  <2>1. j \in Writing BY <1>0 DEF Writing, States
  <2>2. writer' = [writer EXCEPT ![w] = j] /\ writer'[w] = j BY <1>0, <1>2 DEF Change
  <2>3. writer[w].st = "begun" /\ UNCHANGED <<changes, log>> BY <1>2 DEF Change
  <2>4. ~writer[w].row /\ w \notin changes BY <1>0, <2>3 DEF WriterOK
  <2>5. WriterOK(w)' BY <2>2, <2>3, <2>4, <1>0 DEF WriterOK, States, Writing
  <2> QED BY <2>1, <2>2, <2>3, <2>5, <1>0, OneWriter DEF Writing
\* a refusal, for the database's reasons if it was an event of the code
<1>a. ASSUME NEW w \in Writers, NEW why \in {"sanitizer", "table", "failure"}, Refuse(w, why),
             UNCHANGED <<changes, log>>, writer[w].st \in {"begun", "changed", "recorded"},
             (writer[w].event \in Helpers \/ BestEffort(writer[w].event)) => why = "failure"
      PROVE  AuditInv'
  <2> DEFINE j == [writer[w] EXCEPT !.st = "refused", !.row = FALSE, !.why = why]
  <2>1. j \in Writing BY <1>0 DEF Writing, States
  <2>2. writer' = [writer EXCEPT ![w] = j] /\ writer'[w] = j BY <1>0, <1>a DEF Refuse
  <2>3. w \notin changes BY <1>0, <1>a DEF WriterOK
  <2>4. WriterOK(w)' BY <2>2, <2>3, <1>a, <1>0 DEF WriterOK, States, Writing
  <2>5. writer[w].st # "answered" /\ j.st # "answered" BY <1>a, <1>0 DEF Writing
  <2> QED BY <2>1, <2>2, <2>4, <2>5, <1>a, OneWriter
<1>3. ASSUME NEW w \in Writers, Recorded(w) PROVE AuditInv'
  <2> DEFINE j == [writer[w] EXCEPT !.st = "recorded", !.row = TRUE]
  <2>1. j \in Writing BY <1>0 DEF Writing, States
  <2>2. writer' = [writer EXCEPT ![w] = j] /\ writer'[w] = j BY <1>0, <1>3 DEF Recorded
  <2>3. writer[w].st = "changed" /\ UNCHANGED <<changes, log>> /\ Fine(writer[w].event)
    BY <1>3 DEF Recorded, Fine
  <2>4. w \notin changes BY <1>0, <2>3 DEF WriterOK
  <2>5. WriterOK(w)' BY <2>2, <2>3, <2>4, <1>0 DEF WriterOK, States, Writing
  <2> QED BY <2>1, <2>2, <2>3, <2>5, <1>0, OneWriter DEF Writing
<1>4. ASSUME NEW w \in Writers, NotRecorded(w) PROVE AuditInv'
  <2>1. PICK why \in {"sanitizer", "table", "failure"} :
          /\ why # "failure" => ~Fine(writer[w].event)
          /\ IF BestEffort(writer[w].event)
               THEN writer' = [writer EXCEPT ![w].st = "recorded"] ELSE Refuse(w, why)
    BY <1>4 DEF NotRecorded, Fine
  <2>2. writer[w].st = "changed" /\ UNCHANGED <<changes, log>> BY <1>4 DEF NotRecorded
  <2>3. CASE ~BestEffort(writer[w].event)
    BY <2>1, <2>2, <2>3, <1>a, HelpersFine
  <2>4. CASE BestEffort(writer[w].event)
    <3> DEFINE j == [writer[w] EXCEPT !.st = "recorded"]
    <3>1. j \in Writing BY <1>0 DEF Writing, States
    <3>2. writer' = [writer EXCEPT ![w] = j] /\ writer'[w] = j BY <1>0, <2>1, <2>4
    <3>3. w \notin changes /\ ~writer[w].row BY <1>0, <2>2 DEF WriterOK
    <3>4. WriterOK(w)' BY <3>2, <3>3, <2>2, <2>4, <1>0 DEF WriterOK, States, Writing
    <3>5. writer[w].st # "answered" /\ j.st # "answered" BY <2>2, <1>0 DEF Writing
    <3> QED BY <3>1, <3>2, <3>4, <3>5, <2>2, OneWriter
  <2> QED BY <2>3, <2>4
<1>5. ASSUME NEW w \in Writers, Commit(w) PROVE AuditInv'
  <2> DEFINE j == [writer[w] EXCEPT !.st = "answered"]
             r0 == [of |-> w, payload |-> writer[w].event.payload]
  <2>1. j \in Writing BY <1>0 DEF Writing, States
  <2>2. /\ writer' = [writer EXCEPT ![w] = j] /\ writer'[w] = j
        /\ \A v \in Writers \ {w} : writer'[v] = writer[v]
    BY <1>0, <1>5 DEF Commit
  <2>3. writer[w].st = "recorded" /\ changes' = changes \cup {w} BY <1>5 DEF Commit
  <2>4. log' = log \cup (IF writer[w].row THEN {r0} ELSE {}) BY <1>5 DEF Commit
  <2>5. /\ j.st = "answered" /\ j.event = writer[w].event /\ j.row = writer[w].row
        /\ j.why = writer[w].why
    BY <1>0 DEF Writing
  <2> HIDE DEF j
  <2>6. \A v \in Writers : WriterOK(v)'
    <3>1. WriterOK(w)' BY <2>2, <2>3, <2>5, <1>0 DEF WriterOK, States
    <3>2. \A v \in Writers \ {w} : WriterOK(v) => WriterOK(v)' BY <2>2, <2>3 DEF WriterOK
    <3> QED BY <3>1, <3>2, <1>0
  <2>7. writer' \in [Writers -> Writing] BY <2>1, <2>2, <1>0
  <2>8. \A r \in log : r.of # w BY <2>3 DEF AuditInv
  <2>9. ASSUME NEW r \in log'
        PROVE  /\ r.of \in Writers /\ r.payload = writer'[r.of].event.payload
               /\ writer'[r.of].st = "answered" /\ writer'[r.of].row
    <3>1. CASE r \in log BY <3>1, <2>8, <2>2 DEF AuditInv
    <3>2. CASE r \notin log
      <4>1. r = r0 /\ writer[w].row BY <3>2, <2>4, <2>9
      <4> QED BY <4>1, <2>2, <2>5
    <3> QED BY <3>1, <3>2
  <2>10. ASSUME NEW v \in Writers, writer'[v].st = "answered", writer'[v].row
         PROVE  \E r \in log' : r.of = v
    <3>1. CASE v = w
      <4>1. r0 \in log' /\ r0.of = w BY <3>1, <2>10, <2>2, <2>4, <2>5
      <4> QED BY <4>1, <3>1
    <3>2. CASE v # w BY <3>2, <2>10, <2>2, <2>4 DEF AuditInv
    <3> QED BY <3>1, <3>2
  <2> QED BY <2>6, <2>7, <2>9, <2>10 DEF AuditInv
<1>6. ASSUME NEW w \in Writers, Stops(w) PROVE AuditInv' BY <1>6, <1>a DEF Stops
<1>7. CASE UNCHANGED auditVars BY <1>7 DEF auditVars, AuditInv, WriterOK
<1> QED BY <1>1, <1>2, <1>3, <1>4, <1>5, <1>6, <1>7 DEF AuditNext

\* Writing the activity log (recordActivity and its helpers, tryRecordActivity,
\* sanitizeActivityPayload, the constraints of the table): a change is committed
\* with the row of its event or not at all, no event the code records is refused
\* for what it says, and nothing secret is written.
THEOREM AuditJust == AuditSpec => []AuditIsJust
<1>1. AuditInit => AuditInv
  <2> SUFFICES ASSUME AuditInit PROVE AuditInv OBVIOUS
  <2>1. /\ changes = {} /\ log = {}
        /\ \A w \in Writers :
             writer[w] = [st |-> "none", event |-> NoEvent, row |-> FALSE, why |-> "none"]
    BY DEF AuditInit
  <2>2. writer \in [Writers -> Writing] BY DEF AuditInit, Writing, States
  <2>3. \A w \in Writers : writer[w].st = "none" /\ ~writer[w].row /\ w \notin changes
    <3> TAKE w \in Writers
    <3>1. writer[w].st = "none" BY <2>1
    <3> DEFINE j == [st |-> "none", event |-> NoEvent, row |-> FALSE, why |-> "none"]
    <3>2. ~j.row OBVIOUS
    <3>3. writer[w] = j BY <2>1
    <3> HIDE DEF j
    <3> QED BY <3>1, <3>2, <3>3, <2>1
  <2>4. \A w \in Writers : WriterOK(w) BY <2>3 DEF WriterOK, States
  <2> QED BY <2>1, <2>2, <2>3, <2>4 DEF AuditInv
<1>2. AuditInv => AuditIsJust
  <2> SUFFICES ASSUME AuditInv PROVE AuditIsJust OBVIOUS
  <2>1. ASSUME NEW w \in Writers
        PROVE  LET j == writer[w]
                   written == \E r \in log : r.of = w
               IN /\ (w \in changes) <=> (j.st = "answered")
                  /\ written => w \in changes
                  /\ w \in changes => written \/ BestEffort(j.event)
                  /\ j.st = "refused" /\ j.event \in Helpers => j.why = "failure"
                  /\ j.st = "refused" /\ BestEffort(j.event) => j.why = "failure"
    BY DEF AuditInv, WriterOK
  <2>2. ASSUME NEW r \in log, NEW path \in r.payload, NEW n \in 1..Len(path)
        PROVE  path[n] = <<"auth", "token", "id">> \/ WordsOf(path[n]) \cap ForbiddenWords = {}
    <3>1. Sanitizes(r.payload) BY DEF AuditInv, WriterOK, Fine
    <3> QED BY <3>1 DEF Sanitizes, ForbiddenKey, SafeKeys
  <2> QED BY <2>1, <2>2 DEF AuditIsJust
<1> QED BY <1>1, <1>2, AuditStep, PTL DEF AuditSpec
===============================================================================
