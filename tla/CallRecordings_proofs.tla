------------------------ MODULE CallRecordings_proofs ------------------------
(***************************************************************************)
(* Proofs about CallRecordings, for every number of recordings, requests,  *)
(* retention workers, providers, failures and every setting of the clocks, *)
(* and about AudioCapture, which records the sound of a call, for every    *)
(* rate of the device, size of its blocks and frames, capacity of the      *)
(* queue and number of ticks that overlap; and about DesktopCall, which    *)
(* makes the call and uploads its recording, for every number of calls,    *)
(* connections, ends of calls, troubles and frames.                        *)
(***************************************************************************)
EXTENDS CallRecordings, AudioCapture, DesktopCall, FiniteSetTheorems, SequenceTheorems, TLAPS

LEMMA Domains ==
    /\ \A step \in {"idle", "listing", "working", "tombstoning", "auditing"} : step \in SweepSteps
    /\ \A step \in {"signing", "removing", "tombstoning"} : step \in UserSteps
    /\ \A st \in {"absent", "upload_pending", "uploaded", "processing", "available",
                  "failed", "delete_pending", "deleted"} : st \in Statuses
    /\ \A c \in {"never", "stored", "removed", "late"} : c \in Contents
    /\ {} \in Batches
    /\ \A S \in Batches : \A T : S \ T \in Batches
    /\ \A S \in Batches, T \in Batches : S \cup T \in Batches
    /\ \A r \in Recordings : {r} \in Batches
    /\ 0 \in Counts /\ 0 \in Lags
    /\ \A n \in Lags : n < MaxTick => n + 1 \in Lags
    /\ UrlTtl \in Lives /\ 0 \in Lives
    /\ \A n \in Lives : n > 0 => n - 1 \in Lives
    /\ 0 \in Ages
    /\ \A n \in Ages : Older(n) \in Ages /\ Older(n) >= n
BY ClockAssumption, BatchAssumption
   DEF SweepSteps, UserSteps, Statuses, Contents, Batches, Counts, Lags, Lives, Ages,
       AgeCap, Older

\* The fields of a tick.
LEMMA TickFields ==
    ASSUME NEW t \in Ticks
    PROVE  /\ t.at \in SweepSteps /\ t.expired \in Batches /\ t.pending \in Batches
           /\ t.removed \in Batches /\ t.failed \in Batches /\ t.tally \in Batches
           /\ t.wins \in BOOLEAN /\ t.batch \in Counts /\ t.lag \in Lags
BY DEF Ticks

\* A request in one of its steps has a recording.
LEMMA RequestType ==
    ASSUME user \in [Users -> Requests], NEW u \in Users, user[u] # NoRequest
    PROVE  user[u].at \in UserSteps /\ user[u].rec \in Recordings
BY DEF Requests

LEMMA NewRequest ==
    ASSUME NEW step \in UserSteps, NEW r \in Recordings
    PROVE  Request(step, r) \in Requests /\ Request(step, r).at = step
           /\ Request(step, r).rec = r
BY DEF Request, Requests

LEMMA Busy ==
    ASSUME NEW u \in Users, user \in [Users -> Requests], user[u].at \in UserSteps
    PROVE  user[u] # NoRequest /\ user[u].rec \in Recordings
BY DEF Requests, NoRequest, UserSteps

\* What a request does keeps the types.
LEMMA UserTypes ==
    ASSUME TypeOK, NEW u \in Users,
           \/ UserStep(u) \/ UserAborts(u)
           \/ \E r \in Recordings : Initiate(u, r) \/ RequestDelete(u, r)
    PROVE  TypeOK'
<1>0. NoRequest \in Requests
  BY DEF Requests
<1>1. ASSUME NEW r \in Recordings, Initiate(u, r) PROVE TypeOK'
  BY <1>1, Domains, NewRequest DEF Initiate, TypeOK, Store, Histories
<1>2. CASE SignUpload(u)
  BY <1>0, <1>2, Domains, Busy DEF SignUpload, TypeOK, Rows, Histories
<1>3. ASSUME NEW r \in Recordings, RequestDelete(u, r) PROVE TypeOK'
  BY <1>3, Domains, NewRequest DEF RequestDelete, TypeOK, Store, Histories
<1>4. CASE UserRemove(u)
  <2>1. user[u].rec \in Recordings
    BY <1>4, Domains, Busy DEF UserRemove, TypeOK
  <2>. QED BY <1>4, <2>1, Domains, NewRequest DEF UserRemove, RemoveObject, TypeOK, Rows
<1>5. CASE UserRemoveFails(u)
  <2>1. user[u].rec \in Recordings
    BY <1>5, Domains, Busy DEF UserRemoveFails, TypeOK
  <2>. QED BY <1>0, <1>5, <2>1, Domains, FaultsAssumption
       DEF UserRemoveFails, RemoveObject, TypeOK, Rows, Histories, Fault
<1>6. CASE UserTombstone(u)
  BY <1>0, <1>6, Domains, Busy DEF UserTombstone, TypeOK, Store, Histories
<1>7. CASE UserAborts(u)
  BY <1>0, <1>7, FaultsAssumption DEF UserAborts, TypeOK, Rows, Store, Histories, Fault
<1>. QED BY <1>1, <1>2, <1>3, <1>4, <1>5, <1>6, <1>7 DEF UserStep

\* What the sweep's steps make of a tick is a tick.
LEMMA TickShapes ==
    ASSUME NEW t \in Ticks, NEW r \in Recordings, NEW E \in Batches, NEW P \in Batches
    PROVE  /\ \A step \in SweepSteps : At(t, step) \in Ticks
           /\ t.batch + 1 \in Counts => Listed(t, E, P) \in Ticks
           /\ Failing(t, r) \in Ticks
           /\ Removed(t, r) \in Ticks
           /\ Tombstoned(t, E) \in Ticks
           /\ t.lag < MaxTick => Later(t) \in Ticks
<1>. USE Domains, TickFields
<1>1. \A step \in SweepSteps : At(t, step) \in Ticks
  BY DEF At, Ticks
<1>2. ASSUME t.batch + 1 \in Counts PROVE Listed(t, E, P) \in Ticks
  <2>1. E \ t.failed \in Batches /\ P \ t.failed \in Batches
    OBVIOUS
  <2>. QED BY <1>2, <2>1 DEF Listed, Ticks
<1>3. Without(t, r) \in Ticks /\ Without(t, r).failed = t.failed
  <2>1. t.expired \ {r} \in Batches /\ t.pending \ {r} \in Batches
    OBVIOUS
  <2>. QED BY <2>1 DEF Without, Ticks
<1>4. Failing(t, r) \in Ticks
  <2>1. t.failed \cup {r} \in Batches
    OBVIOUS
  <2>. QED BY <1>3, <2>1 DEF Failing, Ticks
<1>5. Removed(t, r) \in Ticks
  BY <1>3 DEF Removed, Ticks
<1>6. Tombstoned(t, E) \in Ticks
  <2>1. t.tally \cup E \in Batches /\ (t.wins \/ E # {}) \in BOOLEAN
    OBVIOUS
  <2>. QED BY <2>1 DEF Tombstoned, Ticks
<1>7. t.lag < MaxTick => Later(t) \in Ticks
  BY DEF Later, Ticks
<1>. QED BY <1>1, <1>2, <1>4, <1>5, <1>6, <1>7

\* A tick that is about to list a batch has one left.
RoomToList == \A s \in Sweepers : InSweep(s, "listing") => sweep[s].batch + 1 \in Counts

LEMMA ListedSets ==
    ASSUME NEW s \in Sweepers
    PROVE  /\ \A E \in OldestOf(Expired(s), BatchSize) : E \in Batches
           /\ \A E : \A P \in OldestOf(Stale(s), BatchSize - Cardinality(E)) : P \in Batches
BY DEF OldestOf, Expired, Stale, Batches

\* What a sweep does keeps the types.
LEMMA SweepTypes ==
    ASSUME TypeOK, RoomToList, NEW s \in Sweepers, SweepStep(s) \/ SweepAborts(s)
    PROVE  TypeOK'
<1>. USE Domains
<1>0. NoTick \in Ticks /\ sweep[s] \in Ticks
  BY DEF NoTick, Ticks, TypeOK
<1>1. ASSUME NEW t \in Ticks, SweepGoes(s, t) PROVE sweep' \in [Sweepers -> Ticks]
  BY <1>1 DEF SweepGoes, TypeOK
<1>2. CASE SweepStart(s)
  <2>1. sweep' \in [Sweepers -> Ticks]
    <3>1. At(NoTick, "listing") \in Ticks
      BY <1>0 DEF At, Ticks
    <3>. QED BY <1>1, <1>2, <3>1 DEF SweepStart
  <2>. QED BY <1>2, <2>1 DEF SweepStart, OnlySweeps, TypeOK, Rows, Store, Histories
<1>3. CASE SweepList(s)
  <2>1. sweep' \in [Sweepers -> Ticks]
    <3>1. sweep[s].batch + 1 \in Counts
      BY <1>3 DEF SweepList, RoomToList
    <3>2. PICK E \in OldestOf(Expired(s), BatchSize) :
          \E P \in OldestOf(Stale(s), BatchSize - Cardinality(E)) :
              IF E \cup P = {} THEN SweepGoes(s, At(sweep[s], "auditing"))
                               ELSE SweepGoes(s, Listed(sweep[s], E, P))
      BY <1>3 DEF SweepList
    <3>3. PICK P \in OldestOf(Stale(s), BatchSize - Cardinality(E)) :
              IF E \cup P = {} THEN SweepGoes(s, At(sweep[s], "auditing"))
                               ELSE SweepGoes(s, Listed(sweep[s], E, P))
      BY <3>2
    <3>4. E \in Batches /\ P \in Batches
      BY ListedSets
    <3>5. SweepGoes(s, At(sweep[s], "auditing")) \/ SweepGoes(s, Listed(sweep[s], E, P))
      BY <3>3
    <3>6. At(sweep[s], "auditing") \in Ticks /\ (Recordings # {} => Listed(sweep[s], E, P) \in Ticks)
      BY <1>0, <3>1, <3>4, TickShapes DEF At, Ticks
    <3>. QED BY <1>1, <3>3, <3>4, <3>5, <3>6 DEF Batches
  <2>. QED BY <1>3, <2>1 DEF SweepList, OnlySweeps, TypeOK, Rows, Store, Histories
<1>4. CASE SweepNextBatch(s)
  <2>1. sweep' \in [Sweepers -> Ticks]
    <3>1. At(sweep[s], "listing") \in Ticks /\ At(sweep[s], "auditing") \in Ticks
      BY <1>0 DEF At, Ticks
    <3>. QED BY <1>1, <1>4, <3>1 DEF SweepNextBatch
  <2>. QED BY <1>4, <2>1 DEF SweepNextBatch, OnlySweeps, TypeOK, Rows, Store, Histories
<1>5. CASE SweepAudit(s)
  <2>1. sweep' \in [Sweepers -> Ticks]
    BY <1>0, <1>1, <1>5 DEF SweepAudit
  <2>. QED BY <1>5, <2>1 DEF SweepAudit, TypeOK, Rows, Store
<1>6. CASE SweepAborts(s)
  <2>1. sweep' \in [Sweepers -> Ticks]
    BY <1>0, <1>1, <1>6 DEF SweepAborts
  <2>2. sweep[s].tally \in Batches
    BY <1>0, TickFields
  <2>. QED BY <1>6, <2>1, <2>2, FaultsAssumption
       DEF SweepAborts, TypeOK, Rows, Store, Batches, Fault
<1>7. ASSUME NEW r \in Recordings, SweepRow(s, r) PROVE TypeOK'
  <2>0. {} \in Batches /\ {r} \in Batches
    OBVIOUS
  <2>. USE <1>0, <2>0, TickShapes
  <2>1. CASE SweepSkipsForeign(s, r)
    BY <1>1, <2>1 DEF SweepSkipsForeign, OnlySweeps, TypeOK, Rows, Store, Histories
  <2>2. CASE SweepRemove(s, r)
    BY <1>1, <2>2 DEF SweepRemove, RemoveObject, TypeOK, Rows, Histories
  <2>3. CASE SweepRemoveFails(s, r)
    <3>1. Failing(sweep[s], r) \in Ticks
      OBVIOUS
    <3>. QED BY <1>1, <2>3, <3>1, FaultsAssumption
       DEF SweepRemoveFails, RemoveObject, TypeOK, Rows, Histories, Fault
  <2>4. CASE SweepTombstone(s, r)
    BY <1>1, <2>4 DEF SweepTombstone, TypeOK, Store, Histories
  <2>. QED BY <1>7, <2>1, <2>2, <2>3, <2>4 DEF SweepRow
<1>. QED BY <1>2, <1>3, <1>4, <1>5, <1>6, <1>7 DEF SweepStep

\* Which fields the sweep's steps change, and to what.
LEMMA EffectsAt ==
    ASSUME NEW t \in Ticks, NEW step
    PROVE  /\ At(t, step).at = step /\ At(t, step).batch = t.batch
           /\ At(t, step).expired = t.expired /\ At(t, step).pending = t.pending
           /\ At(t, step).removed = t.removed /\ At(t, step).tally = t.tally
           /\ At(t, step).lag = t.lag
BY DEF At, Ticks

LEMMA EffectsListed ==
    ASSUME NEW t \in Ticks, NEW E, NEW P
    PROVE  /\ Listed(t, E, P).at = "working"
           /\ Listed(t, E, P).expired = E \ t.failed /\ Listed(t, E, P).pending = P \ t.failed
           /\ Listed(t, E, P).removed = t.removed /\ Listed(t, E, P).tally = t.tally
           /\ Listed(t, E, P).lag = t.lag
BY DEF Listed, Ticks

LEMMA EffectsFailing ==
    ASSUME NEW t \in Ticks, NEW r
    PROVE  /\ Failing(t, r).at = t.at
           /\ Failing(t, r).expired = t.expired \ {r} /\ Failing(t, r).pending = t.pending \ {r}
           /\ Failing(t, r).removed = t.removed /\ Failing(t, r).tally = t.tally
           /\ Failing(t, r).lag = t.lag
BY DEF Failing, Without, Ticks

LEMMA EffectsRemoved ==
    ASSUME NEW t \in Ticks, NEW r
    PROVE  /\ Removed(t, r).at = "tombstoning"
           /\ Removed(t, r).expired = t.expired \ {r} /\ Removed(t, r).pending = t.pending \ {r}
           /\ Removed(t, r).removed = {r} /\ Removed(t, r).tally = t.tally
           /\ Removed(t, r).lag = t.lag
BY DEF Removed, Without, Ticks

LEMMA EffectsTombstoned ==
    ASSUME NEW t \in Ticks, NEW S
    PROVE  /\ Tombstoned(t, S).at = "working"
           /\ Tombstoned(t, S).expired = t.expired /\ Tombstoned(t, S).pending = t.pending
           /\ Tombstoned(t, S).removed = {} /\ Tombstoned(t, S).tally = t.tally \cup S
           /\ Tombstoned(t, S).lag = t.lag
BY DEF Tombstoned, Ticks

LEMMA EffectsLater ==
    ASSUME NEW t \in Ticks
    PROVE  /\ Later(t).at = t.at /\ Later(t).batch = t.batch
           /\ Later(t).expired = t.expired /\ Later(t).pending = t.pending
           /\ Later(t).removed = t.removed /\ Later(t).tally = t.tally
           /\ Later(t).lag = t.lag + 1
BY DEF Later, Ticks

\* A sweep lists a batch only when the tick has one left.
LEMMA RoomStays ==
    ASSUME TypeOK, RoomToList, NEW s \in Sweepers, SweepStep(s) \/ SweepAborts(s)
    PROVE  RoomToList'
<1>1. sweep[s] \in Ticks /\ NoTick \in Ticks
  BY Domains DEF TypeOK, NoTick, Ticks
<1>2. ASSUME NEW t, SweepGoes(s, t), t.at # "listing" \/ t.batch + 1 \in Counts PROVE RoomToList'
  BY <1>2 DEF SweepGoes, RoomToList, InSweep, TypeOK
<1>3. CASE SweepStart(s)
  <2>1. At(NoTick, "listing").batch = 0 /\ 0 + 1 \in Counts
    BY <1>1, EffectsAt, BatchAssumption DEF NoTick, Counts
  <2>. QED BY <1>2, <1>3, <2>1 DEF SweepStart
<1>4. CASE SweepList(s)
  <2>1. /\ At(sweep[s], "auditing").at # "listing"
        /\ \A E, P : Listed(sweep[s], E, P).at # "listing"
    BY <1>1, EffectsAt, EffectsListed
  <2>. QED BY <1>2, <1>4, <2>1 DEF SweepList
<1>5. CASE SweepNextBatch(s)
  <2>1. Continue(s) => sweep[s].batch + 1 \in Counts
    BY <1>1, TickFields, BatchAssumption DEF Continue, Counts
  <2>2. /\ At(sweep[s], "listing").batch = sweep[s].batch
        /\ At(sweep[s], "auditing").at # "listing"
    BY <1>1, EffectsAt
  <2>. QED BY <1>2, <1>5, <2>1, <2>2 DEF SweepNextBatch
<1>6. CASE SweepAudit(s) \/ SweepAborts(s)
  <2>1. NoTick.at # "listing"
    BY DEF NoTick
  <2>. QED BY <1>2, <1>6, <2>1 DEF SweepAudit, SweepAborts
<1>7. ASSUME NEW r \in Recordings, SweepRow(s, r) PROVE RoomToList'
  <2>1. CASE SweepSkipsForeign(s, r)
    BY <1>1, <1>2, <2>1, EffectsFailing DEF SweepSkipsForeign, InSweep
  <2>2. CASE SweepRemove(s, r)
    BY <1>1, <1>2, <2>2, EffectsRemoved DEF SweepRemove, InSweep
  <2>3. CASE SweepRemoveFails(s, r)
    <3>1. Failing(sweep[s], r).at # "listing"
      BY <1>1, <2>3, EffectsFailing DEF SweepRemoveFails, InSweep
    <3>. QED BY <1>2, <2>3, <3>1 DEF SweepRemoveFails
  <2>4. CASE SweepTombstone(s, r)
    BY <1>1, <1>2, <2>4, EffectsTombstoned DEF SweepTombstone, InSweep
  <2>. QED BY <1>7, <2>1, <2>2, <2>3, <2>4 DEF SweepRow
<1>. QED BY <1>3, <1>4, <1>5, <1>6, <1>7 DEF SweepStep

\* Time passing, and a deployment.
LEMMA ClockTypes ==
    ASSUME TypeOK, RoomToList, Tick \/ Reconfigure
    PROVE  TypeOK' /\ RoomToList'
<1>1. CASE Tick
  <2>1. \A s \in Sweepers : sweep'[s] \in Ticks /\ (sweep'[s].at = "listing" => sweep'[s].batch + 1 \in Counts)
    <3>. SUFFICES ASSUME NEW s \in Sweepers
                  PROVE  sweep'[s] \in Ticks /\ (sweep'[s].at = "listing" => sweep'[s].batch + 1 \in Counts)
      OBVIOUS
    <3>1. sweep[s] \in Ticks /\ {} \in Batches
      BY Domains DEF TypeOK
    <3>2. sweep[s].at # "idle" => sweep[s].lag < MaxTick
      BY <1>1 DEF Tick
    <3>3. sweep'[s] = IF sweep[s].at = "idle" THEN sweep[s] ELSE Later(sweep[s])
      BY <1>1 DEF Tick
    <3>4. sweep[s].at # "idle" => Later(sweep[s]) \in Ticks
      <4>1. \A n \in Lags : n < MaxTick => n + 1 \in Lags
        BY Domains
      <4>. QED BY <3>1, <3>2, <4>1 DEF Later, Ticks
    <3>5. Later(sweep[s]).at = sweep[s].at /\ Later(sweep[s]).batch = sweep[s].batch
      BY <3>1, EffectsLater
    <3>. QED BY <3>1, <3>3, <3>4, <3>5 DEF RoomToList, InSweep
  <2>2. sweep' \in [Sweepers -> Ticks]
    BY <1>1, <2>1 DEF Tick
  <2>3. age' \in [Recordings -> Ages] /\ url' \in [Recordings -> Lives]
    BY <1>1, Domains DEF Tick, TypeOK
  <2>. QED BY <1>1, <2>1, <2>2, <2>3 DEF Tick, TypeOK, Histories, RoomToList, InSweep
<1>2. CASE Reconfigure
  <2>1. NoTick \in Ticks /\ NoRequest \in Requests /\ NoTick.at = "idle"
    BY Domains DEF NoTick, Ticks, Requests
  <2>2. sweep' \in [Sweepers -> Ticks] /\ user' \in [Users -> Requests]
    BY <1>2, <2>1 DEF Reconfigure
  <2>3. RoomToList'
    BY <1>2, <2>1 DEF Reconfigure, RoomToList, InSweep
  <2>4. lost' \in SUBSET Recordings
    <3>1. \A s \in Sweepers : sweep[s].tally \in SUBSET Recordings
      BY TickFields DEF TypeOK, Batches
    <3>. QED BY <1>2, <3>1 DEF Reconfigure, TypeOK
  <2>. QED BY <1>2, <2>2, <2>3, <2>4, FaultsAssumption
       DEF Reconfigure, TypeOK, Rows, Store, Fault
<1>. QED BY <1>1, <1>2

\* Every column and every field of a process keeps its type, and no tick runs
\* more batches than it may.
THEOREM Typing == Spec => [](TypeOK /\ RoomToList)
<1>1. Init => TypeOK /\ RoomToList
  <2>. SUFFICES ASSUME Init PROVE TypeOK /\ RoomToList
    OBVIOUS
  <2>1. NoTick \in Ticks /\ NoRequest \in Requests /\ NoTick.at = "idle"
    BY Domains DEF NoTick, Ticks, Requests
  <2>2. RoomToList
    BY <2>1 DEF Init, RoomToList, InSweep
  <2>. QED BY <2>1, <2>2, Domains, FaultsAssumption DEF Init, TypeOK
<1>2. TypeOK /\ RoomToList /\ [Next]_vars => TypeOK' /\ RoomToList'
  <2>. SUFFICES ASSUME TypeOK, RoomToList, [Next]_vars PROVE TypeOK' /\ RoomToList'
    OBVIOUS
  <2>1. ASSUME UNCHANGED sweep PROVE RoomToList'
    BY <2>1 DEF RoomToList, InSweep
  <2>2. ASSUME NEW u \in Users, UserStep(u) \/ UserAborts(u) PROVE TypeOK' /\ RoomToList'
    BY <2>1, <2>2, UserTypes
       DEF UserStep, UserAborts, SignUpload, UserRemove, UserRemoveFails, UserTombstone
  <2>3. ASSUME NEW u \in Users, NEW r \in Recordings, Initiate(u, r) \/ RequestDelete(u, r)
        PROVE  TypeOK' /\ RoomToList'
    BY <2>1, <2>3, UserTypes DEF Initiate, RequestDelete
  <2>4. ASSUME NEW r \in Recordings, Put(r) PROVE TypeOK' /\ RoomToList'
    BY <2>1, <2>4, Domains DEF Put, TypeOK, Rows, Histories
  <2>5. ASSUME NEW r \in Recordings, Finalize(r) PROVE TypeOK' /\ RoomToList'
    BY <2>1, <2>5, Domains DEF Finalize, TypeOK, Store, Histories
  <2>6. ASSUME NEW s \in Sweepers, SweepStep(s) \/ SweepAborts(s) PROVE TypeOK' /\ RoomToList'
    BY <2>6, SweepTypes, RoomStays
  <2>7. CASE Tick \/ Reconfigure
    BY <2>7, ClockTypes
  <2>8. CASE UNCHANGED vars
    BY <2>8 DEF vars, TypeOK, RoomToList, InSweep
  <2>. QED BY <2>2, <2>3, <2>4, <2>5, <2>6, <2>7, <2>8 DEF Next
<1>. QED BY <1>1, <1>2, PTL DEF Spec

----------------------------------------------------------------------------
(* Why no audio is removed, and no row tombstoned, without a reason: the   *)
(* rows a request or a tick still holds in memory between its steps are    *)
(* doomed already, and doomed rows stay doomed.                            *)

\* No caller leaves a row in one of these.
SettledOnly == \A r \in Recordings : status[r] \notin {"uploaded", "processing", "failed"}

\* What a request in its second and third step relies on.
RequestKnows(u) ==
    user[u] # NoRequest =>
        /\ user[u].at \in {"removing", "tombstoning"} =>
              status[user[u].rec] \in {"delete_pending", "deleted"}
        /\ user[u].at = "tombstoning" =>
              object[user[u].rec] \in Cleared \/ user[u].rec \in misplaced
RequestsKnow == \A u \in Users : RequestKnows(u)

\* What a tick relies on for the rows of its batch.
InBatch(s) == sweep[s].expired \cup sweep[s].pending
TickKnows(s) ==
    \A r \in Recordings :
        /\ r \in InBatch(s) => Doomed(r)
        /\ r \in sweep[s].removed => Doomed(r) /\ object[r] \in Cleared
TicksKnow == \A s \in Sweepers : TickKnows(s)

IInv == SettledOnly /\ RequestsKnow /\ TicksKnow /\ ObjectsRemovedForAReason /\ TombstoneMeansRemoved

\* What a step may do to a row ...
RowMove(r) ==
    \/ status'[r] = status[r] /\ age'[r] >= age[r]
    \/ status[r] = "absent" /\ status'[r] = "upload_pending"
    \/ status[r] = "upload_pending" /\ status'[r] = "available"
    \/ Active(r) /\ status'[r] = "delete_pending"
    \/ /\ Active(r) /\ Doomed(r) /\ (object[r] \in Cleared \/ r \in misplaced)
       /\ status'[r] = "deleted"

\* ... and to its object.
ObjectMove(r) ==
    \/ object'[r] = object[r]
    \/ object'[r] \in Contents /\ (object'[r] \in Cleared <=> object[r] \in Cleared)
    \/ object'[r] = "removed" /\ Doomed(r)

RecordingMoves == (\A r \in Recordings : RowMove(r) /\ ObjectMove(r)) /\ misplaced \subseteq misplaced'

LEMMA StillMoves ==
    ASSUME TypeOK, UNCHANGED Rows, UNCHANGED object, misplaced \subseteq misplaced'
    PROVE  RecordingMoves
BY DEF TypeOK, Rows, RecordingMoves, RowMove, ObjectMove, Ages

\* An object removed by deleteObject was that of a doomed row.
LEMMA RemovalMoves ==
    ASSUME TypeOK, NEW r \in Recordings, Doomed(r), RemoveObject(r), UNCHANGED Rows,
           misplaced \subseteq misplaced'
    PROVE  RecordingMoves
BY DEF TypeOK, Rows, RecordingMoves, RowMove, ObjectMove, Ages, RemoveObject

LEMMA UserMoves ==
    ASSUME TypeOK, IInv, NEW u \in Users,
           \/ UserStep(u) \/ UserAborts(u)
           \/ \E r \in Recordings : Initiate(u, r) \/ RequestDelete(u, r)
    PROVE  RecordingMoves
<1>1. ASSUME NEW r \in Recordings, Initiate(u, r) PROVE RecordingMoves
  BY <1>1 DEF Initiate, TypeOK, Store, Histories, RecordingMoves, RowMove, ObjectMove, Ages
<1>2. CASE SignUpload(u) \/ UserAborts(u)
  BY <1>2, StillMoves DEF SignUpload, UserAborts, Store, Histories
<1>3. ASSUME NEW r \in Recordings, RequestDelete(u, r) PROVE RecordingMoves
  BY <1>3 DEF RequestDelete, TypeOK, Store, Histories, RecordingMoves, RowMove, ObjectMove, Ages
<1>4. ASSUME user[u].at = "removing" PROVE user[u].rec \in Recordings /\ Doomed(user[u].rec)
  BY <1>4, Busy, Domains DEF IInv, RequestsKnow, RequestKnows, Doomed, TypeOK
<1>5. CASE UserRemove(u)
  BY <1>4, <1>5, RemovalMoves DEF UserRemove
<1>6. CASE UserRemoveFails(u)
  <2>1. misplaced \subseteq misplaced'
    BY <1>6 DEF UserRemoveFails, Histories
  <2>. QED BY <1>4, <1>6, <2>1, RemovalMoves, StillMoves DEF UserRemoveFails
<1>7. CASE UserTombstone(u)
  <2>. DEFINE r == user[u].rec
  <2>1. /\ r \in Recordings /\ Doomed(r)
        /\ object[r] \in Cleared \/ r \in misplaced
    BY <1>7, Busy, Domains DEF UserTombstone, IInv, RequestsKnow, RequestKnows, Doomed, TypeOK
  <2>. HIDE DEF r
  <2>2. /\ status' = IF Active(r) THEN [status EXCEPT ![r] = "deleted"] ELSE status
        /\ UNCHANGED <<age, object, misplaced>>
    BY <1>7 DEF UserTombstone, MarkDeletedGate, Store, r
  <2>. QED BY <2>1, <2>2 DEF TypeOK, RecordingMoves, RowMove, ObjectMove, Ages
<1>. QED BY <1>1, <1>2, <1>3, <1>5, <1>6, <1>7 DEF UserStep

LEMMA SweepRowMoves ==
    ASSUME TypeOK, IInv, NEW s \in Sweepers, NEW r \in Recordings, SweepRow(s, r)
    PROVE  RecordingMoves
<1>1. CASE SweepSkipsForeign(s, r)
  BY <1>1, StillMoves DEF SweepSkipsForeign, OnlySweeps, Store, Histories
<1>2. ASSUME NextInBatch(s, r) PROVE Doomed(r)
  BY <1>2 DEF NextInBatch, IInv, TicksKnow, TickKnows, InBatch
<1>3. CASE SweepRemove(s, r)
  BY <1>2, <1>3, RemovalMoves DEF SweepRemove, Histories
<1>4. CASE SweepRemoveFails(s, r)
  BY <1>2, <1>4, RemovalMoves, StillMoves DEF SweepRemoveFails, Histories
<1>5. CASE SweepTombstone(s, r)
  <2>1. Doomed(r) /\ object[r] \in Cleared
    BY <1>5 DEF SweepTombstone, IInv, TicksKnow, TickKnows
  <2>. QED BY <1>5, <2>1
       DEF SweepTombstone, MarkDeletedGate, Store, Histories, TypeOK, RecordingMoves, RowMove, ObjectMove, Ages
<1>. QED BY <1>1, <1>3, <1>4, <1>5 DEF SweepRow

LEMMA StepMoves ==
    ASSUME TypeOK, IInv, [Next]_vars PROVE RecordingMoves
<1>1. ASSUME NEW r \in Recordings, Put(r) PROVE RecordingMoves
  BY <1>1 DEF Put, TypeOK, Rows, Histories, RecordingMoves, RowMove, ObjectMove, Ages, Contents, Cleared
<1>2. ASSUME NEW r \in Recordings, Finalize(r) PROVE RecordingMoves
  BY <1>2 DEF Finalize, FinalizeGate, IInv, SettledOnly, Store, Histories, TypeOK, RecordingMoves, RowMove,
              ObjectMove, Ages
<1>3. ASSUME NEW s \in Sweepers,
             SweepStart(s) \/ SweepList(s) \/ SweepNextBatch(s) \/ SweepAudit(s) \/ SweepAborts(s)
      PROVE  RecordingMoves
  BY <1>3, StillMoves
     DEF SweepStart, SweepList, SweepNextBatch, SweepAudit, SweepAborts, OnlySweeps, Store, Histories
<1>4. CASE Tick
  BY <1>4, Domains DEF Tick, TypeOK, Histories, RecordingMoves, RowMove, ObjectMove, Ages
<1>5. CASE Reconfigure
  BY <1>5, StillMoves DEF Reconfigure, Store
<1>6. CASE UNCHANGED vars
  BY <1>6, StillMoves DEF vars, Rows
<1>. QED BY <1>1, <1>2, <1>3, <1>4, <1>5, <1>6, UserMoves, SweepRowMoves DEF Next, SweepStep

\* Doomed rows stay doomed, condemned rows condemned, cleared objects cleared.
LEMMA Lasting ==
    ASSUME TypeOK, TypeOK', RecordingMoves, NEW r \in Recordings
    PROVE  /\ Doomed(r) => Doomed(r)'
           /\ status[r] \in {"delete_pending", "deleted"} =>
                 status'[r] \in {"delete_pending", "deleted"}
           /\ object[r] \in Cleared => object'[r] \in Cleared
           /\ r \in misplaced => r \in misplaced'
<1>1. RowMove(r) /\ ObjectMove(r) /\ misplaced \subseteq misplaced'
  BY DEF RecordingMoves
<1>2. age[r] \in Nat /\ age'[r] \in Nat /\ Retention \in Nat
  BY ClockAssumption DEF TypeOK, Ages, AgeCap
<1>. QED BY <1>1, <1>2 DEF RowMove, ObjectMove, Doomed, Active, Cleared

LEMMA RequestWaits ==
    ASSUME TypeOK, TypeOK', RecordingMoves, NEW u \in Users, RequestKnows(u), user'[u] = user[u]
    PROVE  RequestKnows(u)'
<1>1. user[u] # NoRequest => user[u].rec \in Recordings
  BY RequestType DEF TypeOK
<1>. QED BY <1>1, Lasting DEF RequestKnows

LEMMA TickWaits ==
    ASSUME TypeOK, TypeOK', RecordingMoves, NEW s \in Sweepers, TickKnows(s),
           sweep'[s].expired \subseteq sweep[s].expired,
           sweep'[s].pending \subseteq sweep[s].pending,
           sweep'[s].removed \subseteq sweep[s].removed
    PROVE  TickKnows(s)'
BY Lasting DEF TickKnows, InBatch

\* A request that waits for nothing relies on nothing.
LEMMA RequestDone ==
    ASSUME NEW u \in Users,
           \/ user'[u] = NoRequest
           \/ \E r : user'[u] = Request("signing", r)
    PROVE  RequestKnows(u)'
<1>1. CASE user'[u] = NoRequest
  BY <1>1 DEF RequestKnows, NoRequest
<1>2. ASSUME NEW r, user'[u] = Request("signing", r) PROVE RequestKnows(u)'
  <2>1. user'[u].at = "signing"
    BY <1>2 DEF Request
  <2>. QED BY <2>1 DEF RequestKnows
<1>. QED BY <1>1, <1>2

LEMMA UserKnows ==
    ASSUME TypeOK, TypeOK', IInv, RecordingMoves, NEW u \in Users,
           \/ UserStep(u) \/ UserAborts(u)
           \/ \E r \in Recordings : Initiate(u, r) \/ RequestDelete(u, r)
    PROVE  RequestsKnow' /\ TicksKnow'
<1>1. /\ UNCHANGED sweep
      /\ \A v \in Users \ {u} : user'[v] = user[v]
  BY DEF TypeOK, UserStep, SignUpload, UserRemove, UserRemoveFails, UserTombstone, UserAborts,
         Initiate, RequestDelete
<1>2. TicksKnow'
  BY <1>1, TickWaits DEF IInv, TicksKnow
<1>3. RequestKnows(u)'
  <2>1. ASSUME NEW r \in Recordings, Initiate(u, r) PROVE RequestKnows(u)'
    <3>1. user'[u] = Request("signing", r)
      BY <2>1 DEF Initiate, TypeOK
    <3>. QED BY <3>1, RequestDone
  <2>2. CASE SignUpload(u) \/ UserAborts(u) \/ UserRemoveFails(u) \/ UserTombstone(u)
    <3>1. user'[u] = NoRequest
      BY <2>2 DEF SignUpload, UserAborts, UserRemoveFails, UserTombstone, TypeOK
    <3>. QED BY <3>1, RequestDone
  <2>3. ASSUME NEW r \in Recordings, RequestDelete(u, r) PROVE RequestKnows(u)'
    <3>1. user'[u] = Request("removing", r) /\ status'[r] = "delete_pending"
      BY <2>3 DEF RequestDelete, TypeOK
    <3>. QED BY <3>1 DEF RequestKnows, Request
  <2>4. CASE UserRemove(u)
    <3>. DEFINE r == user[u].rec
    <3>1. r \in Recordings /\ status[r] \in {"delete_pending", "deleted"}
      BY <2>4, Busy, Domains DEF UserRemove, IInv, RequestsKnow, RequestKnows, TypeOK
    <3>2. object'[r] \in Cleared \/ r \in misplaced'
      BY <2>4, <3>1 DEF UserRemove, RemoveObject, TypeOK, Cleared
    <3>3. user'[u] = Request("tombstoning", r)
      BY <2>4 DEF UserRemove, TypeOK
    <3>4. status'[r] \in {"delete_pending", "deleted"}
      BY <3>1, Lasting
    <3>. QED BY <3>2, <3>3, <3>4 DEF RequestKnows, Request
  <2>. QED BY <2>1, <2>2, <2>3, <2>4 DEF UserStep
<1>. QED BY <1>1, <1>2, <1>3, RequestWaits DEF IInv, RequestsKnow

\* Rows listed by a tick are doomed: they were expired when the tick read the
\* clock, and that is no later than now.
LEMMA ListedDoomed ==
    ASSUME TypeOK, SettledOnly, NEW s \in Sweepers, NEW r \in Expired(s) \cup Stale(s)
    PROVE  r \in Recordings /\ Doomed(r)
<1>1. CASE r \in Stale(s)
  BY <1>1 DEF Stale, Doomed
<1>2. CASE r \in Expired(s)
  <2>1. r \in Recordings /\ status[r] = "available" /\ age[r] - sweep[s].lag >= Retention
    BY <1>2 DEF Expired, AgeAtStart, SettledOnly
  <2>2. age[r] \in Nat /\ sweep[s].lag \in Nat /\ Retention \in Nat
    BY <2>1, TickFields, ClockAssumption DEF TypeOK, Ages, AgeCap, Lags
  <2>. QED BY <2>1, <2>2 DEF Doomed
<1>. QED BY <1>1, <1>2

LEMMA SweepKnows ==
    ASSUME TypeOK, TypeOK', IInv, RecordingMoves, NEW s \in Sweepers, SweepStep(s) \/ SweepAborts(s)
    PROVE  RequestsKnow' /\ TicksKnow'
<1>1. /\ UNCHANGED user
      /\ \A q \in Sweepers \ {s} : sweep'[q] = sweep[q]
  BY DEF TypeOK, SweepStep, SweepStart, SweepList, SweepNextBatch, SweepAudit, SweepRow,
         SweepSkipsForeign, SweepRemove, SweepRemoveFails, SweepTombstone, SweepAborts,
         OnlySweeps, SweepGoes
<1>2. RequestsKnow'
  BY <1>1, RequestWaits DEF IInv, RequestsKnow
<1>3. sweep[s] \in Ticks /\ TickKnows(s)
  BY DEF TypeOK, IInv, TicksKnow
<1>. DEFINE Narrower(t) == /\ t.expired \subseteq sweep[s].expired
                           /\ t.pending \subseteq sweep[s].pending
                           /\ t.removed \subseteq sweep[s].removed
<1>4. ASSUME NEW t, SweepGoes(s, t), Narrower(t) PROVE TickKnows(s)'
  BY <1>3, <1>4, TickWaits DEF SweepGoes, TypeOK
<1>5. TickKnows(s)'
  <2>0. NoTick \in Ticks
    BY Domains DEF NoTick, Ticks
  <2>1. CASE SweepStart(s)
    <3>1. Narrower(At(NoTick, "listing"))
      BY <2>0, EffectsAt DEF NoTick
    <3>. QED BY <1>4, <2>1, <3>1 DEF SweepStart
  <2>2. CASE SweepList(s)
    <3>1. Narrower(At(sweep[s], "auditing"))
      BY <1>3, EffectsAt
    <3>2. ASSUME NEW E \in OldestOf(Expired(s), BatchSize),
                 NEW P \in OldestOf(Stale(s), BatchSize - Cardinality(E)),
                 SweepGoes(s, Listed(sweep[s], E, P))
          PROVE  TickKnows(s)'
      <4>1. sweep'[s] = Listed(sweep[s], E, P)
        BY <3>2 DEF SweepGoes, TypeOK
      <4>2. /\ sweep'[s].expired \subseteq E /\ sweep'[s].pending \subseteq P
            /\ sweep'[s].removed = sweep[s].removed
        BY <1>3, <4>1, EffectsListed
      <4>3. E \subseteq Expired(s) /\ P \subseteq Stale(s)
        BY DEF OldestOf
      <4>4. \A r \in InBatch(s)' : r \in Recordings /\ Doomed(r)
        BY <4>2, <4>3, ListedDoomed DEF InBatch, IInv
      <4>. QED BY <1>3, <4>2, <4>4, Lasting DEF TickKnows
    <3>. QED BY <1>4, <2>2, <3>1, <3>2 DEF SweepList
  <2>3. CASE SweepNextBatch(s)
    <3>1. \A step : Narrower(At(sweep[s], step))
      BY <1>3, EffectsAt
    <3>. QED BY <1>4, <2>3, <3>1 DEF SweepNextBatch
  <2>4. CASE SweepAudit(s) \/ SweepAborts(s)
    <3>1. Narrower(NoTick)
      BY DEF NoTick
    <3>. QED BY <1>4, <2>4, <3>1 DEF SweepAudit, SweepAborts
  <2>5. ASSUME NEW r \in Recordings, SweepRow(s, r) PROVE TickKnows(s)'
    <3>1. CASE SweepSkipsForeign(s, r) \/ SweepRemoveFails(s, r)
      <4>1. Narrower(Failing(sweep[s], r))
        BY <1>3, EffectsFailing
      <4>. QED BY <1>4, <3>1, <4>1 DEF SweepSkipsForeign, SweepRemoveFails
    <3>2. CASE SweepRemove(s, r)
      <4>1. sweep'[s] = Removed(sweep[s], r)
        BY <3>2 DEF SweepRemove, SweepGoes, TypeOK
      <4>2. /\ InBatch(s)' \subseteq InBatch(s)
            /\ sweep'[s].removed = {r}
        BY <1>3, <4>1, EffectsRemoved DEF InBatch
      <4>3. Doomed(r) /\ object'[r] \in Cleared
        BY <1>3, <3>2 DEF SweepRemove, RemoveObject, SameProvider, NextInBatch, InBatch,
                          TickKnows, TypeOK, Cleared
      <4>. QED BY <1>3, <4>2, <4>3, Lasting DEF TickKnows
    <3>3. CASE SweepTombstone(s, r)
      <4>1. \A S : Narrower(Tombstoned(sweep[s], S))
        BY <1>3, EffectsTombstoned
      <4>. QED BY <1>4, <3>3, <4>1 DEF SweepTombstone
    <3>. QED BY <2>5, <3>1, <3>2, <3>3 DEF SweepRow
  <2>. QED BY <2>1, <2>2, <2>3, <2>4, <2>5 DEF SweepStep
<1>. QED BY <1>1, <1>2, <1>5, TickWaits DEF IInv, TicksKnow

\* What the steps rely on holds after every step.
LEMMA KnowledgeStays ==
    ASSUME TypeOK, TypeOK', IInv, RecordingMoves, [Next]_vars
    PROVE  RequestsKnow' /\ TicksKnow'
<1>0. \A s \in Sweepers : sweep[s] \in Ticks
  BY DEF TypeOK
<1>1. ASSUME UNCHANGED <<user, sweep>> PROVE RequestsKnow' /\ TicksKnow'
  BY <1>1, RequestWaits, TickWaits DEF IInv, RequestsKnow, TicksKnow
<1>2. ASSUME NEW r \in Recordings, Put(r) \/ Finalize(r) PROVE RequestsKnow' /\ TicksKnow'
  BY <1>1, <1>2 DEF Put, Finalize
<1>3. CASE UNCHANGED vars
  BY <1>1, <1>3 DEF vars
<1>4. CASE Tick
  <2>1. UNCHANGED user
    BY <1>4 DEF Tick
  <2>2. \A s \in Sweepers : /\ sweep'[s].expired = sweep[s].expired
                            /\ sweep'[s].pending = sweep[s].pending
                            /\ sweep'[s].removed = sweep[s].removed
    BY <1>0, <1>4, EffectsLater DEF Tick
  <2>. QED BY <2>1, <2>2, RequestWaits, TickWaits DEF IInv, RequestsKnow, TicksKnow
<1>5. CASE Reconfigure
  <2>1. \A s \in Sweepers : sweep'[s] = NoTick
    BY <1>5 DEF Reconfigure
  <2>2. \A u \in Users : user'[u] = NoRequest
    BY <1>5 DEF Reconfigure
  <2>. QED BY <2>1, <2>2 DEF RequestsKnow, RequestKnows, TicksKnow, TickKnows, InBatch, NoTick
<1>. QED BY <1>2, <1>3, <1>4, <1>5, UserKnows, SweepKnows DEF Next

\* The inductive invariant of the recordings holds in every reachable state: what a
\* request or a tick of the retention worker has in memory is doomed already.
THEOREM Inductive == Spec => []IInv
<1>1. Init => IInv
  BY DEF Init, IInv, SettledOnly, RequestsKnow, RequestKnows, TicksKnow, TickKnows, InBatch, NoTick,
         ObjectsRemovedForAReason, TombstoneMeansRemoved, Cleared
<1>2. TypeOK /\ TypeOK' /\ IInv /\ [Next]_vars => IInv'
  <2>. SUFFICES ASSUME TypeOK, TypeOK', IInv, [Next]_vars PROVE IInv'
    OBVIOUS
  <2>1. RecordingMoves
    BY StepMoves
  <2>2. RequestsKnow' /\ TicksKnow'
    BY <2>1, KnowledgeStays
  <2>3. SettledOnly'
    BY <2>1 DEF RecordingMoves, RowMove, IInv, SettledOnly
  <2>4. ObjectsRemovedForAReason'
    BY <2>1, Lasting DEF RecordingMoves, ObjectMove, IInv, ObjectsRemovedForAReason
  <2>5. TombstoneMeansRemoved'
    BY <2>1, Lasting DEF RecordingMoves, RowMove, IInv, TombstoneMeansRemoved
  <2>. QED BY <2>2, <2>3, <2>4, <2>5 DEF IInv
<1>. QED BY <1>1, <1>2, Typing, PTL DEF Spec

\* The object of a recording is removed only after its deletion was requested
\* or its retention has run out.
THEOREM NoAudioLost == Spec => []ObjectsRemovedForAReason
<1>1. IInv => ObjectsRemovedForAReason
  BY DEF IInv
<1>. QED BY <1>1, Inductive, PTL

\* A tombstone stands for a removed object.
THEOREM TombstonesTrue == Spec => []TombstoneMeansRemoved
<1>1. IInv => TombstoneMeansRemoved
  BY DEF IInv
<1>. QED BY <1>1, Inductive, PTL

\* A requested deletion is never taken back and a tombstone is final.
THEOREM DeletionsFinal == Spec => DeletionIsFinal
<1>1. TypeOK /\ IInv /\ [Next]_vars =>
        [\A r \in Recordings :
            /\ status[r] = "delete_pending" => status'[r] \in {"delete_pending", "deleted"}
            /\ status[r] = "deleted" => status'[r] = "deleted"]_vars
  BY StepMoves DEF RecordingMoves, RowMove, Active
<1>. QED BY <1>1, Typing, Inductive, PTL DEF Spec, DeletionIsFinal

----------------------------------------------------------------------------
(* Why every tombstone is accounted for exactly once: the only statement   *)
(* that makes one is gated on the row being active, and whoever passes the *)
(* gate writes the audit row or keeps the row in its tally.                *)

LostOne(r) == IF r \in lost THEN 1 ELSE 0
Gone(r) == IF status[r] = "deleted" THEN 1 ELSE 0
Ledger(r) == audited[r] + Cardinality(Counting(r)) + LostOne(r) = Gone(r)
IdleTally == \A s \in Sweepers : sweep[s].at = "idle" => sweep[s].tally = {}
Books == IdleTally /\ \A r \in Recordings : Ledger(r)

LEMMA CountingFinite ==
    ASSUME NEW r
    PROVE  /\ IsFiniteSet(Counting(r)) /\ Cardinality(Counting(r)) \in Nat
           /\ Counting(r) \subseteq Sweepers
           /\ Cardinality(Counting(r)) = 0 <=> Counting(r) = {}
<1>1. Counting(r) \subseteq Sweepers
  BY DEF Counting
<1>2. IsFiniteSet(Counting(r))
  BY <1>1, FS_Subset, SetsAssumption
<1>. QED BY <1>1, <1>2, FS_CardinalityType, FS_EmptySet

\* A row whose tallies, audits and tombstone stay as they are.
LEMMA LedgerSame ==
    ASSUME NEW r, Ledger(r),
           \A s \in Sweepers : r \in sweep'[s].tally <=> r \in sweep[s].tally,
           audited'[r] = audited[r], r \in lost' <=> r \in lost,
           status'[r] = "deleted" <=> status[r] = "deleted"
    PROVE  Ledger(r)'
<1>1. Counting(r)' = Counting(r)
  BY DEF Counting
<1>. QED BY <1>1 DEF Ledger, LostOne, Gone

\* A row whose tombstone is taken over from a tick by an audit or lost with it.
LEMMA LedgerMoved ==
    ASSUME TypeOK, NEW r \in Recordings, Ledger(r), NEW s \in Sweepers,
           r \in sweep[s].tally, r \notin sweep'[s].tally,
           \A q \in Sweepers \ {s} : r \in sweep'[q].tally => r \in sweep[q].tally,
           status'[r] = status[r],
           \/ audited'[r] = audited[r] + 1 /\ (r \in lost' <=> r \in lost)
           \/ audited'[r] = audited[r] /\ r \in lost'
    PROVE  Ledger(r)'
<1>1. audited[r] \in Nat
  BY DEF TypeOK
<1>2. s \in Counting(r) /\ Counting(r)' \subseteq Counting(r) \ {s}
  BY DEF Counting
<1>3. /\ IsFiniteSet(Counting(r) \ {s})
      /\ Cardinality(Counting(r) \ {s}) = Cardinality(Counting(r)) - 1
      /\ Cardinality(Counting(r) \ {s}) \in Nat
  BY <1>2, CountingFinite, FS_RemoveElement, FS_CardinalityType
<1>4. Cardinality(Counting(r)) = 1 /\ audited[r] = 0 /\ LostOne(r) = 0 /\ Gone(r) = 1
  BY <1>1, <1>3, CountingFinite DEF Ledger, LostOne, Gone
<1>5. Counting(r) \ {s} = {}
  BY <1>3, <1>4, FS_EmptySet
<1>6. Counting(r)' = {} /\ Cardinality(Counting(r)') = 0
  BY <1>2, <1>5, FS_EmptySet
<1>7. r \notin lost
  BY <1>4 DEF LostOne
<1>. QED BY <1>4, <1>6, <1>7 DEF Ledger, LostOne, Gone

\* A row whose tombstone has just been made: nobody had counted it before.
LEMMA Uncounted ==
    ASSUME TypeOK, NEW r \in Recordings, Ledger(r), status[r] # "deleted"
    PROVE  audited[r] = 0 /\ Counting(r) = {} /\ r \notin lost
<1>1. audited[r] \in Nat /\ Cardinality(Counting(r)) \in Nat
  BY CountingFinite DEF TypeOK
<1>2. audited[r] = 0 /\ Cardinality(Counting(r)) = 0 /\ LostOne(r) = 0
  BY <1>1 DEF Ledger, Gone, LostOne
<1>. QED BY <1>2, CountingFinite DEF LostOne

LEMMA UserBooks ==
    ASSUME TypeOK, Books, NEW u \in Users,
           \/ UserStep(u) \/ UserAborts(u)
           \/ \E r \in Recordings : Initiate(u, r) \/ RequestDelete(u, r)
    PROVE  Books'
<1>0. UNCHANGED <<sweep, lost>>
  BY DEF UserStep, SignUpload, UserRemove, UserRemoveFails, UserTombstone, UserAborts,
         Initiate, RequestDelete, Histories
<1>1. IdleTally'
  BY <1>0 DEF Books, IdleTally
<1>2. ASSUME NEW r \in Recordings PROVE Ledger(r)'
  <2>1. CASE UserTombstone(u) /\ r = user[u].rec /\ Active(r)
    <3>1. audited'[r] = audited[r] + 1 /\ status'[r] = "deleted" /\ status[r] # "deleted"
      BY <2>1 DEF UserTombstone, MarkDeletedGate, Active, TypeOK
    <3>2. audited[r] = 0 /\ Counting(r) = {} /\ r \notin lost
      BY <3>1, Uncounted DEF Books
    <3>3. Counting(r)' = {} /\ Cardinality({}) = 0
      BY <1>0, <3>2, FS_EmptySet DEF Counting
    <3>. QED BY <1>0, <3>1, <3>2, <3>3 DEF Ledger, LostOne, Gone
  <2>2. CASE UserTombstone(u) /\ ~(r = user[u].rec /\ Active(r))
    <3>1. audited'[r] = audited[r] /\ status'[r] = status[r]
      BY <2>2 DEF UserTombstone, MarkDeletedGate, TypeOK
    <3>. QED BY <1>0, <3>1, LedgerSame DEF Books
  <2>3. CASE ~UserTombstone(u)
    <3>1. audited'[r] = audited[r] /\ (status'[r] = "deleted" <=> status[r] = "deleted")
      BY <2>3 DEF UserStep, SignUpload, UserRemove, UserRemoveFails, UserAborts,
                  Initiate, RequestDelete, Histories, Rows, TypeOK, Active
    <3>. QED BY <1>0, <3>1, LedgerSame DEF Books
  <2>. QED BY <2>1, <2>2, <2>3
<1>. QED BY <1>1, <1>2 DEF Books

LEMMA SweepBooks ==
    ASSUME TypeOK, Books, NEW s \in Sweepers, SweepStep(s) \/ SweepAborts(s)
    PROVE  Books'
<1>0. sweep[s] \in Ticks /\ NoTick \in Ticks /\ NoTick.tally = {} /\ NoTick.at = "idle"
  BY Domains DEF TypeOK, NoTick, Ticks
<1>1. ASSUME NEW t, SweepGoes(s, t), t.tally = sweep[s].tally, t.at # "idle",
             UNCHANGED <<status, audited, lost>>
      PROVE  Books'
  <2>1. \A q \in Sweepers : sweep'[q].tally = sweep[q].tally
    BY <1>1 DEF SweepGoes, TypeOK
  <2>2. IdleTally'
    BY <1>1 DEF SweepGoes, TypeOK, Books, IdleTally
  <2>. QED BY <1>1, <2>1, <2>2, LedgerSame DEF Books
<1>2. CASE SweepStart(s)
  <2>1. sweep[s].tally = {}
    BY <1>2 DEF SweepStart, InSweep, Books, IdleTally
  <2>2. At(NoTick, "listing").tally = {} /\ At(NoTick, "listing").at # "idle"
    BY <1>0, EffectsAt
  <2>. QED BY <1>1, <1>2, <2>1, <2>2 DEF SweepStart, OnlySweeps, Rows, Histories
<1>3. CASE SweepList(s)
  <2>1. /\ At(sweep[s], "auditing").tally = sweep[s].tally
        /\ At(sweep[s], "auditing").at # "idle"
        /\ \A E, P : /\ Listed(sweep[s], E, P).tally = sweep[s].tally
                     /\ Listed(sweep[s], E, P).at # "idle"
    BY <1>0, EffectsAt, EffectsListed
  <2>. QED BY <1>1, <1>3, <2>1 DEF SweepList, OnlySweeps, Rows, Histories
<1>4. CASE SweepNextBatch(s)
  <2>1. \A step \in {"listing", "auditing"} :
            At(sweep[s], step).tally = sweep[s].tally /\ At(sweep[s], step).at # "idle"
    BY <1>0, EffectsAt
  <2>. QED BY <1>1, <1>4, <2>1 DEF SweepNextBatch, OnlySweeps, Rows, Histories
<1>5. CASE SweepAudit(s) \/ SweepAborts(s)
  <2>1. /\ sweep'[s] = NoTick /\ status' = status
        /\ \A q \in Sweepers \ {s} : sweep'[q] = sweep[q]
    BY <1>5 DEF SweepAudit, SweepAborts, SweepGoes, Rows, TypeOK
  <2>2. IdleTally'
    BY <1>0, <2>1 DEF Books, IdleTally
  <2>3. ASSUME NEW r \in Recordings PROVE Ledger(r)'
    <3>1. CASE r \in sweep[s].tally
      <4>1. \/ audited'[r] = audited[r] + 1 /\ (r \in lost' <=> r \in lost)
            \/ audited'[r] = audited[r] /\ r \in lost'
        BY <1>5, <3>1 DEF SweepAudit, SweepAborts, TypeOK
      <4>. QED BY <1>0, <2>1, <3>1, <4>1, LedgerMoved DEF Books
    <3>2. CASE r \notin sweep[s].tally
      <4>1. audited'[r] = audited[r] /\ (r \in lost' <=> r \in lost)
        BY <1>5, <3>2 DEF SweepAudit, SweepAborts, TypeOK
      <4>. QED BY <1>0, <2>1, <3>2, <4>1, LedgerSame DEF Books
    <3>. QED BY <3>1, <3>2
  <2>. QED BY <2>2, <2>3 DEF Books
<1>6. ASSUME NEW r \in Recordings, SweepRow(s, r) PROVE Books'
  <2>1. CASE SweepSkipsForeign(s, r) \/ SweepRemoveFails(s, r)
    <3>1. Failing(sweep[s], r).tally = sweep[s].tally /\ Failing(sweep[s], r).at # "idle"
      BY <1>0, <2>1, EffectsFailing DEF SweepSkipsForeign, SweepRemoveFails, InSweep
    <3>. QED BY <1>1, <2>1, <3>1
         DEF SweepSkipsForeign, SweepRemoveFails, OnlySweeps, Rows, Histories
  <2>2. CASE SweepRemove(s, r)
    <3>1. Removed(sweep[s], r).tally = sweep[s].tally /\ Removed(sweep[s], r).at # "idle"
      BY <1>0, EffectsRemoved
    <3>. QED BY <1>1, <2>2, <3>1 DEF SweepRemove, Rows, Histories
  <2>3. CASE SweepTombstone(s, r) /\ ~Active(r)
    <3>1. Tombstoned(sweep[s], {}).tally = sweep[s].tally /\ Tombstoned(sweep[s], {}).at # "idle"
      <4>1. \A S : Tombstoned(sweep[s], S).tally = sweep[s].tally \cup S
        BY <1>0, EffectsTombstoned
      <4>2. \A S : Tombstoned(sweep[s], S).at = "working"
        BY <1>0, EffectsTombstoned
      <4>. QED BY <4>1, <4>2
    <3>2. SweepGoes(s, Tombstoned(sweep[s], {})) /\ UNCHANGED <<status, audited, lost>>
      BY <2>3 DEF SweepTombstone, MarkDeletedGate, Histories
    <3>. QED BY <1>1, <3>1, <3>2
  <2>4. CASE SweepTombstone(s, r) /\ Active(r)
    <3>1. /\ sweep'[s] = Tombstoned(sweep[s], {r})
          /\ \A q \in Sweepers \ {s} : sweep'[q] = sweep[q]
          /\ status' = [status EXCEPT ![r] = "deleted"] /\ UNCHANGED <<audited, lost>>
      BY <2>4 DEF SweepTombstone, MarkDeletedGate, SweepGoes, Histories, TypeOK
    <3>2. sweep'[s].tally = sweep[s].tally \cup {r} /\ sweep'[s].at # "idle"
      BY <1>0, <3>1, EffectsTombstoned
    <3>3. IdleTally'
      BY <3>1, <3>2 DEF Books, IdleTally
    <3>4. ASSUME NEW x \in Recordings \ {r} PROVE Ledger(x)'
      <4>1. /\ \A q \in Sweepers : x \in sweep'[q].tally <=> x \in sweep[q].tally
            /\ status'[x] = status[x]
        BY <3>1, <3>2 DEF TypeOK
      <4>. QED BY <3>1, <4>1, LedgerSame DEF Books
    <3>5. Ledger(r)'
      <4>1. status[r] # "deleted"
        BY <2>4 DEF Active
      <4>2. audited[r] = 0 /\ Counting(r) = {} /\ r \notin lost
        BY <4>1, Uncounted DEF Books
      <4>3. Counting(r)' = {s}
        <5>1. \A q \in Sweepers : r \notin sweep[q].tally
          BY <4>2 DEF Counting
        <5>. QED BY <3>1, <3>2, <5>1 DEF Counting
      <4>5. Cardinality({s}) = 1
        BY FS_Singleton
      <4>4. status'[r] = "deleted"
        BY <3>1 DEF TypeOK
      <4>. QED BY <3>1, <4>2, <4>3, <4>4, <4>5 DEF Ledger, LostOne, Gone
    <3>. QED BY <3>3, <3>4, <3>5 DEF Books
  <2>. QED BY <1>6, <2>1, <2>2, <2>3, <2>4 DEF SweepRow
<1>. QED BY <1>2, <1>3, <1>4, <1>5, <1>6 DEF SweepStep

LEMMA OtherBooks ==
    ASSUME TypeOK, Books,
           \/ Tick \/ Reconfigure \/ UNCHANGED vars
           \/ \E r \in Recordings : Put(r) \/ Finalize(r)
    PROVE  Books'
<1>0. NoTick.tally = {} /\ \A s \in Sweepers : sweep[s] \in Ticks
  BY DEF TypeOK, NoTick
<1>1. CASE Reconfigure
  <2>1. /\ \A s \in Sweepers : sweep'[s].tally = {}
        /\ UNCHANGED <<status, audited>>
        /\ lost' = lost \cup UNION {sweep[s].tally : s \in Sweepers}
    BY <1>0, <1>1 DEF Reconfigure, Rows
  <2>2. IdleTally'
    BY <2>1 DEF IdleTally
  <2>3. ASSUME NEW r \in Recordings PROVE Ledger(r)'
    <3>1. CASE \A s \in Sweepers : r \notin sweep[s].tally
      <4>1. r \in lost' <=> r \in lost
        BY <2>1, <3>1
      <4>. QED BY <2>1, <3>1, <4>1, LedgerSame DEF Books
    <3>2. ASSUME NEW s \in Sweepers, r \in sweep[s].tally PROVE Ledger(r)'
      <4>1. r \in lost'
        BY <2>1, <3>2
      <4>. QED BY <2>1, <3>2, <4>1, LedgerMoved DEF Books
    <3>. QED BY <3>1, <3>2
  <2>. QED BY <2>2, <2>3 DEF Books
<1>2. CASE Tick
  <2>1. \A s \in Sweepers : sweep'[s].tally = sweep[s].tally /\ sweep'[s].at = sweep[s].at
    BY <1>0, <1>2, EffectsLater DEF Tick
  <2>2. UNCHANGED <<status, audited, lost>>
    BY <1>2 DEF Tick, Histories
  <2>. QED BY <2>1, <2>2, LedgerSame DEF Books, IdleTally
<1>3. ASSUME NEW r \in Recordings, Put(r) PROVE Books'
  BY <1>3, LedgerSame DEF Put, Rows, Histories, Books, IdleTally
<1>4. ASSUME NEW r \in Recordings, Finalize(r) PROVE Books'
  <2>1. \A x \in Recordings : status'[x] = "deleted" <=> status[x] = "deleted"
    BY <1>4 DEF Finalize, FinalizeGate, TypeOK
  <2>2. UNCHANGED <<sweep, audited, lost>>
    BY <1>4 DEF Finalize, Histories
  <2>. QED BY <2>1, <2>2, LedgerSame DEF Books, IdleTally
<1>5. CASE UNCHANGED vars
  BY <1>5, LedgerSame DEF vars, Books, IdleTally
<1>. QED BY <1>1, <1>2, <1>3, <1>4, <1>5

\* The books are right in every state.
LEMMA BooksHold == Spec => []Books
<1>1. Init => Books
  <2>. SUFFICES ASSUME Init PROVE Books
    OBVIOUS
  <2>1. \A s \in Sweepers : sweep[s].tally = {}
    BY DEF Init, NoTick
  <2>2. ASSUME NEW r \in Recordings PROVE Ledger(r)
    <3>1. Counting(r) = {} /\ Cardinality({}) = 0
      BY <2>1, FS_EmptySet DEF Counting
    <3>. QED BY <3>1 DEF Init, Ledger, LostOne, Gone
  <2>. QED BY <2>1, <2>2 DEF Books, IdleTally
<1>2. TypeOK /\ Books /\ [Next]_vars => Books'
  BY UserBooks, SweepBooks, OtherBooks DEF Next
<1>. QED BY <1>1, <1>2, Typing, PTL DEF Spec

\* Every tombstone is accounted for exactly once.
THEOREM TombstonesCounted == Spec => []TombstoneAccounted
<1>1. Books => TombstoneAccounted
  BY DEF Books, Ledger, LostOne, Gone, TombstoneAccounted
<1>. QED BY <1>1, BooksHold, PTL

\* Whatever requests, workers, sweeps and providers do, audio is removed for a
\* reason only, and a tombstone is true, is counted once and stays.
THEOREM TombstonesAreSound == Spec => TombstonesAreTrue
BY NoAudioLost, TombstonesTrue, TombstonesCounted, DeletionsFinal, PTL DEF TombstonesAreTrue

-----------------------------------------------------------------------------
(* Why every row keeps what RecordingPromise says: what a request or a     *)
(* tick holds in memory is doomed (IInv), whoever tells of a tombstone     *)
(* counts it for the first time (Books), and a URL or a request is about   *)
(* a row that exists, so each step moves a row on or leaves it alone.      *)

\* A recording moves as it is promised to, or not at all.
Promised(r) == [Promise(r)!Next]_(Promise(r)!promised)

\* A request, and a signed URL, are about a row that exists.
Existing ==
    /\ \A u \in Users : user[u] # NoRequest => status[user[u].rec] # "absent"
    /\ \A r \in Recordings : url[r] > 0 => status[r] # "absent"

LEMMA FateIs ==
    ASSUME NEW st \in Statuses, NEW a \in Nat
    PROVE  /\ st = "absent" => Fate(st, a) = "none"
           /\ st = "upload_pending" => Fate(st, a) = "awaited"
           /\ st = "available" /\ a < Retention => Fate(st, a) = "kept"
           /\ st = "available" /\ a >= Retention => Fate(st, a) = "overdue"
           /\ st = "delete_pending" => Fate(st, a) = "condemned"
           /\ st = "deleted" => Fate(st, a) = "buried"
BY ClockAssumption DEF Statuses, Fate

\* What the status and the age of a row say of its fate, before a step and after it.
LEMMA Fated ==
    ASSUME TypeOK, TypeOK', SettledOnly, SettledOnly', NEW r \in Recordings
    PROVE  /\ status[r] \in {"absent", "upload_pending", "available", "delete_pending", "deleted"}
           /\ status'[r] \in {"absent", "upload_pending", "available", "delete_pending", "deleted"}
           /\ age[r] \in Nat /\ age'[r] \in Nat /\ Retention \in Nat
           /\ status[r] \in Statuses /\ status'[r] \in Statuses
BY ClockAssumption DEF TypeOK, SettledOnly, Statuses, Ages, AgeCap

\* Nothing of a row changes that it is promised.
LEMMA PromiseRests ==
    ASSUME NEW r \in Recordings, status'[r] = status[r], age'[r] = age[r], object'[r] = object[r],
           r \in misplaced' <=> r \in misplaced, audited'[r] = audited[r], r \in lost' <=> r \in lost
    PROVE  Promised(r)
BY DEF Promised, Promise!promised, ToldOf

\* Only the fate of a row changes, on the way it is promised.
LEMMA FateMoves ==
    ASSUME TypeOK, TypeOK', SettledOnly, SettledOnly', NEW r \in Recordings,
           \/ status[r] = "absent" /\ status'[r] = "upload_pending"
           \/ status[r] = "upload_pending" /\ status'[r] = "available"
           \/ Active(r) /\ status'[r] = "delete_pending"
           \/ status'[r] = status[r] /\ status[r] = "available" /\ age'[r] >= age[r],
           object'[r] = object[r],
           r \in misplaced' <=> r \in misplaced, audited'[r] = audited[r], r \in lost' <=> r \in lost
    PROVE  Promised(r)
<1>. DEFINE before == Fate(status[r], age[r])
            after == Fate(status'[r], age'[r])
<1>1. \/ before = "none" /\ after = "awaited"
      \/ before = "awaited" /\ after \in {"kept", "overdue"}
      \/ before \in {"awaited", "kept", "overdue", "condemned"} /\ after = "condemned"
      \/ before = "kept" /\ after = "overdue"
      \/ before = after
  <2>1. CASE status[r] = "absent" /\ status'[r] = "upload_pending"
    BY <2>1, Fated, FateIs
  <2>2. CASE status[r] = "upload_pending" /\ status'[r] = "available"
    BY <2>2, Fated, FateIs
  <2>3. CASE Active(r) /\ status'[r] = "delete_pending"
    BY <2>3, Fated, FateIs DEF Active
  <2>4. CASE status'[r] = status[r] /\ status[r] = "available" /\ age'[r] >= age[r]
    BY <2>4, Fated, FateIs
  <2>. QED BY <2>1, <2>2, <2>3, <2>4
<1>2. UNCHANGED <<object[r], (r \in misplaced), ToldOf(r)>>
  BY DEF ToldOf
<1>3. /\ before = Fate(status[r], age[r])
      /\ after = Fate(status'[r], age'[r])
  OBVIOUS
<1>. HIDE DEF before, after
<1>. QED BY <1>1, <1>2, <1>3
     DEF Promised, Promise!Next, Promise!promised, Promise!Announce, Promise!Publish, Promise!Expire,
         Promise!Condemn

\* Only the object of a row changes: it is stored, or removed because the row is doomed.
LEMMA AudioMoves ==
    ASSUME TypeOK, TypeOK', SettledOnly, SettledOnly', NEW r \in Recordings,
           status'[r] = status[r], age'[r] = age[r],
           \/ status[r] # "absent" /\ object'[r] = IF object[r] \in Cleared THEN "late" ELSE "stored"
           \/ Doomed(r) /\ object'[r] = "removed",
           r \in misplaced' <=> r \in misplaced, audited'[r] = audited[r], r \in lost' <=> r \in lost
    PROVE  Promised(r)
<1>. DEFINE held == Fate(status[r], age[r])
<1>1. /\ status[r] # "absent" => held # "none"
      /\ Doomed(r) => held \in {"overdue", "condemned", "buried"}
  BY Fated, FateIs DEF Doomed
<1>2. UNCHANGED <<held, (r \in misplaced), ToldOf(r)>>
  BY DEF ToldOf
<1>3. held = Fate(status[r], age[r])
  OBVIOUS
<1>4. Fate(status'[r], age'[r]) = held
  OBVIOUS
<1>. HIDE DEF held
<1>. QED BY <1>1, <1>2, <1>3, <1>4
     DEF Promised, Promise!Next, Promise!promised, Promise!Fill, Promise!Remove, Promise!Silent, Cleared

\* A deletion asked another store for the audio.
LEMMA Misses ==
    ASSUME TypeOK, TypeOK', SettledOnly, SettledOnly', NEW r \in Recordings,
           status'[r] = status[r], age'[r] = age[r], status[r] \in {"delete_pending", "deleted"},
           object'[r] = object[r], r \in misplaced',
           audited'[r] = audited[r], r \in lost' <=> r \in lost
    PROVE  Promised(r)
<1>1. Fate(status[r], age[r]) \in {"condemned", "buried"}
  BY Fated, FateIs
<1>2. UNCHANGED <<Fate(status[r], age[r]), ToldOf(r)>>
  BY DEF ToldOf
<1>3. (r \in misplaced)' = TRUE
  OBVIOUS
<1>. QED BY <1>1, <1>2, <1>3 DEF Promised, Promise!Next, Promise!Miss

\* A row becomes a tombstone that nobody has accounted for yet.
LEMMA Buries ==
    ASSUME TypeOK, TypeOK', SettledOnly, SettledOnly', NEW r \in Recordings,
           Active(r), Doomed(r), object[r] \in Cleared \/ r \in misplaced, status'[r] = "deleted",
           object'[r] = object[r], r \in misplaced' <=> r \in misplaced,
           audited[r] = 0, audited'[r] \in {0, 1}, r \notin lost, r \notin lost'
    PROVE  Promised(r)
<1>. DEFINE before == Fate(status[r], age[r])
            after == Fate(status'[r], age'[r])
<1>1. before \in {"overdue", "condemned"} /\ after = "buried"
  BY Fated, FateIs DEF Doomed, Active
<1>2. ToldOf(r) = "no" /\ ToldOf(r)' \in {"no", "yes"}
  BY DEF ToldOf
<1>3. before = Fate(status[r], age[r]) /\ after = Fate(status'[r], age'[r])
  OBVIOUS
<1>4. UNCHANGED <<object[r], (r \in misplaced)>>
  OBVIOUS
<1>. HIDE DEF before, after
<1>. QED BY <1>1, <1>2, <1>3, <1>4 DEF Promised, Promise!Next, Promise!Bury, Promise!Silent, Cleared

\* A tombstone is accounted for, or nobody is left who would.
LEMMA Tells ==
    ASSUME TypeOK, TypeOK', SettledOnly, SettledOnly', NEW r \in Recordings,
           status[r] = "deleted", status'[r] = status[r], age'[r] = age[r], object'[r] = object[r],
           r \in misplaced' <=> r \in misplaced,
           audited[r] = 0, r \notin lost, audited'[r] = 1 \/ r \in lost'
    PROVE  Promised(r)
<1>1. Fate(status[r], age[r]) = "buried"
  BY Fated, FateIs
<1>2. ToldOf(r) = "no" /\ ToldOf(r)' \in {"yes", "never"}
  BY DEF ToldOf
<1>3. UNCHANGED <<Fate(status[r], age[r]), object[r], (r \in misplaced)>>
  OBVIOUS
<1>. QED BY <1>1, <1>2, <1>3 DEF Promised, Promise!Next, Promise!Tell

\* What a step of a request, a sweep, ... does is promised.
LEMMA UserPromised ==
    ASSUME TypeOK, TypeOK', IInv, SettledOnly', Existing, Books, NEW u \in Users,
           \/ UserStep(u) \/ UserAborts(u)
           \/ \E x \in Recordings : Initiate(u, x) \/ RequestDelete(u, x),
           NEW r \in Recordings
    PROVE  Promised(r)
<1>0. SettledOnly
  BY DEF IInv
<1>1. ASSUME NEW x \in Recordings, Initiate(u, x) \/ RequestDelete(u, x) PROVE Promised(r)
  <2>1. object' = object /\ misplaced' = misplaced /\ audited' = audited /\ lost' = lost
    BY <1>1 DEF Initiate, RequestDelete, Store, Histories
  <2>2. CASE r = x
    <3>1. \/ status[r] = "absent" /\ status'[r] = "upload_pending"
          \/ Active(r) /\ status'[r] = "delete_pending"
      BY <1>1, <2>2 DEF Initiate, RequestDelete, TypeOK
    <3>. QED BY <1>0, <2>1, <3>1, FateMoves
  <2>3. CASE r # x
    <3>1. status'[r] = status[r] /\ age'[r] = age[r]
      BY <1>1, <2>3 DEF Initiate, RequestDelete, TypeOK
    <3>. QED BY <2>1, <3>1, PromiseRests
  <2>. QED BY <2>2, <2>3
<1>2. CASE SignUpload(u) \/ UserAborts(u)
  BY <1>2, PromiseRests DEF SignUpload, UserAborts, Rows, Store, Histories
<1>. DEFINE x == user[u].rec
<1>3. ASSUME user[u].at = "removing" PROVE x \in Recordings /\ status[x] \in {"delete_pending", "deleted"}
  BY <1>3, Busy, Domains DEF IInv, RequestsKnow, RequestKnows, TypeOK
<1>. HIDE DEF x
<1>4. ASSUME user[u].at = "removing", RemoveObject(x), UNCHANGED <<Rows, misplaced, audited, lost>>
      PROVE  Promised(r)
  <2>1. status'[r] = status[r] /\ age'[r] = age[r]
    BY <1>4 DEF Rows
  <2>2. object'[r] = object[r] \/ (r = x /\ object'[r] = "removed")
    BY <1>4 DEF RemoveObject, TypeOK
  <2>3. r = x => Doomed(r)
    BY <1>3, <1>4 DEF Doomed
  <2>. QED BY <1>0, <1>4, <2>1, <2>2, <2>3, AudioMoves, PromiseRests
<1>5. CASE UserRemove(u)
  <2>1. user[u].at = "removing" /\ RemoveObject(x) /\ UNCHANGED <<Rows, audited, lost>>
    BY <1>5 DEF UserRemove, x
  <2>2. misplaced' = IF home[x] = provider THEN misplaced ELSE misplaced \cup {x}
    BY <1>5 DEF UserRemove, x
  <2>3. CASE home[x] = provider
    BY <1>4, <2>1, <2>2, <2>3
  <2>4. CASE home[x] # provider
    <3>1. object' = object /\ misplaced' = misplaced \cup {x}
      BY <2>1, <2>2, <2>4 DEF RemoveObject
    <3>2. status'[r] = status[r] /\ age'[r] = age[r]
      BY <2>1 DEF Rows
    <3>3. CASE r = x
      <4>1. status[r] \in {"delete_pending", "deleted"}
        BY <1>3, <2>1, <3>3
      <4>2. r \in misplaced'
        BY <3>1, <3>3
      <4>. QED BY <1>0, <2>1, <3>1, <3>2, <4>1, <4>2, Misses
    <3>4. CASE r # x
      <4>1. r \in misplaced' <=> r \in misplaced
        BY <3>1, <3>4
      <4>. QED BY <2>1, <3>1, <3>2, <4>1, PromiseRests
    <3>. QED BY <3>3, <3>4
  <2>. QED BY <2>3, <2>4
<1>6. CASE UserRemoveFails(u)
  <2>1. user[u].at = "removing" /\ UNCHANGED <<Rows, misplaced, audited, lost>>
    BY <1>6 DEF UserRemoveFails, Histories
  <2>2. UNCHANGED object \/ RemoveObject(x)
    BY <1>6 DEF UserRemoveFails, x
  <2>3. CASE UNCHANGED object
    BY <2>1, <2>3, PromiseRests DEF Rows
  <2>. QED BY <1>4, <2>1, <2>2, <2>3
<1>7. CASE UserTombstone(u)
  <2>1. /\ x \in Recordings /\ Doomed(x)
        /\ object[x] \in Cleared \/ x \in misplaced
    BY <1>7, Busy, Domains DEF UserTombstone, IInv, RequestsKnow, RequestKnows, Doomed, TypeOK, x
  <2>2. /\ status' = IF Active(x) THEN [status EXCEPT ![x] = "deleted"] ELSE status
        /\ audited' = IF Active(x) THEN [audited EXCEPT ![x] = @ + 1] ELSE audited
        /\ UNCHANGED <<age, object, misplaced, lost>>
    BY <1>7 DEF UserTombstone, MarkDeletedGate, Store, x
  <2>3. CASE r = x /\ Active(x)
    <3>1. status[r] # "deleted"
      BY <2>3 DEF Active
    <3>2. audited[r] = 0 /\ r \notin lost
      BY <3>1, Uncounted DEF Books
    <3>3. status'[r] = "deleted" /\ audited'[r] \in {0, 1}
      BY <2>2, <2>3, <3>2 DEF TypeOK
    <3>. QED BY <1>0, <2>1, <2>2, <2>3, <3>2, <3>3, Buries
  <2>4. CASE ~ (r = x /\ Active(x))
    <3>1. status'[r] = status[r] /\ audited'[r] = audited[r]
      BY <2>2, <2>4 DEF TypeOK
    <3>. QED BY <2>2, <3>1, PromiseRests
  <2>. QED BY <2>3, <2>4
<1>. QED BY <1>1, <1>2, <1>5, <1>6, <1>7 DEF UserStep

LEMMA SweepPromised ==
    ASSUME TypeOK, TypeOK', IInv, SettledOnly', Books, NEW s \in Sweepers,
           SweepStep(s) \/ SweepAborts(s), NEW r \in Recordings
    PROVE  Promised(r)
<1>0. SettledOnly /\ Ledger(r)
  BY DEF IInv, Books
<1>1. CASE SweepStart(s) \/ SweepList(s) \/ SweepNextBatch(s)
  BY <1>1, PromiseRests
     DEF SweepStart, SweepList, SweepNextBatch, OnlySweeps, Rows, Store, Histories
<1>2. CASE SweepAudit(s) \/ SweepAborts(s)
  <2>1. UNCHANGED <<status, age, object, misplaced>>
    BY <1>2 DEF SweepAudit, SweepAborts, Rows, Store
  <2>2. CASE r \notin sweep[s].tally
    <3>1. audited'[r] = audited[r] /\ (r \in lost' <=> r \in lost)
      BY <1>2, <2>2 DEF SweepAudit, SweepAborts
    <3>. QED BY <2>1, <3>1, PromiseRests
  <2>3. CASE r \in sweep[s].tally
    <3>1. Counting(r) # {}
      BY <2>3 DEF Counting
    <3>2. status[r] = "deleted" /\ audited[r] = 0 /\ r \notin lost
      <4>1. audited[r] \in Nat
        BY DEF TypeOK
      <4>. QED BY <1>0, <3>1, <4>1, CountingFinite DEF Ledger, LostOne, Gone
    <3>3. audited'[r] = 1 \/ r \in lost'
      BY <1>2, <2>3, <3>2 DEF SweepAudit, SweepAborts
    <3>. QED BY <1>0, <2>1, <3>2, <3>3, Tells
  <2>. QED BY <2>2, <2>3
<1>3. ASSUME NEW x \in Recordings, SweepRow(s, x) PROVE Promised(r)
  <2>0. ASSUME NextInBatch(s, x), RemoveObject(x), UNCHANGED <<Rows, misplaced, audited, lost>>
        PROVE  Promised(r)
    <3>1. status'[r] = status[r] /\ age'[r] = age[r]
      BY <2>0 DEF Rows
    <3>2. object'[r] = object[r] \/ (r = x /\ object'[r] = "removed")
      BY <2>0 DEF RemoveObject, TypeOK
    <3>3. Doomed(x)
      BY <2>0 DEF NextInBatch, IInv, TicksKnow, TickKnows, InBatch
    <3>. QED BY <1>0, <2>0, <3>1, <3>2, <3>3, AudioMoves, PromiseRests
  <2>1. CASE SweepSkipsForeign(s, x)
    BY <2>1, PromiseRests DEF SweepSkipsForeign, OnlySweeps, Rows, Store, Histories
  <2>2. CASE SweepRemove(s, x)
    BY <2>0, <2>2 DEF SweepRemove, Histories
  <2>3. CASE SweepRemoveFails(s, x)
    <3>1. NextInBatch(s, x) /\ UNCHANGED <<Rows, misplaced, audited, lost>>
      BY <2>3 DEF SweepRemoveFails, Histories
    <3>2. UNCHANGED object \/ RemoveObject(x)
      BY <2>3 DEF SweepRemoveFails
    <3>3. CASE UNCHANGED object
      BY <3>1, <3>3, PromiseRests DEF Rows
    <3>. QED BY <2>0, <3>1, <3>2, <3>3
  <2>4. CASE SweepTombstone(s, x)
    <3>1. Doomed(x) /\ object[x] \in Cleared
      BY <2>4 DEF SweepTombstone, IInv, TicksKnow, TickKnows
    <3>2. /\ status' = IF Active(x) THEN [status EXCEPT ![x] = "deleted"] ELSE status
          /\ UNCHANGED <<age, object, misplaced, audited, lost>>
      BY <2>4 DEF SweepTombstone, MarkDeletedGate, Store, Histories
    <3>3. CASE r = x /\ Active(x)
      <4>1. status[r] # "deleted"
        BY <3>3 DEF Active
      <4>2. audited[r] = 0 /\ r \notin lost
        BY <1>0, <4>1, Uncounted
      <4>3. status'[r] = "deleted" /\ audited'[r] \in {0, 1}
        BY <3>2, <3>3, <4>2 DEF TypeOK
      <4>. QED BY <1>0, <3>1, <3>2, <3>3, <4>2, <4>3, Buries
    <3>4. CASE ~ (r = x /\ Active(x))
      <4>1. status'[r] = status[r]
        BY <3>2, <3>4 DEF TypeOK
      <4>. QED BY <3>2, <4>1, PromiseRests
    <3>. QED BY <3>3, <3>4
  <2>. QED BY <1>3, <2>1, <2>2, <2>3, <2>4 DEF SweepRow
<1>. QED BY <1>1, <1>2, <1>3 DEF SweepStep

LEMMA OtherPromised ==
    ASSUME TypeOK, TypeOK', IInv, SettledOnly', Existing, Books,
           \/ Tick \/ Reconfigure \/ UNCHANGED vars
           \/ \E x \in Recordings : Put(x) \/ Finalize(x),
           NEW r \in Recordings
    PROVE  Promised(r)
<1>0. SettledOnly /\ Ledger(r)
  BY DEF IInv, Books
<1>1. CASE UNCHANGED vars
  BY <1>1, PromiseRests DEF vars
<1>2. ASSUME NEW x \in Recordings, Put(x) PROVE Promised(r)
  <2>1. UNCHANGED <<status, age, misplaced, audited, lost>>
    BY <1>2 DEF Put, Rows, Histories
  <2>2. CASE r = x
    <3>1. status[r] # "absent"
      BY <1>2, <2>2 DEF Put, Existing
    <3>2. object'[r] = IF object[r] \in Cleared THEN "late" ELSE "stored"
      BY <1>2, <2>2 DEF Put, TypeOK
    <3>. QED BY <1>0, <2>1, <3>1, <3>2, AudioMoves
  <2>3. CASE r # x
    <3>1. object'[r] = object[r]
      BY <1>2, <2>3 DEF Put, TypeOK
    <3>. QED BY <2>1, <3>1, PromiseRests
  <2>. QED BY <2>2, <2>3
<1>3. ASSUME NEW x \in Recordings, Finalize(x) PROVE Promised(r)
  <2>1. UNCHANGED <<object, misplaced, audited, lost>>
    BY <1>3 DEF Finalize, Store, Histories
  <2>2. CASE r = x
    <3>1. status[r] = "upload_pending" /\ status'[r] = "available"
      BY <1>3, <2>2 DEF Finalize, FinalizeGate, IInv, SettledOnly, TypeOK
    <3>. QED BY <1>0, <2>1, <3>1, FateMoves
  <2>3. CASE r # x
    <3>1. status'[r] = status[r] /\ age'[r] = age[r]
      BY <1>3, <2>3 DEF Finalize, TypeOK
    <3>. QED BY <2>1, <3>1, PromiseRests
  <2>. QED BY <2>2, <2>3
<1>4. CASE Tick
  <2>1. UNCHANGED <<status, object, misplaced, audited, lost>>
    BY <1>4 DEF Tick, Histories
  <2>2. CASE status[r] = "available"
    <3>1. age'[r] >= age[r]
      BY <1>4, <2>2, Domains DEF Tick, TypeOK
    <3>. QED BY <1>0, <2>1, <2>2, <3>1, FateMoves
  <2>3. CASE status[r] = "delete_pending"
    <3>1. Active(r) /\ status'[r] = "delete_pending"
      BY <2>1, <2>3 DEF Active
    <3>. QED BY <1>0, <2>1, <3>1, FateMoves
  <2>4. CASE status[r] \in {"absent", "upload_pending", "deleted"}
    <3>1. age'[r] = age[r]
      BY <1>4, <2>4 DEF Tick
    <3>. QED BY <2>1, <3>1, PromiseRests
  <2>. QED BY <1>0, <2>2, <2>3, <2>4, Fated
<1>5. CASE Reconfigure
  <2>1. UNCHANGED <<status, age, object, misplaced, audited>>
    BY <1>5 DEF Reconfigure, Rows, Store
  <2>2. lost' = lost \cup UNION {sweep[s].tally : s \in Sweepers}
    BY <1>5 DEF Reconfigure
  <2>3. CASE \A s \in Sweepers : r \notin sweep[s].tally
    <3>1. r \in lost' <=> r \in lost
      BY <2>2, <2>3
    <3>. QED BY <2>1, <3>1, PromiseRests
  <2>4. ASSUME NEW s \in Sweepers, r \in sweep[s].tally PROVE Promised(r)
    <3>1. Counting(r) # {}
      BY <2>4 DEF Counting
    <3>2. status[r] = "deleted" /\ audited[r] = 0 /\ r \notin lost
      <4>1. audited[r] \in Nat
        BY DEF TypeOK
      <4>. QED BY <1>0, <3>1, <4>1, CountingFinite DEF Ledger, LostOne, Gone
    <3>3. r \in lost'
      BY <2>2, <2>4
    <3>. QED BY <1>0, <2>1, <3>2, <3>3, Tells
  <2>. QED BY <2>3, <2>4
<1>. QED BY <1>1, <1>2, <1>3, <1>4, <1>5

\* A row that exists stays in existence; whoever names it made it or found it.
LEMMA ExistingStays ==
    ASSUME TypeOK, IInv, Existing, [Next]_vars PROVE Existing'
<1>1. \A r \in Recordings : status[r] # "absent" => status'[r] # "absent"
  BY StepMoves DEF RecordingMoves, RowMove
<1>2. \A r \in Recordings : url'[r] > 0 => status'[r] # "absent"
  <2>. SUFFICES ASSUME NEW r \in Recordings, url'[r] > 0 PROVE status'[r] # "absent"
    OBVIOUS
  <2>1. CASE url'[r] = url[r]
    BY <1>1, <2>1 DEF Existing
  <2>2. CASE url'[r] # url[r]
    <3>1. \/ Tick \/ \E u \in Users : SignUpload(u)
      BY <2>2 DEF Next, vars, Initiate, RequestDelete, Put, Finalize, UserStep, UserRemove, UserRemoveFails,
         UserTombstone, UserAborts, SweepStep, SweepStart, SweepList, SweepNextBatch, SweepAudit, SweepRow,
         SweepSkipsForeign, SweepRemove, SweepRemoveFails, SweepTombstone, SweepAborts, OnlySweeps,
         Reconfigure, Store
    <3>2. CASE Tick
      <4>1. url[r] > 0
        BY <3>2 DEF Tick
      <4>. QED BY <1>1, <4>1 DEF Existing
    <3>3. ASSUME NEW u \in Users, SignUpload(u) PROVE status'[r] # "absent"
      <4>1. user[u] # NoRequest /\ r = user[u].rec
        BY <2>2, <3>3, Busy, Domains DEF SignUpload, TypeOK
      <4>. QED BY <1>1, <4>1 DEF Existing
    <3>. QED BY <3>1, <3>2, <3>3
  <2>. QED BY <2>1, <2>2
<1>3. ASSUME NEW u \in Users, user'[u] # NoRequest PROVE status'[user'[u].rec] # "absent"
  <2>1. CASE user'[u] = user[u]
    <3>1. user[u].rec \in Recordings
      BY <1>3, <2>1, RequestType DEF TypeOK
    <3>. QED BY <1>1, <1>3, <2>1, <3>1 DEF Existing
  <2>2. ASSUME NEW v \in Users, NEW r \in Recordings, Initiate(v, r) \/ RequestDelete(v, r)
        PROVE  user'[u] = user[u] \/ status'[user'[u].rec] # "absent"
    <3>1. CASE u = v
      <4>1. user'[u].rec = r /\ status'[r] # "absent"
        BY <2>2, <3>1 DEF Initiate, RequestDelete, Request, TypeOK
      <4>. QED BY <4>1
    <3>2. CASE u # v
      BY <2>2, <3>2 DEF Initiate, RequestDelete, TypeOK
    <3>. QED BY <3>1, <3>2
  <2>3. ASSUME NEW v \in Users, UserStep(v) \/ UserAborts(v)
        PROVE  user'[u] = user[u] \/ status'[user'[u].rec] # "absent"
    <3>1. CASE u # v
      BY <2>3, <3>1 DEF UserStep, UserAborts, SignUpload, UserRemove, UserRemoveFails, UserTombstone, TypeOK
    <3>2. CASE u = v /\ ~UserRemove(v)
      <4>1. user'[u] = NoRequest
        BY <2>3, <3>2 DEF UserStep, UserAborts, SignUpload, UserRemoveFails, UserTombstone, TypeOK
      <4>. QED BY <1>3, <4>1
    <3>3. CASE u = v /\ UserRemove(v)
      <4>1. user[u] # NoRequest /\ user[u].rec \in Recordings
        BY <3>3, Busy, Domains DEF UserRemove, TypeOK
      <4>2. user'[u].rec = user[u].rec
        BY <3>3 DEF UserRemove, Request, TypeOK
      <4>. QED BY <1>1, <4>1, <4>2 DEF Existing
    <3>. QED BY <3>1, <3>2, <3>3
  <2>4. CASE UNCHANGED user
    BY <2>1, <2>4
  <2>5. CASE Reconfigure
    BY <1>3, <2>5 DEF Reconfigure
  <2>. QED BY <2>1, <2>2, <2>3, <2>4, <2>5
       DEF Next, vars, Put, Finalize, Tick, SweepStep, SweepStart, SweepList, SweepNextBatch, SweepAudit,
           SweepRow, SweepSkipsForeign, SweepRemove, SweepRemoveFails, SweepTombstone, SweepAborts, OnlySweeps
<1>. QED BY <1>2, <1>3 DEF Existing

\* Every recording is kept what it is promised: CallRecordings implements
\* RecordingPromise for each of its rows.
THEOREM PromiseKept == Spec => KeepsItsPromise
<1>1. Init => Existing /\ \A r \in Recordings : Promise(r)!Init
  BY FateIs DEF Init, Existing, Promise!Init, Fate, ToldOf
<1>2. TypeOK /\ IInv /\ Existing /\ [Next]_vars => Existing'
  BY ExistingStays
<1>3. TypeOK /\ TypeOK' /\ IInv /\ IInv' /\ Existing /\ Books /\ [Next]_vars
        => [\A r \in Recordings : [Promise(r)!Next]_(Promise(r)!promised)]_vars
  <2>. SUFFICES ASSUME TypeOK, TypeOK', IInv, IInv', Existing, Books, [Next]_vars, NEW r \in Recordings
                PROVE  Promised(r)
    BY DEF Promised
  <2>1. SettledOnly'
    BY DEF IInv
  <2>. QED BY <2>1, UserPromised, SweepPromised, OtherPromised DEF Next
<1>. QED BY <1>1, <1>2, <1>3, Typing, Inductive, BooksHold, PTL DEF Spec, KeepsItsPromise

-----------------------------------------------------------------------------
(* The sound of one source (AudioCapture)                                  *)

\* The sample of the device that place p of a recording is made of.
SampleAt(p) == (p * StepNum) \div StepDen

\* A frame has its place, and its samples are those of its place.
FrameInPlace(f) ==
  /\ Len(f.pcm) = FrameSize
  /\ \A i \in 1 .. FrameSize : f.pcm[i] = SampleAt(f.at + i - 1)

FramesInPlace ==
  /\ \A i \in 1 .. Len(queue) : FrameInPlace(queue[i])
  /\ \A u \in PumpTicks : \A i \in 1 .. Len(batch[u]) : FrameInPlace(batch[u][i])

\* The number of samples of 16 kHz made so far.
Made == seq * FrameSize + Len(pending)

\* What the resampler carries from block to block: the position of the next
\* sample, and the sample before the block.
Carries ==
  /\ Fed > 0 => tail = Fed - 1
  /\ Fed <= now
  /\ ~ stopped =>
       /\ pos = Made * StepNum - Fed * StepDen
       /\ - StepDen <= pos
       /\ \A i \in 1 .. Len(pending) : pending[i] = SampleAt(seq * FrameSize + i - 1)

BatchesFit == \A u \in PumpTicks : Len(batch[u]) <= DrainMax

AudioInv ==
  /\ AudioTypeOK /\ FramesInPlace /\ AudioKeepsItsPlace /\ Carries
  /\ BatchesFit /\ LossIsCounted

(* Division                                                                *)

LEMMA DivIs ==
    ASSUME NEW a \in Int, NEW d \in Nat \ {0}, NEW q \in Int, q * d <= a, a < (q + 1) * d
    PROVE  a \div d = q
OBVIOUS

LEMMA DivBounds ==
    ASSUME NEW a \in Int, NEW d \in Nat \ {0}
    PROVE  a \div d \in Int /\ (a \div d) * d <= a /\ a < (a \div d + 1) * d
OBVIOUS

LEMMA DivShift ==
    ASSUME NEW a \in Int, NEW b \in Int, NEW d \in Nat \ {0}
    PROVE  (a + b * d) \div d = a \div d + b
OBVIOUS

LEMMA DivAtLeast ==
    ASSUME NEW a \in Int, NEW d \in Nat \ {0}, NEW q \in Int, q * d <= a
    PROVE  q <= a \div d
<1>1. a < (a \div d + 1) * d /\ a \div d \in Int
  BY DivBounds
<1>2. q < a \div d + 1
  BY <1>1
<1>. QED BY <1>1, <1>2

LEMMA DivBelow ==
    ASSUME NEW a \in Int, NEW d \in Nat \ {0}, NEW q \in Int, a < q * d
    PROVE  a \div d < q
<1>1. (a \div d) * d <= a /\ a \div d \in Int
  BY DivBounds
<1>. QED BY <1>1

LEMMA DivMono ==
    ASSUME NEW a \in Int, NEW b \in Int, NEW d \in Nat \ {0}, a <= b
    PROVE  a \div d <= b \div d
<1>1. (a \div d) * d <= a /\ a \div d \in Int
  BY DivBounds
<1>2. (a \div d) * d <= b
  BY <1>1
<1>. QED BY <1>1, <1>2, DivAtLeast

LEMMA Rates == /\ MaxTime \in Nat /\ StepNum \in Nat \ {0} /\ StepDen \in Nat \ {0}
               /\ FrameSize \in Nat \ {0} /\ QueueCap \in Nat \ {0} /\ DrainMax \in Nat \ {0}
               /\ Blocks \subseteq Nat \ {0} /\ IsFiniteSet(PumpTicks)
BY AudioBounds

LEMMA AudioLeast ==
    ASSUME NEW S \in SUBSET Nat, S # {}
    PROVE  \E m \in S : \A k \in S : m <= k
<1>. DEFINE R == OpToRel(<, Nat)
<1>1. IsWellFoundedOn(R, Nat)
  BY NatLessThanWellFounded
<1>. HIDE DEF R
<1>2. PICK m \in S : \A k \in S : ~ (<<k, m>> \in R)
  BY <1>1, WFMin
<1>3. \A k \in S : k < m => <<k, m>> \in R
  BY DEF R, OpToRel
<1>4. ASSUME NEW k \in S PROVE m <= k
  <2>1. ~ (k < m) /\ k \in Nat /\ m \in Nat
    BY <1>2, <1>3
  <2>. QED BY <2>1
<1>. QED BY <1>4

(* The resampler                                                           *)

LEMMA LowIs ==
    ASSUME pos \in Int, NEW k \in Nat
    PROVE  /\ Low(k) \in Int
           /\ Low(k) * StepDen <= pos + k * StepNum
           /\ pos + k * StepNum < (Low(k) + 1) * StepDen
<1>1. pos + k * StepNum \in Int
  BY Rates
<1>. QED BY <1>1, Rates, DivBounds DEF Low

LEMMA LowMono ==
    ASSUME pos \in Int, NEW k \in Nat, NEW l \in Nat, k <= l
    PROVE  Low(k) <= Low(l)
<1>1. k * StepNum <= l * StepNum /\ k * StepNum \in Int /\ l * StepNum \in Int
  BY Rates
<1>2. pos + k * StepNum <= pos + l * StepNum
  BY <1>1
<1>. QED BY <1>1, <1>2, Rates, DivMono DEF Low

\* The samples a block of n reaches are the first ones: there are as many as
\* lie before its last sample.
LEMMA ReachedIs ==
    ASSUME pos \in Int, - StepDen <= pos, NEW n \in Nat \ {0}
    PROVE  /\ Reached(n) \in 0 .. n * StepDen
           /\ \A k \in 0 .. n * StepDen : k < Reached(n) <=> Low(k) + 1 < n
<1>. DEFINE N == n * StepDen
            S == {k \in 0 .. N : Low(k) + 1 < n}
            T == {k \in 0 .. N : ~ (Low(k) + 1 < n)}
<1>1. N \in Nat
  BY Rates
<1>2. N \in T
  <2>1. N * StepNum >= N /\ N * StepNum \in Int
    BY <1>1, Rates
  <2>2. (n - 1) * StepDen = N - StepDen
    BY Rates
  <2>3. (n - 1) * StepDen <= pos + N * StepNum
    BY <1>1, <2>1, <2>2, Rates
  <2>4. n - 1 <= Low(N)
    <3>. HIDE DEF N
    <3>1. pos + N * StepNum \in Int /\ n - 1 \in Int
      BY <2>1
    <3>. QED BY <2>3, <3>1, Rates, DivAtLeast DEF Low
  <2>5. Low(N) \in Int
    BY <1>1, LowIs
  <2>. QED BY <1>1, <2>4, <2>5
<1>. HIDE DEF N
<1>3. T \in SUBSET Nat /\ T # {}
  BY <1>1, <1>2
<1>4. PICK m \in T : \A k \in T : m <= k
  BY <1>3, AudioLeast
<1>5. m \in Nat /\ m <= N
  BY <1>1, <1>4
<1>6. \A k \in 0 .. N : k \in S <=> k < m
  <2>1. SUFFICES ASSUME NEW k \in 0 .. N PROVE k \in S <=> k < m
    OBVIOUS
  <2>2. k \in Nat /\ Low(k) \in Int /\ Low(m) \in Int
    BY <1>1, <1>5, LowIs
  <2>3. CASE k < m
    BY <1>4, <1>5, <2>2, <2>3
  <2>4. CASE m <= k
    <3>1. Low(m) <= Low(k)
      BY <1>5, <2>2, <2>4, LowMono
    <3>. QED BY <1>4, <2>2, <2>4, <3>1
  <2>. QED BY <1>5, <2>2, <2>3, <2>4
<1>7. S = 0 .. m - 1
  BY <1>1, <1>5, <1>6
<1>8. Cardinality(S) = m
  <2>. HIDE DEF S
  <2>1. CASE m = 0
    BY <1>7, <2>1, FS_EmptySet
  <2>2. CASE m > 0
    <3>1. Cardinality(0 .. m - 1) = m - 1 - 0 + 1
      BY <1>5, <2>2, FS_Interval
    <3>. QED BY <1>5, <1>7, <3>1
  <2>. QED BY <1>5, <2>1, <2>2
<1>9. Reached(n) = m
  BY <1>8 DEF Reached, N
<1>. QED BY <1>1, <1>5, <1>6, <1>9 DEF N

\* What the block is turned into are the next samples of the recording,
\* whatever the block's size.
LEMMA ConvertIs ==
    ASSUME AudioTypeOK, Carries, ~ stopped, NEW n \in Nat \ {0}, now + n <= MaxTime
    PROVE  /\ Len(Convert(n)) = Reached(n) /\ Convert(n) \in Seq(Samples)
           /\ \A k \in 1 .. Reached(n) : Convert(n)[k] = SampleAt(Made + k - 1)
<1>1. /\ pos \in Int /\ - StepDen <= pos /\ Fed \in Nat /\ seq \in Nat /\ Len(pending) \in Nat
      /\ now \in Nat /\ times \in Seq(Samples)
  BY DEF AudioTypeOK, Carries, Fed
<1>2. Made \in Nat /\ pos = Made * StepNum - Fed * StepDen /\ Made * StepNum \in Nat
      /\ Fed * StepDen \in Nat
  BY <1>1, Rates DEF Carries, Made
<1>3. /\ Reached(n) \in Nat /\ n * StepDen \in Nat /\ Reached(n) <= n * StepDen
      /\ \A k \in 0 .. n * StepDen : k < Reached(n) <=> Low(k) + 1 < n
  <2>1. /\ Reached(n) \in 0 .. n * StepDen
        /\ \A k \in 0 .. n * StepDen : k < Reached(n) <=> Low(k) + 1 < n
    BY <1>1, ReachedIs
  <2>2. n * StepDen \in Nat
    BY Rates
  <2>. QED BY <2>1, <2>2
<1>4. ASSUME NEW k \in 1 .. Reached(n)
      PROVE  Convert(n)[k] = SampleAt(Made + k - 1) /\ Convert(n)[k] \in Samples
  <2>1. k - 1 \in Nat /\ Low(k - 1) \in Int /\ Low(k - 1) + 1 < n
    <3>1. k - 1 \in Nat /\ k - 1 < Reached(n) /\ k - 1 \in 0 .. n * StepDen
      BY <1>3
    <3>2. Low(k - 1) + 1 < n
      BY <1>3, <3>1
    <3>3. Low(k - 1) \in Int
      BY <1>1, <3>1, LowIs
    <3>. QED BY <3>1, <3>2, <3>3
  <2>2. (k - 1) * StepNum \in Nat
    BY <2>1, Rates
  <2>3. - 1 <= Low(k - 1)
    <3>1. (- 1) * StepDen <= pos + (k - 1) * StepNum
      BY <1>1, <2>2, Rates
    <3>2. pos + (k - 1) * StepNum \in Int /\ - 1 \in Int
      BY <1>1, <2>2
    <3>. QED BY <3>1, <3>2, Rates, DivAtLeast DEF Low
  <2>4. Low(k - 1) < 0 => Fed > 0
    <3>1. SUFFICES ASSUME Fed = 0 PROVE 0 <= Low(k - 1)
      BY <1>1, <2>1
    <3>2. 0 * StepDen <= pos + (k - 1) * StepNum
      BY <1>1, <1>2, <2>2, <3>1, Rates
    <3>3. pos + (k - 1) * StepNum \in Int /\ 0 \in Int
      BY <1>1, <2>2
    <3>. QED BY <3>2, <3>3, Rates, DivAtLeast DEF Low
  <2>5. Convert(n)[k] = Fed + Low(k - 1)
    <3>1. Convert(n)[k] = IF Low(k - 1) < 0 THEN tail ELSE Fed + Low(k - 1)
      BY DEF Convert
    <3>2. CASE Low(k - 1) < 0
      BY <1>1, <2>1, <2>3, <2>4, <3>1, <3>2 DEF Carries
    <3>3. CASE ~ (Low(k - 1) < 0)
      BY <3>1, <3>3
    <3>. QED BY <3>2, <3>3
  <2>6. SampleAt(Made + k - 1) = Fed + Low(k - 1)
    <3>1. (Made + k - 1) * StepNum = Made * StepNum + (k - 1) * StepNum
      BY <1>2, <2>1, Rates
    <3>2. (Made + k - 1) * StepNum = (pos + (k - 1) * StepNum) + Fed * StepDen
      <4>1. PICK a, b, c \in Int : a = Made * StepNum /\ b = (k - 1) * StepNum /\ c = Fed * StepDen
        <5>1. Made * StepNum \in Int /\ Fed * StepDen \in Int
          BY <1>1, <1>2, Rates
        <5>. QED BY <2>2, <5>1
      <4>2. pos = a - c
        BY <1>1, <4>1 DEF Carries
      <4>3. a + b = ((a - c) + b) + c
        BY <4>1
      <4>. QED BY <3>1, <4>1, <4>2, <4>3
    <3>3. pos + (k - 1) * StepNum \in Int /\ Fed \in Int
      BY <1>1, <2>2
    <3>4. ((pos + (k - 1) * StepNum) + Fed * StepDen) \div StepDen
            = (pos + (k - 1) * StepNum) \div StepDen + Fed
      BY <3>3, Rates, DivShift
    <3>5. Low(k - 1) + Fed = Fed + Low(k - 1)
      BY <1>1, <2>1
    <3>. QED BY <3>2, <3>4, <3>5 DEF SampleAt, Low
  <2>7. Fed + Low(k - 1) \in Samples
    <3>1. 0 <= Fed + Low(k - 1)
      BY <1>1, <2>1, <2>3, <2>4
    <3>2. Fed + Low(k - 1) < MaxTime
      BY <1>1, <2>1, Rates DEF Carries
    <3>. QED BY <1>1, <2>1, <3>1, <3>2, Rates DEF Samples
  <2>. QED BY <2>5, <2>6, <2>7
<1>5. Convert(n) \in [1 .. Reached(n) -> Samples]
  BY <1>4 DEF Convert
<1>6. Convert(n) \in Seq(Samples) /\ Len(Convert(n)) = Reached(n)
  BY <1>3, <1>5
<1>. QED BY <1>4, <1>6

\* What a block is cut into: frames in their places, and a rest shorter than
\* a frame that is the beginning of the next one.
LEMMA CutIs ==
    ASSUME NEW all \in Seq(Samples), seq \in Nat,
           \A i \in 1 .. Len(all) : all[i] = SampleAt(seq * FrameSize + i - 1)
    PROVE  /\ Cut(all) \in Seq(Frames)
           /\ Len(Cut(all)) \in Nat
           /\ \A j \in 1 .. Len(Cut(all)) : Cut(all)[j].seq = seq + j /\ FrameInPlace(Cut(all)[j])
           /\ Rest(all) \in Seq(Samples) /\ Len(Rest(all)) < FrameSize
           /\ Len(Cut(all)) * FrameSize + Len(Rest(all)) = Len(all)
           /\ \A i \in 1 .. Len(Rest(all)) :
                Rest(all)[i] = SampleAt((seq + Len(Cut(all))) * FrameSize + i - 1)
<1>. DEFINE L == Len(all)
            q == L \div FrameSize
<1>1. L \in Nat /\ \A i \in 1 .. L : all[i] \in Samples
  BY ElementOfSeq
<1>2. q \in Nat /\ q * FrameSize <= L /\ L < (q + 1) * FrameSize /\ q * FrameSize \in Nat
  <2>1. L \in Int /\ FrameSize \in Nat \ {0} /\ 0 * FrameSize <= L /\ 0 \in Int
    BY <1>1, Rates
  <2>2. q \in Int /\ q * FrameSize <= L /\ L < (q + 1) * FrameSize
    BY <2>1, DivBounds
  <2>3. 0 <= q
    BY <2>1, DivAtLeast
  <2>. QED BY <2>1, <2>2, <2>3
<1>. HIDE DEF q, L
<1>3. (q + 1) * FrameSize = q * FrameSize + FrameSize
  BY <1>2, Rates
<1>4. ASSUME NEW j \in 1 .. q
      PROVE  /\ Cut(all)[j] \in Frames /\ Cut(all)[j].seq = seq + j
             /\ FrameInPlace(Cut(all)[j])
  <2>. DEFINE b == (j - 1) * FrameSize
              pcm == SubSeq(all, b + 1, j * FrameSize)
  <2>1. j \in Nat /\ j - 1 \in Nat /\ j <= q
    BY <1>2
  <2>2. j * FrameSize \in Nat /\ b \in Nat /\ j * FrameSize = b + FrameSize
        /\ j * FrameSize <= q * FrameSize
    BY <1>2, <2>1, Rates
  <2>. HIDE DEF b
  <2>3. \A i \in b + 1 .. j * FrameSize : i \in 1 .. L
    BY <1>1, <1>2, <2>2
  <2>4. \A i \in b + 1 .. j * FrameSize : all[i] \in Samples
    BY <1>1, <2>3
  <2>5. b + 1 \in Int /\ j * FrameSize \in Int /\ b + 1 <= j * FrameSize
        /\ j * FrameSize - (b + 1) + 1 = FrameSize
    BY <2>2, Rates
  <2>6. /\ pcm \in Seq(Samples) /\ Len(pcm) = FrameSize
        /\ \A i \in 1 .. FrameSize : pcm[i] = all[b + 1 + i - 1]
    <3>1. PICK c, m \in Int : c = b + 1 /\ m = j * FrameSize
      BY <2>5
    <3>2. \A i \in c .. m : all[i] \in Samples
      BY <2>4, <3>1
    <3>3. /\ SubSeq(all, c, m) \in Seq(Samples)
          /\ Len(SubSeq(all, c, m)) = IF c <= m THEN m - c + 1 ELSE 0
          /\ \A i \in 1 .. m - c + 1 : SubSeq(all, c, m)[i] = all[c + i - 1]
      BY <3>2, SubSeqProperties
    <3>4. c <= m /\ m - c + 1 = FrameSize /\ pcm = SubSeq(all, c, m)
      BY <2>5, <3>1
    <3>. HIDE DEF pcm
    <3>5. pcm \in Seq(Samples) /\ Len(pcm) = FrameSize
      BY <3>3, <3>4
    <3>6. \A i \in 1 .. FrameSize : pcm[i] = all[c + i - 1]
      BY <3>3, <3>4
    <3>. QED BY <3>1, <3>5, <3>6
  <2>7. Cut(all)[j] = [seq |-> seq + j, at |-> (seq + j - 1) * FrameSize, pcm |-> pcm]
    BY DEF Cut, b, q, L
  <2>8. seq + j \in Nat \ {0} /\ (seq + j - 1) * FrameSize \in Nat
        /\ (seq + j - 1) * FrameSize = seq * FrameSize + b
    <3>1. seq + j - 1 \in Nat /\ seq + j - 1 = seq + (j - 1)
      BY <2>1
    <3>2. (seq + j - 1) * FrameSize = seq * FrameSize + (j - 1) * FrameSize
      BY <2>1, <3>1, Rates
    <3>. QED BY <2>1, <3>1, <3>2, Rates DEF b
  <2>9. ASSUME NEW i \in 1 .. FrameSize
        PROVE  pcm[i] = SampleAt((seq + j - 1) * FrameSize + i - 1)
    <3>1. b + 1 + i - 1 = b + i /\ b + i \in b + 1 .. j * FrameSize
      BY <2>2, Rates
    <3>2. pcm[i] = all[b + i] /\ b + i \in 1 .. L
      BY <2>3, <2>6, <3>1
    <3>3. all[b + i] = SampleAt(seq * FrameSize + (b + i) - 1)
      BY <3>2 DEF L
    <3>4. seq * FrameSize + (b + i) - 1 = (seq + j - 1) * FrameSize + i - 1
      BY <2>2, <2>8, Rates
    <3>. QED BY <3>2, <3>3, <3>4
  <2>. HIDE DEF pcm
  <2>. QED BY <2>6, <2>7, <2>8, <2>9 DEF Frames, FrameInPlace
<1>5. Len(Cut(all)) = q /\ Cut(all) \in Seq(Frames)
  <2>1. Cut(all) \in [1 .. q -> Frames]
    BY <1>4 DEF Cut, q, L
  <2>. QED BY <1>2, <2>1
<1>6. /\ Rest(all) \in Seq(Samples) /\ Len(Rest(all)) = L - q * FrameSize
      /\ \A i \in 1 .. Len(Rest(all)) : Rest(all)[i] = all[q * FrameSize + i]
  <2>1. PICK c \in Nat : c = q * FrameSize
    BY <1>2
  <2>2. \A i \in c + 1 .. L : all[i] \in Samples
    BY <1>1, <2>1
  <2>3. c + 1 \in Int /\ L \in Int /\ c <= L
    BY <1>1, <1>2, <2>1
  <2>4. Rest(all) = SubSeq(all, c + 1, L)
    BY <2>1 DEF Rest, q, L
  <2>5. /\ SubSeq(all, c + 1, L) \in Seq(Samples)
        /\ Len(SubSeq(all, c + 1, L)) = IF c + 1 <= L THEN L - (c + 1) + 1 ELSE 0
        /\ \A i \in 1 .. L - (c + 1) + 1 : SubSeq(all, c + 1, L)[i] = all[c + 1 + i - 1]
    BY <2>2, <2>3, SubSeqProperties
  <2>6. Len(Rest(all)) = L - c
    BY <2>3, <2>4, <2>5
  <2>7. \A i \in 1 .. L - c : i \in 1 .. L - (c + 1) + 1 /\ c + 1 + i - 1 = c + i
    BY <2>3
  <2>. QED BY <2>1, <2>4, <2>5, <2>6, <2>7
<1>7. ASSUME NEW i \in 1 .. Len(Rest(all))
      PROVE  Rest(all)[i] = SampleAt((seq + q) * FrameSize + i - 1)
  <2>1. q * FrameSize + i \in 1 .. L
    BY <1>1, <1>2, <1>6
  <2>2. all[q * FrameSize + i] = SampleAt(seq * FrameSize + (q * FrameSize + i) - 1)
    BY <2>1 DEF L
  <2>3. (seq + q) * FrameSize = seq * FrameSize + q * FrameSize /\ seq * FrameSize \in Nat
    BY <1>2, Rates
  <2>4. seq * FrameSize + (q * FrameSize + i) - 1 = (seq + q) * FrameSize + i - 1
    BY <1>2, <2>3
  <2>. QED BY <1>6, <2>2, <2>4
<1>8. Len(Rest(all)) < FrameSize /\ q * FrameSize + Len(Rest(all)) = L
  BY <1>1, <1>2, <1>3, <1>6, Rates
<1>. QED BY <1>2, <1>4, <1>5, <1>6, <1>7, <1>8 DEF L

\* The queue keeps the newest frames, and counts those that make room.
LEMMA EnqueueIs ==
    ASSUME NEW frames \in Seq(Frames), Enqueue(frames), dropped \in Nat
    PROVE  /\ queue' \in Seq(Frames) /\ Len(queue') <= QueueCap /\ Len(queue') <= Len(frames)
           /\ dropped' = dropped + (Len(frames) - Len(queue')) /\ dropped' \in Nat
           /\ \A i \in 1 .. Len(queue') :
                /\ (Len(frames) - Len(queue')) + i \in 1 .. Len(frames)
                /\ queue'[i] = frames[(Len(frames) - Len(queue')) + i]
<1>1. PICK v \in Nat : v = Overflow(frames) /\ v <= Len(frames)
                       /\ Len(frames) - v <= QueueCap
  <2>1. Len(frames) \in Nat /\ QueueCap \in Nat
    BY Rates
  <2>2. /\ Overflow(frames) \in Nat /\ Overflow(frames) <= Len(frames)
        /\ Len(frames) - Overflow(frames) <= QueueCap
    <3>1. CASE Len(frames) > QueueCap
      <4>1. Overflow(frames) = Len(frames) - QueueCap
        BY <3>1 DEF Overflow
      <4>. QED BY <2>1, <3>1, <4>1
    <3>2. CASE ~ (Len(frames) > QueueCap)
      <4>1. Overflow(frames) = 0
        BY <3>2 DEF Overflow
      <4>. QED BY <2>1, <3>2, <4>1
    <3>. QED BY <3>1, <3>2
  <2>. QED BY <2>2
<1>2. PICK N \in Nat : N = Len(frames)
  OBVIOUS
<1>3. \A i \in v + 1 .. N : frames[i] \in Frames
  BY <1>1, <1>2, ElementOfSeq
<1>4. v + 1 \in Int /\ N \in Int
  OBVIOUS
<1>5. /\ SubSeq(frames, v + 1, N) \in Seq(Frames)
      /\ Len(SubSeq(frames, v + 1, N)) = IF v + 1 <= N THEN N - (v + 1) + 1 ELSE 0
      /\ \A i \in 1 .. N - (v + 1) + 1 : SubSeq(frames, v + 1, N)[i] = frames[v + 1 + i - 1]
  BY <1>3, <1>4, SubSeqProperties
<1>6. queue' = SubSeq(frames, v + 1, N) /\ dropped' = dropped + v
  BY <1>1, <1>2 DEF Enqueue
<1>7. Len(queue') = N - v
  BY <1>1, <1>2, <1>5, <1>6
<1>8. \A i \in 1 .. N - v : i \in 1 .. N - (v + 1) + 1 /\ v + 1 + i - 1 = v + i /\ v + i \in 1 .. N
  BY <1>1, <1>2
<1>9. \A i \in 1 .. N - v : queue'[i] = frames[v + i]
  BY <1>5, <1>6, <1>8
<1>10. N - Len(queue') = v
  BY <1>1, <1>2, <1>7
<1>11. \A i \in 1 .. Len(queue') : v + i \in 1 .. N /\ queue'[i] = frames[v + i]
  BY <1>7, <1>8, <1>9
<1>12. Len(queue') <= QueueCap /\ Len(queue') <= N /\ dropped' \in Nat
  <2>1. N - v <= QueueCap /\ N - v <= N
    BY <1>1, <1>2
  <2>2. dropped + v \in Nat
    BY <1>1
  <2>. QED BY <1>6, <1>7, <2>1, <2>2
<1>. QED BY <1>2, <1>5, <1>6, <1>10, <1>11, <1>12

LEMMA DataKeeps ==
    ASSUME AudioInv, NEW n \in Blocks, DataAvailable(n)
    PROVE  AudioInv'
<1>. USE DEF AudioInv
<1>1. /\ n \in Nat \ {0} /\ ~ stopped /\ now + n <= MaxTime
      /\ UNCHANGED <<batch, given, wav, stopped>>
  BY Rates DEF DataAvailable
<1>2. PICK all : all = pending \o Convert(n)
  OBVIOUS
<1>3. /\ Enqueue(queue \o Cut(all)) /\ seq' = seq + Len(Cut(all)) /\ pending' = Rest(all)
      /\ pos' = Carry(n) /\ tail' = Fed + n - 1
      /\ now' = now + n /\ times' = times \o [i \in 1 .. n |-> now + i - 1]
  BY <1>2 DEF DataAvailable
<1>4. /\ seq \in Nat /\ pending \in Seq(Samples) /\ Len(pending) \in Nat /\ queue \in Seq(Frames)
      /\ Len(queue) \in Nat /\ dropped \in Nat /\ given \in Nat /\ now \in Nat
      /\ times \in Seq(Samples) /\ Fed \in Nat /\ Fed <= now /\ pos \in Int
      /\ seq * FrameSize \in Nat
  BY Rates DEF AudioTypeOK, Carries, Fed
<1>5. PICK R \in Nat : R = Reached(n)
  <2>1. n * StepDen \in Nat
    BY <1>1, Rates
  <2>. QED BY <1>1, <1>4, <2>1, ReachedIs DEF Carries
<1>6. /\ Len(Convert(n)) = R /\ Convert(n) \in Seq(Samples)
      /\ \A k \in 1 .. R : Convert(n)[k] = SampleAt(Made + k - 1)
  BY <1>1, <1>5, ConvertIs
<1>7. /\ all \in Seq(Samples) /\ Len(all) = Len(pending) + R
      /\ \A i \in 1 .. Len(pending) + R :
           all[i] = IF i <= Len(pending) THEN pending[i] ELSE Convert(n)[i - Len(pending)]
  BY <1>2, <1>4, <1>6, ConcatProperties
<1>8. ASSUME NEW i \in 1 .. Len(all) PROVE all[i] = SampleAt(seq * FrameSize + i - 1)
  <2>1. CASE i <= Len(pending)
    <3>1. \A k \in 1 .. Len(pending) : pending[k] = SampleAt(seq * FrameSize + k - 1)
      BY <1>1 DEF Carries
    <3>2. i \in 1 .. Len(pending)
      BY <1>4, <1>7, <2>1
    <3>. QED BY <1>7, <2>1, <3>1, <3>2
  <2>2. CASE ~ (i <= Len(pending))
    <3>1. i - Len(pending) \in 1 .. R
      BY <1>4, <1>7, <2>2
    <3>2. Convert(n)[i - Len(pending)] = SampleAt(Made + (i - Len(pending)) - 1)
      BY <1>6, <3>1
    <3>3. Made + (i - Len(pending)) - 1 = seq * FrameSize + i - 1
      BY <1>4, <1>7 DEF Made
    <3>. QED BY <1>7, <2>2, <3>2, <3>3
  <2>. QED BY <2>1, <2>2
<1>9. PICK q \in Nat : /\ q = Len(Cut(all)) /\ Cut(all) \in Seq(Frames)
                       /\ \A j \in 1 .. q : Cut(all)[j].seq = seq + j /\ FrameInPlace(Cut(all)[j])
                       /\ Rest(all) \in Seq(Samples) /\ Len(Rest(all)) < FrameSize
                       /\ q * FrameSize + Len(Rest(all)) = Len(all)
                       /\ \A i \in 1 .. Len(Rest(all)) :
                            Rest(all)[i] = SampleAt((seq + q) * FrameSize + i - 1)
  BY <1>4, <1>7, <1>8, CutIs
<1>10. PICK frames \in Seq(Frames) :
         /\ frames = queue \o Cut(all) /\ Len(frames) = Len(queue) + q
         /\ \A i \in 1 .. Len(queue) + q :
              frames[i] = IF i <= Len(queue) THEN queue[i] ELSE Cut(all)[i - Len(queue)]
  <2>1. Cut(all) \in Seq(Frames) /\ Len(Cut(all)) = q
    BY <1>9
  <2>2. /\ queue \o Cut(all) \in Seq(Frames)
        /\ Len(queue \o Cut(all)) = Len(queue) + Len(Cut(all))
        /\ \A i \in 1 .. Len(queue) + Len(Cut(all)) : (queue \o Cut(all))[i] =
              IF i <= Len(queue) THEN queue[i] ELSE Cut(all)[i - Len(queue)]
    BY <1>4, <2>1, ConcatProperties
  <2>. QED BY <2>1, <2>2
<1>11. ASSUME NEW i \in 1 .. Len(frames)
       PROVE  FrameInPlace(frames[i]) /\ frames[i].seq = seq - Len(queue) + i
  <2>1. CASE i <= Len(queue)
    <3>1. i \in 1 .. Len(queue) /\ frames[i] = queue[i]
      BY <1>4, <1>10, <2>1
    <3>2. queue[i].seq = seq - Len(queue) + i
      BY <1>1, <1>4, <3>1 DEF LossIsCounted
    <3>. QED BY <3>1, <3>2 DEF FramesInPlace
  <2>2. CASE ~ (i <= Len(queue))
    <3>1. i - Len(queue) \in 1 .. q /\ frames[i] = Cut(all)[i - Len(queue)]
      BY <1>4, <1>10, <2>2
    <3>2. seq + (i - Len(queue)) = seq - Len(queue) + i
      BY <1>4, <1>10
    <3>. QED BY <1>9, <3>1, <3>2
  <2>. QED BY <2>1, <2>2
<1>12. PICK v \in Nat :
         /\ Len(queue') = Len(frames) - v /\ v <= Len(frames)
         /\ queue' \in Seq(Frames) /\ Len(queue') <= QueueCap
         /\ dropped' = dropped + v /\ dropped' \in Nat
         /\ \A i \in 1 .. Len(queue') : v + i \in 1 .. Len(frames) /\ queue'[i] = frames[v + i]
  <2>1. Enqueue(frames)
    BY <1>3, <1>10
  <2>2. /\ queue' \in Seq(Frames) /\ Len(queue') <= QueueCap /\ Len(queue') <= Len(frames)
        /\ dropped' = dropped + (Len(frames) - Len(queue')) /\ dropped' \in Nat
        /\ \A i \in 1 .. Len(queue') :
             /\ (Len(frames) - Len(queue')) + i \in 1 .. Len(frames)
             /\ queue'[i] = frames[(Len(frames) - Len(queue')) + i]
    BY <1>4, <2>1, EnqueueIs
  <2>3. Len(queue') \in Nat /\ Len(frames) \in Nat
    BY <2>2
  <2>4. PICK w \in Nat : w = Len(frames) - Len(queue')
    BY <2>2, <2>3
  <2>5. Len(queue') = Len(frames) - w /\ w <= Len(frames)
    BY <2>2, <2>3, <2>4
  <2>. QED BY <2>2, <2>4, <2>5
<1>13. ASSUME NEW i \in 1 .. Len(queue')
       PROVE  FrameInPlace(queue'[i]) /\ queue'[i].seq = seq' - Len(queue') + i
  <2>1. v + i \in 1 .. Len(frames) /\ queue'[i] = frames[v + i]
    BY <1>12
  <2>2. FrameInPlace(frames[v + i]) /\ frames[v + i].seq = seq - Len(queue) + (v + i)
    BY <1>11, <2>1
  <2>3. seq - Len(queue) + (v + i) = seq' - Len(queue') + i
    BY <1>3, <1>4, <1>9, <1>10, <1>12
  <2>. QED BY <2>1, <2>2, <2>3
<1>14. FramesInPlace'
  <2>1. \A u \in PumpTicks : \A i \in 1 .. Len(batch[u]) : FrameInPlace(batch[u][i])
    BY DEF FramesInPlace
  <2>. QED BY <1>1, <1>13, <2>1 DEF FramesInPlace, FrameInPlace
<1>15. LossIsCounted'
  <2>1. InHand' = InHand
    BY <1>1 DEF InHand
  <2>2. seq = dropped + given + Len(queue) + Cardinality(InHand)
    BY <1>1 DEF LossIsCounted
  <2>3. seq' = dropped' + given + Len(queue') + Cardinality(InHand)
    <3>1. PICK h : h = Cardinality(InHand)
      OBVIOUS
    <3>2. h \in Int
      <4>1. IsFiniteSet(1 .. DrainMax)
        BY Rates, FS_Interval
      <4>2. IsFiniteSet(PumpTicks \X (1 .. DrainMax))
        BY <4>1, Rates, FS_Product
      <4>3. InHand \subseteq PumpTicks \X (1 .. DrainMax)
        BY DEF InHand
      <4>4. IsFiniteSet(InHand)
        BY <4>2, <4>3, FS_Subset
      <4>. QED BY <3>1, <4>4, FS_CardinalityType
    <3>3. seq' = seq + q /\ Len(queue') = Len(queue) + q - v /\ dropped' = dropped + v
      BY <1>3, <1>9, <1>10, <1>12
    <3>4. seq = dropped + given + Len(queue) + h
      BY <2>2, <3>1
    <3>5. seq' = dropped' + given + Len(queue') + h
      BY <1>4, <3>2, <3>3, <3>4
    <3>. QED BY <3>1, <3>5
  <2>4. DOMAIN queue' = 1 .. Len(queue')
    BY <1>12
  <2>. QED BY <1>1, <1>13, <2>1, <2>3, <2>4 DEF LossIsCounted
<1>16. Len(times') = Fed + n /\ times' \in Seq(Samples)
  <2>1. \A i \in 1 .. n : now + i - 1 \in Samples
    BY <1>1, <1>4, Rates DEF Samples
  <2>2. [i \in 1 .. n |-> now + i - 1] \in Seq(Samples) /\ Len([i \in 1 .. n |-> now + i - 1]) = n
    BY <1>1, <2>1
  <2>3. PICK new \in Seq(Samples) : new = [i \in 1 .. n |-> now + i - 1] /\ Len(new) = n
    BY <2>2
  <2>4. times' = times \o new
    BY <1>3, <2>3
  <2>5. times \o new \in Seq(Samples) /\ Len(times \o new) = Len(times) + Len(new)
    BY <1>4, <2>3, ConcatProperties
  <2>. QED BY <2>3, <2>4, <2>5 DEF Fed
<1>17. Carries'
  <2>1. Fed' = Fed + n
    BY <1>16 DEF Fed
  <2>2. Made' = Made + R
    <3>1. (seq + q) * FrameSize = seq * FrameSize + q * FrameSize /\ q * FrameSize \in Nat
      BY <1>4, Rates
    <3>2. Len(Rest(all)) \in Nat
      BY <1>9
    <3>3. Made' = (seq + q) * FrameSize + Len(Rest(all))
      BY <1>3, <1>9 DEF Made
    <3>4. q * FrameSize + Len(Rest(all)) = Len(pending) + R
      BY <1>7, <1>9
    <3>5. PICK a, b \in Nat : a = seq * FrameSize /\ b = q * FrameSize
      BY <1>4, <3>1
    <3>6. Made = a + Len(pending) /\ Made' = (a + b) + Len(Rest(all))
      BY <3>1, <3>3, <3>5 DEF Made
    <3>7. b + Len(Rest(all)) = Len(pending) + R
      BY <3>4, <3>5
    <3>8. a \in Int /\ b \in Int /\ R \in Int /\ Len(pending) \in Int
      BY <1>4, <1>5, <3>5
    <3>9. PICK r \in Nat : r = Len(Rest(all))
      BY <3>2
    <3>10. Made' = (a + b) + r /\ b + r = Len(pending) + R
      BY <3>6, <3>7, <3>9
    <3>. QED BY <3>6, <3>8, <3>9, <3>10
  <2>3. Made \in Nat
    BY <1>4 DEF Made
  <2>4. pos' = pos + R * StepNum - n * StepDen
    BY <1>3, <1>5 DEF Carry
  <2>5. pos = Made * StepNum - Fed * StepDen /\ - StepDen <= pos
    BY <1>1 DEF Carries
  <2>6. pos' = Made' * StepNum - Fed' * StepDen
    <3>1. (Made + R) * StepNum = Made * StepNum + R * StepNum
      BY <2>3, Rates
    <3>2. (Fed + n) * StepDen = Fed * StepDen + n * StepDen
      BY <1>1, <1>4, Rates
    <3>3. /\ Made * StepNum \in Int /\ R * StepNum \in Int /\ Fed * StepDen \in Int
          /\ n * StepDen \in Int
      BY <1>1, <1>4, <2>3, Rates
    <3>. QED BY <2>1, <2>2, <2>4, <2>5, <3>1, <3>2, <3>3
  <2>7. - StepDen <= pos'
    <3>1. /\ R <= n * StepDen /\ n * StepDen \in Nat
          /\ \A k \in 0 .. n * StepDen : k < R <=> Low(k) + 1 < n
      <4>1. n * StepDen \in Nat
        BY <1>1, Rates
      <4>2. /\ Reached(n) \in 0 .. n * StepDen
            /\ \A k \in 0 .. n * StepDen : k < Reached(n) <=> Low(k) + 1 < n
        BY <1>1, <1>4, <2>5, ReachedIs
      <4>. QED BY <1>5, <4>1, <4>2
    <3>2. R \in 0 .. n * StepDen /\ ~ (R < R)
      BY <3>1
    <3>3. ~ (Low(R) + 1 < n)
      BY <3>1, <3>2
    <3>4. Low(R) \in Int /\ Low(R) * StepDen <= pos + R * StepNum
      BY <1>4, LowIs
    <3>5. n - 1 <= Low(R)
      BY <1>1, <3>3, <3>4
    <3>6. (n - 1) * StepDen <= Low(R) * StepDen
      BY <1>1, <3>4, <3>5, Rates
    <3>7. (n - 1) * StepDen = n * StepDen - StepDen
      BY <1>1, Rates
    <3>8. R * StepNum \in Int /\ n * StepDen \in Int /\ Low(R) * StepDen \in Int
      BY <1>1, <3>4, Rates
    <3>. QED BY <1>4, <2>4, <3>4, <3>6, <3>7, <3>8, Rates
  <2>8. \A i \in 1 .. Len(pending') : pending'[i] = SampleAt(seq' * FrameSize + i - 1)
    BY <1>3, <1>9
  <2>9. Fed' > 0 => tail' = Fed' - 1
    BY <1>1, <1>3, <1>4, <2>1
  <2>10. Fed' <= now'
    BY <1>1, <1>3, <1>4, <2>1
  <2>. QED BY <2>6, <2>7, <2>8, <2>9, <2>10 DEF Carries
<1>18. AudioTypeOK'
  <2>1. now' \in 0 .. MaxTime
    BY <1>1, <1>3, <1>4, Rates
  <2>2. tail' \in Samples
    BY <1>1, <1>3, <1>4, Rates DEF Samples
  <2>3. pos' \in Int
    <3>1. R * StepNum \in Int /\ n * StepDen \in Int
      BY <1>1, Rates
    <3>2. pos' = pos + R * StepNum - n * StepDen
      BY <1>3, <1>5 DEF Carry
    <3>3. PICK a, b \in Int : a = R * StepNum /\ b = n * StepDen
      BY <3>1
    <3>4. pos' = pos + a - b /\ pos \in Int
      BY <1>4, <3>2, <3>3
    <3>. QED BY <3>3, <3>4
  <2>4. \A f \in {queue'[i] : i \in DOMAIN queue'} : Len(f.pcm) = FrameSize
    <3>1. DOMAIN queue' = 1 .. Len(queue')
      BY <1>12
    <3>. QED BY <1>13, <3>1 DEF FrameInPlace
  <2>5. seq' \in Nat /\ dropped' \in Nat /\ given' \in Nat
    <3>1. seq' = seq + q /\ seq \in Nat /\ q \in Nat
      BY <1>3, <1>4, <1>9
    <3>2. given' = given /\ given \in Nat
      BY <1>1, <1>4
    <3>3. seq + q \in Nat
      BY <3>1
    <3>. QED BY <1>12, <3>1, <3>2, <3>3
  <2>. QED BY <1>1, <1>3, <1>9, <1>12, <1>16, <2>1, <2>2, <2>3, <2>4, <2>5
       DEF AudioTypeOK
<1>19. AudioKeepsItsPlace' /\ BatchesFit'
  BY <1>1 DEF AudioKeepsItsPlace, BatchesFit
<1>. QED BY <1>14, <1>15, <1>17, <1>18, <1>19

LEMMA InHandFinite == IsFiniteSet(InHand) /\ Cardinality(InHand) \in Nat
<1>1. IsFiniteSet(1 .. DrainMax)
  BY Rates, FS_Interval
<1>2. IsFiniteSet(PumpTicks \X (1 .. DrainMax))
  BY <1>1, Rates, FS_Product
<1>3. InHand \subseteq PumpTicks \X (1 .. DrainMax)
  BY DEF InHand
<1>. QED BY <1>2, <1>3, FS_Subset, FS_CardinalityType

LEMMA PauseKeeps ==
    ASSUME AudioInv, NEW n \in Blocks, Pause(n)
    PROVE  AudioInv'
<1>1. /\ UNCHANGED <<times, tail, pos, pending, seq, queue, dropped, batch, given, wav, stopped>>
      /\ now' = now + n /\ now + n <= MaxTime /\ n \in Nat
  BY Rates DEF Pause, buffers
<1>2. now \in 0 .. MaxTime /\ Fed \in Nat
  BY DEF AudioInv, AudioTypeOK, Fed
<1>3. AudioTypeOK'
  BY <1>1, <1>2, Rates DEF AudioInv, AudioTypeOK
<1>4. Carries'
  BY <1>1, <1>2, Rates DEF AudioInv, Carries, Made, Fed
<1>5. FramesInPlace' /\ AudioKeepsItsPlace' /\ BatchesFit' /\ LossIsCounted'
  BY <1>1 DEF AudioInv, FramesInPlace, FrameInPlace, AudioKeepsItsPlace, BatchesFit, LossIsCounted, InHand
<1>. QED BY <1>3, <1>4, <1>5 DEF AudioInv

LEMMA PumpTakesKeeps ==
    ASSUME AudioInv, NEW u \in PumpTicks, PumpTakes(u)
    PROVE  AudioInv'
<1>. USE DEF AudioInv
<1>1. /\ ~ stopped /\ batch[u] = << >> /\ queue # << >>
      /\ batch' = [batch EXCEPT ![u] = SubSeq(queue, 1, Taken)]
      /\ queue' = SubSeq(queue, Taken + 1, Len(queue))
      /\ UNCHANGED <<now, times, tail, pos, pending, seq, dropped, given, wav, stopped>>
  BY DEF PumpTakes
<1>2. /\ queue \in Seq(Frames) /\ batch \in [PumpTicks -> Seq(Frames)] /\ seq \in Nat
      /\ dropped \in Nat /\ given \in Nat
  BY DEF AudioTypeOK
<1>3. PICK N \in Nat : N = Len(queue) /\ N > 0 /\ N <= QueueCap
  BY <1>1, <1>2, EmptySeq, Rates DEF AudioTypeOK
<1>4. PICK t \in Nat : t = Taken /\ t <= N /\ t <= DrainMax
  <2>1. CASE Len(queue) < DrainMax
    BY <1>3, <2>1, Rates DEF Taken
  <2>2. CASE ~ (Len(queue) < DrainMax)
    BY <1>3, <2>2, Rates DEF Taken
  <2>. QED BY <2>1, <2>2
<1>5. \A i \in 1 .. N : queue[i] \in Frames /\ FrameInPlace(queue[i]) /\ queue[i].seq = seq - N + i
  <2>1. DOMAIN queue = 1 .. N
    BY <1>2, <1>3
  <2>2. \A i \in 1 .. N : queue[i] \in Frames
    BY <1>2, <1>3, ElementOfSeq
  <2>3. \A i \in 1 .. N : FrameInPlace(queue[i])
    BY <1>3 DEF FramesInPlace
  <2>4. \A i \in DOMAIN queue : queue[i].seq = seq - Len(queue) + i
    BY <1>1 DEF LossIsCounted
  <2>. QED BY <1>3, <2>1, <2>2, <2>3, <2>4
<1>6. /\ SubSeq(queue, 1, t) \in Seq(Frames) /\ Len(SubSeq(queue, 1, t)) = t
      /\ \A i \in 1 .. t : SubSeq(queue, 1, t)[i] = queue[i]
  <2>1. \A i \in 1 .. t : queue[i] \in Frames
    BY <1>3, <1>4, <1>5
  <2>2. /\ SubSeq(queue, 1, t) \in Seq(Frames)
        /\ Len(SubSeq(queue, 1, t)) = IF 1 <= t THEN t - 1 + 1 ELSE 0
        /\ \A i \in 1 .. t - 1 + 1 : SubSeq(queue, 1, t)[i] = queue[1 + i - 1]
    BY <1>4, <2>1, SubSeqProperties
  <2>3. \A i \in 1 .. t : i \in 1 .. t - 1 + 1 /\ 1 + i - 1 = i
    BY <1>4
  <2>. QED BY <1>4, <2>2, <2>3
<1>7. /\ queue' \in Seq(Frames) /\ Len(queue') = N - t
      /\ \A i \in 1 .. N - t : queue'[i] = queue[t + i]
  <2>1. \A i \in t + 1 .. N : queue[i] \in Frames
    BY <1>3, <1>4, <1>5
  <2>2. t + 1 \in Int /\ N \in Int
    BY <1>3, <1>4
  <2>3. /\ SubSeq(queue, t + 1, N) \in Seq(Frames)
        /\ Len(SubSeq(queue, t + 1, N)) = IF t + 1 <= N THEN N - (t + 1) + 1 ELSE 0
        /\ \A i \in 1 .. N - (t + 1) + 1 : SubSeq(queue, t + 1, N)[i] = queue[t + 1 + i - 1]
    BY <2>1, <2>2, SubSeqProperties
  <2>4. queue' = SubSeq(queue, t + 1, N)
    BY <1>1, <1>3, <1>4
  <2>5. \A i \in 1 .. N - t : i \in 1 .. N - (t + 1) + 1 /\ t + 1 + i - 1 = t + i
    BY <1>3, <1>4
  <2>6. Len(queue') = N - t
    BY <1>3, <1>4, <2>3, <2>4
  <2>. QED BY <2>3, <2>4, <2>5, <2>6
<1>8. ASSUME NEW i \in 1 .. N - t
      PROVE  FrameInPlace(queue'[i]) /\ queue'[i].seq = seq - (N - t) + i
  <2>1. t + i \in 1 .. N
    BY <1>3, <1>4
  <2>2. FrameInPlace(queue[t + i]) /\ queue[t + i].seq = seq - N + (t + i)
    BY <1>5, <2>1
  <2>3. seq - N + (t + i) = seq - (N - t) + i
    BY <1>2, <1>3, <1>4
  <2>. QED BY <1>7, <2>2, <2>3
<1>9. /\ batch'[u] = SubSeq(queue, 1, t) /\ \A v \in PumpTicks : v # u => batch'[v] = batch[v]
      /\ batch' \in [PumpTicks -> Seq(Frames)] /\ Len(batch[u]) = 0
  BY <1>1, <1>2, <1>4, <1>6, EmptySeq
<1>10. FramesInPlace'
  <2>1. \A i \in 1 .. Len(queue') : FrameInPlace(queue'[i])
    BY <1>7, <1>8
  <2>2. ASSUME NEW v \in PumpTicks, NEW i \in 1 .. Len(batch'[v]) PROVE FrameInPlace(batch'[v][i])
    <3>1. CASE v = u
      <4>1. i \in 1 .. t /\ i \in 1 .. N /\ batch'[v][i] = queue[i]
        BY <1>3, <1>4, <1>6, <1>9, <2>2, <3>1
      <4>. QED BY <1>5, <4>1
    <3>2. CASE v # u
      BY <1>9, <2>2, <3>2 DEF FramesInPlace
    <3>. QED BY <3>1, <3>2
  <2>. QED BY <2>1, <2>2 DEF FramesInPlace, FrameInPlace
<1>11. BatchesFit'
  BY <1>4, <1>6, <1>9 DEF BatchesFit
<1>12. Cardinality(InHand') = Cardinality(InHand) + t
  <2>. DEFINE Drained == {u} \X (1 .. t)
  <2>1. IsFiniteSet(Drained) /\ Cardinality(Drained) = t
    <3>1. IsFiniteSet({u}) /\ Cardinality({u}) = 1
      BY FS_Singleton
    <3>2. IsFiniteSet(1 .. t) /\ Cardinality(1 .. t) = t
      BY <1>4, FS_Interval
    <3>3. Cardinality(Drained) = Cardinality({u}) * Cardinality(1 .. t) /\ IsFiniteSet(Drained)
      BY <3>1, <3>2, FS_Product
    <3>. QED BY <1>4, <3>1, <3>2, <3>3
  <2>2. InHand' = InHand \cup Drained
    <3>1. ASSUME NEW v \in PumpTicks, NEW i \in 1 .. DrainMax
          PROVE  <<v, i>> \in InHand' <=> <<v, i>> \in InHand \cup Drained
      <4>1. CASE v = u
        BY <1>4, <1>6, <1>9, <4>1 DEF InHand
      <4>2. CASE v # u
        BY <1>9, <4>2 DEF InHand
      <4>. QED BY <4>1, <4>2
    <3>2. \A i \in 1 .. t : i \in 1 .. DrainMax
      BY <1>4, Rates
    <3>3. Drained \subseteq PumpTicks \X (1 .. DrainMax)
      BY <3>2
    <3>4. InHand \subseteq PumpTicks \X (1 .. DrainMax) /\ InHand' \subseteq PumpTicks \X (1 .. DrainMax)
      BY DEF InHand
    <3>. HIDE DEF Drained
    <3>. QED BY <3>1, <3>3, <3>4
  <2>3. InHand \cap Drained = {}
    <3>1. ASSUME NEW w \in Drained PROVE w \notin InHand
      <4>1. PICK i \in 1 .. t : w = <<u, i>>
        BY <3>1
      <4>. QED BY <1>4, <1>9, <4>1 DEF InHand
    <3>. HIDE DEF Drained
    <3>. QED BY <3>1
  <2>. HIDE DEF Drained
  <2>4. Cardinality(InHand \cup Drained)
          = Cardinality(InHand) + Cardinality(Drained) - Cardinality(InHand \cap Drained)
    BY <2>1, InHandFinite, FS_Union
  <2>5. Cardinality({}) = 0
    BY FS_EmptySet
  <2>6. PICK h \in Nat : h = Cardinality(InHand)
    BY InHandFinite
  <2>7. Cardinality(InHand \cup Drained) = h + t - 0
    BY <2>1, <2>3, <2>4, <2>5, <2>6
  <2>8. h + t - 0 = h + t
    BY <1>4, <2>6
  <2>. QED BY <2>2, <2>6, <2>7, <2>8
<1>13. LossIsCounted'
  <2>1. seq = dropped + given + N + Cardinality(InHand)
    BY <1>1, <1>3 DEF LossIsCounted
  <2>2. seq' = dropped' + given' + Len(queue') + Cardinality(InHand)'
    <3>1. PICK h \in Nat : h = Cardinality(InHand)
      BY InHandFinite
    <3>2. Cardinality(InHand)' = h + t
      BY <1>12, <3>1
    <3>3. seq = dropped + given + N + h
      BY <2>1, <3>1
    <3>4. dropped + given + N + h = dropped + given + (N - t) + (h + t)
      BY <1>2, <1>3, <1>4, <3>1
    <3>. QED BY <1>1, <1>7, <3>2, <3>3, <3>4
  <2>3. \A i \in DOMAIN queue' : queue'[i].seq = seq' - Len(queue') + i
    <3>1. DOMAIN queue' = 1 .. N - t
      BY <1>3, <1>4, <1>7
    <3>. QED BY <1>1, <1>7, <1>8, <3>1
  <2>. QED BY <2>2, <2>3 DEF LossIsCounted
<1>14. AudioTypeOK'
  <2>1. \A f \in {queue'[i] : i \in DOMAIN queue'} : Len(f.pcm) = FrameSize
    <3>1. DOMAIN queue' = 1 .. N - t
      BY <1>3, <1>4, <1>7
    <3>. QED BY <1>8, <3>1 DEF FrameInPlace
  <2>2. Len(queue') <= QueueCap
    BY <1>3, <1>4, <1>7, Rates
  <2>. QED BY <1>1, <1>7, <1>9, <2>1, <2>2 DEF AudioTypeOK
<1>15. Carries' /\ AudioKeepsItsPlace'
  BY <1>1 DEF Carries, Made, Fed, AudioKeepsItsPlace
<1>. QED BY <1>10, <1>11, <1>13, <1>14, <1>15

LEMMA GiveFrameKeeps ==
    ASSUME AudioInv, NEW u \in PumpTicks, GiveFrame(u)
    PROVE  AudioInv'
<1>. USE DEF AudioInv
<1>1. /\ batch[u] # << >>
      /\ wav' = Written(Head(batch[u])) /\ given' = given + 1
      /\ batch' = [batch EXCEPT ![u] = Tail(@)]
      /\ UNCHANGED <<now, times, tail, pos, pending, seq, queue, dropped, stopped>>
  BY DEF GiveFrame, buffers
<1>2. /\ batch \in [PumpTicks -> Seq(Frames)] /\ seq \in Nat /\ queue \in Seq(Frames)
      /\ dropped \in Nat /\ given \in Nat /\ wav \in [Positions -> Samples \cup {Silence}]
  BY DEF AudioTypeOK
<1>3. PICK N \in Nat : /\ N = Len(batch[u]) /\ N > 0 /\ N <= DrainMax
                       /\ Tail(batch[u]) \in Seq(Frames) /\ Len(Tail(batch[u])) = N - 1
                       /\ \A i \in 1 .. N - 1 : Tail(batch[u])[i] = batch[u][i + 1]
                       /\ Head(batch[u]) = batch[u][1] /\ Head(batch[u]) \in Frames
  <2>1. batch[u] \in Seq(Frames) /\ batch[u] # << >> /\ Len(batch[u]) \in Nat
    BY <1>1, <1>2
  <2>2. Len(batch[u]) > 0
    BY <2>1, EmptySeq
  <2>3. /\ Head(batch[u]) \in Frames
        /\ Tail(batch[u]) \in Seq(Frames) /\ Len(Tail(batch[u])) = Len(batch[u]) - 1
        /\ \A i \in 1 .. Len(Tail(batch[u])) : Tail(batch[u])[i] = batch[u][i + 1]
    BY <2>1, HeadTailProperties
  <2>4. Head(batch[u]) = batch[u][1]
    BY <2>1
  <2>. QED BY <2>1, <2>2, <2>3, <2>4 DEF BatchesFit
<1>4. /\ batch'[u] = Tail(batch[u]) /\ \A v \in PumpTicks : v # u => batch'[v] = batch[v]
      /\ batch' \in [PumpTicks -> Seq(Frames)]
  BY <1>1, <1>2, <1>3
<1>5. FramesInPlace'
  <2>1. ASSUME NEW v \in PumpTicks, NEW i \in 1 .. Len(batch'[v]) PROVE FrameInPlace(batch'[v][i])
    <3>1. CASE v = u
      <4>1. i + 1 \in 1 .. Len(batch[u]) /\ batch'[v][i] = batch[u][i + 1]
        <5>1. batch'[v] = Tail(batch[u])
          BY <1>4, <3>1
        <5>2. i \in 1 .. N - 1
          BY <1>3, <2>1, <5>1
        <5>3. i + 1 \in 1 .. N
          BY <1>3, <5>2
        <5>. QED BY <1>3, <5>1, <5>2, <5>3
      <4>. QED BY <4>1 DEF FramesInPlace
    <3>2. CASE v # u
      BY <1>4, <2>1, <3>2 DEF FramesInPlace
    <3>. QED BY <3>1, <3>2
  <2>. QED BY <1>1, <2>1 DEF FramesInPlace, FrameInPlace
<1>6. BatchesFit'
  <2>1. Len(batch'[u]) <= DrainMax
    BY <1>3, <1>4, Rates
  <2>. QED BY <1>4, <2>1 DEF BatchesFit
<1>7. PICK f \in Frames : f = Head(batch[u]) /\ FrameInPlace(f)
  <2>1. 1 \in 1 .. Len(batch[u])
    BY <1>3
  <2>. QED BY <1>3, <2>1 DEF FramesInPlace
<1>8. wav' = [p \in Positions |-> IF p \in f.at .. f.at + FrameSize - 1
                                  THEN f.pcm[p - f.at + 1] ELSE wav[p]]
  BY <1>1, <1>7 DEF Written
<1>9. ASSUME NEW p \in Positions
      PROVE  /\ wav'[p] \in Samples \cup {Silence}
             /\ wav'[p] # Silence => wav'[p] = SampleAt(p)
  <2>1. CASE p \in f.at .. f.at + FrameSize - 1
    <3>1. f.at \in Nat /\ f.pcm \in Seq(Samples) /\ p \in Int
      BY <2>1 DEF Frames
    <3>2. p - f.at + 1 \in 1 .. FrameSize
      BY <2>1, <3>1, Rates
    <3>3. f.pcm[p - f.at + 1] = SampleAt(f.at + (p - f.at + 1) - 1)
      BY <1>7, <3>2 DEF FrameInPlace
    <3>4. f.at + (p - f.at + 1) - 1 = p
      BY <3>1
    <3>5. f.pcm[p - f.at + 1] \in Samples
      BY <1>7, <3>1, <3>2, ElementOfSeq DEF FrameInPlace
    <3>. QED BY <1>8, <2>1, <3>3, <3>4, <3>5
  <2>2. CASE p \notin f.at .. f.at + FrameSize - 1
    <3>1. wav'[p] = wav[p]
      BY <1>8, <2>2
    <3>. QED BY <1>2, <3>1 DEF AudioKeepsItsPlace, SampleAt
  <2>. QED BY <2>1, <2>2
<1>10. AudioKeepsItsPlace'
  BY <1>9 DEF AudioKeepsItsPlace, SampleAt
<1>11. Cardinality(InHand') = Cardinality(InHand) - 1
  <2>1. <<u, N>> \in InHand
    BY <1>3 DEF InHand
  <2>2. InHand' = InHand \ {<<u, N>>}
    <3>1. ASSUME NEW v \in PumpTicks, NEW i \in 1 .. DrainMax
          PROVE  <<v, i>> \in InHand' <=> <<v, i>> \in InHand \ {<<u, N>>}
      <4>1. CASE v = u
        <5>1. i <= N - 1 <=> i <= N /\ i # N
          BY <1>3
        <5>. QED BY <1>3, <1>4, <4>1, <5>1 DEF InHand
      <4>2. CASE v # u
        BY <1>4, <4>2 DEF InHand
      <4>. QED BY <4>1, <4>2
    <3>2. InHand \subseteq PumpTicks \X (1 .. DrainMax) /\ InHand' \subseteq PumpTicks \X (1 .. DrainMax)
      BY DEF InHand
    <3>. QED BY <3>1, <3>2
  <2>. QED BY <2>1, <2>2, InHandFinite, FS_RemoveElement
<1>12. LossIsCounted'
  <2>1. ~ stopped => seq = dropped + given + Len(queue) + Cardinality(InHand)
    BY DEF LossIsCounted
  <2>2. ~ stopped' => seq' = dropped' + given' + Len(queue') + Cardinality(InHand)'
    BY <1>1, <1>2, <1>11, <2>1, InHandFinite
  <2>. QED BY <1>1, <2>2 DEF LossIsCounted
<1>13. AudioTypeOK'
  <2>1. wav' \in [Positions -> Samples \cup {Silence}]
    BY <1>8, <1>9
  <2>2. given' \in Nat
    BY <1>1, <1>2
  <2>. QED BY <1>1, <1>4, <2>1, <2>2 DEF AudioTypeOK
<1>14. Carries'
  BY <1>1 DEF Carries, Made, Fed
<1>. QED BY <1>5, <1>6, <1>10, <1>12, <1>13, <1>14

LEMMA StopKeeps ==
    ASSUME AudioInv, Stop
    PROVE  AudioInv'
<1>1. /\ stopped' = TRUE /\ pending' = << >> /\ queue' = << >>
      /\ UNCHANGED <<now, times, tail, pos, seq, dropped, batch, given, wav>>
  BY DEF Stop
<1>2. Len(<< >>) = 0 /\ << >> \in Seq(Samples) /\ << >> \in Seq(Frames)
  BY EmptySeq
<1>3. AudioTypeOK'
  <2>1. DOMAIN queue' = {}
    BY <1>1
  <2>. QED BY <1>1, <1>2, <2>1, Rates DEF AudioInv, AudioTypeOK
<1>4. FramesInPlace'
  BY <1>1, <1>2 DEF AudioInv, FramesInPlace, FrameInPlace
<1>5. Carries' /\ AudioKeepsItsPlace' /\ BatchesFit' /\ LossIsCounted'
  BY <1>1 DEF AudioInv, Carries, Fed, AudioKeepsItsPlace, BatchesFit, LossIsCounted
<1>. QED BY <1>3, <1>4, <1>5 DEF AudioInv

LEMMA AudioStarts == AudioInit => AudioInv
<1>. SUFFICES ASSUME AudioInit PROVE AudioInv
  OBVIOUS
<1>1. Len(<< >>) = 0 /\ << >> \in Seq(Samples) /\ << >> \in Seq(Frames)
  BY EmptySeq
<1>2. AudioTypeOK
  <2>1. DOMAIN queue = {}
    BY DEF AudioInit
  <2>2. 0 \in 0 .. MaxTime
    BY Rates
  <2>3. wav \in [Positions -> Samples \cup {Silence}]
    BY DEF AudioInit
  <2>4. batch \in [PumpTicks -> Seq(Frames)]
    BY <1>1 DEF AudioInit
  <2>5. times \in Seq(Samples) /\ pending \in Seq(Samples) /\ queue \in Seq(Frames)
    BY <1>1 DEF AudioInit
  <2>6. Len(pending) < FrameSize /\ Len(queue) <= QueueCap
    BY <1>1, Rates DEF AudioInit
  <2>7. \A f \in {queue[i] : i \in DOMAIN queue} : Len(f.pcm) = FrameSize
    BY <2>1
  <2>8. now \in 0 .. MaxTime /\ tail \in Samples \cup {0} /\ pos \in Int /\ stopped \in BOOLEAN
    <3>1. now = 0 /\ tail = 0 /\ pos = 0 /\ stopped = FALSE
      BY DEF AudioInit
    <3>2. now \in 0 .. MaxTime /\ tail \in Samples \cup {0}
      BY <2>2, <3>1
    <3>3. pos \in Int
      BY <3>1
    <3>4. stopped \in BOOLEAN
      BY <3>1, Zenon
    <3>. QED BY <3>2, <3>3, <3>4
  <2>9. {seq, dropped, given} \subseteq Nat
    <3>1. seq = 0 /\ dropped = 0 /\ given = 0
      BY DEF AudioInit
    <3>. QED BY <3>1
  <2>. QED BY <2>3, <2>4, <2>5, <2>6, <2>7, <2>8, <2>9 DEF AudioTypeOK
<1>3. FramesInPlace /\ BatchesFit
  BY <1>1, Rates DEF AudioInit, FramesInPlace, BatchesFit
<1>4. AudioKeepsItsPlace
  BY DEF AudioInit, AudioKeepsItsPlace
<1>5. Carries
  <2>1. Fed = 0 /\ Made = 0
    <3>1. 0 * FrameSize = 0
      BY Rates
    <3>. QED BY <1>1, <3>1 DEF AudioInit, Fed, Made
  <2>2. 0 * StepNum = 0 /\ 0 * StepDen = 0
    BY Rates
  <2>. QED BY <1>1, <2>1, <2>2, Rates DEF AudioInit, Carries
<1>6. LossIsCounted
  <2>1. InHand = {}
    BY <1>1 DEF AudioInit, InHand
  <2>2. Cardinality({}) = 0
    BY FS_EmptySet
  <2>. QED BY <1>1, <2>1, <2>2 DEF AudioInit, LossIsCounted
<1>. QED BY <1>2, <1>3, <1>4, <1>5, <1>6 DEF AudioInv

\* The inductive invariant of the capture path holds in every reachable state: each
\* sample the resampler, the queue and the file hold is at its place.
THEOREM AudioInvariant == AudioSpec => []AudioInv
<1>1. AudioInv /\ [AudioNext]_audio => AudioInv'
  <2>. SUFFICES ASSUME AudioInv, [AudioNext]_audio PROVE AudioInv'
    OBVIOUS
  <2>1. CASE UNCHANGED audio
    BY <2>1 DEF audio, buffers, AudioInv, AudioTypeOK, FramesInPlace, FrameInPlace, AudioKeepsItsPlace,
       Carries, Made, Fed, BatchesFit, LossIsCounted, InHand
  <2>. QED BY <2>1, DataKeeps, PauseKeeps, PumpTakesKeeps, GiveFrameKeeps, StopKeeps
       DEF AudioNext
<1>. QED BY <1>1, AudioStarts, PTL DEF AudioSpec

\* The buffers of a source keep their types and their bounds, for every rate,
\* frame size and capacity.
THEOREM AudioTyping == AudioSpec => []AudioTypeOK
<1>1. AudioInv => AudioTypeOK
  BY DEF AudioInv
<1>. QED BY <1>1, AudioInvariant, PTL

\* For every rate of the device, size of blocks and frames, capacity of the
\* queue and number of ticks at a time: a sample of the recording is where
\* its number says or there is silence, and no frame is lost uncounted.
THEOREM AudioTrue == AudioSpec => []AudioIsTrue
<1>1. AudioInv => AudioIsTrue
  BY DEF AudioInv, AudioIsTrue
<1>. QED BY <1>1, AudioInvariant, PTL

-----------------------------------------------------------------------------
(* The calls of the desktop client (DesktopCall)                           *)

LEMMA Counted ==
    /\ MaxStarts \in Nat /\ MaxEnds \in Nat /\ MaxLinks \in Nat /\ MaxTroubles \in Nat
    /\ MaxFrames \in Nat /\ ByHand \subseteq Nat /\ Toggles \subseteq BOOLEAN
BY DesktopBounds, DesktopToggles

\* What is posted, by its kind.
LEMMA PostKinds ==
    /\ \A kind \in {"connected", "dropped", "broken", "refused"} : [kind |-> kind] \in Posts
    /\ \A state \in CallStates : [kind |-> "state", state |-> state] \in Posts
    /\ \A kind \in {"started", "failed"}, i \in Starts : [kind |-> kind, of |-> i] \in Posts
    /\ \A e \in Ends : [kind |-> "stopped", of |-> e] \in Posts
<1>1. \A kind \in {"connected", "dropped", "broken", "refused"} : [kind |-> kind] \in Posts
  BY DEF Posts
<1>2. \A state \in CallStates : [kind |-> "state", state |-> state] \in Posts
  BY DEF Posts
<1>3. \A kind \in {"started", "failed"}, i \in Starts : [kind |-> kind, of |-> i] \in Posts
  BY DEF Posts
<1>4. \A e \in Ends : [kind |-> "stopped", of |-> e] \in Posts
  BY DEF Posts
<1>. QED BY <1>1, <1>2, <1>3, <1>4

LEMMA PostShapes ==
    ASSUME NEW m \in Posts
    PROVE  /\ m.kind = "state" => m.state \in CallStates
           /\ m.kind \in {"started", "failed"} => m.of \in Starts
           /\ m.kind = "stopped" => m.of \in Ends
BY DEF Posts

\* Pushing and popping.
LEMMA Pushes ==
    ASSUME NEW q \in Seq(Posts), NEW m \in Posts
    PROVE  /\ q \o <<m>> \in Seq(Posts) /\ Append(q, m) = q \o <<m>>
           /\ Len(q \o <<m>>) = Len(q) + 1
           /\ (q \o <<m>>)[Len(q) + 1] = m
           /\ \A j \in 1 .. Len(q) : (q \o <<m>>)[j] = q[j]
<1>1. <<m>> \in Seq(Posts) /\ Len(<<m>>) = 1 /\ <<m>>[1] = m
  OBVIOUS
<1>2. PICK one \in Seq(Posts) : one = <<m>> /\ Len(one) = 1 /\ one[1] = m
  BY <1>1
<1>3. /\ q \o one \in Seq(Posts) /\ Len(q \o one) = Len(q) + Len(one)
      /\ \A i \in 1 .. Len(q) + Len(one) : (q \o one)[i] = IF i <= Len(q) THEN q[i] ELSE one[i - Len(q)]
  BY <1>2, ConcatProperties
<1>4. Len(q) \in Nat
  OBVIOUS
<1>5. (q \o one)[Len(q) + 1] = m
  <2>1. (q \o one)[Len(q) + 1] = one[Len(q) + 1 - Len(q)]
    BY <1>2, <1>3, <1>4
  <2>2. Len(q) + 1 - Len(q) = 1
    BY <1>4
  <2>. QED BY <1>2, <2>1, <2>2
<1>6. \A j \in 1 .. Len(q) : (q \o one)[j] = q[j]
  BY <1>2, <1>3, <1>4
<1>7. Append(q, m) = q \o <<m>>
  BY AppendIsConcat
<1>. QED BY <1>2, <1>3, <1>5, <1>6, <1>7

LEMMA Pops ==
    ASSUME NEW q \in Seq(Posts), q # << >>
    PROVE  /\ Head(q) \in Posts /\ Head(q) = q[1] /\ Len(q) \in Nat \ {0}
           /\ Tail(q) \in Seq(Posts) /\ Len(Tail(q)) = Len(q) - 1
           /\ \A j \in 1 .. Len(q) - 1 : Tail(q)[j] = q[j + 1]
<1>1. Len(q) \in Nat /\ Len(q) # 0
  BY EmptySeq
<1>2. /\ Head(q) \in Posts /\ Tail(q) \in Seq(Posts) /\ Len(Tail(q)) = Len(q) - 1
      /\ \A j \in 1 .. Len(Tail(q)) : Tail(q)[j] = q[j + 1]
  BY HeadTailProperties
<1>3. Head(q) = q[1]
  OBVIOUS
<1>. QED BY <1>1, <1>2, <1>3

LEMMA NoPosts == << >> \in Seq(Posts) /\ \A q \in Seq(Posts) : q \o << >> = q
BY EmptySeq, ConcatEmptySeq

LEMMA SessionTypes ==
    ASSUME NEW s \in Sessions
    PROVE  /\ Released(s) \in Sessions /\ NoSession \in Sessions
           /\ [s EXCEPT !.start = "lost"] \in Sessions
           /\ \A state \in {"Idle", "on", "Ended"} : [s EXCEPT !.state = state] \in Sessions
           /\ [[[s EXCEPT !.start = "ok"] EXCEPT !.state = "on"] EXCEPT !.auto = FALSE] \in Sessions
           /\ [[s EXCEPT !.start = "refused"] EXCEPT !.state = "Idle"] \in Sessions
<1>1. NoSession \in Sessions /\ [NoSession EXCEPT !.start = "ok"] \in Sessions
  BY DEF Sessions, NoSession
<1>2. [s EXCEPT !.sub = FALSE] \in Sessions
  BY DEF Sessions
<1>3. Released(s) \in Sessions
  <2>1. CASE s.start = "ack"
    <3>1. Released(s) = [s EXCEPT !.sub = FALSE]
      BY <2>1 DEF Released
    <3>. QED BY <1>2, <3>1
  <2>2. CASE s.start = "ok"
    <3>1. Released(s) = [NoSession EXCEPT !.start = "ok"]
      BY <2>2 DEF Released
    <3>. QED BY <1>1, <3>1
  <2>3. CASE s.start # "ack" /\ s.start # "ok"
    <3>1. Released(s) = NoSession
      BY <2>3 DEF Released
    <3>. QED BY <1>1, <3>1
  <2>. QED BY <2>1, <2>2, <2>3
<1>4. [s EXCEPT !.start = "lost"] \in Sessions
  BY DEF Sessions
<1>5. \A state \in {"Idle", "on", "Ended"} : [s EXCEPT !.state = state] \in Sessions
  BY DEF Sessions
<1>6. [[[s EXCEPT !.start = "ok"] EXCEPT !.state = "on"] EXCEPT !.auto = FALSE] \in Sessions
  BY DEF Sessions
<1>7. [[s EXCEPT !.start = "refused"] EXCEPT !.state = "Idle"] \in Sessions
  BY DEF Sessions
<1>. QED BY <1>1, <1>3, <1>4, <1>5, <1>6, <1>7

LEMMA FileTypes ==
    ASSUME NEW f \in Files
    PROVE  /\ NoFile \in Files /\ [NoFile EXCEPT !.local = "gone"] \in Files
           /\ [f EXCEPT !.sink = FALSE] \in Files
           /\ [[f EXCEPT !.local = "open"] EXCEPT !.sink = TRUE] \in Files
           /\ [[f EXCEPT !.local = "whole"] EXCEPT !.sink = FALSE] \in Files
           /\ [[f EXCEPT !.sink = FALSE] EXCEPT !.frames = 0] \in Files
           /\ [f EXCEPT !.local = IF @ = "open" THEN "left" ELSE @] \in Files
           /\ f.frames < MaxFrames => [f EXCEPT !.frames = @ + 1] \in Files
<1>1. f.frames \in 0 .. MaxFrames /\ 0 \in 0 .. MaxFrames
  BY Counted DEF Files
<1>2. f.frames < MaxFrames => f.frames + 1 \in 0 .. MaxFrames
  BY <1>1, Counted
<1>3. NoFile \in Files /\ [NoFile EXCEPT !.local = "gone"] \in Files
  BY <1>1 DEF Files, NoFile
<1>4. [f EXCEPT !.sink = FALSE] \in Files
  BY DEF Files
<1>5. [[f EXCEPT !.local = "open"] EXCEPT !.sink = TRUE] \in Files
  BY DEF Files
<1>6. [[f EXCEPT !.local = "whole"] EXCEPT !.sink = FALSE] \in Files
  BY DEF Files
<1>7. [[f EXCEPT !.sink = FALSE] EXCEPT !.frames = 0] \in Files
  BY <1>1 DEF Files
<1>8. [f EXCEPT !.local = IF @ = "open" THEN "left" ELSE @] \in Files
  <2>1. (IF f.local = "open" THEN "left" ELSE f.local) \in {"none", "open", "left", "whole", "gone"}
    BY DEF Files
  <2>. QED BY <2>1 DEF Files
<1>9. f.frames < MaxFrames => [f EXCEPT !.frames = @ + 1] \in Files
  BY <1>2 DEF Files
<1>. QED BY <1>3, <1>4, <1>5, <1>6, <1>7, <1>8, <1>9

LEMMA EndTypes ==
    ASSUME NEW r \in EndRuns
    PROVE  /\ NoEnd \in EndRuns /\ AfterStop(r) \in EndRuns
           /\ \A at \in Stages : [r EXCEPT !.at = at] \in EndRuns
           /\ \A at \in Stages, i \in 0 .. MaxStarts :
                [[NoEnd EXCEPT !.arch = i] EXCEPT !.at = at] \in EndRuns
           /\ r.arch \in 0 .. MaxStarts /\ r.id \in 0 .. MaxStarts /\ r.of \in 0 .. MaxStarts
           /\ r.at \in Stages /\ r.token \in BOOLEAN
<1>0. 0 \in 0 .. MaxStarts
  BY Counted
<1>1. \A st \in {"none", "ack", "lost", "stopped", "over", "done", "broken",
                 "local", "initiate", "put", "remote"} : st \in Stages
  BY DEF Stages, Uploading
<1>2. r.arch \in 0 .. MaxStarts /\ r.id \in 0 .. MaxStarts /\ r.of \in 0 .. MaxStarts
      /\ r.at \in Stages /\ r.token \in BOOLEAN
  BY DEF EndRuns
<1>3. NoEnd \in EndRuns
  BY <1>0, <1>1 DEF NoEnd, EndRuns
<1>4. \A at \in Stages, i \in 0 .. MaxStarts : [[NoEnd EXCEPT !.arch = i] EXCEPT !.at = at] \in EndRuns
  BY <1>0 DEF NoEnd, EndRuns
<1>5. \A at \in Stages : [r EXCEPT !.at = at] \in EndRuns
  BY DEF EndRuns
<1>6. AfterStop(r) \in EndRuns
  <2>1. [[r EXCEPT !.of = 0] EXCEPT !.at = "local"] \in EndRuns
    BY <1>0, <1>1 DEF EndRuns
  <2>2. [[NoEnd EXCEPT !.arch = r.arch] EXCEPT !.at = "over"] \in EndRuns
    BY <1>1, <1>2, <1>4
  <2>. QED BY <2>1, <2>2 DEF AfterStop
<1>. QED BY <1>2, <1>3, <1>4, <1>5, <1>6

LEMMA LettingGoType ==
    ASSUME sess \in [Starts -> Sessions], NEW i \in 0 .. MaxStarts
    PROVE  /\ LettingGo(i) \in [Starts -> Sessions]
           /\ \A k \in Starts : LettingGo(i)[k] = IF k = i THEN Released(sess[k]) ELSE sess[k]
<1>1. CASE i = 0
  <2>1. \A k \in Starts : k # i
    BY <1>1 DEF Starts
  <2>. QED BY <1>1, <2>1 DEF LettingGo
<1>2. CASE i # 0
  <2>1. i \in Starts
    BY <1>2, Counted DEF Starts
  <2>2. LettingGo(i) = [sess EXCEPT ![i] = Released(sess[i])]
    BY <1>2 DEF LettingGo
  <2>3. Released(sess[i]) \in Sessions
    BY <2>1, SessionTypes
  <2>. QED BY <2>1, <2>2, <2>3
<1>. QED BY <1>1, <1>2

LEMMA LostTypes ==
    ASSUME DesktopTypeOK, Lost
    PROVE  /\ sess' \in [Starts -> Sessions] /\ end' \in [Ends -> EndRuns]
           /\ \A i \in Starts : sess'[i] = IF sess[i].start = "ack" THEN [sess[i] EXCEPT !.start = "lost"]
                                                                   ELSE sess[i]
           /\ \A e \in Ends : end'[e] = IF end[e].at = "ack" THEN [end[e] EXCEPT !.at = "lost"]
                                                            ELSE end[e]
<1>1. sess \in [Starts -> Sessions] /\ end \in [Ends -> EndRuns]
  BY DEF DesktopTypeOK
<1>2. \A i \in Starts : [sess[i] EXCEPT !.start = "lost"] \in Sessions
  BY <1>1, SessionTypes
<1>3. "lost" \in Stages
  BY DEF Stages
<1>4. \A e \in Ends : [end[e] EXCEPT !.at = "lost"] \in EndRuns
  BY <1>1, <1>3, EndTypes
<1>5. sess' \in [Starts -> Sessions]
  BY <1>1, <1>2 DEF Lost
<1>6. end' \in [Ends -> EndRuns]
  BY <1>1, <1>4 DEF Lost
<1>. QED BY <1>5, <1>6 DEF Lost

\* Every step pops the first post, pushes a few, empties the queue or leaves it.
LEMMA ToldType ==
    ASSUME NEW q \in Seq(Posts), NEW i, NEW state \in CallStates
    PROVE  /\ q \o Told(i, state) \in Seq(Posts)
           /\ \/ q \o Told(i, state) = q
              \/ q \o Told(i, state) = q \o <<[kind |-> "state", state |-> state]>>
<1>1. [kind |-> "state", state |-> state] \in Posts
  BY PostKinds
<1>2. CASE sess[i].sub
  <2>1. Told(i, state) = <<[kind |-> "state", state |-> state]>>
    BY <1>2 DEF Told
  <2>. QED BY <1>1, <2>1, Pushes
<1>3. CASE ~ sess[i].sub
  <2>1. Told(i, state) = << >>
    BY <1>3 DEF Told
  <2>. QED BY <2>1, NoPosts
<1>. QED BY <1>2, <1>3

LEMMA PostedType ==
    ASSUME posts \in Seq(Posts), NEW kind, Posted(kind)
    PROVE  /\ posts' = Tail(posts) /\ posts # << >> /\ posts' \in Seq(Posts)
           /\ Post = posts[1] /\ Post \in Posts /\ Post.kind = kind
BY Pops DEF Posted, Post

LEMMA StopAckedPosts ==
    ASSUME DesktopTypeOK, NEW e \in Ends, StopAcked(e)
    PROVE  \E q \in Seq(Posts) :
             /\ q = posts \/ q = posts \o <<[kind |-> "state", state |-> "Ended"]>>
             /\ posts' = q \o <<[kind |-> "stopped", of |-> e]>>
<1>0. posts \in Seq(Posts) /\ "Ended" \in CallStates
  BY DEF DesktopTypeOK, CallStates
<1>1. CASE sess[end[e].of].state = "on"
  <2>1. PICK q \in Seq(Posts) : /\ q = posts \o Told(end[e].of, "Ended")
                                /\ q = posts \/ q = posts \o <<[kind |-> "state", state |-> "Ended"]>>
    BY <1>0, ToldType
  <2>2. posts' = q \o <<[kind |-> "stopped", of |-> e]>>
    BY <1>1, <2>1 DEF StopAcked
  <2>. QED BY <2>1, <2>2
<1>2. CASE sess[end[e].of].state # "on"
  <2>1. posts \o << >> = posts
    BY <1>0, NoPosts
  <2>2. posts' = posts \o <<[kind |-> "stopped", of |-> e]>>
    BY <1>2, <2>1 DEF StopAcked
  <2>. QED BY <1>0, <2>2
<1>. QED BY <1>1, <1>2

LEMMA PostsTyped ==
    ASSUME DesktopTypeOK, [DesktopNext]_desktop
    PROVE  posts' \in Seq(Posts)
<1>0. posts \in Seq(Posts)
  BY DEF DesktopTypeOK
<1>1. ASSUME NEW kind \in {"connected", "dropped", "broken", "refused"}, 
             posts' = Append(posts, [kind |-> kind])
      PROVE  posts' \in Seq(Posts)
  BY <1>0, <1>1, PostKinds, Pushes
<1>2. ASSUME NEW i \in Starts, StartAcked(i) PROVE posts' \in Seq(Posts)
  <2>1. "InCall" \in CallStates /\ [kind |-> "started", of |-> i] \in Posts
    BY PostKinds DEF CallStates
  <2>2. posts \o Told(i, "InCall") \in Seq(Posts)
    BY <1>0, <2>1, ToldType
  <2>. QED BY <1>2, <2>1, <2>2, Pushes DEF StartAcked
<1>3. ASSUME NEW i \in Starts, StartRefused(i) PROVE posts' \in Seq(Posts)
  <2>1. "Idle" \in CallStates /\ [kind |-> "failed", of |-> i] \in Posts
    BY PostKinds DEF CallStates
  <2>2. posts \o Told(i, "Idle") \in Seq(Posts)
    BY <1>0, <2>1, ToldType
  <2>. QED BY <1>3, <2>1, <2>2, Pushes DEF StartRefused
<1>4. ASSUME NEW e \in Ends, StopAcked(e) PROVE posts' \in Seq(Posts)
  <2>1. [kind |-> "stopped", of |-> e] \in Posts
    BY PostKinds
  <2>. QED BY <1>4, <2>1, StopAckedPosts, Pushes
<1>5. ASSUME NEW kind, Posted(kind) PROVE posts' \in Seq(Posts)
  BY <1>0, <1>5, PostedType
<1>6. CASE Exit
  BY <1>6, NoPosts DEF Exit
<1>7. ASSUME EnsureEnd PROVE posts' = posts
  BY <1>7 DEF EnsureEnd, EndCall
<1>8. CASE Window
  BY <1>5, <1>8 DEF Window, Started, StartFailed, ShowConnected, ShowState, Dropped, Broken, Refused, Stopped
<1>9. ASSUME NEW e \in Ends, UploadStep(e) PROVE posts' = posts
  BY <1>9 DEF UploadStep, NoToken, LocalDone, Initiated, InitiateRefused, PutDone, PutFails, Finalized,
     FinalizeRefused, Unexpected, Finish, Moves
<1>10. CASE Linked \/ Drop \/ LetGo \/ \E kind \in {"broken", "refused"} : Trouble(kind)
  BY <1>0, <1>1, <1>10 DEF Linked, Drop, LetGo, Trouble
<1>11. CASE CloseAsked \/ Close
  BY <1>0, <1>6, <1>7, <1>11 DEF CloseAsked, Close
<1>12. CASE \/ Connect \/ LoginFails \/ LoggedIn \/ LinkFails \/ StartCall \/ StartCallWithoutCapture
            \/ (\E e \in Ends : EndPressed(e)) \/ Disconnect \/ Disconnected \/ CallOver
            \/ UserStartsCapture \/ UserStopsCapture \/ Drain \/ (\E i \in Starts : Give(i))
            \/ UNCHANGED desktop
  BY <1>0, <1>7, <1>12 DEF Connect, LoginFails, LoggedIn, LinkFails, StartCall, StartCallWithoutCapture,
     EndPressed, EndCall, Disconnect, Disconnected, CallOver, UserStartsCapture, UserStopsCapture, Drain,
     Give, desktop
<1>. QED BY <1>0, <1>2, <1>3, <1>4, <1>8, <1>9, <1>10, <1>11, <1>12 DEF DesktopNext

LEMMA Zeroes == /\ 0 \in 0 .. MaxStarts /\ 0 \in 0 .. MaxEnds
                /\ Starts \subseteq 0 .. MaxStarts /\ Ends \subseteq 0 .. MaxEnds
                /\ \A i \in 0 .. MaxStarts : i # 0 => i \in Starts
                /\ \A e \in 0 .. MaxEnds : e # 0 => e \in Ends
                /\ \A i \in Starts : i # 0 /\ i \in Nat
BY Counted DEF Starts, Ends

LEMMA CapturedType ==
    ASSUME DesktopTypeOK
    PROVE  Captured \in EndRuns
<1>1. /\ cur \in 0 .. MaxStarts /\ arch \in 0 .. MaxStarts /\ active \in 0 .. MaxStarts
      /\ token \in BOOLEAN
  BY DEF DesktopTypeOK
<1>2. (IF active # 0 THEN active ELSE IF sess[cur].start = "ok" THEN cur ELSE 0) \in 0 .. MaxStarts
  BY <1>1, Zeroes
<1>3. "ack" \in Stages
  BY DEF Stages
<1>. QED BY <1>1, <1>2, <1>3 DEF Captured, EndRuns

LEMMA EndCallTypes ==
    ASSUME DesktopTypeOK, NEW e \in Ends, EndCall(e)
    PROVE  /\ shown' \in CallStates /\ cur' \in 0 .. MaxStarts /\ sess' \in [Starts -> Sessions]
           /\ end' \in [Ends -> EndRuns] /\ task' \in 0 .. MaxEnds /\ upload' \in 0 .. MaxEnds
           /\ capture' \in {"off", "user", "call"} /\ sinks' \subseteq Starts
           /\ file' \in [Starts -> Files]
           /\ UNCHANGED <<link, started, active, arch, posts, pump, troubles>>
<1>1. /\ cur \in 0 .. MaxStarts /\ arch \in 0 .. MaxStarts /\ sess \in [Starts -> Sessions]
      /\ end \in [Ends -> EndRuns] /\ upload \in 0 .. MaxEnds /\ task \in 0 .. MaxEnds
      /\ capture \in {"off", "user", "call"} /\ sinks \subseteq Starts /\ file \in [Starts -> Files]
  BY DEF DesktopTypeOK
<1>2. Captured \in EndRuns /\ AfterStop(Captured) \in EndRuns
  BY CapturedType, EndTypes
<1>3. file' \in [Starts -> Files]
  <2>1. \A i \in Starts : [file[i] EXCEPT !.sink = FALSE] \in Files
    BY <1>1, FileTypes
  <2>2. Deactivated \in [Starts -> Files]
    <3>1. CASE arch = 0
      BY <1>1, <3>1 DEF Deactivated
    <3>2. CASE arch # 0
      <4>1. Deactivated = [file EXCEPT ![arch] = [file[arch] EXCEPT !.sink = FALSE]]
        BY <3>2 DEF Deactivated
      <4>2. arch \in Starts
        BY <1>1, <3>2, Zeroes
      <4>. QED BY <1>1, <2>1, <4>1, <4>2
    <3>. QED BY <3>1, <3>2
  <2>. QED BY <2>2 DEF EndCall
<1>4. UNCHANGED <<link, started, active, arch, posts, pump, troubles>>
  BY DEF EndCall
<1>5. CASE sess[cur].state = "on" /\ sock = "up"
  <2>1. /\ shown' = "Ending" /\ end' = [end EXCEPT ![e] = Captured] /\ task' = e
        /\ sinks' = sinks \ {arch} /\ UNCHANGED <<cur, sess, capture, upload>>
    BY <1>5 DEF EndCall
  <2>2. "Ending" \in CallStates /\ e \in 0 .. MaxEnds
    BY Zeroes DEF CallStates
  <2>. QED BY <1>1, <1>2, <1>3, <1>4, <2>1, <2>2
<1>6. CASE ~ (sess[cur].state = "on" /\ sock = "up")
  <2>1. /\ shown' = IF sess[cur].state = "on" THEN "Ended" ELSE "Ending"
        /\ cur' = 0 /\ sess' = LettingGo(cur) /\ task' = 0
        /\ end' = [end EXCEPT ![e] = AfterStop(Captured)]
        /\ upload' = IF AfterStop(Captured).at = "local" THEN e ELSE upload
        /\ IF capture # "off" THEN StopCapture ELSE sinks' = sinks \ {arch} /\ UNCHANGED capture
    BY <1>6 DEF EndCall
  <2>2. shown' \in CallStates
    BY <2>1 DEF CallStates
  <2>3. cur' \in 0 .. MaxStarts /\ task' \in 0 .. MaxEnds
    BY <2>1, Zeroes
  <2>4. sess' \in [Starts -> Sessions]
    BY <1>1, <2>1, LettingGoType
  <2>5. end' \in [Ends -> EndRuns]
    BY <1>1, <1>2, <2>1
  <2>6. upload' \in 0 .. MaxEnds
    BY <1>1, <2>1, Zeroes
  <2>7. capture' \in {"off", "user", "call"} /\ sinks' \subseteq Starts
    BY <1>1, <2>1 DEF StopCapture
  <2>. QED BY <1>3, <1>4, <2>2, <2>3, <2>4, <2>5, <2>6, <2>7
<1>. QED BY <1>5, <1>6

LEMMA EnsureEndTypes ==
    ASSUME DesktopTypeOK, EnsureEnd
    PROVE  /\ shown' \in CallStates /\ cur' \in 0 .. MaxStarts /\ sess' \in [Starts -> Sessions]
           /\ end' \in [Ends -> EndRuns] /\ task' \in 0 .. MaxEnds /\ upload' \in 0 .. MaxEnds
           /\ capture' \in {"off", "user", "call"} /\ sinks' \subseteq Starts
           /\ file' \in [Starts -> Files]
           /\ UNCHANGED <<link, started, active, arch, posts, pump, troubles>>
<1>1. CASE Lifecycle /\ ~ Pending
  <2>1. PICK e \in Ends : EndCall(e)
    BY <1>1 DEF EnsureEnd
  <2>. QED BY <2>1, EndCallTypes
<1>2. CASE ~ (Lifecycle /\ ~ Pending)
  BY <1>2 DEF EnsureEnd, DesktopTypeOK, call, archive
<1>. QED BY <1>1, <1>2

LEMMA ExitTypes ==
    ASSUME DesktopTypeOK, Exit
    PROVE  DesktopTypeOK'
<1>1. sess' \in [Starts -> Sessions] /\ end' \in [Ends -> EndRuns] /\ file' \in [Starts -> Files]
  <2>1. NoSession \in Sessions
    BY DEF NoSession, Sessions
  <2>2. NoEnd \in EndRuns
    BY Zeroes DEF NoEnd, EndRuns, Stages
  <2>3. \A i \in Starts : [[file[i] EXCEPT !.sink = FALSE] EXCEPT !.frames = 0] \in Files
    BY FileTypes DEF DesktopTypeOK
  <2>. QED BY <2>1, <2>2, <2>3 DEF Exit
<1>2. /\ sock' = "none" /\ conn' = "off" /\ login' = FALSE /\ token' = FALSE
      /\ shown' = "Idle" /\ cur' = 0 /\ active' = 0 /\ arch' = 0 /\ sinks' = {} /\ pump' = {}
      /\ posts' = << >> /\ task' = 0 /\ capture' = "off" /\ leave' = "no" /\ upload' = 0
      /\ closing' = "closed" /\ started' = started
  BY DEF Exit
<1>3. "Idle" \in CallStates /\ posts' \in Seq(Posts)
  BY <1>2, NoPosts DEF CallStates
<1>4. {started, cur, active, arch}' \subseteq 0 .. MaxStarts /\ task' \in 0 .. MaxEnds /\ upload' \in 0 .. MaxEnds
  BY <1>2, Zeroes DEF DesktopTypeOK
<1>5. login' \in BOOLEAN /\ token' \in BOOLEAN
  BY <1>2, Zenon
<1>6. sinks' \subseteq Starts /\ pump' \subseteq Starts
  BY <1>2
<1>. QED BY <1>1, <1>2, <1>3, <1>4, <1>5, <1>6 DEF DesktopTypeOK

LEMMA FinishTypes ==
    ASSUME DesktopTypeOK, NEW e \in Ends, NEW at \in Stages, NEW files \in [Starts -> Files],
           Finish(e, at, files)
    PROVE  DesktopTypeOK'
<1>1. end' \in [Ends -> EndRuns]
  <2>1. Of(e) \in 0 .. MaxStarts
    BY EndTypes DEF DesktopTypeOK, Of
  <2>2. [[NoEnd EXCEPT !.arch = Of(e)] EXCEPT !.at = at] \in EndRuns
    <3>1. end[e] \in EndRuns
      BY DEF DesktopTypeOK
    <3>. QED BY <2>1, <3>1, EndTypes
  <2>. QED BY <2>2 DEF DesktopTypeOK, Finish
<1>2. arch' \in 0 .. MaxStarts /\ upload' \in 0 .. MaxEnds /\ sinks' \subseteq Starts
  BY Zeroes DEF DesktopTypeOK, Finish
<1>3. /\ file' = files
      /\ UNCHANGED <<sock, conn, login, token, shown, started, cur, active, sess, posts, task, capture,
                     pump, leave, closing>>
  BY DEF Finish, link, call
<1>. QED BY <1>1, <1>2, <1>3 DEF DesktopTypeOK

\* The files of the archives, whatever becomes of them.
LEMMA FilesTyped ==
    ASSUME DesktopTypeOK, NEW e \in Ends
    PROVE  /\ Deleted(e) \in [Starts -> Files] /\ Disposed(e) \in [Starts -> Files]
           /\ Completed(e) \in [Starts -> Files]
           /\ \A i \in Starts : Opened(i) \in [Starts -> Files]
<1>0. file \in [Starts -> Files]
  BY DEF DesktopTypeOK
<1>1. \A i \in Starts : [file EXCEPT ![i] = [file[i] EXCEPT !.sink = FALSE]] \in [Starts -> Files]
  BY <1>0, FileTypes
<1>2. [file EXCEPT ![Of(e)] = [file[Of(e)] EXCEPT !.sink = FALSE]] \in [Starts -> Files]
  BY <1>0, <1>1
<1>3. Deleted(e) \in [Starts -> Files]
  <2>1. \A i \in Starts : [NoFile EXCEPT !.local = "gone"] \in Files
    BY <1>0, FileTypes
  <2>2. [file EXCEPT ![Of(e)] = [NoFile EXCEPT !.local = "gone"]] \in [Starts -> Files]
    BY <1>0, <2>1
  <2>. QED BY <1>2, <2>2 DEF Deleted
<1>4. Disposed(e) \in [Starts -> Files]
  <2>1. \A i \in Starts : [file[i] EXCEPT !.local = IF @ = "open" THEN "left" ELSE @] \in Files
    BY <1>0, FileTypes
  <2>. QED BY <1>0, <2>1 DEF Disposed
<1>5. Completed(e) \in [Starts -> Files]
  <2>1. \A i \in Starts : [[file[i] EXCEPT !.local = "whole"] EXCEPT !.sink = FALSE] \in Files
    BY <1>0, FileTypes
  <2>. QED BY <1>0, <2>1 DEF Completed
<1>6. \A i \in Starts : Opened(i) \in [Starts -> Files]
  <2>1. \A i \in Starts : [[file[i] EXCEPT !.local = "open"] EXCEPT !.sink = TRUE] \in Files
    BY <1>0, FileTypes
  <2>. QED BY <1>0, <2>1 DEF Opened
<1>. QED BY <1>3, <1>4, <1>5, <1>6

LEMMA MovesTypes ==
    ASSUME DesktopTypeOK, NEW e \in Ends, NEW at \in Stages, Moves(e, at), file' \in [Starts -> Files]
    PROVE  DesktopTypeOK'
<1>1. end' \in [Ends -> EndRuns]
  <2>1. end' = [end EXCEPT ![e] = [end[e] EXCEPT !.at = at]]
    BY DEF Moves
  <2>. QED BY <2>1, EndTypes DEF DesktopTypeOK
<1>2. UNCHANGED <<sock, conn, login, token, shown, started, cur, active, arch, sess, posts, task, capture,
                  sinks, pump, leave, upload, closing>>
  BY DEF Moves, link, call
<1>. QED BY <1>1, <1>2 DEF DesktopTypeOK

LEMMA UploadTypes ==
    ASSUME DesktopTypeOK, NEW e \in Ends, UploadStep(e)
    PROVE  DesktopTypeOK'
<1>0. \A at \in {"broken", "done", "initiate", "put", "remote"} : at \in Stages
  BY DEF Stages, Uploading
<1>1. Deleted(e) \in [Starts -> Files] /\ Disposed(e) \in [Starts -> Files]
      /\ Completed(e) \in [Starts -> Files] /\ file \in [Starts -> Files]
  BY FilesTyped DEF DesktopTypeOK
<1>2. CASE \/ Finish(e, "broken", Disposed(e)) \/ Finish(e, "done", Deleted(e))
  BY <1>0, <1>1, <1>2, FinishTypes
<1>3. CASE \/ (Moves(e, "initiate") /\ file' = Completed(e))
           \/ (Moves(e, "put") /\ UNCHANGED file)
           \/ (Moves(e, "remote") /\ UNCHANGED file)
  BY <1>0, <1>1, <1>3, MovesTypes
<1>. QED BY <1>2, <1>3 DEF UploadStep, NoToken, LocalDone, Initiated, InitiateRefused, PutDone, PutFails,
         Finalized, FinalizeRefused, Unexpected

LEMMA LinkStepTypes ==
    ASSUME DesktopTypeOK, posts' \in Seq(Posts),
           \/ Connect \/ LoginFails \/ LoggedIn \/ Linked \/ LinkFails
           \/ \E kind \in {"broken", "refused"} : Trouble(kind)
           \/ Disconnected \/ CallOver \/ UserStartsCapture \/ UserStopsCapture \/ Drain
           \/ StartCallWithoutCapture \/ ShowConnected \/ UNCHANGED desktop
    PROVE  DesktopTypeOK'
<1>1. UNCHANGED <<started, cur, active, arch, sess, file, end, task, upload>>
  BY DEF Connect, LoginFails, LoggedIn, Linked, LinkFails, Trouble, Disconnected, CallOver,
     UserStartsCapture, UserStopsCapture, Drain, StartCallWithoutCapture, ShowConnected, desktop, link, call, archive
<1>2. sock' \in {"none", "linking", "up", "dead"} /\ conn' \in {"off", "connecting", "on"}
  BY DEF DesktopTypeOK, Connect, LoginFails, LoggedIn, Linked, LinkFails, Trouble, Disconnected, CallOver,
     UserStartsCapture, UserStopsCapture, Drain, StartCallWithoutCapture, ShowConnected, desktop, link
<1>3. login' \in BOOLEAN /\ token' \in BOOLEAN
  BY DEF DesktopTypeOK, Connect, LoginFails, LoggedIn, Linked, LinkFails, Trouble, Disconnected, CallOver,
     UserStartsCapture, UserStopsCapture, Drain, StartCallWithoutCapture, ShowConnected, desktop, link
<1>4. shown' \in CallStates
  BY DEF DesktopTypeOK, Connect, LoginFails, LoggedIn, Linked, LinkFails, Trouble, Disconnected, CallOver,
     UserStartsCapture, UserStopsCapture, Drain, StartCallWithoutCapture, ShowConnected, desktop, call, CallStates
<1>5. capture' \in {"off", "user", "call"} /\ leave' \in {"no", "ending", "letgo"}
      /\ closing' \in {"no", "ending", "uploading", "closed"}
  BY DEF DesktopTypeOK, Connect, LoginFails, LoggedIn, Linked, LinkFails, Trouble, Disconnected, CallOver,
     UserStartsCapture, UserStopsCapture, Drain, StartCallWithoutCapture, ShowConnected, desktop, StopCapture
<1>6. sinks' \subseteq Starts /\ pump' \subseteq Starts
  BY DEF DesktopTypeOK, Connect, LoginFails, LoggedIn, Linked, LinkFails, Trouble, Disconnected, CallOver,
     UserStartsCapture, UserStopsCapture, Drain, StartCallWithoutCapture, ShowConnected, desktop, archive, StopCapture
<1>. QED BY <1>1, <1>2, <1>3, <1>4, <1>5, <1>6 DEF DesktopTypeOK

LEMMA CallStepTypes ==
    ASSUME DesktopTypeOK, posts' \in Seq(Posts),
           \/ StartCall \/ \E i \in Starts : StartAcked(i) \/ StartRefused(i)
           \/ StartFailed \/ ShowState \/ Dropped \/ Broken \/ Refused \/ Stopped
           \/ \E e \in Ends : StopAcked(e)
    PROVE  DesktopTypeOK'
<1>0. /\ sess \in [Starts -> Sessions] /\ end \in [Ends -> EndRuns] /\ cur \in 0 .. MaxStarts
      /\ posts \in Seq(Posts) /\ started \in 0 .. MaxStarts
  BY DEF DesktopTypeOK
<1>1. UNCHANGED <<sock, login, token, arch, file, pump, leave, closing>>
  BY DEF StartCall, StartAcked, StartRefused, StartFailed, ShowState, Dropped, Broken, Refused, Stopped,
     StopAcked, link, archive
<1>2. sess' \in [Starts -> Sessions]
  <2>1. LettingGo(cur) \in [Starts -> Sessions]
    BY <1>0, LettingGoType
  <2>2. CASE StartFailed \/ Dropped \/ Broken \/ Stopped
    BY <2>1, <2>2 DEF StartFailed, Dropped, Broken, Stopped
  <2>3. CASE ShowState
    BY <1>0, <2>3 DEF ShowState
  <2>4. CASE Refused
    <3>1. \A i \in Starts : [sess[i] EXCEPT !.state = "Ended"] \in Sessions
      BY <1>0, SessionTypes
    <3>2. [sess EXCEPT ![cur] = [sess[cur] EXCEPT !.state = "Ended"]] \in [Starts -> Sessions]
      BY <1>0, <3>1
    <3>. QED BY <1>0, <2>4, <3>2 DEF Refused
  <2>5. ASSUME NEW e \in Ends, StopAcked(e) PROVE sess' \in [Starts -> Sessions]
    <3>1. \A i \in Starts : [sess[i] EXCEPT !.state = "Ended"] \in Sessions
      BY <1>0, SessionTypes
    <3>2. sess' = [sess EXCEPT ![end[e].of] = [sess[end[e].of] EXCEPT !.state = "Ended"]]
      BY <2>5 DEF StopAcked
    <3>. QED BY <1>0, <3>1, <3>2
  <2>6. ASSUME NEW i \in Starts, StartAcked(i) PROVE sess' \in [Starts -> Sessions]
    <3>1. [[[sess[i] EXCEPT !.start = "ok"] EXCEPT !.state = "on"] EXCEPT !.auto = FALSE] \in Sessions
      BY <1>0, SessionTypes
    <3>2. sess' = [sess EXCEPT ![i] = [[[sess[i] EXCEPT !.start = "ok"] EXCEPT !.state = "on"] EXCEPT !.auto = FALSE]]
      BY <1>0, <2>6 DEF StartAcked
    <3>. QED BY <1>0, <3>1, <3>2
  <2>7. ASSUME NEW i \in Starts, StartRefused(i) PROVE sess' \in [Starts -> Sessions]
    <3>1. [[sess[i] EXCEPT !.start = "refused"] EXCEPT !.state = "Idle"] \in Sessions
      BY <1>0, SessionTypes
    <3>2. sess' = [sess EXCEPT ![i] = [[sess[i] EXCEPT !.start = "refused"] EXCEPT !.state = "Idle"]]
      BY <1>0, <2>7 DEF StartRefused
    <3>. QED BY <1>0, <3>1, <3>2
  <2>8. CASE StartCall
    <3>1. [[[[NoSession EXCEPT !.state = "on"] EXCEPT !.start = "ack"] EXCEPT !.sub = TRUE]
             EXCEPT !.auto = (capture = "off")] \in Sessions
      BY DEF NoSession, Sessions
    <3>. QED BY <1>0, <2>8, <3>1 DEF StartCall
  <2>. QED BY <2>2, <2>3, <2>4, <2>5, <2>6, <2>7, <2>8
<1>3. end' \in [Ends -> EndRuns] /\ task' \in 0 .. MaxEnds /\ upload' \in 0 .. MaxEnds
  <2>1. CASE Stopped
    <3>1. Posted("stopped") /\ end' = [end EXCEPT ![Post.of] = AfterStop(end[Post.of])]
          /\ task' = (IF task = Post.of THEN 0 ELSE task)
          /\ upload' = IF AfterStop(end[Post.of]).at = "local" THEN Post.of ELSE upload
      BY <2>1 DEF Stopped
    <3>2. Post.of \in Ends
      BY <1>0, <3>1, PostedType, PostShapes
    <3>3. AfterStop(end[Post.of]) \in EndRuns
      BY <1>0, <3>2, EndTypes
    <3>. QED BY <1>0, <3>1, <3>2, <3>3, Zeroes DEF DesktopTypeOK
  <2>2. ASSUME NEW e \in Ends, StopAcked(e) PROVE end' \in [Ends -> EndRuns] /\ UNCHANGED <<task, upload>>
    <3>1. end' = [end EXCEPT ![e] = [end[e] EXCEPT !.at = "stopped"]] /\ UNCHANGED <<task, upload>>
      BY <2>2 DEF StopAcked
    <3>2. "stopped" \in Stages
      BY DEF Stages
    <3>. QED BY <1>0, <3>1, <3>2, EndTypes
  <2>3. CASE \/ StartCall \/ \E i \in Starts : StartAcked(i) \/ StartRefused(i)
             \/ StartFailed \/ ShowState \/ Dropped \/ Broken \/ Refused
    BY <2>3 DEF DesktopTypeOK, StartCall, StartAcked, StartRefused, StartFailed, ShowState, Dropped, Broken, Refused
  <2>. QED BY <2>1, <2>2, <2>3 DEF DesktopTypeOK
<1>4. {started, cur, active, arch}' \subseteq 0 .. MaxStarts
  <2>1. CASE StartCall
    <3>1. started' = started + 1 /\ started < MaxStarts /\ (cur' = started + 1 \/ cur' = 0)
          /\ UNCHANGED <<active, arch>>
      BY <2>1 DEF StartCall, archive
    <3>2. started + 1 \in 0 .. MaxStarts
      BY <1>0, <3>1, Counted
    <3>. QED BY <3>1, <3>2, Zeroes DEF DesktopTypeOK
  <2>2. CASE ~ StartCall
    <3>1. /\ UNCHANGED <<started, arch>> /\ (cur' = cur \/ cur' = 0) /\ (active' = active \/ active' = 0)
      BY <2>2 DEF StartAcked, StartRefused, StartFailed, ShowState, Dropped, Broken, Refused, Stopped,
         StopAcked, archive
    <3>. QED BY <3>1, Zeroes DEF DesktopTypeOK
  <2>. QED BY <2>1, <2>2
<1>5. shown' \in CallStates
  <2>1. CASE ShowState
    <3>1. Posted("state") /\ shown' = Post.state
      BY <2>1 DEF ShowState
    <3>. QED BY <1>0, <3>1, PostedType, PostShapes
  <2>2. CASE ~ ShowState
    BY <2>2 DEF DesktopTypeOK, StartCall, StartAcked, StartRefused, StartFailed, Dropped, Broken, Refused,
       Stopped, StopAcked, CallStates
  <2>. QED BY <2>1, <2>2
<1>6. conn' \in {"off", "connecting", "on"}
  BY DEF DesktopTypeOK, StartCall, StartAcked, StartRefused, StartFailed, ShowState, Dropped, Broken, Refused,
     Stopped, StopAcked, link
<1>7. capture' \in {"off", "user", "call"} /\ sinks' \subseteq Starts
  BY DEF DesktopTypeOK, StartCall, StartAcked, StartRefused, StartFailed, ShowState, Dropped, Broken, Refused,
     Stopped, StopAcked, StopCapture, KeepCapture, archive
<1>. QED BY <1>1, <1>2, <1>3, <1>4, <1>5, <1>6, <1>7 DEF DesktopTypeOK

LEMMA DesktopTypeStep ==
    ASSUME DesktopTypeOK, [DesktopNext]_desktop
    PROVE  DesktopTypeOK'
<1>0. posts' \in Seq(Posts)
  BY PostsTyped
<1>1. CASE Drop \/ LetGo
  <2>1. sess' \in [Starts -> Sessions] /\ end' \in [Ends -> EndRuns]
    BY <1>1, LostTypes DEF Drop, LetGo
  <2>2. /\ sock' \in {"none", "linking", "up", "dead"} /\ leave' \in {"no", "ending", "letgo"}
        /\ UNCHANGED <<conn, login, token, shown, started, cur, active, arch, file, task, capture, sinks, pump, upload, closing>>
    BY <1>1 DEF Drop, LetGo, archive, DesktopTypeOK
  <2>. QED BY <1>0, <2>1, <2>2 DEF DesktopTypeOK
<1>2. CASE Started
  <2>1. Posted("started")
    BY <1>2 DEF Started
  <2>2. Post.of \in Starts /\ Post.of \in 0 .. MaxStarts
    BY <2>1, PostedType, PostShapes, Zeroes DEF DesktopTypeOK
  <2>3. file' \in [Starts -> Files] /\ arch' \in 0 .. MaxStarts /\ sinks' \subseteq Starts
    <3>1. \A i \in Starts : [[file[i] EXCEPT !.local = "open"] EXCEPT !.sink = TRUE] \in Files
      BY FileTypes DEF DesktopTypeOK
    <3>2. Opened(Post.of) \in [Starts -> Files]
      BY <2>2, <3>1 DEF Opened, DesktopTypeOK
    <3>. QED BY <1>2, <2>2, <3>2 DEF Started, archive, DesktopTypeOK
  <2>4. active' \in 0 .. MaxStarts
    BY <1>2, <2>2 DEF Started
  <2>5. UNCHANGED <<sock, conn, login, token, shown, started, cur, sess, end, task, capture, pump, leave, upload, closing>>
    BY <1>2 DEF Started, link
  <2>. QED BY <1>0, <2>3, <2>4, <2>5 DEF DesktopTypeOK
<1>3. ASSUME NEW i \in Starts, Give(i) PROVE DesktopTypeOK'
  <2>1. file' \in [Starts -> Files]
    <3>1. Takes(i) => [file[i] EXCEPT !.frames = @ + 1] \in Files
      BY FileTypes DEF Takes, DesktopTypeOK
    <3>2. CASE Takes(i)
      BY <1>3, <3>1, <3>2 DEF Give, DesktopTypeOK
    <3>3. CASE ~ Takes(i)
      BY <1>3, <3>3 DEF Give, DesktopTypeOK
    <3>. QED BY <3>2, <3>3
  <2>2. /\ pump' \subseteq Starts
        /\ UNCHANGED <<sock, conn, login, token, shown, started, cur, active, sess, arch, sinks, end, task,
                       capture, leave, upload, closing>>
    BY <1>3 DEF Give, link, call, DesktopTypeOK
  <2>. QED BY <1>0, <2>1, <2>2 DEF DesktopTypeOK
<1>4. CASE (\E e \in Ends : EndPressed(e)) \/ Disconnect \/ (CloseAsked /\ ~ Exit)
  <2>1. /\ (\E e \in Ends : EndCall(e)) \/ EnsureEnd
        /\ leave' \in {"no", "ending", "letgo"} /\ closing' \in {"no", "ending", "uploading", "closed"}
    BY <1>4 DEF EndPressed, Disconnect, CloseAsked, DesktopTypeOK
  <2>2. /\ shown' \in CallStates /\ cur' \in 0 .. MaxStarts /\ sess' \in [Starts -> Sessions]
        /\ end' \in [Ends -> EndRuns] /\ task' \in 0 .. MaxEnds /\ upload' \in 0 .. MaxEnds
        /\ capture' \in {"off", "user", "call"} /\ sinks' \subseteq Starts
        /\ file' \in [Starts -> Files]
        /\ UNCHANGED <<link, started, active, arch, posts, pump, troubles>>
    BY <2>1, EndCallTypes, EnsureEndTypes
  <2>. QED BY <1>0, <2>1, <2>2 DEF DesktopTypeOK, link
<1>5. CASE (CloseAsked /\ Exit) \/ Close
  BY <1>5, ExitTypes DEF Close
<1>6. CASE \E e \in Ends : UploadStep(e)
  BY <1>6, UploadTypes
<1>7. CASE \/ Connect \/ LoginFails \/ LoggedIn \/ Linked \/ LinkFails
           \/ \E kind \in {"broken", "refused"} : Trouble(kind)
           \/ Disconnected \/ CallOver \/ UserStartsCapture \/ UserStopsCapture \/ Drain
           \/ StartCallWithoutCapture \/ ShowConnected \/ UNCHANGED desktop
  BY <1>0, <1>7, LinkStepTypes
<1>8. CASE \/ StartCall \/ \E i \in Starts : StartAcked(i) \/ StartRefused(i)
           \/ StartFailed \/ ShowState \/ Dropped \/ Broken \/ Refused \/ Stopped
           \/ \E e \in Ends : StopAcked(e)
  BY <1>0, <1>8, CallStepTypes
<1>9. CASE Window
  BY <1>2, <1>7, <1>8, <1>9 DEF Window
<1>10. CASE DesktopNext
  BY <1>1, <1>3, <1>4, <1>5, <1>6, <1>7, <1>8, <1>9, <1>10 DEF DesktopNext
<1>. QED BY <1>7, <1>10

LEMMA DesktopTypesStart == DesktopInit => DesktopTypeOK
<1>. SUFFICES ASSUME DesktopInit PROVE DesktopTypeOK
  OBVIOUS
<1>1. sess \in [Starts -> Sessions] /\ end \in [Ends -> EndRuns] /\ file \in [Starts -> Files]
  <2>1. NoSession \in Sessions
    BY DEF NoSession, Sessions
  <2>2. NoEnd \in EndRuns
    BY Zeroes DEF NoEnd, EndRuns, Stages
  <2>3. NoFile \in Files
    BY Counted DEF NoFile, Files
  <2>. QED BY <2>1, <2>2, <2>3 DEF DesktopInit
<1>2. posts \in Seq(Posts) /\ shown \in CallStates
  BY NoPosts DEF DesktopInit, CallStates
<1>3. {started, cur, active, arch} \subseteq 0 .. MaxStarts /\ task \in 0 .. MaxEnds /\ upload \in 0 .. MaxEnds
  BY Zeroes DEF DesktopInit
<1>4. login \in BOOLEAN /\ token \in BOOLEAN
  BY Zenon DEF DesktopInit
<1>. QED BY <1>1, <1>2, <1>3, <1>4 DEF DesktopInit, DesktopTypeOK

\* The window, its sessions, its queue and the archives keep their types, for
\* any number of calls, ends, connections and troubles.
THEOREM DesktopTyping == DesktopSpec => []DesktopTypeOK
<1>. QED BY DesktopTypesStart, DesktopTypeStep, PTL DEF DesktopSpec

-----------------------------------------------------------------------------
(* The queue of the window: a call is started once, and a state that shows *)
(* a call as over is followed by what lets go of its session.              *)

Has(q, kind, i) == \E j \in 1 .. Len(q) : q[j].kind = kind /\ q[j].of = i
Cleans(q) == \E j \in 1 .. Len(q) : q[j].kind \in {"failed", "stopped"}
Once(q) ==
  \A j, k \in 1 .. Len(q) : (q[j].kind = "started" /\ q[k].kind = "started" /\ q[j].of = q[k].of) => j = k
ShowsOver(m) == m.kind = "state" /\ m.state \in {"Idle", "Ended"}
Followed(q) ==
  \A j \in 1 .. Len(q) : ShowsOver(q[j]) =>
    \E k \in 1 .. Len(q) : j < k /\ q[k].kind \in {"failed", "stopped"}

LEMMA QueuePopped ==
    ASSUME NEW q \in Seq(Posts), q # << >>
    PROVE  /\ \A kind, i : Has(Tail(q), kind, i) => Has(q, kind, i)
           /\ \A kind, i : Has(q, kind, i) => (Head(q).kind = kind /\ Head(q).of = i) \/ Has(Tail(q), kind, i)
           /\ Cleans(Tail(q)) => Cleans(q)
           /\ Cleans(q) => Head(q).kind \in {"failed", "stopped"} \/ Cleans(Tail(q))
           /\ Once(q) => Once(Tail(q))
           /\ (Once(q) /\ Head(q).kind = "started") => ~ Has(Tail(q), "started", Head(q).of)
           /\ Followed(q) => Followed(Tail(q))
           /\ (Followed(q) /\ ShowsOver(Head(q))) => Cleans(Tail(q))
<1>1. PICK n \in Nat \ {0} : n = Len(q)
  BY Pops
<1>2. /\ Head(q) = q[1] /\ Len(Tail(q)) = n - 1
      /\ \A j \in 1 .. n - 1 : Tail(q)[j] = q[j + 1]
  BY <1>1, Pops
<1>3. \A j \in 1 .. n - 1 : j + 1 \in 1 .. n /\ j + 1 # 1
  BY <1>1
<1>4. \A j \in 1 .. n : j = 1 \/ (j - 1 \in 1 .. n - 1 /\ (j - 1) + 1 = j)
  BY <1>1
<1>5. \A j \in 2 .. n : Tail(q)[j - 1] = q[j] /\ j - 1 \in 1 .. n - 1
  BY <1>1, <1>2, <1>4
<1>6. \A j \in 1 .. n : j = 1 \/ (j - 1 \in 1 .. n - 1 /\ Tail(q)[j - 1] = q[j])
  BY <1>2, <1>4
<1>7. 1 \in 1 .. n
  BY <1>1
<1>8. \A kind, i : Has(Tail(q), kind, i) => Has(q, kind, i)
  BY <1>1, <1>2, <1>3 DEF Has
<1>9. \A kind, i : Has(q, kind, i) => (Head(q).kind = kind /\ Head(q).of = i) \/ Has(Tail(q), kind, i)
  <2>1. SUFFICES ASSUME NEW kind, NEW i, NEW j \in 1 .. n, q[j].kind = kind, q[j].of = i
                 PROVE  (Head(q).kind = kind /\ Head(q).of = i) \/ Has(Tail(q), kind, i)
    BY <1>1 DEF Has
  <2>2. CASE j = 1
    BY <1>2, <2>1, <2>2
  <2>3. CASE j # 1
    BY <1>2, <1>6, <2>1, <2>3 DEF Has
  <2>. QED BY <2>2, <2>3
<1>10. Cleans(Tail(q)) => Cleans(q)
  BY <1>1, <1>2, <1>3 DEF Cleans
<1>11. Cleans(q) => Head(q).kind \in {"failed", "stopped"} \/ Cleans(Tail(q))
  <2>1. SUFFICES ASSUME NEW j \in 1 .. n, q[j].kind \in {"failed", "stopped"}
                 PROVE  Head(q).kind \in {"failed", "stopped"} \/ Cleans(Tail(q))
    BY <1>1 DEF Cleans
  <2>2. CASE j = 1
    BY <1>2, <2>1, <2>2
  <2>3. CASE j # 1
    BY <1>2, <1>6, <2>1, <2>3 DEF Cleans
  <2>. QED BY <2>2, <2>3
<1>12. Once(q) => Once(Tail(q))
  <2>1. SUFFICES ASSUME Once(q), NEW j \in 1 .. n - 1, NEW k \in 1 .. n - 1,
                        Tail(q)[j].kind = "started", Tail(q)[k].kind = "started",
                        Tail(q)[j].of = Tail(q)[k].of
                 PROVE  j = k
    BY <1>2 DEF Once
  <2>2. j + 1 \in 1 .. n /\ k + 1 \in 1 .. n /\ Tail(q)[j] = q[j + 1] /\ Tail(q)[k] = q[k + 1]
    BY <1>2, <1>3
  <2>3. j + 1 = k + 1
    BY <1>1, <2>1, <2>2 DEF Once
  <2>. QED BY <2>3
<1>13. (Once(q) /\ Head(q).kind = "started") => ~ Has(Tail(q), "started", Head(q).of)
  <2>1. SUFFICES ASSUME Once(q), Head(q).kind = "started", NEW j \in 1 .. n - 1,
                        Tail(q)[j].kind = "started", Tail(q)[j].of = Head(q).of
                 PROVE  FALSE
    BY <1>2 DEF Has
  <2>2. j + 1 \in 1 .. n /\ Tail(q)[j] = q[j + 1] /\ j + 1 # 1
    BY <1>2, <1>3
  <2>. QED BY <1>1, <1>2, <1>7, <2>1, <2>2 DEF Once
<1>14. Followed(q) => Followed(Tail(q))
  <2>1. SUFFICES ASSUME Followed(q), NEW j \in 1 .. n - 1, ShowsOver(Tail(q)[j])
                 PROVE  \E k \in 1 .. n - 1 : j < k /\ Tail(q)[k].kind \in {"failed", "stopped"}
    BY <1>2 DEF Followed
  <2>2. j + 1 \in 1 .. n /\ ShowsOver(q[j + 1])
    BY <1>2, <1>3, <2>1
  <2>3. PICK k \in 1 .. n : j + 1 < k /\ q[k].kind \in {"failed", "stopped"}
    BY <1>1, <2>1, <2>2 DEF Followed
  <2>4. k - 1 \in 1 .. n - 1 /\ j < k - 1 /\ k # 1
    BY <1>1, <2>3
  <2>. QED BY <1>6, <2>3, <2>4
<1>15. (Followed(q) /\ ShowsOver(Head(q))) => Cleans(Tail(q))
  <2>1. SUFFICES ASSUME Followed(q), ShowsOver(q[1]) PROVE Cleans(Tail(q))
    BY <1>2
  <2>2. PICK k \in 1 .. n : 1 < k /\ q[k].kind \in {"failed", "stopped"}
    BY <1>1, <1>7, <2>1 DEF Followed
  <2>3. k # 1
    BY <2>2
  <2>. QED BY <1>2, <1>6, <2>2, <2>3 DEF Cleans
<1>. QED BY <1>8, <1>9, <1>10, <1>11, <1>12, <1>13, <1>14, <1>15

LEMMA QueuePushed ==
    ASSUME NEW q \in Seq(Posts), NEW m \in Posts
    PROVE  /\ \A kind, i : Has(q \o <<m>>, kind, i) <=> Has(q, kind, i) \/ (m.kind = kind /\ m.of = i)
           /\ Cleans(q \o <<m>>) <=> Cleans(q) \/ m.kind \in {"failed", "stopped"}
           /\ (Once(q) /\ (m.kind = "started" => ~ Has(q, "started", m.of))) => Once(q \o <<m>>)
           /\ (Followed(q) /\ ~ ShowsOver(m)) => Followed(q \o <<m>>)
           /\ m.kind \in {"failed", "stopped"} => Followed(q \o <<m>>)
<1>1. PICK n \in Nat : n = Len(q)
  OBVIOUS
<1>2. PICK p \in Seq(Posts) : /\ p = q \o <<m>> /\ Len(p) = n + 1 /\ p[n + 1] = m
                              /\ \A j \in 1 .. n : p[j] = q[j]
  BY <1>1, Pushes
<1>3. \A j \in 1 .. n + 1 : j \in 1 .. n \/ j = n + 1
  BY <1>1
<1>4. \A j \in 1 .. n : j \in 1 .. n + 1 /\ j < n + 1
  BY <1>1
<1>5. n + 1 \in 1 .. n + 1
  BY <1>1
<1>6. \A kind, i : Has(p, kind, i) <=> Has(q, kind, i) \/ (m.kind = kind /\ m.of = i)
  <2>1. ASSUME NEW kind, NEW i, Has(p, kind, i)
        PROVE  Has(q, kind, i) \/ (m.kind = kind /\ m.of = i)
    BY <1>1, <1>2, <1>3, <2>1 DEF Has
  <2>2. ASSUME NEW kind, NEW i, Has(q, kind, i) \/ (m.kind = kind /\ m.of = i)
        PROVE  Has(p, kind, i)
    BY <1>1, <1>2, <1>4, <1>5, <2>2 DEF Has
  <2>. QED BY <2>1, <2>2
<1>7. Cleans(p) <=> Cleans(q) \/ m.kind \in {"failed", "stopped"}
  <2>1. ASSUME Cleans(p) PROVE Cleans(q) \/ m.kind \in {"failed", "stopped"}
    BY <1>1, <1>2, <1>3, <2>1 DEF Cleans
  <2>2. ASSUME Cleans(q) \/ m.kind \in {"failed", "stopped"} PROVE Cleans(p)
    BY <1>1, <1>2, <1>4, <1>5, <2>2 DEF Cleans
  <2>. QED BY <2>1, <2>2
<1>8. (Once(q) /\ (m.kind = "started" => ~ Has(q, "started", m.of))) => Once(p)
  <2>1. SUFFICES ASSUME Once(q), m.kind = "started" => ~ Has(q, "started", m.of),
                        NEW j \in 1 .. n + 1, NEW k \in 1 .. n + 1,
                        p[j].kind = "started", p[k].kind = "started", p[j].of = p[k].of
                 PROVE  j = k
    BY <1>2 DEF Once
  <2>2. CASE j \in 1 .. n /\ k \in 1 .. n
    BY <1>1, <1>2, <2>1, <2>2 DEF Once
  <2>3. CASE j = n + 1 /\ k \in 1 .. n
    BY <1>1, <1>2, <2>1, <2>3 DEF Has
  <2>4. CASE k = n + 1 /\ j \in 1 .. n
    BY <1>1, <1>2, <2>1, <2>4 DEF Has
  <2>. QED BY <1>3, <2>1, <2>2, <2>3, <2>4
<1>9. (Followed(q) /\ ~ ShowsOver(m)) => Followed(p)
  <2>1. SUFFICES ASSUME Followed(q), ~ ShowsOver(m), NEW j \in 1 .. n + 1, ShowsOver(p[j])
                 PROVE  \E k \in 1 .. n + 1 : j < k /\ p[k].kind \in {"failed", "stopped"}
    BY <1>2 DEF Followed
  <2>2. j \in 1 .. n /\ ShowsOver(q[j])
    BY <1>2, <1>3, <2>1
  <2>3. PICK k \in 1 .. n : j < k /\ q[k].kind \in {"failed", "stopped"}
    BY <1>1, <2>1, <2>2 DEF Followed
  <2>. QED BY <1>2, <1>4, <2>3
<1>10. m.kind \in {"failed", "stopped"} => Followed(p)
  <2>1. SUFFICES ASSUME m.kind \in {"failed", "stopped"}, NEW j \in 1 .. n + 1, ShowsOver(p[j])
                 PROVE  \E k \in 1 .. n + 1 : j < k /\ p[k].kind \in {"failed", "stopped"}
    BY <1>2 DEF Followed
  <2>2. j # n + 1
    BY <1>2, <2>1 DEF ShowsOver
  <2>. QED BY <1>2, <1>3, <1>4, <1>5, <2>1, <2>2
<1>. QED BY <1>2, <1>6, <1>7, <1>8, <1>9, <1>10

LEMMA QueueEmpty ==
  /\ \A kind, i : ~ Has(<< >>, kind, i)
  /\ ~ Cleans(<< >>) /\ Once(<< >>) /\ Followed(<< >>)
BY EmptySeq DEF Has, Cleans, Once, Followed

-----------------------------------------------------------------------------
(* The archive of a call is opened once, before any end of a call has it,  *)
(* and is shut for good when one takes it.                                 *)

Untouched(i) == arch # i /\ \A e \in Ends : end[e].arch # i

RunsFit ==
  \A e \in Ends :
    /\ end[e].at = "none" => end[e].arch = 0
    /\ end[e].at \in Uploading \cup {"done"} => end[e].arch # 0

OpenedOnce ==
  /\ Once(posts)
  /\ \A i \in Starts :
       /\ sess[i].start # "ok" => Untouched(i) /\ ~ Has(posts, "started", i)
       /\ Has(posts, "started", i) => Untouched(i)
       /\ i > started => sess[i].start = "no"

ShutForGood == \A e \in Ends : end[e].arch # 0 => ~ file[end[e].arch].sink

DiskInv == RunsFit /\ OpenedOnce /\ ShutForGood /\ AudioDoesNotStay

\* Nothing is started, no archive moves and no upload begins or ends.
LEMMA DiskStays ==
    ASSUME DesktopTypeOK, DiskInv,
           UNCHANGED <<arch, file>>, Once(posts'),
           \A i \in Starts : /\ sess'[i].start = "ok" <=> sess[i].start = "ok"
                             /\ i > started' => sess'[i].start = "no"
                             /\ Has(posts', "started", i) => Has(posts, "started", i),
           \A e \in Ends : /\ end'[e].arch = end[e].arch
                           /\ \/ end'[e].at = end[e].at
                              \/ /\ end[e].at \in {"ack", "lost", "stopped"}
                                 /\ end'[e].at \in {"ack", "lost", "stopped", "over"}
                              \/ end'[e].at = "local" /\ end[e].arch # 0
                              \/ end'[e].at = "over"
    PROVE  DiskInv'
<1>1. RunsFit'
  <2>1. SUFFICES ASSUME NEW e \in Ends
                 PROVE  /\ end'[e].at = "none" => end'[e].arch = 0
                        /\ end'[e].at \in Uploading \cup {"done"} => end'[e].arch # 0
    BY DEF RunsFit
  <2>2. /\ end[e].at = "none" => end[e].arch = 0
        /\ end[e].at \in Uploading \cup {"done"} => end[e].arch # 0
    BY DEF DiskInv, RunsFit
  <2>. QED BY <2>2 DEF Uploading
<1>2. \A i \in Starts : Untouched(i) => Untouched(i)'
  BY DEF Untouched
<1>3. OpenedOnce'
  BY <1>2 DEF DiskInv, OpenedOnce
<1>4. ShutForGood'
  BY DEF DiskInv, ShutForGood
<1>5. AudioDoesNotStay'
  <2>1. SUFFICES ASSUME NEW e \in Ends, end'[e].at = "done"
                 PROVE  \/ file[end[e].arch].local = "gone"
                        \/ \E d \in Ends \ {e} : end'[d].arch = end'[e].arch /\ end'[d].at # "done"
    BY DEF AudioDoesNotStay, Of
  <2>2. end[e].at = "done"
    BY <2>1
  <2>3. CASE file[end[e].arch].local = "gone"
    BY <2>3
  <2>4. ASSUME NEW d \in Ends \ {e}, end[d].arch = end[e].arch, end[d].at # "done"
        PROVE  end'[d].arch = end'[e].arch /\ end'[d].at # "done"
    BY <2>4
  <2>. QED BY <2>2, <2>3, <2>4 DEF DiskInv, AudioDoesNotStay, Of
<1>. QED BY <1>1, <1>3, <1>4, <1>5 DEF DiskInv

\* Letting a session go neither makes nor takes back an id.
LEMMA LettingGoKeeps ==
    ASSUME DesktopTypeOK
    PROVE  \A i \in Starts : /\ LettingGo(cur)[i].start = "ok" <=> sess[i].start = "ok"
                             /\ sess[i].start = "no" => LettingGo(cur)[i].start = "no"
<1>1. ASSUME NEW s \in Sessions
      PROVE  /\ Released(s).start = "ok" <=> s.start = "ok"
             /\ s.start = "no" => Released(s).start = "no"
  <2>1. CASE s.start = "ack"
    <3>1. Released(s) = [s EXCEPT !.sub = FALSE]
      BY <2>1 DEF Released
    <3>. QED BY <2>1, <3>1 DEF Sessions
  <2>2. CASE s.start = "ok"
    <3>1. Released(s) = [NoSession EXCEPT !.start = "ok"]
      BY <2>2 DEF Released
    <3>. QED BY <2>2, <3>1 DEF NoSession
  <2>3. CASE s.start # "ack" /\ s.start # "ok"
    <3>1. Released(s) = NoSession
      BY <2>3 DEF Released
    <3>. QED BY <2>3, <3>1 DEF NoSession
  <2>. QED BY <2>1, <2>2, <2>3
<1>2. cur \in 0 .. MaxStarts /\ sess \in [Starts -> Sessions]
  BY DEF DesktopTypeOK
<1>3. \A k \in Starts : LettingGo(cur)[k] = IF k = cur THEN Released(sess[k]) ELSE sess[k]
  BY <1>2, LettingGoType
<1>. QED BY <1>1, <1>2, <1>3

\* What is pushed but is not a start, and what is popped, starts nothing.
LEMMA QueueStays ==
    ASSUME DesktopTypeOK, DiskInv
    PROVE  /\ \A m \in Posts : (m.kind # "started") =>
                /\ Once(posts \o <<m>>)
                /\ \A i \in Starts : Has(posts \o <<m>>, "started", i) <=> Has(posts, "started", i)
           /\ posts # << >> =>
                /\ Once(Tail(posts))
                /\ \A i \in Starts : Has(Tail(posts), "started", i) => Has(posts, "started", i)
BY QueuePushed, QueuePopped DEF DesktopTypeOK, DiskInv, OpenedOnce

LEMMA PoppedStarts ==
    ASSUME DesktopTypeOK, DiskInv, NEW kind, Posted(kind)
    PROVE  /\ Once(posts')
           /\ \A i \in Starts : Has(posts', "started", i) => Has(posts, "started", i)
BY PostedType, QueueStays DEF DesktopTypeOK

LEMMA QuietDisk ==
    ASSUME DesktopTypeOK, DiskInv,
           \/ Connect \/ LoginFails \/ LoggedIn \/ Linked \/ LinkFails
           \/ \E kind \in {"broken", "refused"} : Trouble(kind)
           \/ Disconnected \/ CallOver \/ UserStartsCapture \/ UserStopsCapture \/ Drain
           \/ StartCallWithoutCapture \/ ShowConnected \/ ShowState \/ UNCHANGED desktop
    PROVE  DiskInv'
<1>1. UNCHANGED <<arch, file, sess, started, end>>
  BY DEF Connect, LoginFails, LoggedIn, Linked, LinkFails, Trouble, Disconnected, CallOver, ShowState,
     UserStartsCapture, UserStopsCapture, Drain, StartCallWithoutCapture, ShowConnected, desktop, link, call, archive
<1>2. Once(posts') /\ \A i \in Starts : Has(posts', "started", i) => Has(posts, "started", i)
  <2>1. CASE Linked \/ \E kind \in {"broken", "refused"} : Trouble(kind)
    <3>1. PICK m \in Posts : m.kind # "started" /\ posts' = Append(posts, m)
      BY <2>1, PostKinds DEF Linked, Trouble
    <3>2. posts' = posts \o <<m>>
      BY <3>1, Pushes DEF DesktopTypeOK
    <3>. QED BY <3>1, <3>2, QueueStays
  <2>2. CASE ShowConnected \/ ShowState
    BY <2>2, PoppedStarts DEF ShowConnected, ShowState
  <2>3. CASE posts' = posts
    BY <2>3 DEF DiskInv, OpenedOnce
  <2>. QED BY <2>1, <2>2, <2>3 DEF Connect, LoginFails, LoggedIn, LinkFails, Disconnected, CallOver,
           UserStartsCapture, UserStopsCapture, Drain, StartCallWithoutCapture, desktop
<1>3. \A i \in Starts : i > started => sess[i].start = "no"
  BY DEF DiskInv, OpenedOnce
<1>. QED BY <1>1, <1>2, <1>3, DiskStays

LEMMA LostDisk ==
    ASSUME DesktopTypeOK, DiskInv, Drop \/ LetGo
    PROVE  DiskInv'
<1>1. UNCHANGED <<arch, file, started>> /\ Lost
  BY DEF Drop, LetGo, archive
<1>2. Once(posts') /\ \A i \in Starts : Has(posts', "started", i) => Has(posts, "started", i)
  <2>1. [kind |-> "dropped"] \in Posts /\ [kind |-> "dropped"].kind # "started"
    BY PostKinds
  <2>2. posts' = posts \/ posts' = posts \o <<[kind |-> "dropped"]>>
    BY <2>1, Pushes DEF Drop, LetGo, DesktopTypeOK
  <2>3. CASE posts' = posts
    BY <2>3 DEF DiskInv, OpenedOnce
  <2>. QED BY <2>1, <2>2, <2>3, QueueStays
<1>3. \A i \in Starts : sess'[i] = sess[i] \/ (sess[i].start = "ack" /\ sess'[i].start = "lost")
  BY <1>1, LostTypes DEF DesktopTypeOK, Sessions
<1>4. \A e \in Ends : /\ end'[e].arch = end[e].arch
                      /\ end'[e].at = end[e].at \/ (end[e].at = "ack" /\ end'[e].at = "lost")
  BY <1>1, LostTypes DEF DesktopTypeOK, EndRuns
<1>5. \A i \in Starts : i > started => sess[i].start = "no"
  BY DEF DiskInv, OpenedOnce
<1>. QED BY <1>1, <1>2, <1>3, <1>4, <1>5, DiskStays

LEMMA SessionDisk ==
    ASSUME DesktopTypeOK, DiskInv,
           \/ StartCall \/ StartFailed \/ Dropped \/ Broken \/ Refused
           \/ \E i \in Starts : StartRefused(i)
           \/ \E e \in Ends : StopAcked(e)
    PROVE  DiskInv'
<1>0. /\ sess \in [Starts -> Sessions] /\ posts \in Seq(Posts) /\ started \in 0 .. MaxStarts
      /\ end \in [Ends -> EndRuns]
  BY DEF DesktopTypeOK
<1>1. UNCHANGED <<arch, file>>
  BY DEF StartCall, StartFailed, Dropped, Broken, Refused, StartRefused, StopAcked, archive
<1>2. \A i \in Starts : i > started => sess[i].start = "no"
  BY DEF DiskInv, OpenedOnce
<1>3. \A i \in Starts : /\ sess'[i].start = "ok" <=> sess[i].start = "ok"
                        /\ i > started' => sess'[i].start = "no"
  <2>1. CASE StartCall
    <3>1. started + 1 \in Starts /\ started + 1 > started
      BY <1>0, <2>1, Counted DEF StartCall, Starts
    <3>2. sess[started + 1].start = "no"
      BY <1>2, <3>1
    <3>3. \A i \in Starts : sess'[i] = sess[i] \/ (i = started + 1 /\ sess'[i].start = "ack")
      BY <1>0, <2>1 DEF StartCall, NoSession
    <3>4. \A i \in Starts : i > started' => i > started /\ i # started + 1
      BY <1>0, <2>1 DEF StartCall, Starts
    <3>. QED BY <1>2, <3>2, <3>3, <3>4
  <2>2. CASE StartFailed \/ Dropped \/ Broken
    BY <1>2, <2>2, LettingGoKeeps DEF StartFailed, Dropped, Broken
  <2>3. CASE Refused
    <3>1. \A i \in Starts : sess'[i].start = sess[i].start
      BY <1>0, <2>3 DEF Refused, Sessions
    <3>. QED BY <1>2, <2>3, <3>1 DEF Refused
  <2>4. ASSUME NEW i \in Starts, StartRefused(i)
        PROVE  /\ \A k \in Starts : /\ sess'[k].start = "ok" <=> sess[k].start = "ok"
                                    /\ k > started' => sess'[k].start = "no"
    <3>1. sess[i].start = "ack" /\ started' = started
      BY <2>4 DEF StartRefused
    <3>2. \A k \in Starts : sess'[k].start = IF k = i THEN "refused" ELSE sess[k].start
      BY <1>0, <2>4 DEF StartRefused, Sessions
    <3>. QED BY <1>2, <3>1, <3>2
  <2>5. ASSUME NEW e \in Ends, StopAcked(e)
        PROVE  /\ \A k \in Starts : /\ sess'[k].start = "ok" <=> sess[k].start = "ok"
                                    /\ k > started' => sess'[k].start = "no"
    <3>1. sess' = [sess EXCEPT ![end[e].of] = [sess[end[e].of] EXCEPT !.state = "Ended"]]
      BY <2>5 DEF StopAcked
    <3>2. ASSUME NEW k \in Starts PROVE sess'[k].start = sess[k].start
      <4>1. CASE k = end[e].of
        BY <1>0, <3>1, <4>1 DEF Sessions
      <4>2. CASE k # end[e].of
        BY <1>0, <3>1, <4>2
      <4>. QED BY <4>1, <4>2
    <3>3. started' = started
      BY <2>5 DEF StopAcked
    <3>. QED BY <1>2, <3>2, <3>3
  <2>. QED BY <2>1, <2>2, <2>3, <2>4, <2>5
<1>4. Once(posts') /\ \A i \in Starts : Has(posts', "started", i) => Has(posts, "started", i)
  <2>1. CASE StartCall
    <3>1. posts' = posts
      BY <2>1 DEF StartCall
    <3>. QED BY <3>1 DEF DiskInv, OpenedOnce
  <2>2. CASE StartFailed \/ Dropped \/ Broken \/ Refused
    BY <2>2, PoppedStarts DEF StartFailed, Dropped, Broken, Refused
  <2>3. ASSUME NEW i \in Starts, StartRefused(i)
        PROVE  Once(posts') /\ \A k \in Starts : Has(posts', "started", k) => Has(posts, "started", k)
    <3>1. [kind |-> "failed", of |-> i] \in Posts /\ [kind |-> "state", state |-> "Idle"] \in Posts
      BY PostKinds DEF CallStates
    <3>2. PICK q \in Seq(Posts) : /\ q = posts \/ q = posts \o <<[kind |-> "state", state |-> "Idle"]>>
                                  /\ posts' = q \o <<[kind |-> "failed", of |-> i]>>
      <4>1. "Idle" \in CallStates
        BY DEF CallStates
      <4>. QED BY <1>0, <2>3, <4>1, ToldType DEF StartRefused
    <3>3. Once(q) /\ \A k \in Starts : Has(q, "started", k) => Has(posts, "started", k)
      <4>1. [kind |-> "state", state |-> "Idle"].kind # "started"
        OBVIOUS
      <4>2. CASE q = posts
        BY <4>2 DEF DiskInv, OpenedOnce
      <4>. QED BY <3>1, <3>2, <4>1, <4>2, QueueStays
    <3>4. [kind |-> "failed", of |-> i].kind # "started"
      OBVIOUS
    <3>. QED BY <3>1, <3>2, <3>3, <3>4, QueuePushed
  <2>4. ASSUME NEW e \in Ends, StopAcked(e)
        PROVE  Once(posts') /\ \A k \in Starts : Has(posts', "started", k) => Has(posts, "started", k)
    <3>1. [kind |-> "stopped", of |-> e] \in Posts /\ [kind |-> "state", state |-> "Ended"] \in Posts
      BY PostKinds DEF CallStates
    <3>2. PICK q \in Seq(Posts) : /\ q = posts \/ q = posts \o <<[kind |-> "state", state |-> "Ended"]>>
                                  /\ posts' = q \o <<[kind |-> "stopped", of |-> e]>>
      BY <2>4, StopAckedPosts
    <3>3. Once(q) /\ \A k \in Starts : Has(q, "started", k) => Has(posts, "started", k)
      <4>1. [kind |-> "state", state |-> "Ended"].kind # "started"
        OBVIOUS
      <4>2. CASE q = posts
        BY <4>2 DEF DiskInv, OpenedOnce
      <4>. QED BY <3>1, <3>2, <4>1, <4>2, QueueStays
    <3>4. [kind |-> "stopped", of |-> e].kind # "started"
      OBVIOUS
    <3>. QED BY <3>1, <3>2, <3>3, <3>4, QueuePushed
  <2>. QED BY <2>1, <2>2, <2>3, <2>4
<1>5. \A e \in Ends : /\ end'[e].arch = end[e].arch
                      /\ \/ end'[e].at = end[e].at
                         \/ end[e].at = "ack" /\ end'[e].at = "stopped"
  <2>1. ASSUME NEW e \in Ends, StopAcked(e)
        PROVE  \A d \in Ends : /\ end'[d].arch = end[d].arch
                               /\ \/ end'[d].at = end[d].at
                                  \/ end[d].at = "ack" /\ end'[d].at = "stopped"
    <3>1. end' = [end EXCEPT ![e] = [end[e] EXCEPT !.at = "stopped"]] /\ end[e].at = "ack"
      BY <2>1 DEF StopAcked
    <3>2. ASSUME NEW d \in Ends
          PROVE  /\ end'[d].arch = end[d].arch
                 /\ \/ end'[d].at = end[d].at
                    \/ end[d].at = "ack" /\ end'[d].at = "stopped"
      <4>1. CASE d = e
        BY <1>0, <3>1, <4>1 DEF EndRuns
      <4>2. CASE d # e
        BY <1>0, <3>1, <4>2
      <4>. QED BY <4>1, <4>2
    <3>. QED BY <3>2
  <2>2. CASE UNCHANGED end
    BY <2>2
  <2>. QED BY <2>1, <2>2 DEF StartCall, StartFailed, Dropped, Broken, Refused, StartRefused
<1>. QED BY <1>1, <1>3, <1>4, <1>5, DiskStays

\* The server has started a call: what opens its archive is posted.
LEMMA AckedDisk ==
    ASSUME DesktopTypeOK, DiskInv, NEW i \in Starts, StartAcked(i)
    PROVE  DiskInv'
<1>0. /\ sess \in [Starts -> Sessions] /\ posts \in Seq(Posts) /\ started \in 0 .. MaxStarts
      /\ OpenedOnce /\ sess[i].start = "ack"
  BY DEF DesktopTypeOK, DiskInv, StartAcked
<1>1. UNCHANGED <<arch, file, end, started>>
  BY DEF StartAcked, archive
<1>2. \A k \in Starts : sess'[k].start = IF k = i THEN "ok" ELSE sess[k].start
  <2>1. sess' = [sess EXCEPT ![i] = [[[sess[i] EXCEPT !.start = "ok"] EXCEPT !.state = "on"] EXCEPT !.auto = FALSE]]
    BY DEF StartAcked
  <2>. QED BY <1>0, <2>1 DEF Sessions
<1>3. Untouched(i) /\ ~ Has(posts, "started", i) /\ ~ (i > started)
  BY <1>0 DEF OpenedOnce
<1>4. PICK q \in Seq(Posts) : /\ q = posts \/ q = posts \o <<[kind |-> "state", state |-> "InCall"]>>
                              /\ posts' = q \o <<[kind |-> "started", of |-> i]>>
  <2>1. "InCall" \in CallStates
    BY DEF CallStates
  <2>. QED BY <1>0, <2>1, ToldType DEF StartAcked
<1>5. Once(q) /\ \A k \in Starts : Has(q, "started", k) <=> Has(posts, "started", k)
  <2>1. [kind |-> "state", state |-> "InCall"].kind # "started"
        /\ [kind |-> "state", state |-> "InCall"] \in Posts
    BY PostKinds DEF CallStates
  <2>2. CASE q = posts
    BY <1>0, <2>2 DEF OpenedOnce
  <2>. QED BY <1>4, <2>1, <2>2, QueueStays
<1>6. PICK m \in Posts : m = [kind |-> "started", of |-> i] /\ m.kind = "started" /\ m.of = i
  BY PostKinds
<1>7. Once(posts') /\ \A k \in Starts : Has(posts', "started", k) <=> Has(posts, "started", k) \/ k = i
  BY <1>3, <1>4, <1>5, <1>6, QueuePushed
<1>8. \A k \in Starts : Untouched(k) => Untouched(k)'
  BY <1>1 DEF Untouched
<1>9. OpenedOnce'
  <2>1. SUFFICES ASSUME NEW k \in Starts
                 PROVE  /\ sess'[k].start # "ok" => Untouched(k)' /\ ~ Has(posts', "started", k)
                        /\ Has(posts', "started", k) => Untouched(k)'
                        /\ k > started' => sess'[k].start = "no"
    BY <1>7 DEF OpenedOnce
  <2>2. CASE k = i
    BY <1>1, <1>2, <1>3, <1>8, <2>2
  <2>3. CASE k # i
    BY <1>0, <1>1, <1>2, <1>7, <1>8, <2>3 DEF OpenedOnce
  <2>. QED BY <2>2, <2>3
<1>10. RunsFit' /\ ShutForGood' /\ AudioDoesNotStay'
  BY <1>1 DEF DiskInv, RunsFit, ShutForGood, AudioDoesNotStay, Of
<1>. QED BY <1>9, <1>10 DEF DiskInv

\* The archive of a call is opened: no end of a call has it yet.
LEMMA StartedDisk ==
    ASSUME DesktopTypeOK, DiskInv, Started
    PROVE  DiskInv'
<1>0. /\ posts \in Seq(Posts) /\ OpenedOnce /\ Posted("started") /\ file \in [Starts -> Files]
      /\ end \in [Ends -> EndRuns] /\ UNCHANGED <<sess, end, started>>
  BY DEF DesktopTypeOK, DiskInv, Started
<1>1. Post \in Posts /\ Post = Head(posts) /\ Post.kind = "started" /\ posts' = Tail(posts) /\ posts # << >>
  BY <1>0, PostedType DEF Post
<1>2. PICK i \in Starts : i = Post.of
  BY <1>1, PostShapes
<1>3. Has(posts, "started", i)
  <2>1. Head(posts) = posts[1] /\ 1 \in 1 .. Len(posts)
    BY <1>0, <1>1, Pops
  <2>. QED BY <1>1, <1>2, <2>1 DEF Has
<1>4. Untouched(i) /\ sess[i].start = "ok"
  BY <1>0, <1>3 DEF OpenedOnce
<1>5. /\ Once(posts') /\ ~ Has(posts', "started", i)
      /\ \A k \in Starts : Has(posts', "started", k) => Has(posts, "started", k)
  BY <1>0, <1>1, <1>2, QueuePopped DEF OpenedOnce
<1>6. \/ arch' = i /\ file' = Opened(i)
      \/ arch' = arch /\ file' = file
  BY <1>2 DEF Started, archive
<1>7. \A k \in Starts : k # i => file'[k] = file[k]
  BY <1>0, <1>6 DEF Opened
<1>8. \A k \in Starts : k # i /\ Untouched(k) => Untouched(k)'
  BY <1>0, <1>6 DEF Untouched
<1>9. \A e \in Ends : end[e].arch # 0 => end[e].arch \in Starts /\ end[e].arch # i
  <2>1. SUFFICES ASSUME NEW e \in Ends, end[e].arch # 0
                 PROVE  end[e].arch \in Starts /\ end[e].arch # i
    OBVIOUS
  <2>2. end[e].arch \in 0 .. MaxStarts
    BY <1>0, EndTypes
  <2>. QED BY <1>4, <2>1, <2>2, Zeroes DEF Untouched
<1>10. OpenedOnce'
  <2>1. SUFFICES ASSUME NEW k \in Starts
                 PROVE  /\ sess'[k].start # "ok" => Untouched(k)' /\ ~ Has(posts', "started", k)
                        /\ Has(posts', "started", k) => Untouched(k)'
                        /\ k > started' => sess'[k].start = "no"
    BY <1>5 DEF OpenedOnce
  <2>2. CASE k = i
    BY <1>0, <1>4, <1>5, <2>2 DEF OpenedOnce
  <2>3. CASE k # i
    BY <1>0, <1>5, <1>8, <2>3 DEF OpenedOnce
  <2>. QED BY <2>2, <2>3
<1>11. RunsFit'
  BY <1>0 DEF DiskInv, RunsFit
<1>12. ShutForGood'
  BY <1>0, <1>7, <1>9 DEF DiskInv, ShutForGood
<1>13. AudioDoesNotStay'
  <2>1. \A e \in Ends : end[e].at = "done" => file'[end[e].arch] = file[end[e].arch]
    BY <1>7, <1>9 DEF DiskInv, RunsFit
  <2>. QED BY <1>0, <2>1 DEF DiskInv, AudioDoesNotStay, Of
<1>. QED BY <1>10, <1>11, <1>12, <1>13 DEF DiskInv

\* The archive is handed to the end of its call, and takes no more frames.
LEMMA EndCallDisk ==
    ASSUME DesktopTypeOK, DiskInv, NEW e \in Ends, EndCall(e)
    PROVE  DiskInv'
<1>0. /\ sess \in [Starts -> Sessions] /\ file \in [Starts -> Files] /\ end \in [Ends -> EndRuns]
      /\ arch \in 0 .. MaxStarts
  BY DEF DesktopTypeOK
<1>1. UNCHANGED <<posts, started, arch>> /\ file' = Deactivated
  BY DEF EndCall
<1>2. end[e].at = "none" /\ end[e].arch = 0
  BY DEF EndCall, DiskInv, RunsFit
<1>3. \A k \in Starts : /\ sess'[k].start = "ok" <=> sess[k].start = "ok"
                        /\ sess[k].start = "no" => sess'[k].start = "no"
  BY LettingGoKeeps DEF EndCall
<1>4. /\ Captured.arch = arch /\ AfterStop(Captured).arch = arch
      /\ Captured.at = "ack" /\ AfterStop(Captured).at \in {"local", "over"}
      /\ AfterStop(Captured).at = "local" => arch # 0
  BY DEF Captured, AfterStop, NoEnd
<1>5. PICK run : /\ end' = [end EXCEPT ![e] = run] /\ run.arch = arch
                 /\ run.at \in {"ack", "local", "over"}
                 /\ run.at = "local" => arch # 0
  BY <1>4 DEF EndCall
<1>6. end'[e] = run /\ \A d \in Ends : d # e => end'[d] = end[d]
  BY <1>0, <1>5
<1>7. \A k \in Starts : /\ file'[k].local = file[k].local
                        /\ file'[k].sink => file[k].sink /\ k # arch
  <2>1. CASE arch = 0
    BY <1>1, <2>1, Zeroes DEF Deactivated
  <2>2. CASE arch # 0
    <3>1. file' = [file EXCEPT ![arch] = [file[arch] EXCEPT !.sink = FALSE]] /\ arch \in Starts
      BY <1>0, <1>1, <2>2, Zeroes DEF Deactivated
    <3>2. file'[arch] = [file[arch] EXCEPT !.sink = FALSE]
      BY <1>0, <3>1
    <3>3. file'[arch].local = file[arch].local /\ ~ file'[arch].sink
      BY <1>0, <3>1, <3>2 DEF Files
    <3>4. \A k \in Starts \ {arch} : file'[k] = file[k]
      BY <1>0, <3>1
    <3>. QED BY <3>3, <3>4
  <2>. QED BY <2>1, <2>2
<1>8. \A k \in Starts : Untouched(k) => Untouched(k)'
  BY <1>1, <1>5, <1>6 DEF Untouched
<1>9. OpenedOnce'
  BY <1>1, <1>3, <1>8 DEF DiskInv, OpenedOnce
<1>10. RunsFit'
  BY <1>5, <1>6 DEF DiskInv, RunsFit, Uploading
<1>11. \A d \in Ends : end[d].arch \in 0 .. MaxStarts
  BY <1>0, EndTypes
<1>12. ShutForGood'
  <2>1. SUFFICES ASSUME NEW d \in Ends, end'[d].arch # 0 PROVE ~ file'[end'[d].arch].sink
    BY DEF ShutForGood
  <2>2. CASE d = e
    BY <1>0, <1>5, <1>6, <1>7, <2>1, <2>2, Zeroes
  <2>3. CASE d # e
    BY <1>6, <1>7, <1>11, <2>1, <2>3, Zeroes DEF DiskInv, ShutForGood
  <2>. QED BY <2>2, <2>3
<1>13. AudioDoesNotStay'
  <2>1. SUFFICES ASSUME NEW d \in Ends, end'[d].at = "done"
                 PROVE  \/ file'[end'[d].arch].local = "gone"
                        \/ \E w \in Ends \ {d} : end'[w].arch = end'[d].arch /\ end'[w].at # "done"
    BY DEF AudioDoesNotStay, Of
  <2>2. d # e /\ end'[d] = end[d] /\ end[d].arch # 0
    BY <1>5, <1>6, <2>1 DEF DiskInv, RunsFit
  <2>3. CASE file[end[d].arch].local = "gone"
    BY <1>7, <1>11, <2>2, <2>3, Zeroes
  <2>4. ASSUME NEW w \in Ends \ {d}, end[w].arch = end[d].arch, end[w].at # "done"
        PROVE  end'[w].arch = end'[d].arch /\ end'[w].at # "done"
    <3>1. w # e
      BY <1>2, <2>2, <2>4
    <3>. QED BY <1>6, <2>2, <2>4, <3>1
  <2>. QED BY <2>1, <2>2, <2>3, <2>4 DEF DiskInv, AudioDoesNotStay, Of
<1>. QED BY <1>9, <1>10, <1>12, <1>13 DEF DiskInv

LEMMA EnsureEndDisk ==
    ASSUME DesktopTypeOK, DiskInv, EnsureEnd
    PROVE  DiskInv'
<1>1. CASE Lifecycle /\ ~ Pending
  <2>1. PICK e \in Ends : EndCall(e)
    BY <1>1 DEF EnsureEnd
  <2>. QED BY <2>1, EndCallDisk
<1>2. CASE ~ (Lifecycle /\ ~ Pending)
  <2>1. UNCHANGED <<arch, file, sess, started, end, posts>>
    BY <1>2 DEF EnsureEnd, call, archive
  <2>2. Once(posts) /\ \A i \in Starts : i > started => sess[i].start = "no"
    BY DEF DiskInv, OpenedOnce
  <2>. QED BY <2>1, <2>2, DiskStays
<1>. QED BY <1>1, <1>2

LEMMA ExitDisk ==
    ASSUME DesktopTypeOK, DiskInv, Exit
    PROVE  DiskInv'
<1>1. /\ arch' = 0 /\ posts' = << >> /\ \A e \in Ends : end'[e] = NoEnd
      /\ \A i \in Starts : sess'[i] = NoSession
  BY DEF Exit
<1>2. \A i \in Starts : Untouched(i)'
  BY <1>1, Zeroes DEF Untouched, NoEnd
<1>3. OpenedOnce'
  <2>1. Once(posts') /\ \A i \in Starts : ~ Has(posts', "started", i)
    BY <1>1, QueueEmpty
  <2>. QED BY <1>1, <1>2, <2>1 DEF OpenedOnce, NoSession
<1>4. RunsFit' /\ ShutForGood' /\ AudioDoesNotStay'
  BY <1>1 DEF RunsFit, ShutForGood, AudioDoesNotStay, NoEnd, Uploading
<1>. QED BY <1>3, <1>4 DEF DiskInv

\* The end of a call goes on.
LEMMA StoppedDisk ==
    ASSUME DesktopTypeOK, DiskInv, Stopped
    PROVE  DiskInv'
<1>0. end \in [Ends -> EndRuns] /\ sess \in [Starts -> Sessions]
  BY DEF DesktopTypeOK
<1>1. UNCHANGED <<arch, file, started>> /\ Posted("stopped") /\ sess' = LettingGo(cur)
  BY DEF Stopped
<1>2. PICK e \in Ends : e = Post.of
  BY <1>1, PostedType, PostShapes DEF DesktopTypeOK
<1>3. end' = [end EXCEPT ![e] = AfterStop(end[e])]
  BY <1>2 DEF Stopped
<1>4. /\ AfterStop(end[e]).arch = end[e].arch
      /\ \/ AfterStop(end[e]).at = "local" /\ end[e].arch # 0
         \/ AfterStop(end[e]).at = "over"
  <2>1. end[e] \in EndRuns
    BY <1>0
  <2>2. CASE end[e].arch # 0 /\ end[e].id # 0
    <3>1. AfterStop(end[e]) = [[end[e] EXCEPT !.of = 0] EXCEPT !.at = "local"]
      BY <2>2 DEF AfterStop
    <3>. QED BY <2>1, <2>2, <3>1 DEF EndRuns
  <2>3. CASE ~ (end[e].arch # 0 /\ end[e].id # 0)
    BY <2>3 DEF AfterStop, NoEnd
  <2>. QED BY <2>2, <2>3
<1>5. \A d \in Ends : /\ end'[d].arch = end[d].arch
                      /\ \/ end'[d].at = end[d].at
                         \/ end'[d].at = "local" /\ end[d].arch # 0
                         \/ end'[d].at = "over"
  BY <1>0, <1>3, <1>4
<1>6. \A i \in Starts : /\ sess'[i].start = "ok" <=> sess[i].start = "ok"
                        /\ i > started' => sess'[i].start = "no"
  BY <1>1, LettingGoKeeps DEF DiskInv, OpenedOnce
<1>. QED BY <1>1, <1>5, <1>6, PoppedStarts, DiskStays

LEMMA GiveDisk ==
    ASSUME DesktopTypeOK, DiskInv, NEW i \in Starts, Give(i)
    PROVE  DiskInv'
<1>0. file \in [Starts -> Files] /\ end \in [Ends -> EndRuns]
  BY DEF DesktopTypeOK
<1>1. UNCHANGED <<arch, end, sess, started, posts>>
  BY DEF Give, call
<1>2. \A k \in Starts : file'[k].local = file[k].local /\ file'[k].sink = file[k].sink
  BY <1>0 DEF Give, Files
<1>3. \A d \in Ends : end[d].arch # 0 => end[d].arch \in Starts
  BY <1>0, EndTypes, Zeroes
<1>4. OpenedOnce'
  <2>1. \A k \in Starts : Untouched(k)' <=> Untouched(k)
    BY <1>1 DEF Untouched
  <2>. QED BY <1>1, <2>1 DEF DiskInv, OpenedOnce
<1>5. RunsFit' /\ ShutForGood'
  BY <1>1, <1>2, <1>3 DEF DiskInv, RunsFit, ShutForGood
<1>6. AudioDoesNotStay'
  <2>1. \A d \in Ends : end[d].at = "done" => file'[end[d].arch].local = file[end[d].arch].local
    BY <1>2, <1>3 DEF DiskInv, RunsFit
  <2>. QED BY <1>1, <2>1 DEF DiskInv, AudioDoesNotStay, Of
<1>. QED BY <1>4, <1>5, <1>6 DEF DiskInv

\* What a run of the upload does to the files: no sink comes back, and only
\* the archive of the run is touched.
LEMMA FilesAfterUpload ==
    ASSUME DesktopTypeOK, NEW e \in Ends, Of(e) \in Starts
    PROVE  /\ \A k \in Starts : /\ Deleted(e)[k].sink => file[k].sink
                                /\ Disposed(e)[k].sink => file[k].sink
                                /\ Completed(e)[k].sink => file[k].sink
           /\ \A k \in Starts \ {Of(e)} : /\ Deleted(e)[k] = file[k]
                                          /\ Disposed(e)[k] = file[k]
                                          /\ Completed(e)[k] = file[k]
           /\ \/ Deleted(e)[Of(e)].local = "gone"
              \/ /\ \E d \in Ends \ {e} : end[d].arch = Of(e) /\ end[d].at = "put"
                 /\ Deleted(e)[Of(e)].local = file[Of(e)].local
           /\ file[Of(e)].local = "gone" => Disposed(e)[Of(e)].local = "gone"
<1>0. file \in [Starts -> Files]
  BY DEF DesktopTypeOK
<1>1. PICK a \in Starts : a = Of(e)
  OBVIOUS
<1>2. file[a] \in Files
  BY <1>0
<1>4. /\ \A k \in Starts : Disposed(e)[k].sink => file[k].sink
      /\ \A k \in Starts \ {a} : Disposed(e)[k] = file[k]
      /\ file[a].local = "gone" => Disposed(e)[a].local = "gone"
  <2>1. Disposed(e) = [file EXCEPT ![a] = [file[a] EXCEPT !.local = IF @ = "open" THEN "left" ELSE @]]
    BY <1>1 DEF Disposed
  <2>2. Disposed(e)[a] = [file[a] EXCEPT !.local = IF @ = "open" THEN "left" ELSE @]
    BY <1>0, <2>1
  <2>3. Disposed(e)[a].sink = file[a].sink
    BY <1>2, <2>2 DEF Files
  <2>4. file[a].local = "gone" => Disposed(e)[a].local = "gone"
    BY <1>2, <2>2 DEF Files
  <2>5. \A k \in Starts \ {a} : Disposed(e)[k] = file[k]
    BY <1>0, <2>1
  <2>. QED BY <2>3, <2>4, <2>5
<1>5. /\ \A k \in Starts : Completed(e)[k].sink => file[k].sink
      /\ \A k \in Starts \ {a} : Completed(e)[k] = file[k]
  <2>1. Completed(e) = [file EXCEPT ![a] = [[file[a] EXCEPT !.local = "whole"] EXCEPT !.sink = FALSE]]
    BY <1>1 DEF Completed
  <2>. QED BY <1>0, <1>2, <2>1 DEF Files
<1>7. CASE \E d \in Ends \ {e} : end[d].arch = Of(e) /\ end[d].at = "put"
  <2>1. Deleted(e) = [file EXCEPT ![a] = [file[a] EXCEPT !.sink = FALSE]]
    BY <1>1, <1>7 DEF Deleted
  <2>2. /\ Deleted(e)[a].local = file[a].local /\ ~ Deleted(e)[a].sink
        /\ \A k \in Starts \ {a} : Deleted(e)[k] = file[k]
    BY <1>0, <1>2, <2>1 DEF Files
  <2>. QED BY <1>1, <1>7, <1>4, <1>5, <2>2
<1>6. CASE ~ \E d \in Ends \ {e} : end[d].arch = Of(e) /\ end[d].at = "put"
  <2>1. Deleted(e) = [file EXCEPT ![a] = [NoFile EXCEPT !.local = "gone"]]
    BY <1>1, <1>6 DEF Deleted
  <2>2. /\ Deleted(e)[a].local = "gone" /\ ~ Deleted(e)[a].sink
        /\ \A k \in Starts \ {a} : Deleted(e)[k] = file[k]
    BY <1>0, <2>1 DEF NoFile
  <2>. QED BY <1>1, <1>4, <1>5, <2>2
<1>. QED BY <1>6, <1>7

\* A run of the upload goes on, or ends: another that holds the file keeps
\* the directory until it ends too.
LEMMA UploadDisk ==
    ASSUME DesktopTypeOK, DiskInv, NEW e \in Ends, UploadStep(e)
    PROVE  DiskInv'
<1>0. /\ file \in [Starts -> Files] /\ end \in [Ends -> EndRuns] /\ end[e] \in EndRuns
      /\ arch \in 0 .. MaxStarts
  BY DEF DesktopTypeOK
<1>1. end[e].at \in Uploading
  BY DEF UploadStep, NoToken, LocalDone, Initiated, InitiateRefused, PutDone, PutFails, Finalized,
     FinalizeRefused, Unexpected, Uploads, Uploading
<1>2. Of(e) \in Starts /\ Of(e) # 0 /\ Of(e) = end[e].arch
  BY <1>0, <1>1, EndTypes, Zeroes DEF Of, DiskInv, RunsFit
<1>3. UNCHANGED <<posts, sess, started>>
  BY DEF UploadStep, NoToken, LocalDone, Initiated, InitiateRefused, PutDone, PutFails, Finalized,
     FinalizeRefused, Unexpected, Finish, Moves, call
<1>4. PICK at \in {"broken", "done", "initiate", "put", "remote"} :
        /\ \A d \in Ends : end'[d].arch = end[d].arch
        /\ end'[e].at = at /\ \A d \in Ends \ {e} : end'[d].at = end[d].at
        /\ arch' \in {0, arch}
        /\ \/ at = "broken" /\ file' = Disposed(e)
           \/ at = "done" /\ file' = Deleted(e)
           \/ at \notin {"broken", "done"} /\ file' = Completed(e) /\ file[Of(e)].local = "open"
           \/ at \notin {"broken", "done"} /\ file' = file
  <2>1. ASSUME NEW at \in {"broken", "done"}, NEW files, Finish(e, at, files)
        PROVE  /\ \A d \in Ends : end'[d].arch = end[d].arch
               /\ end'[e].at = at /\ \A d \in Ends \ {e} : end'[d].at = end[d].at
               /\ arch' \in {0, arch} /\ file' = files
    <3>1. end' = [end EXCEPT ![e] = [[NoEnd EXCEPT !.arch = end[e].arch] EXCEPT !.at = at]]
      BY <2>1 DEF Finish, Of
    <3>2. end'[e].arch = end[e].arch /\ end'[e].at = at
      BY <1>0, <3>1 DEF NoEnd
    <3>3. \A d \in Ends \ {e} : end'[d] = end[d]
      BY <1>0, <3>1
    <3>4. arch' \in {0, arch} /\ file' = files
      BY <2>1 DEF Finish
    <3>. QED BY <3>2, <3>3, <3>4
  <2>2. ASSUME NEW at \in {"initiate", "put", "remote"}, Moves(e, at)
        PROVE  /\ \A d \in Ends : end'[d].arch = end[d].arch
               /\ end'[e].at = at /\ \A d \in Ends \ {e} : end'[d].at = end[d].at
               /\ arch' \in {0, arch}
    <3>1. end' = [end EXCEPT ![e] = [end[e] EXCEPT !.at = at]]
      BY <2>2 DEF Moves
    <3>2. end'[e].arch = end[e].arch /\ end'[e].at = at
      BY <1>0, <3>1 DEF EndRuns
    <3>3. \A d \in Ends \ {e} : end'[d] = end[d]
      BY <1>0, <3>1
    <3>4. arch' = arch
      BY <2>2 DEF Moves
    <3>. QED BY <3>2, <3>3, <3>4
  <2>3. CASE Finish(e, "broken", Disposed(e))
    BY <2>1, <2>3
  <2>4. CASE Finish(e, "done", Deleted(e))
    BY <2>1, <2>4
  <2>5. CASE Moves(e, "initiate") /\ file' = Completed(e) /\ file[Of(e)].local = "open"
    BY <2>2, <2>5
  <2>6. CASE Moves(e, "put") /\ file' = file
    BY <2>2, <2>6
  <2>7. CASE Moves(e, "remote") /\ file' = file
    BY <2>2, <2>7
  <2>. QED BY <2>3, <2>4, <2>5, <2>6, <2>7 DEF UploadStep, NoToken, LocalDone, Initiated, InitiateRefused,
           PutDone, PutFails, Finalized, FinalizeRefused, Unexpected
<1>5. \A d \in Ends : end[d].arch # 0 => end[d].arch \in Starts
  BY <1>0, EndTypes, Zeroes
<1>6. \A k \in Starts : Untouched(k) => Untouched(k)'
  BY <1>4, Zeroes DEF Untouched
<1>7. OpenedOnce'
  BY <1>3, <1>6 DEF DiskInv, OpenedOnce
<1>8. RunsFit'
  <2>1. SUFFICES ASSUME NEW d \in Ends
                 PROVE  /\ end'[d].at = "none" => end'[d].arch = 0
                        /\ end'[d].at \in Uploading \cup {"done"} => end'[d].arch # 0
    BY DEF RunsFit
  <2>2. CASE d = e
    BY <1>2, <1>4, <2>2
  <2>3. CASE d # e
    BY <1>4, <2>3 DEF DiskInv, RunsFit
  <2>. QED BY <2>2, <2>3
<1>9. \A k \in Starts : file'[k].sink => file[k].sink
  BY <1>2, <1>4, FilesAfterUpload
<1>10. ShutForGood'
  BY <1>4, <1>5, <1>9 DEF DiskInv, ShutForGood
<1>11. AudioDoesNotStay'
  <2>1. SUFFICES ASSUME NEW d \in Ends, end'[d].at = "done"
                 PROVE  \/ file'[end[d].arch].local = "gone"
                        \/ \E w \in Ends \ {d} : end[w].arch = end[d].arch /\ end'[w].at # "done"
    <3>1. \A x \in Ends : end'[x].arch = end[x].arch
      BY <1>4
    <3>. QED BY <2>1, <3>1 DEF AudioDoesNotStay, Of
  <2>2. end[d].arch \in Starts
    <3>1. CASE d = e
      BY <1>2, <3>1
    <3>2. CASE d # e
      BY <1>4, <1>5, <2>1, <3>2 DEF DiskInv, RunsFit
    <3>. QED BY <3>1, <3>2
  <2>3. d # e => \/ file[end[d].arch].local = "gone"
                 \/ \E w \in Ends \ {d} : end[w].arch = end[d].arch /\ end[w].at # "done"
    BY <1>4, <2>1 DEF DiskInv, AudioDoesNotStay, Of
  <2>4. CASE at = "done" /\ file' = Deleted(e)
    <3>1. CASE end[d].arch = Of(e)
      <4>1. CASE Deleted(e)[Of(e)].local = "gone"
        BY <2>4, <3>1, <4>1
      <4>2. ASSUME NEW p \in Ends \ {e}, end[p].arch = Of(e), end[p].at = "put"
            PROVE  \E w \in Ends \ {d} : end[w].arch = end[d].arch /\ end'[w].at # "done"
        <5>1. end'[p].at = "put" /\ p # d
          BY <1>4, <2>1, <4>2
        <5>. QED BY <3>1, <4>2, <5>1
      <4>. QED BY <1>2, <4>1, <4>2, FilesAfterUpload
    <3>2. CASE end[d].arch # Of(e)
      <4>1. file'[end[d].arch] = file[end[d].arch] /\ d # e
        BY <1>2, <2>2, <2>4, <3>2, FilesAfterUpload
      <4>2. ASSUME NEW w \in Ends \ {d}, end[w].arch = end[d].arch, end[w].at # "done"
            PROVE  end'[w].at # "done"
        BY <1>2, <1>4, <3>2, <4>2
      <4>. QED BY <2>3, <4>1, <4>2
    <3>. QED BY <3>1, <3>2
  <2>5. CASE at # "done"
    <3>1. d # e /\ \A w \in Ends : end[w].at # "done" => end'[w].at # "done"
      BY <1>4, <2>1, <2>5
    <3>2. CASE file[end[d].arch].local = "gone"
      <4>1. file'[end[d].arch].local = "gone" \/ (file' = Completed(e) /\ end[d].arch # Of(e))
        BY <1>2, <1>4, <2>2, <2>5, <3>2, FilesAfterUpload
      <4>. QED BY <1>2, <2>2, <3>2, <4>1, FilesAfterUpload
    <3>. QED BY <2>3, <3>1, <3>2
  <2>. QED BY <1>4, <2>4, <2>5
<1>. QED BY <1>7, <1>8, <1>10, <1>11 DEF DiskInv

\* What the window, the socket and the disk know of the archives agrees in every
\* reachable state: an archive is opened once, and what was shut is not written again.
THEOREM DiskInvariant == DesktopSpec => []DiskInv
<1>1. DesktopInit => DiskInv
  <2>1. SUFFICES ASSUME DesktopInit PROVE DiskInv
    OBVIOUS
  <2>2. /\ arch = 0 /\ posts = << >> /\ \A e \in Ends : end[e] = NoEnd
        /\ \A i \in Starts : sess[i] = NoSession
    BY <2>1 DEF DesktopInit
  <2>3. \A i \in Starts : Untouched(i)
    BY <2>2, Zeroes DEF Untouched, NoEnd
  <2>4. Once(posts) /\ \A i \in Starts : ~ Has(posts, "started", i)
    BY <2>2, QueueEmpty
  <2>5. OpenedOnce
    BY <2>2, <2>3, <2>4 DEF OpenedOnce, NoSession
  <2>6. RunsFit /\ ShutForGood /\ AudioDoesNotStay
    BY <2>2 DEF RunsFit, ShutForGood, AudioDoesNotStay, NoEnd, Uploading
  <2>. QED BY <2>5, <2>6 DEF DiskInv
<1>2. DesktopTypeOK /\ DiskInv /\ [DesktopNext]_desktop => DiskInv'
  <2>1. SUFFICES ASSUME DesktopTypeOK, DiskInv, [DesktopNext]_desktop PROVE DiskInv'
    OBVIOUS
  <2>2. CASE \/ Connect \/ LoginFails \/ LoggedIn \/ Linked \/ LinkFails
             \/ \E kind \in {"broken", "refused"} : Trouble(kind)
             \/ Disconnected \/ CallOver \/ UserStartsCapture \/ UserStopsCapture \/ Drain
             \/ StartCallWithoutCapture \/ UNCHANGED desktop
    BY <2>1, <2>2, QuietDisk
  <2>3. CASE Drop \/ LetGo
    BY <2>1, <2>3, LostDisk
  <2>4. CASE StartCall \/ (\E i \in Starts : StartRefused(i)) \/ (\E e \in Ends : StopAcked(e))
    BY <2>1, <2>4, SessionDisk
  <2>5. CASE \E i \in Starts : StartAcked(i)
    BY <2>1, <2>5, AckedDisk
  <2>6. CASE Window
    BY <2>1, <2>6, StartedDisk, SessionDisk, QuietDisk, StoppedDisk DEF Window
  <2>7. CASE (\E e \in Ends : EndPressed(e)) \/ Disconnect
    BY <2>1, <2>7, EndCallDisk, EnsureEndDisk DEF EndPressed, Disconnect
  <2>8. CASE CloseAsked \/ Close
    BY <2>1, <2>8, EnsureEndDisk, ExitDisk DEF CloseAsked, Close
  <2>9. CASE \E i \in Starts : Give(i)
    BY <2>1, <2>9, GiveDisk
  <2>10. CASE \E e \in Ends : UploadStep(e)
    BY <2>1, <2>10, UploadDisk
  <2>. QED BY <2>1, <2>2, <2>3, <2>4, <2>5, <2>6, <2>7, <2>8, <2>9, <2>10 DEF DesktopNext
<1>. QED BY <1>1, <1>2, DesktopTyping, PTL DEF DesktopSpec

\* AudioDoesNotStay: an upload that was answered leaves no audio on the disk
\* unless another upload of the same archive is not answered yet.
THEOREM NoAudioStays == DesktopSpec => []AudioDoesNotStay
<1>1. DiskInv => AudioDoesNotStay
  BY DEF DiskInv
<1>. QED BY <1>1, DiskInvariant, PTL

\* Only PumpAsync adds a frame to a file, and only through its sink.
LEMMA FramesNeedSink ==
    ASSUME DesktopTypeOK, DiskInv, [DesktopNext]_desktop, NEW i \in Starts,
           file'[i].frames > file[i].frames
    PROVE  file[i].sink
<1>0. /\ file \in [Starts -> Files] /\ file[i] \in Files /\ file[i].frames \in 0 .. MaxFrames
      /\ ~ (file[i].frames > file[i].frames) /\ ~ (0 > file[i].frames) /\ arch \in 0 .. MaxStarts
  BY Counted DEF DesktopTypeOK, Files
<1>1. file'[i].frames # file[i].frames /\ file'[i].frames # 0
  BY <1>0
<1>2. ASSUME NEW k \in Starts, Give(k) PROVE file[i].sink
  <2>1. CASE Takes(k) /\ k = i
    BY <2>1 DEF Takes
  <2>2. CASE ~ (Takes(k) /\ k = i)
    BY <1>0, <1>1, <1>2, <2>2 DEF Give
  <2>. QED BY <2>1, <2>2
<1>3. ASSUME NEW e \in Ends, UploadStep(e) PROVE FALSE
  <2>1. end[e].at \in Uploading /\ end[e] \in EndRuns
    BY <1>3 DEF UploadStep, NoToken, LocalDone, Initiated, InitiateRefused, PutDone, PutFails, Finalized,
       FinalizeRefused, Unexpected, Uploads, Uploading, DesktopTypeOK
  <2>2. Of(e) \in Starts
    BY <2>1, EndTypes, Zeroes DEF Of, DiskInv, RunsFit
  <2>3. PICK a \in Starts : a = Of(e)
    BY <2>2
  <2>4. file' \in {file, Deleted(e), Disposed(e), Completed(e)}
    BY <1>3 DEF UploadStep, NoToken, LocalDone, Initiated, InitiateRefused, PutDone, PutFails, Finalized,
       FinalizeRefused, Unexpected, Finish, Moves
  <2>5. Deleted(e)[i].frames \in {0, file[i].frames}
    <3>1. Deleted(e) = [file EXCEPT ![a] = [file[a] EXCEPT !.sink = FALSE]]
          \/ Deleted(e) = [file EXCEPT ![a] = [NoFile EXCEPT !.local = "gone"]]
      BY <2>3 DEF Deleted
    <3>2. [NoFile EXCEPT !.local = "gone"].frames = 0 /\ [file[a] EXCEPT !.sink = FALSE].frames = file[a].frames
      BY <1>0 DEF NoFile, Files
    <3>. QED BY <1>0, <3>1, <3>2
  <2>6. Disposed(e)[i].frames = file[i].frames
    <3>1. Disposed(e) = [file EXCEPT ![a] = [file[a] EXCEPT !.local = IF @ = "open" THEN "left" ELSE @]]
      BY <2>3 DEF Disposed
    <3>. QED BY <1>0, <3>1 DEF Files
  <2>7. Completed(e)[i].frames = file[i].frames
    <3>1. Completed(e) = [file EXCEPT ![a] = [[file[a] EXCEPT !.local = "whole"] EXCEPT !.sink = FALSE]]
      BY <2>3 DEF Completed
    <3>. QED BY <1>0, <3>1 DEF Files
  <2>. QED BY <1>1, <2>4, <2>5, <2>6, <2>7
<1>4. ASSUME EnsureEnd \/ \E e \in Ends : EndCall(e) PROVE FALSE
  <2>1. file' = file \/ file' = Deactivated
    BY <1>4 DEF EnsureEnd, EndCall, archive
  <2>2. \A a \in Starts : [file EXCEPT ![a] = [file[a] EXCEPT !.sink = FALSE]][i].frames = file[i].frames
    BY <1>0 DEF Files
  <2>3. Deactivated[i].frames = file[i].frames
    BY <1>0, <2>2, Zeroes DEF Deactivated
  <2>. QED BY <1>1, <2>1, <2>3
<1>5. ~ Exit
  <2>1. SUFFICES ASSUME Exit PROVE FALSE
    OBVIOUS
  <2>2. file'[i] = [[file[i] EXCEPT !.sink = FALSE] EXCEPT !.frames = 0]
    BY <2>1 DEF Exit
  <2>. QED BY <1>0, <1>1, <2>2 DEF Files
<1>6. ASSUME Started PROVE FALSE
  <2>1. PICK k \in Starts : k = Post.of
    BY <1>6, PostedType, PostShapes DEF Started, DesktopTypeOK
  <2>2. file' = file \/ file' = [file EXCEPT ![k] = [[file[k] EXCEPT !.local = "open"] EXCEPT !.sink = TRUE]]
    BY <1>6, <2>1 DEF Started, archive, Opened
  <2>3. CASE k = i
    <3>1. file'[i] \in {file[i], [[file[i] EXCEPT !.local = "open"] EXCEPT !.sink = TRUE]}
      BY <1>0, <2>2, <2>3
    <3>2. [[file[i] EXCEPT !.local = "open"] EXCEPT !.sink = TRUE].frames = file[i].frames
      BY <1>0 DEF Files
    <3>. QED BY <1>1, <3>1, <3>2
  <2>4. CASE k # i
    BY <1>0, <1>1, <2>2, <2>4
  <2>. QED BY <2>3, <2>4
<1>7. CASE file' = file
  BY <1>1, <1>7
<1>8. CASE Window
  BY <1>6, <1>7, <1>8 DEF Window, StartFailed, ShowConnected, ShowState, Dropped, Broken, Refused, Stopped, archive
<1>9. CASE (\E e \in Ends : EndPressed(e)) \/ Disconnect \/ CloseAsked \/ Close
  BY <1>4, <1>5, <1>9 DEF EndPressed, Disconnect, CloseAsked, Close
<1>10. CASE \/ Connect \/ LoginFails \/ LoggedIn \/ Linked \/ LinkFails \/ Drop
            \/ \E kind \in {"broken", "refused"} : Trouble(kind)
  BY <1>7, <1>10 DEF Connect, LoginFails, LoggedIn, Linked, LinkFails, Drop, Trouble, archive
<1>11. CASE \/ StartCall \/ StartCallWithoutCapture \/ (\E k \in Starts : StartAcked(k) \/ StartRefused(k))
            \/ (\E e \in Ends : StopAcked(e)) \/ LetGo \/ Disconnected \/ CallOver
            \/ UserStartsCapture \/ UserStopsCapture \/ Drain \/ UNCHANGED desktop
  BY <1>7, <1>11 DEF StartCall, StartCallWithoutCapture, StartAcked, StartRefused, StopAcked, LetGo, Disconnected,
     CallOver, UserStartsCapture, UserStopsCapture, Drain, archive, desktop
<1>. QED BY <1>2, <1>3, <1>8, <1>9, <1>10, <1>11 DEF DesktopNext

\* NoFrameAfterEnd: once an end of a call has taken an archive, no frame that
\* is still on its way is written to it.
THEOREM EndsStopRecording == DesktopSpec => NoFrameAfterEnd
<1>1. DesktopTypeOK /\ DiskInv /\ [DesktopNext]_desktop =>
        [\A i \in Starts : file'[i].frames > file[i].frames => \A e \in Ends : end[e].arch # i]_desktop
  <2>1. SUFFICES ASSUME DesktopTypeOK, DiskInv, [DesktopNext]_desktop,
                        NEW i \in Starts, file'[i].frames > file[i].frames, NEW e \in Ends
                 PROVE  end[e].arch # i
    OBVIOUS
  <2>2. file[i].sink
    BY <2>1, FramesNeedSink
  <2>. QED BY <2>1, <2>2, Zeroes DEF DiskInv, ShutForGood
<1>. QED BY <1>1, DiskInvariant, DesktopTyping, PTL DEF DesktopSpec, NoFrameAfterEnd

-----------------------------------------------------------------------------
(* What is uploaded under a call is its own recording, or the call has     *)
(* none: the number of a call and its archive are set in one handler.      *)

Bare(i) == file[i].local = "none"

\* The window has heard that the call was started.
Heard(i) == sess[i].start = "ok" /\ ~ Has(posts, "started", i)

ArchivesOpened == (arch # 0 => ~ Bare(arch)) /\ \A e \in Ends : end[e].arch # 0 => ~ Bare(end[e].arch)

OpenedWhenHeard == Open => \A i \in Starts : ~ Bare(i) => Heard(i)

AllHeard == (active # 0 => Heard(active)) /\ \A e \in Ends : end[e].id # 0 => Heard(end[e].id)

Announced == (cur # 0 /\ sess[cur].start = "ok" /\ active = 0) => Has(posts, "started", cur)

Placed == (active # 0 /\ arch # 0) => (arch = active \/ Bare(active))

RunsPlaced ==
  \A e \in Ends :
    /\ (end[e].arch # 0 /\ end[e].id # 0) => (end[e].arch = end[e].id \/ Bare(end[e].id))
    /\ end[e].at \in Uploading => (end[e].arch # 0 /\ end[e].id # 0)

PlaceInv == ArchivesOpened /\ OpenedWhenHeard /\ AllHeard /\ Announced /\ Placed /\ RunsPlaced

\* With the archive left on a call is archived once the window has heard of it.
Recorded == \A i \in Starts : Heard(i) => ~ Bare(i)

\* Nothing happens once the window is closed.
LEMMA OnlyOpen == DesktopNext => Open
<1>1. SUFFICES ASSUME DesktopNext PROVE Open
  OBVIOUS
<1>2. CASE \/ Connect \/ LoginFails \/ LoggedIn \/ Linked \/ LinkFails \/ Drop
           \/ StartCall \/ StartCallWithoutCapture \/ Disconnect \/ LetGo \/ Disconnected
           \/ UserStartsCapture \/ UserStopsCapture \/ Drain \/ CloseAsked \/ CallOver \/ Close
  BY <1>2
    DEF Connect, LoginFails, LoggedIn, Linked, LinkFails, Drop, StartCall, StartCallWithoutCapture, Disconnect,
        LetGo, Disconnected, UserStartsCapture, UserStopsCapture, Drain, CloseAsked, CallOver, Close, Input, Open
<1>3. CASE \/ (\E kind \in {"broken", "refused"} : Trouble(kind))
           \/ (\E i \in Starts : StartAcked(i)) \/ (\E i \in Starts : StartRefused(i))
           \/ (\E e \in Ends : EndPressed(e)) \/ (\E e \in Ends : StopAcked(e)) \/ (\E i \in Starts : Give(i))
  BY <1>3 DEF Trouble, StartAcked, StartRefused, EndPressed, StopAcked, Give, Input
<1>4. CASE Window
  BY <1>4 DEF Window, Started, StartFailed, ShowConnected, ShowState, Dropped, Broken, Refused, Stopped, Posted
<1>5. CASE \E e \in Ends : UploadStep(e)
  BY <1>5 DEF UploadStep, NoToken, LocalDone, Initiated, InitiateRefused, PutDone, PutFails, Finalized,
              FinalizeRefused, Unexpected, Uploads
<1>. QED BY <1>1, <1>2, <1>3, <1>4, <1>5 DEF DesktopNext

\* What opens the archive of a call stays posted until it is handled.
LEMMA StartedKept ==
    ASSUME DesktopTypeOK, [DesktopNext]_desktop, ~ Started, ~ Exit, NEW i, Has(posts, "started", i)
    PROVE  Has(posts', "started", i)
<1>0. posts \in Seq(Posts)
  BY DEF DesktopTypeOK
<1>1. ASSUME NEW q \in Seq(Posts), NEW m \in Posts, Has(q, "started", i)
      PROVE  Has(q \o <<m>>, "started", i)
  BY <1>1, QueuePushed
<1>2. \A state \in CallStates : \A k : Has(posts \o Told(k, state), "started", i)
  BY <1>0, <1>1, ToldType, PostKinds
<1>3. CASE Linked \/ Drop \/ LetGo \/ \E kind \in {"broken", "refused"} : Trouble(kind)
  <2>1. CASE posts' = posts
    BY <2>1
  <2>2. CASE posts' # posts
    <3>1. PICK m \in Posts : posts' = Append(posts, m)
      BY <1>3, <2>2, PostKinds DEF Linked, Drop, LetGo, Trouble
    <3>. QED BY <1>0, <1>1, <3>1, Pushes
  <2>. QED BY <2>1, <2>2
<1>4. ASSUME NEW k \in Starts, StartAcked(k) PROVE Has(posts', "started", i)
  <2>1. "InCall" \in CallStates /\ [kind |-> "started", of |-> k] \in Posts
    BY PostKinds DEF CallStates
  <2>2. posts \o Told(k, "InCall") \in Seq(Posts)
    BY <1>0, <2>1, ToldType
  <2>. QED BY <1>1, <1>2, <1>4, <2>1, <2>2 DEF StartAcked
<1>5. ASSUME NEW k \in Starts, StartRefused(k) PROVE Has(posts', "started", i)
  <2>1. "Idle" \in CallStates /\ [kind |-> "failed", of |-> k] \in Posts
    BY PostKinds DEF CallStates
  <2>2. posts \o Told(k, "Idle") \in Seq(Posts)
    BY <1>0, <2>1, ToldType
  <2>. QED BY <1>1, <1>2, <1>5, <2>1, <2>2 DEF StartRefused
<1>6. ASSUME NEW e \in Ends, StopAcked(e) PROVE Has(posts', "started", i)
  <2>1. [kind |-> "stopped", of |-> e] \in Posts /\ [kind |-> "state", state |-> "Ended"] \in Posts
    BY PostKinds DEF CallStates
  <2>2. PICK q \in Seq(Posts) : /\ q = posts \/ q = posts \o <<[kind |-> "state", state |-> "Ended"]>>
                                /\ posts' = q \o <<[kind |-> "stopped", of |-> e]>>
    BY <1>6, StopAckedPosts
  <2>3. Has(q, "started", i)
    BY <1>0, <1>1, <2>1, <2>2
  <2>. QED BY <1>1, <2>1, <2>2, <2>3
<1>7. ASSUME NEW kind, kind # "started", Posted(kind) PROVE Has(posts', "started", i)
  <2>1. posts # << >> /\ Head(posts).kind # "started" /\ posts' = Tail(posts)
    BY <1>7 DEF Posted, Post
  <2>. QED BY <1>0, <2>1, QueuePopped
<1>8. CASE Window
  BY <1>7, <1>8 DEF Window, StartFailed, ShowConnected, ShowState, Dropped, Broken, Refused, Stopped
<1>9. ASSUME EnsureEnd PROVE Has(posts', "started", i)
  BY <1>9 DEF EnsureEnd, EndCall
<1>10. ASSUME NEW e \in Ends, UploadStep(e) PROVE Has(posts', "started", i)
  BY <1>10 DEF UploadStep, NoToken, LocalDone, Initiated, InitiateRefused, PutDone, PutFails, Finalized,
     FinalizeRefused, Unexpected, Finish, Moves
<1>11. CASE CloseAsked \/ Close
  BY <1>9, <1>11 DEF CloseAsked, Close
<1>12. CASE \/ Connect \/ LoginFails \/ LoggedIn \/ LinkFails \/ StartCall \/ StartCallWithoutCapture
            \/ (\E e \in Ends : EndPressed(e)) \/ Disconnect \/ Disconnected \/ CallOver
            \/ UserStartsCapture \/ UserStopsCapture \/ Drain \/ (\E k \in Starts : Give(k))
            \/ UNCHANGED desktop
  BY <1>9, <1>12 DEF Connect, LoginFails, LoggedIn, LinkFails, StartCall, StartCallWithoutCapture,
     EndPressed, EndCall, Disconnect, Disconnected, CallOver, UserStartsCapture, UserStopsCapture, Drain,
     Give, desktop
<1>. QED BY <1>3, <1>4, <1>5, <1>6, <1>8, <1>10, <1>11, <1>12 DEF DesktopNext

\* The number and the archive of the present call are set by StartCallAsync.
LEMMA NamesMove ==
    ASSUME [DesktopNext]_desktop, ~ Started
    PROVE  active' \in {active, 0} /\ arch' \in {arch, 0}
<1>1. active' = active \/ active' = 0
  <2>1. ASSUME EnsureEnd PROVE active' = active
    BY <2>1 DEF EnsureEnd, EndCall, call
  <2>2. ASSUME NEW e \in Ends, UploadStep(e) PROVE active' = active
    BY <2>2 DEF UploadStep, NoToken, LocalDone, Initiated, InitiateRefused, PutDone, PutFails, Finalized,
       FinalizeRefused, Unexpected, Finish, Moves, call
  <2>3. CASE Window
    BY <2>3 DEF Window, StartFailed, ShowConnected, ShowState, Dropped, Broken, Refused, Stopped, call
  <2>4. CASE (\E e \in Ends : EndPressed(e)) \/ Disconnect \/ CloseAsked \/ Close
    BY <2>1, <2>4 DEF EndPressed, EndCall, Disconnect, CloseAsked, Close, Exit
  <2>5. CASE \/ Connect \/ LoginFails \/ LoggedIn \/ Linked \/ LinkFails \/ Drop
             \/ \E kind \in {"broken", "refused"} : Trouble(kind)
             \/ (\E k \in Starts : StartAcked(k) \/ StartRefused(k))
             \/ (\E e \in Ends : StopAcked(e))
    BY <2>5 DEF Connect, LoginFails, LoggedIn, Linked, LinkFails, Drop, Trouble, StartAcked, StartRefused,
       StopAcked, call
  <2>6. CASE \/ StartCall \/ StartCallWithoutCapture \/ LetGo \/ Disconnected \/ CallOver
             \/ UserStartsCapture \/ UserStopsCapture \/ Drain \/ (\E k \in Starts : Give(k))
             \/ UNCHANGED desktop
    BY <2>6 DEF StartCall, StartCallWithoutCapture, LetGo, Disconnected, CallOver, UserStartsCapture,
       UserStopsCapture, Drain, Give, call, desktop
  <2>. QED BY <2>2, <2>3, <2>4, <2>5, <2>6 DEF DesktopNext
<1>2. arch' = arch \/ arch' = 0
  <2>1. ASSUME EnsureEnd PROVE arch' = arch
    BY <2>1 DEF EnsureEnd, EndCall, archive
  <2>2. ASSUME NEW e \in Ends, UploadStep(e) PROVE arch' = arch \/ arch' = 0
    BY <2>2 DEF UploadStep, NoToken, LocalDone, Initiated, InitiateRefused, PutDone, PutFails, Finalized,
       FinalizeRefused, Unexpected, Finish, Moves
  <2>3. CASE Window
    BY <2>3 DEF Window, StartFailed, ShowConnected, ShowState, Dropped, Broken, Refused, Stopped, archive
  <2>4. CASE (\E e \in Ends : EndPressed(e)) \/ Disconnect \/ CloseAsked \/ Close
    BY <2>1, <2>4 DEF EndPressed, EndCall, Disconnect, CloseAsked, Close, Exit
  <2>5. CASE \/ Connect \/ LoginFails \/ LoggedIn \/ Linked \/ LinkFails \/ Drop
             \/ \E kind \in {"broken", "refused"} : Trouble(kind)
             \/ (\E k \in Starts : StartAcked(k) \/ StartRefused(k))
             \/ (\E e \in Ends : StopAcked(e))
    BY <2>5 DEF Connect, LoginFails, LoggedIn, Linked, LinkFails, Drop, Trouble, StartAcked, StartRefused,
       StopAcked, archive
  <2>6. CASE \/ StartCall \/ StartCallWithoutCapture \/ LetGo \/ Disconnected \/ CallOver
             \/ UserStartsCapture \/ UserStopsCapture \/ Drain \/ (\E k \in Starts : Give(k))
             \/ UNCHANGED desktop
    BY <2>6 DEF StartCall, StartCallWithoutCapture, LetGo, Disconnected, CallOver, UserStartsCapture,
       UserStopsCapture, Drain, Give, archive, desktop
  <2>. QED BY <2>2, <2>3, <2>4, <2>5, <2>6 DEF DesktopNext
<1>. QED BY <1>1, <1>2

\* The session of the present call changes only with the call, and is given
\* an id by nothing but an answer.
LEMMA SessionStep ==
    ASSUME DesktopTypeOK, [DesktopNext]_desktop, cur' # 0, sess'[cur'].start = "ok"
    PROVE  cur' = cur /\ (sess[cur].start = "ok" \/ StartAcked(cur))
<1>0. sess \in [Starts -> Sessions] /\ cur \in 0 .. MaxStarts /\ started \in 0 .. MaxStarts
      /\ end \in [Ends -> EndRuns]
  BY DEF DesktopTypeOK
<1>1. CASE StartCall
  <2>1. started + 1 \in Starts
    BY <1>0, <1>1, Counted DEF StartCall, Starts
  <2>2. cur' = started + 1
    BY <1>1 DEF StartCall
  <2>3. sess'[started + 1].start = "ack"
    BY <1>0, <1>1, <2>1, <2>2 DEF StartCall, NoSession
  <2>. QED BY <2>2, <2>3
<1>2. CASE Drop \/ LetGo
  <2>1. cur' = cur /\ Lost
    BY <1>2 DEF Drop, LetGo
  <2>2. cur \in Starts
    BY <1>0, <2>1, Zeroes
  <2>3. sess[cur].start = "ok"
    BY <1>0, <2>1, <2>2, LostTypes DEF Sessions
  <2>. QED BY <2>1, <2>3
<1>3. CASE cur' = cur /\ sess' = sess
  BY <1>3
<1>4. CASE Refused
  <2>1. cur' = cur /\ cur \in Starts
    BY <1>0, <1>4, Zeroes DEF Refused
  <2>2. sess'[cur] = [sess[cur] EXCEPT !.state = "Ended"]
    BY <1>0, <1>4, <2>1 DEF Refused
  <2>. QED BY <1>0, <2>1, <2>2 DEF Sessions
<1>5. ASSUME NEW i \in Starts, StartAcked(i) PROVE cur' = cur /\ (sess[cur].start = "ok" \/ StartAcked(cur))
  <2>1. cur' = cur /\ cur \in Starts
    BY <1>0, <1>5, Zeroes DEF StartAcked
  <2>2. CASE cur # i
    BY <1>0, <1>5, <2>1, <2>2 DEF StartAcked
  <2>3. CASE cur = i
    BY <1>5, <2>1, <2>3
  <2>. QED BY <2>2, <2>3
<1>6. ASSUME NEW i \in Starts, StartRefused(i) PROVE cur' = cur /\ sess[cur].start = "ok"
  <2>1. cur' = cur /\ cur \in Starts
    BY <1>0, <1>6, Zeroes DEF StartRefused
  <2>2. sess' = [sess EXCEPT ![i] = [[sess[i] EXCEPT !.start = "refused"] EXCEPT !.state = "Idle"]]
    BY <1>6 DEF StartRefused
  <2>3. cur # i
    BY <1>0, <2>1, <2>2 DEF Sessions
  <2>. QED BY <1>0, <2>1, <2>2, <2>3
<1>7. ASSUME NEW e \in Ends, StopAcked(e) PROVE cur' = cur /\ sess[cur].start = "ok"
  <2>1. cur' = cur /\ cur \in Starts
    BY <1>0, <1>7, Zeroes DEF StopAcked
  <2>2. sess' = [sess EXCEPT ![end[e].of] = [sess[end[e].of] EXCEPT !.state = "Ended"]]
    BY <1>7 DEF StopAcked
  <2>3. CASE cur = end[e].of
    BY <1>0, <2>1, <2>2, <2>3 DEF Sessions
  <2>4. CASE cur # end[e].of
    BY <1>0, <2>1, <2>2, <2>4
  <2>. QED BY <2>1, <2>3, <2>4
<1>8. CASE Window
  BY <1>3, <1>4, <1>8 DEF Window, Started, StartFailed, ShowConnected, ShowState, Dropped, Broken, Stopped, call
<1>9. ASSUME EnsureEnd \/ \E e \in Ends : EndCall(e) PROVE cur' = cur /\ sess[cur].start = "ok"
  BY <1>9 DEF EnsureEnd, EndCall, call
<1>10. CASE (\E e \in Ends : EndPressed(e)) \/ Disconnect \/ CloseAsked \/ Close
  BY <1>9, <1>10 DEF EndPressed, Disconnect, CloseAsked, Close, Exit
<1>11. ASSUME NEW e \in Ends, UploadStep(e) PROVE cur' = cur /\ sess' = sess
  BY <1>11 DEF UploadStep, NoToken, LocalDone, Initiated, InitiateRefused, PutDone, PutFails, Finalized,
     FinalizeRefused, Unexpected, Finish, Moves, call
<1>12. CASE \/ Connect \/ LoginFails \/ LoggedIn \/ Linked \/ LinkFails
            \/ \E kind \in {"broken", "refused"} : Trouble(kind)
  BY <1>3, <1>12 DEF Connect, LoginFails, LoggedIn, Linked, LinkFails, Trouble, call
<1>13. CASE \/ StartCallWithoutCapture \/ Disconnected \/ CallOver
            \/ UserStartsCapture \/ UserStopsCapture \/ Drain \/ (\E k \in Starts : Give(k))
            \/ UNCHANGED desktop
  BY <1>3, <1>13 DEF StartCallWithoutCapture, Disconnected, CallOver, UserStartsCapture,
     UserStopsCapture, Drain, Give, call, desktop
<1>. QED BY <1>1, <1>2, <1>3, <1>5, <1>6, <1>7, <1>8, <1>10, <1>11, <1>12, <1>13 DEF DesktopNext

\* The id of the call is forgotten when its connection is lost or the process
\* is gone.
LEMMA ActiveForgotten ==
    ASSUME DesktopTypeOK, [DesktopNext]_desktop, active # 0, active' = 0
    PROVE  Dropped \/ Exit
<1>1. SUFFICES ASSUME ~ Dropped, ~ Exit PROVE FALSE
  OBVIOUS
<1>2. ~ Started
  BY PostedType, PostShapes, Zeroes DEF Started, DesktopTypeOK
<1>3. ASSUME EnsureEnd \/ \E e \in Ends : EndCall(e) PROVE FALSE
  BY <1>3 DEF EnsureEnd, EndCall, call
<1>4. ASSUME NEW e \in Ends, UploadStep(e) PROVE FALSE
  BY <1>4 DEF UploadStep, NoToken, LocalDone, Initiated, InitiateRefused, PutDone, PutFails, Finalized,
     FinalizeRefused, Unexpected, Finish, Moves, call
<1>5. CASE Window
  BY <1>1, <1>2, <1>5 DEF Window, StartFailed, ShowConnected, ShowState, Broken, Refused, Stopped, call
<1>6. CASE (\E e \in Ends : EndPressed(e)) \/ Disconnect \/ CloseAsked \/ Close
  BY <1>1, <1>3, <1>6 DEF EndPressed, Disconnect, CloseAsked, Close
<1>7. CASE \/ Connect \/ LoginFails \/ LoggedIn \/ Linked \/ LinkFails \/ Drop
           \/ \E kind \in {"broken", "refused"} : Trouble(kind)
           \/ (\E k \in Starts : StartAcked(k) \/ StartRefused(k))
           \/ (\E e \in Ends : StopAcked(e))
  BY <1>7 DEF Connect, LoginFails, LoggedIn, Linked, LinkFails, Drop, Trouble, StartAcked, StartRefused,
     StopAcked, call
<1>8. CASE \/ StartCall \/ StartCallWithoutCapture \/ LetGo \/ Disconnected \/ CallOver
           \/ UserStartsCapture \/ UserStopsCapture \/ Drain \/ (\E k \in Starts : Give(k))
           \/ UNCHANGED desktop
  BY <1>8 DEF StartCall, StartCallWithoutCapture, LetGo, Disconnected, CallOver, UserStartsCapture,
     UserStopsCapture, Drain, Give, call, desktop
<1>. QED BY <1>4, <1>5, <1>6, <1>7, <1>8 DEF DesktopNext

LEMMA AnnouncedStep ==
    ASSUME DesktopTypeOK, Announced, [DesktopNext]_desktop
    PROVE  Announced'
<1>1. SUFFICES ASSUME cur' # 0, sess'[cur'].start = "ok", active' = 0
               PROVE  Has(posts', "started", cur')
  BY DEF Announced
<1>2. cur' = cur /\ (sess[cur].start = "ok" \/ StartAcked(cur))
  BY <1>1, SessionStep
<1>3. CASE StartAcked(cur)
  <2>1. posts \in Seq(Posts) /\ cur \in Starts /\ "InCall" \in CallStates
    BY <1>1, <1>2, Zeroes DEF DesktopTypeOK, CallStates
  <2>2. PICK q \in Seq(Posts) : q = posts \o Told(cur, "InCall")
    BY <2>1, ToldType
  <2>3. PICK m \in Posts : m = [kind |-> "started", of |-> cur] /\ m.kind = "started" /\ m.of = cur
    BY <2>1, PostKinds
  <2>4. posts' = q \o <<m>>
    BY <1>3, <2>2, <2>3 DEF StartAcked
  <2>. QED BY <1>2, <2>3, <2>4, QueuePushed
<1>4. CASE sess[cur].start = "ok" /\ active = 0
  <2>1. Has(posts, "started", cur)
    BY <1>1, <1>2, <1>4 DEF Announced
  <2>2. ~ Started
    BY <1>1, PostedType, PostShapes, Zeroes DEF Started, DesktopTypeOK
  <2>3. ~ Exit
    BY <1>1 DEF Exit
  <2>. QED BY <1>2, <2>1, <2>2, <2>3, StartedKept
<1>5. active # 0 => Dropped \/ Exit
  BY <1>1, ActiveForgotten
<1>6. ~ Dropped /\ ~ Exit
  BY <1>1 DEF Dropped, Exit
<1>. QED BY <1>2, <1>3, <1>4, <1>5, <1>6

\* A call that was answered stays so until the process is gone, and is given
\* its answer by the server.
LEMMA AnswersStay ==
    ASSUME DesktopTypeOK, DiskInv, [DesktopNext]_desktop, ~ Exit, NEW i \in Starts
    PROVE  /\ sess[i].start = "ok" => sess'[i].start = "ok"
           /\ sess'[i].start = "ok" => sess[i].start = "ok" \/ StartAcked(i)
<1>0. /\ sess \in [Starts -> Sessions] /\ cur \in 0 .. MaxStarts /\ started \in 0 .. MaxStarts
      /\ end \in [Ends -> EndRuns]
  BY DEF DesktopTypeOK
<1>1. ASSUME sess' = sess \/ sess' = LettingGo(cur)
      PROVE  sess'[i].start = "ok" <=> sess[i].start = "ok"
  BY <1>1, LettingGoKeeps
<1>2. CASE StartCall
  <2>1. PICK k \in Starts : k = started + 1
    BY <1>0, <1>2, Counted DEF StartCall, Starts
  <2>2. sess[k].start = "no"
    BY <1>0, <2>1, Counted DEF DiskInv, OpenedOnce
  <2>3. sess' = sess \/ (sess'[k].start = "ack" /\ \A j \in Starts \ {k} : sess'[j] = sess[j])
    BY <1>0, <1>2, <2>1 DEF StartCall, NoSession
  <2>. QED BY <2>2, <2>3
<1>3. CASE Drop \/ LetGo
  <2>1. Lost
    BY <1>3 DEF Drop, LetGo
  <2>. QED BY <1>0, <2>1, LostTypes DEF Sessions
<1>4. CASE Refused
  <2>1. CASE cur = 0
    BY <1>4, <2>1 DEF Refused
  <2>2. CASE cur # 0
    <3>1. cur \in Starts /\ sess' = [sess EXCEPT ![cur] = [sess[cur] EXCEPT !.state = "Ended"]]
      BY <1>0, <1>4, <2>2, Zeroes DEF Refused
    <3>. QED BY <1>0, <3>1 DEF Sessions
  <2>. QED BY <2>1, <2>2
<1>5. ASSUME NEW k \in Starts, StartAcked(k)
      PROVE  /\ sess[i].start = "ok" => sess'[i].start = "ok"
             /\ sess'[i].start = "ok" => sess[i].start = "ok" \/ StartAcked(i)
  <2>1. sess' = [sess EXCEPT ![k] = [[[sess[k] EXCEPT !.start = "ok"] EXCEPT !.state = "on"] EXCEPT !.auto = FALSE]]
    BY <1>5 DEF StartAcked
  <2>2. sess'[k].start = "ok" /\ \A j \in Starts \ {k} : sess'[j] = sess[j]
    BY <1>0, <2>1 DEF Sessions
  <2>. QED BY <1>5, <2>2
<1>6. ASSUME NEW k \in Starts, StartRefused(k) PROVE sess'[i].start = "ok" <=> sess[i].start = "ok"
  <2>1. sess' = [sess EXCEPT ![k] = [[sess[k] EXCEPT !.start = "refused"] EXCEPT !.state = "Idle"]]
        /\ sess[k].start = "ack"
    BY <1>6 DEF StartRefused
  <2>2. sess'[k].start = "refused" /\ \A j \in Starts \ {k} : sess'[j] = sess[j]
    BY <1>0, <2>1 DEF Sessions
  <2>. QED BY <2>1, <2>2
<1>7. ASSUME NEW e \in Ends, StopAcked(e) PROVE sess'[i].start = "ok" <=> sess[i].start = "ok"
  <2>1. sess' = [sess EXCEPT ![end[e].of] = [sess[end[e].of] EXCEPT !.state = "Ended"]]
    BY <1>7 DEF StopAcked
  <2>2. CASE i = end[e].of
    BY <1>0, <2>1, <2>2 DEF Sessions
  <2>3. CASE i # end[e].of
    BY <1>0, <2>1, <2>3
  <2>. QED BY <2>2, <2>3
<1>8. CASE Window
  BY <1>1, <1>4, <1>8 DEF Window, Started, StartFailed, ShowConnected, ShowState, Dropped, Broken, Stopped, call
<1>9. ASSUME EnsureEnd \/ \E e \in Ends : EndCall(e) PROVE sess'[i].start = "ok" <=> sess[i].start = "ok"
  BY <1>1, <1>9 DEF EnsureEnd, EndCall, call
<1>10. CASE (\E e \in Ends : EndPressed(e)) \/ Disconnect \/ CloseAsked \/ Close
  BY <1>9, <1>10 DEF EndPressed, Disconnect, CloseAsked, Close
<1>11. ASSUME NEW e \in Ends, UploadStep(e) PROVE sess' = sess
  BY <1>11 DEF UploadStep, NoToken, LocalDone, Initiated, InitiateRefused, PutDone, PutFails, Finalized,
     FinalizeRefused, Unexpected, Finish, Moves, call
<1>12. CASE \/ Connect \/ LoginFails \/ LoggedIn \/ Linked \/ LinkFails
            \/ \E kind \in {"broken", "refused"} : Trouble(kind)
  BY <1>1, <1>12 DEF Connect, LoginFails, LoggedIn, Linked, LinkFails, Trouble, call
<1>13. CASE \/ StartCallWithoutCapture \/ Disconnected \/ CallOver
            \/ UserStartsCapture \/ UserStopsCapture \/ Drain \/ (\E k \in Starts : Give(k))
            \/ UNCHANGED desktop
  BY <1>1, <1>13 DEF StartCallWithoutCapture, Disconnected, CallOver, UserStartsCapture,
     UserStopsCapture, Drain, Give, call, desktop
<1>. QED BY <1>2, <1>3, <1>5, <1>6, <1>7, <1>8, <1>10, <1>11, <1>12, <1>13 DEF DesktopNext

\* The start of a call is posted by nothing but its answer.
LEMMA StartedComes ==
    ASSUME DesktopTypeOK, [DesktopNext]_desktop, NEW i \in Starts, Has(posts', "started", i)
    PROVE  Has(posts, "started", i) \/ StartAcked(i)
<1>0. posts \in Seq(Posts)
  BY DEF DesktopTypeOK
<1>1. ASSUME NEW q \in Seq(Posts), NEW m \in Posts, Has(q \o <<m>>, "started", i)
      PROVE  Has(q, "started", i) \/ (m.kind = "started" /\ m.of = i)
  BY <1>1, QueuePushed
<1>2. ASSUME NEW state \in CallStates, NEW k, Has(posts \o Told(k, state), "started", i)
      PROVE  Has(posts, "started", i)
  <2>1. PICK n \in Posts : n = [kind |-> "state", state |-> state] /\ n.kind = "state"
    BY PostKinds
  <2>2. posts \o Told(k, state) = posts \/ posts \o Told(k, state) = posts \o <<n>>
    BY <1>0, <2>1, ToldType
  <2>. QED BY <1>0, <1>1, <1>2, <2>1, <2>2
<1>3. CASE Linked \/ Drop \/ LetGo \/ \E kind \in {"broken", "refused"} : Trouble(kind)
  <2>1. CASE posts' = posts
    BY <2>1
  <2>2. CASE posts' # posts
    <3>1. PICK kind \in {"connected", "dropped", "broken", "refused"} : posts' = Append(posts, [kind |-> kind])
      BY <1>3, <2>2 DEF Linked, Drop, LetGo, Trouble
    <3>2. PICK m \in Posts : m = [kind |-> kind] /\ m.kind = kind
      BY PostKinds
    <3>3. posts' = posts \o <<m>>
      BY <1>0, <3>1, <3>2, Pushes
    <3>. QED BY <1>0, <1>1, <3>2, <3>3
  <2>. QED BY <2>1, <2>2
<1>4. ASSUME NEW k \in Starts, StartAcked(k) PROVE Has(posts, "started", i) \/ StartAcked(i)
  <2>1. PICK m \in Posts : m = [kind |-> "started", of |-> k] /\ m.of = k
    BY PostKinds
  <2>2. posts \o Told(k, "InCall") \in Seq(Posts) /\ "InCall" \in CallStates
    BY <1>0, ToldType DEF CallStates
  <2>3. posts' = posts \o Told(k, "InCall") \o <<m>>
    BY <1>4, <2>1 DEF StartAcked
  <2>4. Has(posts \o Told(k, "InCall"), "started", i) \/ k = i
    BY <1>1, <2>1, <2>2, <2>3
  <2>. QED BY <1>2, <1>4, <2>2, <2>4
<1>5. ASSUME NEW k \in Starts, StartRefused(k) PROVE Has(posts, "started", i)
  <2>1. PICK m \in Posts : m = [kind |-> "failed", of |-> k] /\ m.kind = "failed"
    BY PostKinds
  <2>2. posts \o Told(k, "Idle") \in Seq(Posts) /\ "Idle" \in CallStates
    BY <1>0, ToldType DEF CallStates
  <2>3. posts' = posts \o Told(k, "Idle") \o <<m>>
    BY <1>5, <2>1 DEF StartRefused
  <2>4. Has(posts \o Told(k, "Idle"), "started", i)
    BY <1>1, <2>1, <2>2, <2>3
  <2>. QED BY <1>2, <2>2, <2>4
<1>6. ASSUME NEW e \in Ends, StopAcked(e) PROVE Has(posts, "started", i)
  <2>1. PICK m \in Posts : m = [kind |-> "stopped", of |-> e] /\ m.kind = "stopped"
    BY PostKinds
  <2>2. PICK n \in Posts : n = [kind |-> "state", state |-> "Ended"] /\ n.kind = "state"
    BY PostKinds DEF CallStates
  <2>3. PICK q \in Seq(Posts) : (q = posts \/ q = posts \o <<n>>) /\ posts' = q \o <<m>>
    BY <1>6, <2>1, <2>2, StopAckedPosts
  <2>4. Has(q, "started", i)
    BY <1>1, <2>1, <2>3
  <2>. QED BY <1>0, <1>1, <2>2, <2>3, <2>4
<1>7. ASSUME NEW kind, Posted(kind) PROVE Has(posts, "started", i)
  <2>1. posts # << >> /\ posts' = Tail(posts)
    BY <1>7 DEF Posted
  <2>. QED BY <1>0, <2>1, QueuePopped
<1>8. CASE Window
  BY <1>7, <1>8 DEF Window, Started, StartFailed, ShowConnected, ShowState, Dropped, Broken, Refused, Stopped
<1>9. ASSUME EnsureEnd \/ Exit PROVE Has(posts, "started", i)
  <2>1. CASE Exit
    BY <2>1, QueueEmpty DEF Exit
  <2>2. CASE EnsureEnd
    BY <2>2 DEF EnsureEnd, EndCall
  <2>. QED BY <1>9, <2>1, <2>2
<1>10. ASSUME NEW e \in Ends, UploadStep(e) PROVE Has(posts, "started", i)
  BY <1>10 DEF UploadStep, NoToken, LocalDone, Initiated, InitiateRefused, PutDone, PutFails, Finalized,
     FinalizeRefused, Unexpected, Finish, Moves
<1>11. CASE CloseAsked \/ Close
  BY <1>9, <1>11 DEF CloseAsked, Close
<1>12. CASE \/ Connect \/ LoginFails \/ LoggedIn \/ LinkFails \/ StartCall \/ StartCallWithoutCapture
            \/ (\E e \in Ends : EndPressed(e)) \/ Disconnect \/ Disconnected \/ CallOver
            \/ UserStartsCapture \/ UserStopsCapture \/ Drain \/ (\E k \in Starts : Give(k))
            \/ UNCHANGED desktop
  BY <1>9, <1>12 DEF Connect, LoginFails, LoggedIn, LinkFails, StartCall, StartCallWithoutCapture,
     EndPressed, EndCall, Disconnect, Disconnected, CallOver, UserStartsCapture, UserStopsCapture, Drain,
     Give, desktop
<1>. QED BY <1>3, <1>4, <1>5, <1>6, <1>8, <1>10, <1>11, <1>12 DEF DesktopNext

\* A file is opened for a call by StartCallAsync, which makes it the present
\* archive, and what has been opened leaves a trace.
LEMMA FilesOpen ==
    ASSUME DesktopTypeOK, DiskInv, ArchivesOpened, [DesktopNext]_desktop, NEW i \in Starts
    PROVE  /\ ~ Bare(i) => ~ Bare(i)'
           /\ Bare(i) => Bare(i)' \/ (Started /\ Post.of = i)
           /\ (Started /\ Post.of = i) => \/ arch' = i /\ ~ Bare(i)'
                                          \/ UNCHANGED archive /\ Toggles # {TRUE}
<1>0. file \in [Starts -> Files] /\ file[i] \in Files /\ arch \in 0 .. MaxStarts
  BY DEF DesktopTypeOK
<1>1. ASSUME file'[i].local = file[i].local PROVE Bare(i)' <=> Bare(i)
  BY <1>1 DEF Bare
<1>2. ASSUME Started
      PROVE  /\ ~ Bare(i) => ~ Bare(i)'
             /\ Bare(i) => Bare(i)' \/ Post.of = i
             /\ Post.of = i => \/ arch' = i /\ ~ Bare(i)'
                               \/ UNCHANGED archive /\ Toggles # {TRUE}
  <2>1. PICK k \in Starts : k = Post.of
    BY <1>2, PostedType, PostShapes DEF Started, DesktopTypeOK
  <2>2. PICK on \in Toggles :
          IF on THEN /\ arch' = k
                     /\ file' = [file EXCEPT ![k] = [[file[k] EXCEPT !.local = "open"] EXCEPT !.sink = TRUE]]
                ELSE UNCHANGED archive
    BY <1>2, <2>1 DEF Started, Opened
  <2>3. CASE on
    <3>1. arch' = k /\ file' = [file EXCEPT ![k] = [[file[k] EXCEPT !.local = "open"] EXCEPT !.sink = TRUE]]
      BY <2>2, <2>3
    <3>2. file'[k].local = "open" /\ \A j \in Starts \ {k} : file'[j] = file[j]
      BY <1>0, <3>1 DEF Files
    <3>. QED BY <2>1, <3>1, <3>2 DEF Bare
  <2>4. CASE ~ on
    <3>1. UNCHANGED archive
      BY <2>2, <2>4
    <3>2. Toggles # {TRUE}
      <4>1. SUFFICES ASSUME Toggles = {TRUE} PROVE FALSE
        OBVIOUS
      <4>2. on = TRUE
        BY <4>1
      <4>. QED BY <2>4, <4>2
    <3>3. file' = file
      BY <3>1 DEF archive
    <3>. QED BY <2>1, <3>1, <3>2, <3>3 DEF Bare
  <2>. QED BY <2>3, <2>4
<1>3. ASSUME NEW k \in Starts, Give(k) PROVE Bare(i)' <=> Bare(i)
  <2>1. \/ file' = file
        \/ file' = [file EXCEPT ![k] = [file[k] EXCEPT !.frames = @ + 1]]
    BY <1>3 DEF Give
  <2>2. [file EXCEPT ![k] = [file[k] EXCEPT !.frames = @ + 1]][i].local = file[i].local
    <3>1. CASE k = i
      <4>1. [file EXCEPT ![k] = [file[k] EXCEPT !.frames = @ + 1]][i] = [file[i] EXCEPT !.frames = @ + 1]
        BY <1>0, <3>1
      <4>. QED BY <1>0, <4>1 DEF Files
    <3>2. CASE k # i
      BY <1>0, <3>2
    <3>. QED BY <3>1, <3>2
  <2>. QED BY <2>1, <2>2 DEF Bare
<1>4. ASSUME NEW e \in Ends, UploadStep(e) PROVE (~ Bare(i) => ~ Bare(i)') /\ (Bare(i) => Bare(i)')
  <2>1. end[e].at \in Uploading /\ end[e] \in EndRuns
    BY <1>4 DEF UploadStep, NoToken, LocalDone, Initiated, InitiateRefused, PutDone, PutFails, Finalized,
       FinalizeRefused, Unexpected, Uploads, Uploading, DesktopTypeOK
  <2>2. Of(e) \in Starts
    BY <2>1, EndTypes, Zeroes DEF Of, DiskInv, RunsFit
  <2>3. PICK a \in Starts : a = Of(e) /\ file[a].local # "none" /\ file[a] \in Files
    BY <1>0, <2>2, Zeroes DEF ArchivesOpened, Bare, Of
  <2>4. file' \in {file, Deleted(e), Disposed(e), Completed(e)}
    BY <1>4 DEF UploadStep, NoToken, LocalDone, Initiated, InitiateRefused, PutDone, PutFails, Finalized,
       FinalizeRefused, Unexpected, Finish, Moves
  <2>5. Deleted(e)[a].local # "none"
    BY <2>2, <2>3, FilesAfterUpload
  <2>6. Disposed(e)[a].local # "none"
    <3>1. Disposed(e) = [file EXCEPT ![a] = [file[a] EXCEPT !.local = IF @ = "open" THEN "left" ELSE @]]
      BY <2>3 DEF Disposed
    <3>2. Disposed(e)[a] = [file[a] EXCEPT !.local = IF @ = "open" THEN "left" ELSE @]
      BY <1>0, <3>1
    <3>. QED BY <2>3, <3>2 DEF Files
  <2>7. Completed(e)[a].local # "none"
    <3>1. Completed(e) = [file EXCEPT ![a] = [[file[a] EXCEPT !.local = "whole"] EXCEPT !.sink = FALSE]]
      BY <2>3 DEF Completed
    <3>. QED BY <1>0, <3>1 DEF Files
  <2>8. CASE i = a
    BY <2>3, <2>4, <2>5, <2>6, <2>7, <2>8 DEF Bare
  <2>9. CASE i # a
    BY <2>2, <2>3, <2>4, <2>9, FilesAfterUpload DEF Bare
  <2>. QED BY <2>8, <2>9
<1>5. ASSUME EnsureEnd \/ \E e \in Ends : EndCall(e) PROVE Bare(i)' <=> Bare(i)
  <2>1. file' = file \/ file' = Deactivated
    BY <1>5 DEF EnsureEnd, EndCall, archive
  <2>2. \A a \in Starts : [file EXCEPT ![a] = [file[a] EXCEPT !.sink = FALSE]][i].local = file[i].local
    BY <1>0 DEF Files
  <2>3. Deactivated[i].local = file[i].local
    BY <1>0, <2>2, Zeroes DEF Deactivated
  <2>. QED BY <2>1, <2>3 DEF Bare
<1>6. ASSUME Exit PROVE Bare(i)' <=> Bare(i)
  <2>1. file'[i] = [[file[i] EXCEPT !.sink = FALSE] EXCEPT !.frames = 0]
    BY <1>6 DEF Exit
  <2>. QED BY <1>0, <2>1 DEF Files, Bare
<1>7. CASE file' = file
  <2>1. Bare(i)' <=> Bare(i)
    BY <1>7 DEF Bare
  <2>. QED BY <1>2, <2>1
<1>8. CASE Window
  BY <1>2, <1>7, <1>8 DEF Window, StartFailed, ShowConnected, ShowState, Dropped, Broken, Refused, Stopped, archive
<1>9. CASE (\E e \in Ends : EndPressed(e)) \/ Disconnect \/ CloseAsked \/ Close
  BY <1>2, <1>5, <1>6, <1>9 DEF EndPressed, Disconnect, CloseAsked, Close
<1>10. CASE \/ Connect \/ LoginFails \/ LoggedIn \/ Linked \/ LinkFails \/ Drop
            \/ \E kind \in {"broken", "refused"} : Trouble(kind)
  BY <1>7, <1>10 DEF Connect, LoginFails, LoggedIn, Linked, LinkFails, Drop, Trouble, archive
<1>11. CASE \/ StartCall \/ StartCallWithoutCapture \/ (\E k \in Starts : StartAcked(k) \/ StartRefused(k))
            \/ (\E e \in Ends : StopAcked(e)) \/ LetGo \/ Disconnected \/ CallOver
            \/ UserStartsCapture \/ UserStopsCapture \/ Drain \/ UNCHANGED desktop
  BY <1>7, <1>11 DEF StartCall, StartCallWithoutCapture, StartAcked, StartRefused, StopAcked, LetGo, Disconnected,
     CallOver, UserStartsCapture, UserStopsCapture, Drain, archive, desktop
<1>. QED BY <1>2, <1>3, <1>4, <1>8, <1>9, <1>10, <1>11 DEF DesktopNext

LEMMA HeardStays ==
    ASSUME DesktopTypeOK, DiskInv, [DesktopNext]_desktop, ~ Exit, NEW i \in Starts, Heard(i)
    PROVE  Heard(i)'
<1>1. sess[i].start = "ok" /\ ~ Has(posts, "started", i)
  BY DEF Heard
<1>2. sess'[i].start = "ok"
  BY <1>1, AnswersStay
<1>3. ~ StartAcked(i)
  BY <1>1 DEF StartAcked
<1>4. ~ Has(posts', "started", i)
  BY <1>1, <1>3, StartedComes
<1>. QED BY <1>2, <1>4 DEF Heard

\* StartCallAsync goes on once for each call.
LEMMA StartedHeard ==
    ASSUME DesktopTypeOK, DiskInv, Started, NEW i, Post.of = i
    PROVE  i \in Starts /\ Heard(i)' /\ Untouched(i) /\ ~ Heard(i)
<1>0. posts \in Seq(Posts) /\ Once(posts)
  BY DEF DesktopTypeOK, DiskInv, OpenedOnce
<1>1. posts' = Tail(posts) /\ posts # << >> /\ Post = Head(posts) /\ Post.kind = "started" /\ sess' = sess
  BY DEF Started, Posted, Post
<1>2. i \in Starts
  BY <1>0, PostedType, PostShapes DEF Started
<1>3. Has(posts, "started", i)
  <2>1. PICK n \in Nat \ {0} : n = Len(posts)
    BY <1>0, <1>1, Pops
  <2>2. 1 \in 1 .. Len(posts) /\ posts[1] = Post
    BY <1>0, <1>1, <2>1, Pops
  <2>. QED BY <1>1, <2>2 DEF Has
<1>4. ~ Has(posts', "started", i)
  BY <1>0, <1>1, QueuePopped
<1>5. sess[i].start = "ok" /\ Untouched(i)
  BY <1>2, <1>3 DEF DiskInv, OpenedOnce
<1>. QED BY <1>1, <1>2, <1>3, <1>4, <1>5 DEF Heard

\* The window hears of a call in the handler that may open its archive.
LEMMA HeardComes ==
    ASSUME DesktopTypeOK, DiskInv, [DesktopNext]_desktop, NEW i \in Starts, Heard(i)'
    PROVE  Heard(i) \/ (Started /\ Post.of = i)
<1>0. posts \in Seq(Posts) /\ sess'[i].start = "ok" /\ ~ Has(posts', "started", i)
  BY DEF DesktopTypeOK, Heard
<1>1. ~ Exit
  <2>1. SUFFICES ASSUME Exit PROVE FALSE
    OBVIOUS
  <2>2. sess'[i] = NoSession
    BY <2>1 DEF Exit
  <2>. QED BY <1>0, <2>2 DEF NoSession
<1>2. ~ StartAcked(i)
  <2>1. SUFFICES ASSUME StartAcked(i) PROVE FALSE
    OBVIOUS
  <2>2. "InCall" \in CallStates
    BY DEF CallStates
  <2>3. PICK q \in Seq(Posts) : q = posts \o Told(i, "InCall")
    BY <1>0, <2>2, ToldType
  <2>4. PICK m \in Posts : m = [kind |-> "started", of |-> i] /\ m.kind = "started" /\ m.of = i
    BY PostKinds
  <2>5. posts' = q \o <<m>>
    BY <2>1, <2>3, <2>4 DEF StartAcked
  <2>. QED BY <1>0, <2>4, <2>5, QueuePushed
<1>3. sess[i].start = "ok"
  BY <1>0, <1>1, <1>2, AnswersStay
<1>4. CASE ~ Has(posts, "started", i)
  BY <1>3, <1>4 DEF Heard
<1>5. CASE Has(posts, "started", i)
  <2>1. Started
    BY <1>0, <1>1, <1>5, StartedKept
  <2>2. posts # << >> /\ posts' = Tail(posts) /\ Post = Head(posts)
    BY <2>1 DEF Started, Posted, Post
  <2>. QED BY <1>0, <1>5, <2>1, <2>2, QueuePopped
<1>. QED BY <1>4, <1>5

\* What an end of a call holds after a step: what it held, nothing but the
\* archive it is over with, or what EndCallAsync has just taken.
Bears(e, a, i) == end[e].arch = a /\ end[e].id = i

LEMMA GivenOn ==
    ASSUME NEW e \in Ends, NEW run, end \in [Ends -> EndRuns],
           end' = [end EXCEPT ![e] = AfterStop(run)], NEW a, NEW i, run.arch = a, run.id = i, run \in EndRuns
    PROVE  /\ \A d \in Ends \ {e} : end'[d] = end[d]
           /\ \/ Bears(e, a, i)' /\ a # 0 /\ i # 0
              \/ Bears(e, a, 0)' /\ end'[e].at \notin Uploading
<1>1. end'[e] = AfterStop(run) /\ \A d \in Ends \ {e} : end'[d] = end[d]
  OBVIOUS
<1>2. CASE run.arch # 0 /\ run.id # 0
  <2>1. end'[e] = [[run EXCEPT !.of = 0] EXCEPT !.at = "local"]
    BY <1>1, <1>2 DEF AfterStop
  <2>2. end'[e].arch = run.arch /\ end'[e].id = run.id
    BY <2>1 DEF EndRuns
  <2>. QED BY <1>1, <1>2, <2>2 DEF Bears
<1>3. CASE ~ (run.arch # 0 /\ run.id # 0)
  <2>1. end'[e] = [[NoEnd EXCEPT !.arch = run.arch] EXCEPT !.at = "over"]
    BY <1>1, <1>3 DEF AfterStop
  <2>2. end'[e].at = "over" /\ end'[e].id = 0 /\ end'[e].arch = run.arch
    BY <2>1 DEF NoEnd
  <2>. QED BY <1>1, <2>2 DEF Bears, Uploading
<1>. QED BY <1>2, <1>3

Kept(e) == /\ UNCHANGED <<end[e].arch, end[e].id>>
           /\ end'[e].at \in Uploading => (end[e].at \in Uploading \/ (end[e].arch # 0 /\ end[e].id # 0))

Emptied(e) == end'[e].id = 0 /\ end'[e].at \notin Uploading /\ end'[e].arch \in {0, end[e].arch}

\* The id a session has is that of the present call, once the window has
\* heard of it.
TakenNow(e) ==
  /\ posts = << >> /\ end'[e].arch = arch /\ end'[e].id \in {0, active}
  /\ end'[e].at \in Uploading => (end'[e].arch # 0 /\ end'[e].id # 0)

LEMMA EndsTake ==
    ASSUME DesktopTypeOK, Announced, [DesktopNext]_desktop, NEW e \in Ends
    PROVE  Kept(e) \/ Emptied(e) \/ TakenNow(e)
<1>0. end \in [Ends -> EndRuns] /\ end[e] \in EndRuns /\ \A k \in Ends : end[k] \in EndRuns
  BY DEF DesktopTypeOK
<1>1. CASE end'[e] = end[e]
  BY <1>1 DEF Kept
<1>2. CASE Drop \/ LetGo
  <2>1. \/ end'[e] = end[e]
        \/ end'[e].at = "lost" /\ end'[e].arch = end[e].arch /\ end'[e].id = end[e].id
    BY <1>0, <1>2, LostTypes DEF Drop, LetGo, EndRuns
  <2>. QED BY <2>1 DEF Kept, Uploading
<1>3. ASSUME NEW k \in Ends, StopAcked(k) PROVE Kept(e)
  <2>1. end' = [end EXCEPT ![k] = [end[k] EXCEPT !.at = "stopped"]]
    BY <1>3 DEF StopAcked
  <2>2. /\ end'[k].at = "stopped" /\ end'[k].arch = end[k].arch /\ end'[k].id = end[k].id
        /\ \A d \in Ends \ {k} : end'[d] = end[d]
    BY <1>0, <2>1 DEF EndRuns
  <2>. QED BY <2>2 DEF Kept, Uploading
<1>4. CASE Stopped
  <2>1. PICK k \in Ends : k = Post.of
    BY <1>4, PostedType, PostShapes DEF Stopped, DesktopTypeOK
  <2>2. end' = [end EXCEPT ![k] = AfterStop(end[k])]
    BY <1>4, <2>1 DEF Stopped
  <2>3. PICK a, i : a = end[k].arch /\ i = end[k].id
    OBVIOUS
  <2>4. /\ \A d \in Ends \ {k} : end'[d] = end[d]
        /\ \/ Bears(k, a, i)' /\ a # 0 /\ i # 0
           \/ Bears(k, a, 0)' /\ end'[k].at \notin Uploading
    BY <1>0, <2>2, <2>3, GivenOn
  <2>. QED BY <2>3, <2>4 DEF Bears, Kept, Emptied
<1>5. ASSUME NEW k \in Ends, EndCall(k), posts = << >> PROVE Kept(e) \/ TakenNow(e)
  <2>1. cur # 0
    BY <1>5 DEF EndCall, Lifecycle
  <2>2. (sess[cur].start = "ok") => active # 0
    BY <1>5, <2>1, QueueEmpty DEF Announced
  <2>3. Captured.arch = arch /\ Captured.id \in {0, active} /\ Captured.at = "ack"
    BY <2>2 DEF Captured
  <2>4. CASE end' = [end EXCEPT ![k] = Captured]
    <3>1. end'[k] = Captured /\ \A d \in Ends \ {k} : end'[d] = end[d]
      BY <1>0, <2>4
    <3>. QED BY <1>5, <2>3, <3>1 DEF Kept, TakenNow, Uploading
  <2>5. CASE end' = [end EXCEPT ![k] = AfterStop(Captured)]
    <3>1. PICK a, i : a = Captured.arch /\ i = Captured.id
      OBVIOUS
    <3>2. /\ \A d \in Ends \ {k} : end'[d] = end[d]
          /\ \/ Bears(k, a, i)' /\ a # 0 /\ i # 0
             \/ Bears(k, a, 0)' /\ end'[k].at \notin Uploading
      BY <1>0, <2>5, <3>1, CapturedType, GivenOn
    <3>. QED BY <1>5, <2>3, <3>1, <3>2 DEF Bears, Kept, TakenNow
  <2>. QED BY <1>5, <2>4, <2>5 DEF EndCall
<1>6. ASSUME EnsureEnd, posts = << >> PROVE Kept(e) \/ TakenNow(e)
  BY <1>1, <1>5, <1>6 DEF EnsureEnd, Kept
<1>7. CASE Exit
  <2>1. end'[e] = NoEnd
    BY <1>7 DEF Exit
  <2>. QED BY <2>1 DEF Emptied, NoEnd, Uploading
<1>8. CASE (\E k \in Ends : EndPressed(k)) \/ Disconnect \/ CloseAsked \/ Close
  BY <1>5, <1>6, <1>7, <1>8 DEF EndPressed, Disconnect, CloseAsked, Close, Input
<1>9. ASSUME NEW k \in Ends, UploadStep(k) PROVE Kept(e) \/ Emptied(e)
  <2>1. end[k].at \in Uploading
    BY <1>9 DEF UploadStep, NoToken, LocalDone, Initiated, InitiateRefused, PutDone, PutFails, Finalized,
       FinalizeRefused, Unexpected, Uploads, Uploading
  <2>2. ASSUME NEW at \in {"broken", "done"}, NEW files, Finish(k, at, files) PROVE Kept(e) \/ Emptied(e)
    <3>1. end' = [end EXCEPT ![k] = [[NoEnd EXCEPT !.arch = Of(k)] EXCEPT !.at = at]]
      BY <2>2 DEF Finish
    <3>2. /\ end'[k].at = at /\ end'[k].id = 0 /\ end'[k].arch = end[k].arch
          /\ \A d \in Ends \ {k} : end'[d] = end[d]
      BY <1>0, <3>1 DEF NoEnd, Of
    <3>. QED BY <3>2 DEF Kept, Emptied, Uploading
  <2>3. ASSUME NEW at \in {"initiate", "put", "remote"}, Moves(k, at) PROVE Kept(e)
    <3>1. end' = [end EXCEPT ![k] = [end[k] EXCEPT !.at = at]]
      BY <2>3 DEF Moves
    <3>2. /\ end'[k].arch = end[k].arch /\ end'[k].id = end[k].id
          /\ \A d \in Ends \ {k} : end'[d] = end[d]
      BY <1>0, <3>1 DEF EndRuns
    <3>. QED BY <2>1, <3>2 DEF Kept
  <2>. QED BY <1>9, <2>2, <2>3 DEF UploadStep, NoToken, LocalDone, Initiated, InitiateRefused, PutDone,
           PutFails, Finalized, FinalizeRefused, Unexpected
<1>10. CASE Window
  BY <1>1, <1>4, <1>10 DEF Window, Started, StartFailed, ShowConnected, ShowState, Dropped, Broken, Refused
<1>11. CASE \/ Connect \/ LoginFails \/ LoggedIn \/ Linked \/ LinkFails
            \/ \E kind \in {"broken", "refused"} : Trouble(kind)
            \/ (\E k \in Starts : StartAcked(k) \/ StartRefused(k))
  BY <1>1, <1>11 DEF Connect, LoginFails, LoggedIn, Linked, LinkFails, Trouble, StartAcked, StartRefused
<1>12. CASE \/ StartCall \/ StartCallWithoutCapture \/ Disconnected \/ CallOver
            \/ UserStartsCapture \/ UserStopsCapture \/ Drain \/ (\E k \in Starts : Give(k))
            \/ UNCHANGED desktop
  BY <1>1, <1>12 DEF StartCall, StartCallWithoutCapture, Disconnected, CallOver, UserStartsCapture,
     UserStopsCapture, Drain, Give, desktop
<1>. QED BY <1>2, <1>3, <1>8, <1>9, <1>10, <1>11, <1>12 DEF DesktopNext

LEMMA ArchivesOpenedStep ==
    ASSUME DesktopTypeOK, DiskInv, PlaceInv, [DesktopNext]_desktop
    PROVE  ArchivesOpened'
<1>0. arch \in 0 .. MaxStarts /\ arch' \in 0 .. MaxStarts /\ end \in [Ends -> EndRuns]
  <2>1. DesktopTypeOK'
    BY DesktopTypeStep
  <2>. QED BY <2>1 DEF DesktopTypeOK
<1>1. \A i \in Starts : ~ Bare(i) => ~ Bare(i)'
  BY FilesOpen DEF PlaceInv
<1>2. \A i \in 0 .. MaxStarts : i # 0 => i \in Starts
  BY Zeroes
<1>3. ASSUME arch' # 0 PROVE file'[arch'].local # "none"
  <2>1. PICK i \in Starts : i = arch'
    BY <1>0, <1>2, <1>3
  <2>2. CASE arch' = arch
    BY <1>1, <1>3, <2>1, <2>2 DEF PlaceInv, ArchivesOpened, Bare
  <2>3. CASE arch' # arch
    <3>1. Started
      BY <1>3, <2>3, NamesMove
    <3>2. arch' = Post.of
      BY <2>3, <3>1 DEF Started, archive
    <3>3. i = Post.of /\ ~ UNCHANGED archive
      BY <2>1, <2>3, <3>2 DEF archive
    <3>4. ~ Bare(i)'
      BY <3>1, <3>3, FilesOpen DEF PlaceInv
    <3>. QED BY <2>1, <3>4 DEF Bare
  <2>. QED BY <2>2, <2>3
<1>4. ASSUME NEW e \in Ends, end'[e].arch # 0 PROVE file'[end'[e].arch].local # "none"
  <2>1. Kept(e) \/ Emptied(e) \/ TakenNow(e)
    BY EndsTake DEF PlaceInv
  <2>2. PICK i : i = end'[e].arch
    OBVIOUS
  <2>3. i # 0 /\ (i = end[e].arch \/ i = arch)
    BY <1>4, <2>1, <2>2 DEF Kept, Emptied, TakenNow
  <2>4. i \in Starts /\ ~ Bare(i)
    <3>1. end[e].arch \in 0 .. MaxStarts
      BY <1>0, EndTypes
    <3>. QED BY <1>0, <1>2, <2>3, <3>1 DEF PlaceInv, ArchivesOpened
  <2>. QED BY <1>1, <2>2, <2>4 DEF Bare
<1>. QED BY <1>3, <1>4 DEF ArchivesOpened, Bare

LEMMA OpenedWhenHeardStep ==
    ASSUME DesktopTypeOK, DiskInv, PlaceInv, [DesktopNext]_desktop
    PROVE  OpenedWhenHeard'
<1>1. SUFFICES ASSUME Open', NEW i \in Starts, ~ Bare(i)' PROVE Heard(i)'
  BY DEF OpenedWhenHeard
<1>2. Open
  BY <1>1, OnlyOpen DEF Open, desktop
<1>3. ~ Exit
  BY <1>1 DEF Exit, Open
<1>4. CASE ~ Bare(i)
  <2>1. Heard(i)
    BY <1>2, <1>4 DEF PlaceInv, OpenedWhenHeard
  <2>. QED BY <1>3, <2>1, HeardStays
<1>5. CASE Bare(i)
  <2>1. Started /\ Post.of = i
    BY <1>1, <1>5, FilesOpen DEF PlaceInv
  <2>. QED BY <2>1, StartedHeard
<1>. QED BY <1>4, <1>5

LEMMA AllHeardStep ==
    ASSUME DesktopTypeOK, DiskInv, PlaceInv, [DesktopNext]_desktop
    PROVE  AllHeard'
<1>0. active \in 0 .. MaxStarts /\ end \in [Ends -> EndRuns]
  BY DEF DesktopTypeOK
<1>1. \A i \in 0 .. MaxStarts : i # 0 => i \in Starts
  BY Zeroes
<1>2. CASE Exit
  <2>1. active' = 0 /\ \A e \in Ends : end'[e] = NoEnd
    BY <1>2 DEF Exit
  <2>. QED BY <2>1 DEF AllHeard, NoEnd
<1>3. CASE ~ Exit
  <2>1. \A i \in Starts : Heard(i) => Heard(i)'
    BY <1>3, HeardStays
  <2>2. ASSUME active' # 0
      PROVE  sess'[active'].start = "ok" /\ ~ Has(posts', "started", active')
    <3>1. CASE Started
      <4>1. active' = Post.of
        BY <3>1 DEF Started
      <4>2. PICK i : i = Post.of
        OBVIOUS
      <4>3. Heard(i)'
        BY <3>1, <4>2, StartedHeard
      <4>. QED BY <4>1, <4>2, <4>3 DEF Heard
    <3>2. CASE ~ Started
      <4>1. active' = active
        BY <2>2, <3>2, NamesMove
      <4>2. active \in Starts /\ Heard(active)
        BY <1>0, <1>1, <2>2, <4>1 DEF PlaceInv, AllHeard
      <4>3. PICK i \in Starts : i = active'
        BY <4>1, <4>2
      <4>. QED BY <2>1, <4>1, <4>2, <4>3 DEF Heard
    <3>. QED BY <3>1, <3>2
  <2>3. ASSUME NEW e \in Ends, end'[e].id # 0
      PROVE  sess'[end'[e].id].start = "ok" /\ ~ Has(posts', "started", end'[e].id)
    <3>1. Kept(e) \/ Emptied(e) \/ TakenNow(e)
      BY EndsTake DEF PlaceInv
    <3>2. PICK i : i = end'[e].id
      OBVIOUS
    <3>3. i # 0 /\ (i = end[e].id \/ i = active)
      BY <2>3, <3>1, <3>2 DEF Kept, Emptied, TakenNow
    <3>4. i \in Starts /\ Heard(i)
      <4>1. end[e].id \in 0 .. MaxStarts
        BY <1>0, EndTypes
      <4>. QED BY <1>0, <1>1, <3>3, <4>1 DEF PlaceInv, AllHeard
    <3>. QED BY <2>1, <3>2, <3>4 DEF Heard
  <2>. QED BY <2>2, <2>3 DEF AllHeard, Heard
<1>. QED BY <1>2, <1>3

\* A call that was heard of without an archive is never given one.
LEMMA StaysBare ==
    ASSUME DesktopTypeOK, DiskInv, PlaceInv, [DesktopNext]_desktop, NEW i \in Starts, Bare(i), Heard(i)
    PROVE  Bare(i)'
<1>1. ~ (Started /\ Post.of = i)
  BY StartedHeard
<1>. QED BY <1>1, FilesOpen DEF PlaceInv

LEMMA PlacedStep ==
    ASSUME DesktopTypeOK, DiskInv, PlaceInv, [DesktopNext]_desktop
    PROVE  Placed'
<1>0. active \in 0 .. MaxStarts /\ arch \in 0 .. MaxStarts
  BY DEF DesktopTypeOK
<1>1. SUFFICES ASSUME active' # 0, arch' # 0, arch' # active' PROVE file'[active'].local = "none"
  BY DEF Placed, Bare
<1>2. CASE Started
  <2>1. PICK i : i = Post.of
    OBVIOUS
  <2>2. i \in Starts /\ ~ Heard(i)
    BY <1>2, <2>1, StartedHeard
  <2>3. active' = i /\ arch' # i
    BY <1>1, <1>2, <2>1 DEF Started
  <2>4. UNCHANGED archive
    BY <1>2, <2>1, <2>2, <2>3, FilesOpen DEF PlaceInv
  <2>5. Bare(i)
    <3>1. Open
      BY <1>2 DEF Started, Posted
    <3>. QED BY <2>2, <3>1 DEF PlaceInv, OpenedWhenHeard
  <2>6. Bare(i)'
    BY <2>4, <2>5 DEF Bare, archive
  <2>. QED BY <2>3, <2>6 DEF Bare
<1>3. CASE ~ Started
  <2>1. active' = active /\ arch' = arch
    BY <1>1, <1>3, NamesMove
  <2>2. active \in Starts /\ Bare(active) /\ Heard(active)
    BY <1>0, <1>1, <2>1, Zeroes DEF PlaceInv, Placed, AllHeard
  <2>3. PICK i \in Starts : i = active
    BY <2>2
  <2>4. Bare(i)'
    BY <2>2, <2>3, StaysBare
  <2>5. i = active'
    BY <2>1, <2>3
  <2>. QED BY <2>4, <2>5 DEF Bare
<1>. QED BY <1>2, <1>3

LEMMA RunsPlacedStep ==
    ASSUME DesktopTypeOK, DiskInv, PlaceInv, [DesktopNext]_desktop
    PROVE  RunsPlaced'
<1>0. active \in 0 .. MaxStarts /\ arch \in 0 .. MaxStarts /\ end \in [Ends -> EndRuns]
  BY DEF DesktopTypeOK
<1>1. ASSUME NEW e \in Ends
      PROVE  /\ (end'[e].arch # 0 /\ end'[e].id # 0) => (end'[e].arch = end'[e].id \/ file'[end'[e].id].local = "none")
             /\ end'[e].at \in Uploading => (end'[e].arch # 0 /\ end'[e].id # 0)
  <2>1. Kept(e) \/ Emptied(e) \/ TakenNow(e)
    BY EndsTake DEF PlaceInv
  <2>2. end'[e].at \in Uploading => (end'[e].arch # 0 /\ end'[e].id # 0)
    BY <2>1 DEF Kept, Emptied, TakenNow, PlaceInv, RunsPlaced
  <2>3. ASSUME end'[e].arch # 0, end'[e].id # 0, end'[e].arch # end'[e].id
      PROVE  file'[end'[e].id].local = "none"
    <3>1. PICK i : i = end'[e].id
      OBVIOUS
    <3>2. i \in Starts /\ Bare(i) /\ Heard(i)
      <4>1. CASE Kept(e)
        <5>1. end[e].arch = end'[e].arch /\ end[e].id = i
          BY <3>1, <4>1 DEF Kept
        <5>2. Bare(i) /\ Heard(i)
          BY <2>3, <3>1, <5>1 DEF PlaceInv, RunsPlaced, AllHeard
        <5>3. i \in Starts
          BY <1>0, <2>3, <3>1, <5>1, EndTypes, Zeroes
        <5>. QED BY <5>2, <5>3
      <4>2. CASE TakenNow(e)
        <5>1. end'[e].arch = arch /\ i = active /\ i # 0
          BY <2>3, <3>1, <4>2 DEF TakenNow
        <5>2. Bare(i) /\ Heard(i)
          BY <2>3, <3>1, <5>1 DEF PlaceInv, Placed, AllHeard
        <5>3. i \in Starts
          BY <1>0, <5>1, Zeroes
        <5>. QED BY <5>2, <5>3
      <4>. QED BY <2>1, <2>3, <4>1, <4>2 DEF Emptied
    <3>3. Bare(i)'
      BY <3>2, StaysBare
    <3>. QED BY <3>1, <3>3 DEF Bare
  <2>. QED BY <2>2, <2>3
<1>. QED BY <1>1 DEF RunsPlaced, Bare

LEMMA PlaceInvariant == DesktopSpec => []PlaceInv
<1>1. DesktopInit => PlaceInv
  <2>1. SUFFICES ASSUME DesktopInit PROVE PlaceInv
    OBVIOUS
  <2>2. cur = 0 /\ active = 0 /\ arch = 0 /\ \A e \in Ends : end[e] = NoEnd
    BY <2>1 DEF DesktopInit
  <2>3. \A i \in Starts : Bare(i)
    BY <2>1 DEF DesktopInit, NoFile, Bare
  <2>. QED BY <2>2, <2>3 DEF PlaceInv, ArchivesOpened, OpenedWhenHeard, AllHeard, Announced, Placed,
           RunsPlaced, NoEnd, Uploading
<1>2. ASSUME DesktopTypeOK, DiskInv, PlaceInv, [DesktopNext]_desktop PROVE PlaceInv'
  <2>1. Announced'
    BY <1>2, AnnouncedStep DEF PlaceInv
  <2>2. ArchivesOpened' /\ OpenedWhenHeard' /\ AllHeard' /\ Placed' /\ RunsPlaced'
    BY <1>2, ArchivesOpenedStep, OpenedWhenHeardStep, AllHeardStep, PlacedStep, RunsPlacedStep
  <2>. QED BY <2>1, <2>2 DEF PlaceInv
<1>3. DesktopTypeOK /\ DiskInv /\ PlaceInv /\ [DesktopNext]_desktop => PlaceInv'
  BY <1>2
<1>. QED BY <1>1, <1>3, DesktopTyping, DiskInvariant, PTL DEF DesktopSpec

\* ArchivedInItsPlace: what is uploaded under a call is the recording of that
\* call, unless the call has none: no recording is replaced by another,
\* however the user switches the archive on and off.
THEOREM RecordingsInTheirPlace == DesktopSpec => []ArchivedInItsPlace
<1>1. PlaceInv => ArchivedInItsPlace
  BY DEF PlaceInv, RunsPlaced, Bare, ArchivedInItsPlace
<1>. QED BY <1>1, PlaceInvariant, PTL

LEMMA RecordedInvariant ==
    ASSUME Toggles = {TRUE}
    PROVE  DesktopSpec => []Recorded
<1>1. DesktopInit => Recorded
  BY DEF DesktopInit, Recorded, Heard, NoSession
<1>2. ASSUME DesktopTypeOK, DiskInv, PlaceInv, Recorded, [DesktopNext]_desktop PROVE Recorded'
  <2>1. SUFFICES ASSUME NEW i \in Starts, Heard(i)' PROVE ~ Bare(i)'
    BY DEF Recorded
  <2>2. CASE Heard(i)
    BY <1>2, <2>2, FilesOpen DEF PlaceInv, Recorded
  <2>3. CASE Started /\ Post.of = i
    BY <1>2, <2>3, FilesOpen DEF PlaceInv
  <2>. QED BY <1>2, <2>1, <2>2, <2>3, HeardComes
<1>3. DesktopTypeOK /\ DiskInv /\ PlaceInv /\ Recorded /\ [DesktopNext]_desktop => Recorded'
  BY <1>2
<1>. QED BY <1>1, <1>3, DesktopTyping, DiskInvariant, PlaceInvariant, PTL DEF DesktopSpec

\* ArchivedUnderItsCall: every recording is uploaded under its own call, if the
\* archive is not switched on or off between calls.
THEOREM UploadsAreOfTheirCall ==
    ASSUME Toggles = {TRUE}
    PROVE  DesktopSpec => []ArchivedUnderItsCall
<1>1. DesktopTypeOK /\ PlaceInv /\ Recorded => ArchivedUnderItsCall
  <2>1. SUFFICES ASSUME DesktopTypeOK, PlaceInv, Recorded, NEW e \in Ends, end[e].at \in Uploading
                 PROVE  end[e].arch = end[e].id
    BY DEF ArchivedUnderItsCall
  <2>2. end[e].arch # 0 /\ end[e].id # 0
    BY <2>1 DEF PlaceInv, RunsPlaced
  <2>3. end[e].id \in Starts
    BY <2>1, <2>2, EndTypes, Zeroes DEF DesktopTypeOK
  <2>4. ~ Bare(end[e].id)
    BY <2>1, <2>2, <2>3 DEF PlaceInv, AllHeard, Recorded
  <2>. QED BY <2>1, <2>2, <2>4 DEF PlaceInv, RunsPlaced
<1>. QED BY <1>1, PlaceInvariant, RecordedInvariant, DesktopTyping, PTL

-----------------------------------------------------------------------------
(* Capture that was started for a call is stopped with it, when the user   *)
(* starts capture by hand before the first call only.  A call that runs on *)
(* that capture starts none of its own (auto), and StartCallAsync stops    *)
(* only what is its own: no other call may begin while such a call waits   *)
(* for its answer, or its failure would leave the capture of that one on.  *)

Holds(q, kind) == \E j \in 1 .. Len(q) : q[j].kind = kind
Begins(q) == \E j \in 1 .. Len(q) : q[j].kind = "state" /\ q[j].state = "InCall"

ShownOver == shown \in {"Idle", "Ended"}
Answered == \E i \in Starts : sess[i].start = "ok"
Waits(i) == sess[i].start = "ack"
Borrows(i) == Waits(i) /\ ~ sess[i].auto

RunsForACall == capture = "call" => cur # 0 /\ (~ ShownOver \/ Cleans(posts))

FailureStops ==
  \A i \in Starts : Has(posts, "failed", i) => ~ Waits(i) /\ (capture = "call" => sess[i].auto)

\* Calls wait for answers of the connection there is.
OneLink == (\E i \in Starts : Waits(i)) => sock = "up" /\ ~ Holds(posts, "connected")

\* Until a call is answered a call is ended only by who disconnects.
Calm ==
  /\ ~ Holds(posts, "started") /\ ~ Holds(posts, "refused") /\ ~ Begins(posts)
  /\ shown # "InCall"
  /\ Pending => leave = "ending"
  /\ \A e \in Ends : end[e].at = "ack" => e = task

\* No call can begin: the window shows the one that waits, or disconnects.
Held(i) ==
  \/ /\ cur = i /\ ~ ShownOver /\ sess[i].state = "on"
     /\ ~ Holds(posts, "state") /\ ~ Holds(posts, "stopped")
  \/ leave = "ending" /\ (~ Pending \/ Has(posts, "stopped", task))

Borrowing ==
  \A i \in Starts : Borrows(i) =>
    /\ capture # "call" /\ ~ Answered /\ ~ Holds(posts, "failed")
    /\ \A j \in Starts : Waits(j) => j = i
    /\ conn = "on" => Held(i)

UsersOwn ==
  capture = "user" => \A i \in Starts : sess[i].start \in {"ack", "ok"} =>
    /\ cur = i /\ (~ ShownOver \/ Cleans(posts)) /\ ~ Holds(posts, "failed")
    /\ Waits(i) => ~ sess[i].auto

Hands ==
  /\ RunsForACall /\ FailureStops /\ OneLink /\ Borrowing /\ UsersOwn /\ Followed(posts)
  /\ ~ Answered => Calm

LEMMA KindsPopped ==
    ASSUME NEW q \in Seq(Posts), q # << >>
    PROVE  /\ \A kind : Holds(Tail(q), kind) => Holds(q, kind)
           /\ \A kind : Holds(q, kind) => Head(q).kind = kind \/ Holds(Tail(q), kind)
           /\ Holds(q, Head(q).kind) /\ Has(q, Head(q).kind, Head(q).of)
           /\ Begins(Tail(q)) => Begins(q)
           /\ (Head(q).kind = "state" /\ Head(q).state = "InCall") => Begins(q)
<1>1. PICK n \in Nat \ {0} : n = Len(q)
  BY Pops
<1>2. /\ Head(q) = q[1] /\ Len(Tail(q)) = n - 1 /\ 1 \in 1 .. n
      /\ \A j \in 1 .. n - 1 : Tail(q)[j] = q[j + 1] /\ j + 1 \in 1 .. n
  BY <1>1, Pops
<1>3. \A j \in 1 .. n : j = 1 \/ (j - 1 \in 1 .. n - 1 /\ (j - 1) + 1 = j)
  BY <1>1
<1>4. \A j \in 1 .. n : j = 1 \/ (j - 1 \in 1 .. n - 1 /\ Tail(q)[j - 1] = q[j])
  BY <1>2, <1>3
<1>5. \A kind : Holds(Tail(q), kind) => Holds(q, kind)
  BY <1>1, <1>2 DEF Holds
<1>6. \A kind : Holds(q, kind) => Head(q).kind = kind \/ Holds(Tail(q), kind)
  BY <1>1, <1>2, <1>4 DEF Holds
<1>7. Begins(Tail(q)) => Begins(q)
  BY <1>1, <1>2 DEF Begins
<1>8. Holds(q, Head(q).kind) /\ Has(q, Head(q).kind, Head(q).of)
  BY <1>1, <1>2 DEF Holds, Has
<1>9. (Head(q).kind = "state" /\ Head(q).state = "InCall") => Begins(q)
  BY <1>1, <1>2 DEF Begins
<1>. QED BY <1>5, <1>6, <1>7, <1>8, <1>9

LEMMA KindsPushed ==
    ASSUME NEW q \in Seq(Posts), NEW m \in Posts
    PROVE  /\ \A kind : Holds(q \o <<m>>, kind) <=> Holds(q, kind) \/ m.kind = kind
           /\ Begins(q \o <<m>>) <=> Begins(q) \/ (m.kind = "state" /\ m.state = "InCall")
<1>1. PICK n \in Nat : n = Len(q)
  OBVIOUS
<1>2. PICK p \in Seq(Posts) : /\ p = q \o <<m>> /\ Len(p) = n + 1 /\ p[n + 1] = m
                              /\ \A j \in 1 .. n : p[j] = q[j]
  BY <1>1, Pushes
<1>3. \A j \in 1 .. n + 1 : j \in 1 .. n \/ j = n + 1
  BY <1>1
<1>4. \A j \in 1 .. n : j \in 1 .. n + 1
  BY <1>1
<1>5. n + 1 \in 1 .. n + 1
  BY <1>1
<1>6. ASSUME NEW kind PROVE Holds(p, kind) <=> Holds(q, kind) \/ m.kind = kind
  <2>1. ASSUME Holds(p, kind) PROVE Holds(q, kind) \/ m.kind = kind
    BY <1>1, <1>2, <1>3, <2>1 DEF Holds
  <2>2. ASSUME Holds(q, kind) \/ m.kind = kind PROVE Holds(p, kind)
    BY <1>1, <1>2, <1>4, <1>5, <2>2 DEF Holds
  <2>. QED BY <2>1, <2>2
<1>7. Begins(p) <=> Begins(q) \/ (m.kind = "state" /\ m.state = "InCall")
  <2>1. ASSUME Begins(p) PROVE Begins(q) \/ (m.kind = "state" /\ m.state = "InCall")
    BY <1>1, <1>2, <1>3, <2>1 DEF Begins
  <2>2. ASSUME Begins(q) \/ (m.kind = "state" /\ m.state = "InCall") PROVE Begins(p)
    BY <1>1, <1>2, <1>4, <1>5, <2>2 DEF Begins
  <2>. QED BY <2>1, <2>2
<1>. QED BY <1>2, <1>6, <1>7

LEMMA KindsEmpty == ~ Begins(<< >>) /\ \A kind : ~ Holds(<< >>, kind)
BY EmptySeq DEF Holds, Begins

\* No call begins or is answered, no capture is started, and what is posted
\* tells of no failure.
LEMMA HandsStay ==
    ASSUME Hands, Followed(posts'), ~ Answered => Calm', capture' \in {capture, "off"},
           \A i \in Starts :
             /\ sess'[i].start = "ack" => sess[i].start = "ack" /\ sess'[i].auto = sess[i].auto
             /\ sess'[i].start = "ok" <=> sess[i].start = "ok"
             /\ Has(posts', "failed", i) => Has(posts, "failed", i)
             /\ (capture' = "call" /\ Has(posts', "failed", i)) => sess'[i].auto = sess[i].auto,
           Holds(posts', "failed") => Holds(posts, "failed"),
           (\E i \in Starts : sess'[i].start = "ack") =>
             sock' = sock /\ (Holds(posts', "connected") => Holds(posts, "connected")),
           \A i \in Starts : (Borrows(i) /\ sess'[i].start = "ack" /\ conn' = "on") =>
             conn = "on" /\ (Held(i) => Held(i)'),
           capture' # "off" =>
             \/ /\ cur' = cur
                /\ Cleans(posts) => Cleans(posts')
                /\ shown' = shown \/ shown' \notin {"Idle", "Ended"} \/ Cleans(posts')
             \/ capture' = "user" /\ \A i \in Starts : sess'[i].start \notin {"ack", "ok"}
    PROVE  Hands'
<1>0. RunsForACall /\ FailureStops /\ OneLink /\ Borrowing /\ UsersOwn
  BY DEF Hands
<1>1. RunsForACall'
  BY <1>0 DEF RunsForACall, ShownOver
<1>2. FailureStops'
  <2>1. SUFFICES ASSUME NEW i \in Starts, Has(posts', "failed", i)
                 PROVE  sess'[i].start # "ack" /\ (capture' = "call" => sess'[i].auto)
    BY DEF FailureStops, Waits
  <2>2. Has(posts, "failed", i)
    BY <2>1
  <2>3. sess[i].start # "ack" /\ (capture = "call" => sess[i].auto)
    BY <1>0, <2>2 DEF FailureStops, Waits
  <2>4. capture' = "call" => capture = "call" /\ sess'[i].auto = sess[i].auto
    BY <2>1
  <2>. QED BY <2>3, <2>4
<1>3. OneLink'
  <2>1. SUFFICES ASSUME NEW i \in Starts, sess'[i].start = "ack"
                 PROVE  sock' = "up" /\ ~ Holds(posts', "connected")
    BY DEF OneLink, Waits
  <2>2. sess[i].start = "ack" /\ sock' = sock /\ (Holds(posts', "connected") => Holds(posts, "connected"))
    BY <2>1
  <2>. QED BY <1>0, <2>2 DEF OneLink, Waits
<1>4. Answered' <=> Answered
  BY DEF Answered
<1>5. ASSUME NEW i \in Starts, Borrows(i)' PROVE Borrows(i) /\ sess'[i].start = "ack"
  BY <1>5 DEF Borrows, Waits
<1>6. Borrowing'
  <2>1. SUFFICES ASSUME NEW i \in Starts, Borrows(i)'
                 PROVE  /\ capture' # "call" /\ ~ Answered' /\ ~ Holds(posts', "failed")
                        /\ \A j \in Starts : Waits(j)' => j = i
                        /\ conn' = "on" => Held(i)'
    BY DEF Borrowing
  <2>2. Borrows(i) /\ sess'[i].start = "ack"
    BY <1>5, <2>1
  <2>3. /\ capture # "call" /\ ~ Answered /\ ~ Holds(posts, "failed")
        /\ \A j \in Starts : Waits(j) => j = i
        /\ conn = "on" => Held(i)
    BY <1>0, <2>2 DEF Borrowing
  <2>4. capture' # "call" /\ ~ Answered' /\ ~ Holds(posts', "failed")
    BY <1>4, <2>3
  <2>5. \A j \in Starts : Waits(j)' => j = i
    BY <2>3 DEF Waits
  <2>6. conn' = "on" => Held(i)'
    BY <2>2, <2>3
  <2>. QED BY <2>4, <2>5, <2>6
<1>7. UsersOwn'
  <2>1. SUFFICES ASSUME capture' = "user", NEW i \in Starts, sess'[i].start \in {"ack", "ok"}
                 PROVE  /\ cur' = i /\ (shown' \notin {"Idle", "Ended"} \/ Cleans(posts'))
                        /\ ~ Holds(posts', "failed")
                        /\ sess'[i].start = "ack" => ~ sess'[i].auto
    BY DEF UsersOwn, Waits, ShownOver
  <2>2. capture = "user" /\ sess[i].start \in {"ack", "ok"}
    BY <2>1
  <2>3. /\ cur = i /\ (shown \notin {"Idle", "Ended"} \/ Cleans(posts)) /\ ~ Holds(posts, "failed")
        /\ sess[i].start = "ack" => ~ sess[i].auto
    BY <1>0, <2>2 DEF UsersOwn, Waits, ShownOver
  <2>4. /\ cur' = cur
        /\ Cleans(posts) => Cleans(posts')
        /\ shown' = shown \/ shown' \notin {"Idle", "Ended"} \/ Cleans(posts')
    BY <2>1
  <2>5. sess'[i].start = "ack" => ~ sess'[i].auto
    BY <2>3
  <2>. QED BY <2>3, <2>4, <2>5
<1>. QED BY <1>1, <1>2, <1>3, <1>4, <1>6, <1>7 DEF Hands

\* Nothing happens to the calls and to what is posted.
LEMMA HandsQuiet ==
    ASSUME DesktopTypeOK, Hands,
           \/ Connect \/ LoginFails \/ LoggedIn \/ LinkFails \/ StartCallWithoutCapture
           \/ Disconnected \/ UserStopsCapture \/ Drain
           \/ (\E k \in Starts : Give(k)) \/ (\E e \in Ends : UploadStep(e)) \/ UNCHANGED desktop
    PROVE  Hands'
<1>1. ASSUME NEW e \in Ends, UploadStep(e)
      PROVE  /\ UNCHANGED <<cur, sess, posts, capture, shown, task, leave, conn, sock>>
             /\ \A d \in Ends : end'[d].at = "ack" => end[d].at = "ack"
  <2>0. end \in [Ends -> EndRuns]
    BY DEF DesktopTypeOK
  <2>1. ASSUME NEW at \in {"done", "broken"}, NEW files, Finish(e, at, files)
        PROVE  /\ UNCHANGED <<cur, sess, posts, capture, shown, task, leave, conn, sock>>
               /\ \A d \in Ends : end'[d].at = "ack" => end[d].at = "ack"
    <3>1. end' = [end EXCEPT ![e] = [[NoEnd EXCEPT !.arch = Of(e)] EXCEPT !.at = at]]
      BY <2>1 DEF Finish
    <3>2. end'[e].at = at /\ \A d \in Ends \ {e} : end'[d] = end[d]
      BY <2>0, <3>1 DEF NoEnd
    <3>. QED BY <2>1, <3>2 DEF Finish, link, call
  <2>2. ASSUME NEW at \in {"initiate", "put", "remote"}, Moves(e, at)
        PROVE  /\ UNCHANGED <<cur, sess, posts, capture, shown, task, leave, conn, sock>>
               /\ \A d \in Ends : end'[d].at = "ack" => end[d].at = "ack"
    <3>1. end' = [end EXCEPT ![e] = [end[e] EXCEPT !.at = at]]
      BY <2>2 DEF Moves
    <3>2. end'[e].at = at /\ \A d \in Ends \ {e} : end'[d] = end[d]
      BY <2>0, <3>1 DEF EndRuns
    <3>. QED BY <2>2, <3>2 DEF Moves, link, call
  <2>. QED BY <1>1, <2>1, <2>2 DEF UploadStep, NoToken, LocalDone, Initiated, InitiateRefused, PutDone,
           PutFails, Finalized, FinalizeRefused, Unexpected
<1>2. UNCHANGED <<cur, sess, posts, task>>
  BY <1>1 DEF Connect, LoginFails, LoggedIn, LinkFails, StartCallWithoutCapture, Disconnected,
     UserStopsCapture, Drain, Give, call, desktop
<1>3. \A e \in Ends : end'[e].at = "ack" => end[e].at = "ack"
  BY <1>1 DEF Connect, LoginFails, LoggedIn, LinkFails, StartCallWithoutCapture, Disconnected,
     UserStopsCapture, Drain, Give, desktop
<1>4. conn' = "on" => conn = "on"
  BY <1>1 DEF Connect, LoginFails, LoggedIn, LinkFails, StartCallWithoutCapture, Disconnected,
     UserStopsCapture, Drain, Give, link, desktop
<1>5. sock = "up" => sock' = sock
  BY <1>1 DEF Connect, LoginFails, LoggedIn, LinkFails, StartCallWithoutCapture, Disconnected,
     UserStopsCapture, Drain, Give, link, desktop
<1>6. capture' = "off" \/ UNCHANGED <<capture, shown>>
  BY <1>1 DEF Connect, LoginFails, LoggedIn, LinkFails, StartCallWithoutCapture, Disconnected,
     UserStopsCapture, StopCapture, Drain, Give, call, desktop
<1>7. shown' = shown \/ (shown' = "Idle" /\ shown \in {"Idle", "Ended"})
  BY <1>1 DEF Connect, LoginFails, LoggedIn, LinkFails, StartCallWithoutCapture, Disconnected,
     UserStopsCapture, Drain, Give, call, desktop
<1>8. leave' = leave \/ leave = "letgo"
  BY <1>1 DEF Connect, LoginFails, LoggedIn, LinkFails, StartCallWithoutCapture, Disconnected,
     UserStopsCapture, Drain, Give, desktop
<1>9. ~ Answered => Calm'
  BY <1>2, <1>3, <1>7, <1>8 DEF Hands, Calm, Pending
<1>10. \A i \in Starts : Held(i) => Held(i)'
  BY <1>2, <1>7, <1>8 DEF Held, ShownOver, Pending
<1>11. (\E i \in Starts : sess'[i].start = "ack") => sock' = sock
  BY <1>2, <1>5 DEF Hands, OneLink, Waits
<1>12. Followed(posts)
  BY DEF Hands
<1>. QED BY <1>2, <1>4, <1>6, <1>9, <1>10, <1>11, <1>12, HandsStay

\* The user starts capture when there has been no call.
LEMMA HandsStart ==
    ASSUME DiskInv, Hands, ByHand \subseteq {0}, UserStartsCapture
    PROVE  Hands'
<1>1. started = 0 /\ capture' = "user"
  BY DEF UserStartsCapture
<1>2. \A i \in Starts : sess[i].start = "no"
  BY <1>1, Zeroes DEF DiskInv, OpenedOnce, Starts
<1>3. UNCHANGED <<shown, cur, sess, posts, end, task, leave, conn, sock>>
  BY DEF UserStartsCapture, link, call
<1>4. RunsForACall' /\ UsersOwn'
  BY <1>1, <1>2, <1>3 DEF RunsForACall, UsersOwn
<1>5. FailureStops' /\ Borrowing'
  BY <1>1, <1>2, <1>3 DEF Hands, FailureStops, Borrowing, Borrows, Waits
<1>6. OneLink' /\ Followed(posts')
  BY <1>3 DEF Hands, OneLink, Waits
<1>7. (~ Answered => Calm)'
  BY <1>3 DEF Hands, Answered, Calm, Pending
<1>. QED BY <1>4, <1>5, <1>6, <1>7 DEF Hands

\* A post that tells of no call.
LEMMA HandsTold ==
    ASSUME posts \in Seq(Posts), Followed(posts), NEW kind \in {"connected", "dropped", "broken", "refused"},
           posts' = Append(posts, [kind |-> kind])
    PROVE  /\ Followed(posts')
           /\ Cleans(posts') <=> Cleans(posts)
           /\ \A i : /\ Has(posts', "failed", i) <=> Has(posts, "failed", i)
                     /\ Has(posts', "stopped", i) <=> Has(posts, "stopped", i)
           /\ \A other : Holds(posts', other) <=> Holds(posts, other) \/ other = kind
           /\ Begins(posts') <=> Begins(posts)
<1>1. PICK m \in Posts : m = [kind |-> kind] /\ m.kind = kind
  BY PostKinds
<1>2. posts' = posts \o <<m>>
  BY <1>1, Pushes
<1>3. ~ ShowsOver(m) /\ m.kind \notin {"failed", "stopped", "state"}
  BY <1>1 DEF ShowsOver
<1>4. PICK q \in Seq(Posts) : q = posts
  OBVIOUS
<1>5. Followed(q \o <<m>>) /\ (Cleans(q \o <<m>>) <=> Cleans(q))
  BY <1>3, <1>4, QueuePushed
<1>6. \A i : /\ Has(q \o <<m>>, "failed", i) <=> Has(q, "failed", i)
             /\ Has(q \o <<m>>, "stopped", i) <=> Has(q, "stopped", i)
  BY <1>3, QueuePushed
<1>7. /\ \A other : Holds(q \o <<m>>, other) <=> Holds(q, other) \/ other = kind
      /\ Begins(q \o <<m>>) <=> Begins(q)
  BY <1>1, <1>3, KindsPushed
<1>8. posts' = q \o <<m>>
  BY <1>2, <1>4
<1>. QED BY <1>4, <1>5, <1>6, <1>7, <1>8, Zenon

\* What happens to the connection is posted.
LEMMA HandsLink ==
    ASSUME DesktopTypeOK, Hands,
           Linked \/ Drop \/ LetGo \/ \E kind \in {"broken", "refused"} : Trouble(kind)
    PROVE  Hands'
<1>0. /\ posts \in Seq(Posts) /\ Followed(posts) /\ sess \in [Starts -> Sessions] /\ OneLink
      /\ ~ Answered => Calm
  BY DEF DesktopTypeOK, Hands
<1>1. UNCHANGED <<capture, cur, shown, task>>
  BY DEF Linked, Drop, LetGo, Trouble, call
<1>2. ASSUME Drop \/ LetGo
      PROVE  /\ \A i \in Starts : /\ sess'[i].start # "ack" /\ sess'[i].auto = sess[i].auto
                                  /\ sess'[i].start = "ok" <=> sess[i].start = "ok"
             /\ \A e \in Ends : end'[e].at # "ack"
  <2>1. Lost
    BY <1>2 DEF Drop, LetGo
  <2>2. /\ \A i \in Starts : sess'[i] = IF sess[i].start = "ack" THEN [sess[i] EXCEPT !.start = "lost"] ELSE sess[i]
        /\ \A e \in Ends : end'[e] = IF end[e].at = "ack" THEN [end[e] EXCEPT !.at = "lost"] ELSE end[e]
        /\ end \in [Ends -> EndRuns]
    BY <2>1, LostTypes DEF DesktopTypeOK
  <2>3. ASSUME NEW i \in Starts
        PROVE  /\ sess'[i].start # "ack" /\ sess'[i].auto = sess[i].auto
               /\ sess'[i].start = "ok" <=> sess[i].start = "ok"
    BY <1>0, <2>2 DEF Sessions
  <2>4. ASSUME NEW e \in Ends PROVE end'[e].at # "ack"
    BY <2>2 DEF EndRuns
  <2>. QED BY <2>3, <2>4
<1>3. ASSUME Linked \/ \E kind \in {"broken", "refused"} : Trouble(kind)
      PROVE  /\ UNCHANGED <<sess, end, leave, conn>>
             /\ (\E i \in Starts : Waits(i)) => sock' = sock /\ ~ Linked
  BY <1>0, <1>3 DEF Linked, Trouble, link, call, OneLink
<1>4. /\ \A i \in Starts : /\ sess'[i].start = "ack" => sess[i].start = "ack"
                           /\ sess'[i].auto = sess[i].auto
                           /\ sess'[i].start = "ok" <=> sess[i].start = "ok"
      /\ \A e \in Ends : end'[e].at = "ack" => end[e].at = "ack"
      /\ leave' = leave \/ ~ Pending
  BY <1>2, <1>3 DEF LetGo, Drop
<1>5. \/ posts' = posts
      \/ \E kind \in {"connected", "dropped", "broken", "refused"} :
           /\ posts' = Append(posts, [kind |-> kind])
           /\ kind = "connected" => Linked
           /\ kind = "refused" => Answered
  BY DEF Linked, Drop, LetGo, Trouble, Answered
<1>6. /\ Followed(posts')
      /\ Cleans(posts) <=> Cleans(posts')
      /\ \A i : /\ Has(posts', "failed", i) <=> Has(posts, "failed", i)
                /\ Has(posts', "stopped", i) <=> Has(posts, "stopped", i)
      /\ \A kind \in {"failed", "stopped", "state", "started"} : Holds(posts', kind) <=> Holds(posts, kind)
      /\ Holds(posts', "connected") => Holds(posts, "connected") \/ Linked
      /\ Holds(posts', "refused") => Holds(posts, "refused") \/ Answered
      /\ Begins(posts') <=> Begins(posts)
  <2>1. CASE posts' = posts
    BY <1>0, <2>1
  <2>2. CASE posts' # posts
    <3>1. PICK kind \in {"connected", "dropped", "broken", "refused"} :
             /\ posts' = Append(posts, [kind |-> kind])
             /\ kind = "connected" => Linked
             /\ kind = "refused" => Answered
      BY <1>5, <2>2
    <3>2. /\ Followed(posts')
          /\ Cleans(posts') <=> Cleans(posts)
          /\ \A i : /\ Has(posts', "failed", i) <=> Has(posts, "failed", i)
                    /\ Has(posts', "stopped", i) <=> Has(posts, "stopped", i)
          /\ \A other : Holds(posts', other) <=> Holds(posts, other) \/ other = kind
          /\ Begins(posts') <=> Begins(posts)
      BY <1>0, <3>1, HandsTold
    <3>. QED BY <3>1, <3>2
  <2>. QED BY <2>1, <2>2
<1>7. ~ Answered => Calm'
  BY <1>0, <1>1, <1>4, <1>6 DEF Calm, Pending
<1>8. ASSUME NEW i \in Starts, sess'[i].start = "ack"
      PROVE  /\ sock' = sock /\ ~ Linked /\ conn' = conn
             /\ Held(i) => Held(i)'
  <2>1. ~ Drop /\ ~ LetGo
    BY <1>2, <1>8
  <2>2. /\ UNCHANGED <<sess, leave, conn>> /\ sock' = sock /\ ~ Linked
    BY <1>3, <1>8, <2>1 DEF Waits
  <2>. QED BY <1>1, <1>6, <2>2 DEF Held, ShownOver, Pending
<1>9. Followed(posts') /\ capture' \in {capture, "off"} /\ (Holds(posts', "failed") => Holds(posts, "failed"))
  BY <1>1, <1>6
<1>10. \A i \in Starts :
         /\ sess'[i].start = "ack" => sess[i].start = "ack" /\ sess'[i].auto = sess[i].auto
         /\ sess'[i].start = "ok" <=> sess[i].start = "ok"
         /\ Has(posts', "failed", i) => Has(posts, "failed", i)
         /\ (capture' = "call" /\ Has(posts', "failed", i)) => sess'[i].auto = sess[i].auto
  <2>1. \A i \in Starts : Has(posts', "failed", i) => Has(posts, "failed", i)
    BY <1>6
  <2>2. ASSUME NEW i \in Starts
        PROVE  /\ sess'[i].start = "ack" => sess[i].start = "ack" /\ sess'[i].auto = sess[i].auto
               /\ sess'[i].start = "ok" <=> sess[i].start = "ok"
               /\ (capture' = "call" /\ Has(posts', "failed", i)) => sess'[i].auto = sess[i].auto
    BY <1>4
  <2>. QED BY <2>1, <2>2
<1>11. (\E i \in Starts : sess'[i].start = "ack") =>
         sock' = sock /\ (Holds(posts', "connected") => Holds(posts, "connected"))
  BY <1>6, <1>8
<1>12. \A i \in Starts : (Borrows(i) /\ sess'[i].start = "ack" /\ conn' = "on") =>
         conn = "on" /\ (Held(i) => Held(i)')
  BY <1>8
<1>13. /\ cur' = cur
       /\ Cleans(posts) => Cleans(posts')
       /\ shown' = shown \/ shown' \notin {"Idle", "Ended"} \/ Cleans(posts')
  BY <1>1, <1>6
<1>. QED BY <1>7, <1>9, <1>10, <1>11, <1>12, <1>13, HandsStay

\* A post is handled.
LEMMA HandsPopped ==
    ASSUME DesktopTypeOK, Hands, NEW kind, Posted(kind)
    PROVE  /\ Followed(posts')
           /\ \A i : /\ Has(posts', "failed", i) => Has(posts, "failed", i)
                     /\ Has(posts, "stopped", i) => Has(posts', "stopped", i) \/ (kind = "stopped" /\ Post.of = i)
           /\ \A other : Holds(posts', other) => Holds(posts, other)
           /\ Begins(posts') => Begins(posts)
           /\ Holds(posts, kind) /\ Has(posts, kind, Post.of) /\ Post.kind = kind
           /\ (kind = "state" /\ Post.state = "InCall") => Begins(posts)
           /\ (kind \notin {"failed", "stopped"} /\ Cleans(posts)) => Cleans(posts')
           /\ ShowsOver(Post) => Cleans(posts')
<1>1. posts \in Seq(Posts) /\ posts # << >> /\ posts' = Tail(posts) /\ Post = Head(posts) /\ Post.kind = kind
      /\ Followed(posts)
  BY DEF DesktopTypeOK, Posted, Post, Hands
<1>2. /\ Followed(Tail(posts))
      /\ \A i : /\ Has(Tail(posts), "failed", i) => Has(posts, "failed", i)
                /\ Has(posts, "stopped", i) =>
                    (Head(posts).kind = "stopped" /\ Head(posts).of = i) \/ Has(Tail(posts), "stopped", i)
      /\ Cleans(posts) => Head(posts).kind \in {"failed", "stopped"} \/ Cleans(Tail(posts))
      /\ ShowsOver(Head(posts)) => Cleans(Tail(posts))
  BY <1>1, QueuePopped
<1>3. /\ \A other : Holds(Tail(posts), other) => Holds(posts, other)
      /\ Begins(Tail(posts)) => Begins(posts)
      /\ Holds(posts, kind) /\ Has(posts, kind, Head(posts).of)
      /\ (kind = "state" /\ Head(posts).state = "InCall") => Begins(posts)
  BY <1>1, KindsPopped
<1>. QED BY <1>1, <1>2, <1>3

\* A session that is let go of while it waits keeps whose capture it runs.
LEMMA LettingGoOwns ==
    ASSUME DesktopTypeOK
    PROVE  \A i \in Starts : LettingGo(cur)[i].start = "ack" =>
                               sess[i].start = "ack" /\ LettingGo(cur)[i].auto = sess[i].auto
<1>1. ASSUME NEW s \in Sessions, Released(s).start = "ack"
      PROVE  s.start = "ack" /\ Released(s).auto = s.auto
  <2>1. CASE s.start = "ack"
    <3>1. Released(s) = [s EXCEPT !.sub = FALSE]
      BY <2>1 DEF Released
    <3>. QED BY <2>1, <3>1 DEF Sessions
  <2>2. CASE s.start = "ok"
    <3>1. Released(s) = [NoSession EXCEPT !.start = "ok"]
      BY <2>2 DEF Released
    <3>. QED BY <1>1, <3>1 DEF NoSession
  <2>3. CASE s.start # "ack" /\ s.start # "ok"
    <3>1. Released(s) = NoSession
      BY <2>3 DEF Released
    <3>. QED BY <1>1, <3>1 DEF NoSession
  <2>. QED BY <2>1, <2>2, <2>3
<1>2. cur \in 0 .. MaxStarts /\ sess \in [Starts -> Sessions]
  BY DEF DesktopTypeOK
<1>3. \A k \in Starts : LettingGo(cur)[k] = IF k = cur THEN Released(sess[k]) ELSE sess[k]
  BY <1>2, LettingGoType
<1>. QED BY <1>1, <1>2, <1>3

\* A session that is let go of is as much answered as before.
LEMMA LettingGoAnswers ==
    ASSUME DesktopTypeOK
    PROVE  \A i \in Starts : LettingGo(cur)[i].start = "ok" <=> sess[i].start = "ok"
<1>1. ASSUME NEW s \in Sessions
      PROVE  Released(s).start = "ok" <=> s.start = "ok"
  <2>1. CASE s.start = "ack"
    <3>1. Released(s) = [s EXCEPT !.sub = FALSE]
      BY <2>1 DEF Released
    <3>. QED BY <2>1, <3>1 DEF Sessions
  <2>2. CASE s.start = "ok"
    <3>1. Released(s) = [NoSession EXCEPT !.start = "ok"]
      BY <2>2 DEF Released
    <3>. QED BY <2>2, <3>1 DEF NoSession
  <2>3. CASE s.start # "ack" /\ s.start # "ok"
    <3>1. Released(s) = NoSession
      BY <2>3 DEF Released
    <3>. QED BY <2>3, <3>1 DEF NoSession
  <2>. QED BY <2>1, <2>2, <2>3
<1>2. cur \in 0 .. MaxStarts /\ sess \in [Starts -> Sessions]
  BY DEF DesktopTypeOK
<1>3. \A k \in Starts : LettingGo(cur)[k] = IF k = cur THEN Released(sess[k]) ELSE sess[k]
  BY <1>2, LettingGoType
<1>. QED BY <1>1, <1>2, <1>3

\* The session is let go of.  Its capture is stopped, or it ran on the user's
\* and there is no other call.
LEMMA HandsLetGo ==
    ASSUME DesktopTypeOK, Hands, sess' = LettingGo(cur), capture' \in {capture, "off"},
           Followed(posts'), ~ Answered => Calm',
           \A i : Has(posts', "failed", i) => Has(posts, "failed", i),
           \A kind \in {"failed", "connected"} : Holds(posts', kind) => Holds(posts, kind),
           sock' = sock, conn' = "on" => conn = "on",
           \A i \in Starts : (Borrows(i) /\ sess'[i].start = "ack" /\ conn' = "on") => (Held(i) => Held(i)'),
           capture' # "off" =>
             capture' = "user" /\ \A i \in Starts : sess[i].start \notin {"ack", "ok"}
    PROVE  Hands'
<1>1. \A i \in Starts : sess'[i].start = "ack" => sess[i].start = "ack" /\ sess'[i].auto = sess[i].auto
  BY LettingGoOwns
<1>2. \A i \in Starts : sess'[i].start = "ok" <=> sess[i].start = "ok"
  BY LettingGoAnswers
<1>3. \A i \in Starts :
        /\ sess'[i].start = "ack" => sess[i].start = "ack" /\ sess'[i].auto = sess[i].auto
        /\ sess'[i].start = "ok" <=> sess[i].start = "ok"
        /\ Has(posts', "failed", i) => Has(posts, "failed", i)
        /\ (capture' = "call" /\ Has(posts', "failed", i)) => sess'[i].auto = sess[i].auto
  BY <1>1, <1>2
<1>4. capture' # "off" => capture' = "user" /\ \A i \in Starts : sess'[i].start \notin {"ack", "ok"}
  BY <1>1, <1>2
<1>5. /\ Holds(posts', "failed") => Holds(posts, "failed")
      /\ Holds(posts', "connected") => Holds(posts, "connected")
  OBVIOUS
<1>. QED BY <1>3, <1>4, <1>5, HandsStay

LEMMA AfterStopEnds ==
    ASSUME NEW run \in EndRuns
    PROVE  AfterStop(run).at # "ack"
<1>1. CASE run.arch # 0 /\ run.id # 0
  <2>1. AfterStop(run) = [[run EXCEPT !.of = 0] EXCEPT !.at = "local"]
    BY <1>1 DEF AfterStop
  <2>. QED BY <2>1 DEF EndRuns
<1>2. CASE ~ (run.arch # 0 /\ run.id # 0)
  <2>1. AfterStop(run) = [[NoEnd EXCEPT !.arch = run.arch] EXCEPT !.at = "over"]
    BY <1>2 DEF AfterStop
  <2>. QED BY <2>1 DEF NoEnd
<1>. QED BY <1>1, <1>2

\* The window handles a post.
LEMMA HandsWindow ==
    ASSUME DesktopTypeOK, Hands, Window
    PROVE  Hands'
<1>0. /\ capture \in {"off", "user", "call"} /\ sess \in [Starts -> Sessions] /\ posts \in Seq(Posts)
      /\ end \in [Ends -> EndRuns] /\ cur \in 0 .. MaxStarts
      /\ RunsForACall /\ FailureStops /\ OneLink /\ Borrowing /\ UsersOwn /\ (~ Answered => Calm)
  BY DEF DesktopTypeOK, Hands
<1>1. ASSUME NEW kind \in {"started", "connected", "state"}, Posted(kind),
             UNCHANGED <<capture, cur, sess, end, task, leave, sock>>,
             shown' = shown \/ (kind = "state" /\ shown' = Post.state),
             conn' = conn \/ kind = "connected"
      PROVE  Hands'
  <2>1. /\ Followed(posts')
        /\ \A i : /\ Has(posts', "failed", i) => Has(posts, "failed", i)
                  /\ Has(posts, "stopped", i) => Has(posts', "stopped", i)
        /\ \A other : Holds(posts', other) => Holds(posts, other)
        /\ Begins(posts') => Begins(posts)
        /\ Cleans(posts) => Cleans(posts')
    BY <1>1, HandsPopped
  <2>2. /\ Holds(posts, kind)
        /\ (kind = "state" /\ Post.state = "InCall") => Begins(posts)
        /\ ShowsOver(Post) => Cleans(posts')
        /\ Post.kind = kind
    BY <1>1, HandsPopped
  <2>3. shown' = shown \/ shown' \notin {"Idle", "Ended"} \/ Cleans(posts')
    BY <1>1, <2>2 DEF ShowsOver
  <2>4. ~ Answered => Calm'
    BY <1>0, <1>1, <2>1, <2>2 DEF Calm, Pending
  <2>5. ASSUME NEW i \in Starts, Borrows(i), conn' = "on" PROVE conn = "on" /\ (Held(i) => Held(i)')
    <3>1. kind # "connected" /\ kind # "started"
      BY <1>0, <2>2, <2>5 DEF OneLink, Borrows, Borrowing, Calm
    <3>. QED BY <1>1, <2>1, <2>2, <2>5, <3>1 DEF Held, ShownOver, Pending
  <2>6. \A i \in Starts :
          /\ sess'[i].start = "ack" => sess[i].start = "ack" /\ sess'[i].auto = sess[i].auto
          /\ sess'[i].start = "ok" <=> sess[i].start = "ok"
          /\ Has(posts', "failed", i) => Has(posts, "failed", i)
          /\ (capture' = "call" /\ Has(posts', "failed", i)) => sess'[i].auto = sess[i].auto
    BY <1>1, <2>1
  <2>. QED BY <1>1, <2>1, <2>3, <2>4, <2>5, <2>6, HandsStay
<1>2. CASE Started
  BY <1>1, <1>2 DEF Started, link
<1>3. CASE ShowConnected
  BY <1>1, <1>3 DEF ShowConnected, call
<1>4. CASE ShowState
  BY <1>1, <1>4 DEF ShowState, link
<1>5. CASE StartFailed
  <2>0. Posted("failed") /\ sess' = LettingGo(cur) /\ shown' = "Idle" /\ UNCHANGED <<end, task, leave, sock, conn>>
    BY <1>5 DEF StartFailed, link
  <2>1. PICK i \in Starts : i = Post.of
    BY <1>0, <2>0, PostedType, PostShapes
  <2>2. /\ Followed(posts')
        /\ \A k : Has(posts', "failed", k) => Has(posts, "failed", k)
        /\ \A other : Holds(posts', other) => Holds(posts, other)
        /\ Begins(posts') => Begins(posts)
        /\ Holds(posts, "failed") /\ Has(posts, "failed", Post.of)
    BY <2>0, HandsPopped
  <2>3. capture' \in {capture, "off"} /\ capture' # "call"
    <3>1. capture = "call" => sess[i].auto
      BY <1>0, <2>1, <2>2 DEF FailureStops
    <3>. QED BY <1>0, <1>5, <2>1, <3>1 DEF StartFailed, StopCapture, KeepCapture
  <2>4. capture' = "user" => \A k \in Starts : sess[k].start \notin {"ack", "ok"}
    BY <1>0, <2>2, <2>3 DEF UsersOwn
  <2>5. \A k \in Starts : ~ Borrows(k)
    BY <1>0, <2>2 DEF Borrowing
  <2>6. ~ Answered => Calm'
    BY <1>0, <2>0, <2>2 DEF Calm, Pending
  <2>7. capture' # "off" => capture' = "user" /\ \A k \in Starts : sess[k].start \notin {"ack", "ok"}
    BY <1>0, <2>3, <2>4
  <2>. QED BY <2>0, <2>2, <2>3, <2>5, <2>6, <2>7, HandsLetGo
<1>6. CASE Dropped \/ Broken
  <2>0. PICK kind \in {"dropped", "broken"} : Posted(kind)
    BY <1>6 DEF Dropped, Broken
  <2>1. /\ sess' = LettingGo(cur) /\ conn' = "off" /\ shown' \in {"Idle", "Ended", shown}
        /\ UNCHANGED <<end, task, leave, sock>>
        /\ IF cur # 0 /\ capture # "off" THEN StopCapture ELSE KeepCapture
    BY <1>6 DEF Dropped, Broken
  <2>2. /\ Followed(posts')
        /\ \A k : Has(posts', "failed", k) => Has(posts, "failed", k)
        /\ \A other : Holds(posts', other) => Holds(posts, other)
        /\ Begins(posts') => Begins(posts)
    BY <2>0, HandsPopped
  <2>3. capture' \in {capture, "off"} /\ (capture' # "off" => capture' = "user" /\ capture = "user" /\ cur = 0)
    BY <1>0, <2>1 DEF StopCapture, KeepCapture, RunsForACall
  <2>4. capture' # "off" => capture' = "user" /\ \A k \in Starts : sess[k].start \notin {"ack", "ok"}
    BY <1>0, <2>3, Zeroes DEF UsersOwn
  <2>5. ~ Answered => Calm'
    BY <1>0, <2>1, <2>2 DEF Calm, Pending
  <2>. QED BY <2>1, <2>2, <2>3, <2>4, <2>5, HandsLetGo
<1>7. CASE Stopped
  <2>0. /\ Posted("stopped") /\ sess' = LettingGo(cur) /\ UNCHANGED <<shown, leave, sock, conn>>
        /\ capture' = "off" /\ task' = IF task = Post.of THEN 0 ELSE task
    BY <1>7 DEF Stopped, StopCapture, KeepCapture, link
  <2>1. PICK e \in Ends : e = Post.of
    BY <1>0, <2>0, PostedType, PostShapes
  <2>2. /\ Followed(posts')
        /\ \A k : /\ Has(posts', "failed", k) => Has(posts, "failed", k)
                  /\ Has(posts, "stopped", k) => Has(posts', "stopped", k) \/ e = k
        /\ \A other : Holds(posts', other) => Holds(posts, other)
        /\ Begins(posts') => Begins(posts)
        /\ Holds(posts, "stopped")
    BY <2>0, <2>1, HandsPopped
  <2>3. end' = [end EXCEPT ![e] = AfterStop(end[e])]
    BY <1>7, <2>1 DEF Stopped
  <2>4. end'[e].at # "ack" /\ \A d \in Ends \ {e} : end'[d] = end[d]
    BY <1>0, <2>3, AfterStopEnds
  <2>5. ~ Answered => Calm'
    BY <1>0, <2>0, <2>1, <2>2, <2>4 DEF Calm, Pending
  <2>6. \A i \in Starts : Held(i) => Held(i)'
    BY <2>0, <2>1, <2>2 DEF Held, Pending
  <2>. QED BY <2>0, <2>2, <2>5, <2>6, HandsLetGo
<1>8. CASE Refused
  <2>0. /\ Posted("refused") /\ capture' = "off" /\ UNCHANGED <<cur, sock, conn>>
    BY <1>8 DEF Refused, StopCapture, KeepCapture, link
  <2>1. /\ Followed(posts')
        /\ \A k : Has(posts', "failed", k) => Has(posts, "failed", k)
        /\ \A other : Holds(posts', other) => Holds(posts, other)
        /\ Holds(posts, "refused")
    BY <2>0, HandsPopped
  <2>2. Answered
    BY <1>0, <2>1 DEF Calm
  <2>3. \A i \in Starts : ~ Borrows(i)
    BY <1>0, <2>2 DEF Borrowing
  <2>4. \A i \in Starts : sess'[i].start = sess[i].start /\ sess'[i].auto = sess[i].auto
    BY <1>0, <1>8 DEF Refused, Sessions
  <2>5. \A i \in Starts :
          /\ sess'[i].start = "ack" => sess[i].start = "ack" /\ sess'[i].auto = sess[i].auto
          /\ sess'[i].start = "ok" <=> sess[i].start = "ok"
          /\ Has(posts', "failed", i) => Has(posts, "failed", i)
          /\ (capture' = "call" /\ Has(posts', "failed", i)) => sess'[i].auto = sess[i].auto
    BY <2>1, <2>4
  <2>. QED BY <2>0, <2>1, <2>2, <2>3, <2>5, HandsStay
<1>. QED BY <1>2, <1>3, <1>4, <1>5, <1>6, <1>7, <1>8 DEF Window

\* end_call is acknowledged: before any call is answered, it is the end that
\* who disconnects waits for.
LEMMA HandsStopAcked ==
    ASSUME DesktopTypeOK, Hands, NEW e \in Ends, StopAcked(e)
    PROVE  Hands'
<1>0. /\ posts \in Seq(Posts) /\ sess \in [Starts -> Sessions] /\ end \in [Ends -> EndRuns]
      /\ ~ Answered => Calm
  BY DEF DesktopTypeOK, Hands
<1>1. UNCHANGED <<capture, cur, shown, task, leave, sock, conn>> /\ end[e].at = "ack"
  BY DEF StopAcked, link
<1>2. \A k \in Starts : sess'[k].start = sess[k].start /\ sess'[k].auto = sess[k].auto
  <2>1. sess' = [sess EXCEPT ![end[e].of] = [sess[end[e].of] EXCEPT !.state = "Ended"]]
    BY DEF StopAcked
  <2>2. SUFFICES ASSUME NEW k \in Starts PROVE sess'[k].start = sess[k].start /\ sess'[k].auto = sess[k].auto
    OBVIOUS
  <2>3. CASE k = end[e].of
    BY <1>0, <2>1, <2>3 DEF Sessions
  <2>4. CASE k # end[e].of
    BY <1>0, <2>1, <2>4
  <2>. QED BY <2>3, <2>4
<1>3. \A d \in Ends : end'[d].at = "ack" => end[d].at = "ack"
  <2>1. end' = [end EXCEPT ![e] = [end[e] EXCEPT !.at = "stopped"]]
    BY DEF StopAcked
  <2>2. end'[e].at = "stopped" /\ \A d \in Ends \ {e} : end'[d] = end[d]
    BY <1>0, <2>1 DEF EndRuns
  <2>. QED BY <2>2
<1>4. PICK m \in Posts : m = [kind |-> "stopped", of |-> e] /\ m.kind = "stopped" /\ m.of = e
  BY PostKinds
<1>5. PICK n \in Posts : n = [kind |-> "state", state |-> "Ended"] /\ n.kind = "state" /\ n.state = "Ended"
  BY PostKinds DEF CallStates
<1>6. PICK q \in Seq(Posts) : /\ q = posts \/ q = posts \o <<n>>
                              /\ posts' = q \o <<m>>
  BY <1>4, <1>5, StopAckedPosts
<1>7. /\ \A k : Has(q, "failed", k) => Has(posts, "failed", k)
      /\ \A kind \in {"failed", "connected", "started", "refused"} : Holds(q, kind) => Holds(posts, kind)
      /\ Begins(q) => Begins(posts)
  <2>1. CASE q = posts
    BY <2>1
  <2>2. CASE q = posts \o <<n>>
    <3>1. \A k : Has(q, "failed", k) => Has(posts, "failed", k)
      BY <1>0, <1>5, <2>2, QueuePushed
    <3>2. /\ \A kind \in {"failed", "connected", "started", "refused"} : Holds(q, kind) => Holds(posts, kind)
          /\ Begins(q) => Begins(posts)
      BY <1>0, <1>5, <2>2, KindsPushed
    <3>. QED BY <3>1, <3>2
  <2>. QED BY <1>6, <2>1, <2>2
<1>8. /\ Followed(posts') /\ Cleans(posts') /\ Has(posts', "stopped", e)
      /\ \A k : Has(posts', "failed", k) => Has(q, "failed", k)
  BY <1>4, <1>6, QueuePushed
<1>9. /\ \A kind \in {"failed", "connected", "started", "refused"} : Holds(posts', kind) => Holds(q, kind)
      /\ Begins(posts') => Begins(q)
  BY <1>4, <1>6, KindsPushed
<1>10. /\ Holds(posts', "failed") => Holds(posts, "failed")
       /\ Holds(posts', "connected") => Holds(posts, "connected")
       /\ Holds(posts', "started") => Holds(posts, "started")
       /\ Holds(posts', "refused") => Holds(posts, "refused")
       /\ Begins(posts') => Begins(posts)
  BY <1>7, <1>9
<1>11. ~ Answered => Calm'
  BY <1>0, <1>1, <1>3, <1>10 DEF Calm, Pending
<1>12. ASSUME NEW i \in Starts, Borrows(i) PROVE Held(i)'
  <2>1. Calm
    BY <1>0, <1>12 DEF Hands, Borrowing
  <2>2. e = task /\ leave = "ending"
    BY <1>1, <2>1, Zeroes DEF Calm, Pending, Ends
  <2>. QED BY <1>1, <1>8, <2>2 DEF Held
<1>13. \A i \in Starts :
         /\ sess'[i].start = "ack" => sess[i].start = "ack" /\ sess'[i].auto = sess[i].auto
         /\ sess'[i].start = "ok" <=> sess[i].start = "ok"
         /\ Has(posts', "failed", i) => Has(posts, "failed", i)
         /\ (capture' = "call" /\ Has(posts', "failed", i)) => sess'[i].auto = sess[i].auto
  BY <1>2, <1>7, <1>8
<1>. QED BY <1>1, <1>8, <1>10, <1>11, <1>12, <1>13, HandsStay

\* A call is ended by its button, which is there when it was answered, or for
\* who disconnects.
LEMMA HandsEndCall ==
    ASSUME DesktopTypeOK, Hands, NEW e \in Ends, EndCall(e), sock' = sock, conn' = conn,
           shown = "InCall" \/ (leave = "no" /\ leave' = "ending" /\ ~ Pending)
    PROVE  Hands'
<1>0. /\ end \in [Ends -> EndRuns] /\ posts' = posts /\ Followed(posts) /\ OneLink /\ (~ Answered => Calm)
  BY DEF DesktopTypeOK, Hands, EndCall
<1>1. \A i \in Starts : (Borrows(i) /\ Held(i)) => leave # "ending" /\ cur = i /\ sess[i].state = "on"
  <2>1. \A i \in Starts : Borrows(i) => ~ Answered
    BY DEF Hands, Borrowing
  <2>2. ~ Answered => leave = "no"
    BY <1>0 DEF Calm
  <2>3. \A i \in Starts : (leave # "ending" /\ Held(i)) => cur = i /\ sess[i].state = "on"
    BY DEF Held
  <2>. QED BY <2>1, <2>2, <2>3
<1>2. ~ Answered => leave' = "ending" /\ ~ Pending /\ \A d \in Ends : end[d].at # "ack"
  <2>1. SUFFICES ASSUME Calm, leave' = "ending", task = 0
                 PROVE  \A d \in Ends : end[d].at # "ack"
    BY <1>0 DEF Calm, Pending
  <2>2. \A d \in Ends : d # 0
    BY DEF Ends
  <2>. QED BY <2>1, <2>2 DEF Calm
<1>3. CASE sess[cur].state = "on" /\ sock = "up"
  <2>1. shown' = "Ending" /\ UNCHANGED <<cur, sess, capture>> /\ end' = [end EXCEPT ![e] = Captured] /\ task' = e
    BY <1>3 DEF EndCall
  <2>2. \A d \in Ends \ {e} : end'[d] = end[d]
    BY <1>0, <2>1
  <2>3. ~ Answered => Calm'
    BY <1>0, <1>2, <2>1, <2>2 DEF Calm, Pending
  <2>4. \A i \in Starts : (Borrows(i) /\ Held(i)) => Held(i)'
    BY <1>0, <1>1, <2>1 DEF Held, ShownOver
  <2>5. \A i \in Starts :
          /\ sess'[i].start = "ack" => sess[i].start = "ack" /\ sess'[i].auto = sess[i].auto
          /\ sess'[i].start = "ok" <=> sess[i].start = "ok"
          /\ Has(posts', "failed", i) => Has(posts, "failed", i)
          /\ (capture' = "call" /\ Has(posts', "failed", i)) => sess'[i].auto = sess[i].auto
    BY <1>0, <2>1
  <2>. QED BY <1>0, <2>1, <2>3, <2>4, <2>5, HandsStay
<1>4. CASE ~ (sess[cur].state = "on" /\ sock = "up")
  <2>1. /\ sess' = LettingGo(cur) /\ capture' = "off" /\ task' = 0 /\ shown' \in {"Ended", "Ending"}
        /\ end' = [end EXCEPT ![e] = AfterStop(Captured)]
    BY <1>4 DEF EndCall, StopCapture
  <2>2. end'[e].at # "ack" /\ \A d \in Ends \ {e} : end'[d] = end[d]
    BY <1>0, <2>1, CapturedType, AfterStopEnds
  <2>3. ~ Answered => Calm'
    BY <1>0, <1>2, <2>1, <2>2 DEF Calm, Pending
  <2>4. \A i \in Starts : (Borrows(i) /\ sess'[i].start = "ack") => ~ Held(i)
    BY <1>0, <1>1, <1>4 DEF OneLink, Borrows
  <2>. QED BY <1>0, <2>1, <2>3, <2>4, HandsLetGo
<1>. QED BY <1>3, <1>4

LEMMA HandsDisconnect ==
    ASSUME DesktopTypeOK, Hands, Disconnect
    PROVE  Hands'
<1>1. leave = "no" /\ leave' = "ending"
  BY DEF Disconnect
<1>2. CASE Lifecycle /\ ~ Pending
  <2>1. PICK e \in Ends : EndCall(e)
    BY <1>2 DEF Disconnect, EnsureEnd
  <2>2. sock' = sock /\ conn' = conn
    BY <2>1 DEF EndCall, link
  <2>. QED BY <1>1, <1>2, <2>1, <2>2, HandsEndCall
<1>3. CASE ~ (Lifecycle /\ ~ Pending)
  <2>1. UNCHANGED <<capture, cur, sess, posts, shown, end, task, sock, conn>>
    BY <1>3 DEF Disconnect, EnsureEnd, call, link
  <2>2. Followed(posts) /\ (~ Answered => Calm')
    BY <1>1, <2>1 DEF Hands, Calm, Pending
  <2>3. \A i \in Starts : Held(i) => Held(i)'
    BY <1>1, <2>1 DEF Held, ShownOver
  <2>. QED BY <2>1, <2>2, <2>3, HandsStay
<1>. QED BY <1>2, <1>3

LEMMA HandsEnd ==
    ASSUME DesktopTypeOK, Hands, NEW e \in Ends, EndPressed(e)
    PROVE  Hands'
<1>1. EndCall(e) /\ shown = "InCall" /\ leave' = leave
  BY DEF EndPressed
<1>2. sock' = sock /\ conn' = conn
  BY <1>1 DEF EndCall, link
<1>. QED BY <1>1, <1>2, HandsEndCall

\* A call begins: none that borrowed its capture waits.
LEMMA HandsStartCall ==
    ASSUME DesktopTypeOK, DiskInv, Hands, StartCall
    PROVE  Hands'
<1>0. /\ sess \in [Starts -> Sessions] /\ started \in 0 .. MaxStarts /\ capture \in {"off", "user", "call"}
      /\ RunsForACall /\ FailureStops /\ OneLink /\ Borrowing /\ UsersOwn /\ (~ Answered => Calm)
  BY DEF DesktopTypeOK, Hands
<1>1. /\ posts = << >> /\ posts' = posts /\ ShownOver /\ conn = "on" /\ (leave = "ending" => Pending)
      /\ started < MaxStarts
      /\ UNCHANGED <<end, task, leave, sock, conn>>
  BY DEF StartCall, Input, ShownOver, link
<1>2. /\ ~ Cleans(posts) /\ Followed(posts) /\ \A kind, i : ~ Has(posts, kind, i)
      /\ ~ Begins(posts) /\ \A kind : ~ Holds(posts, kind)
  BY <1>1, QueueEmpty, KindsEmpty
<1>3. \A i \in Starts : ~ Borrows(i)
  BY <1>0, <1>1, <1>2 DEF Borrowing, Held
<1>4. capture # "call"
  BY <1>0, <1>1, <1>2 DEF RunsForACall
<1>5. capture = "user" => \A i \in Starts : sess[i].start \notin {"ack", "ok"}
  BY <1>0, <1>1, <1>2 DEF UsersOwn
<1>6. CASE sock = "up"
  <2>1. PICK k \in Starts : k = started + 1
    BY <1>0, <1>1, DesktopBounds DEF Starts
  <2>2. /\ sess'[k].state = "on" /\ sess'[k].start = "ack" /\ (sess'[k].auto <=> capture = "off")
        /\ \A i \in Starts \ {k} : sess'[i] = sess[i]
    <3>1. CASE capture = "off"
      <4>1. sess' = [sess EXCEPT ![k] =
                       [NoSession EXCEPT !.state = "on", !.start = "ack", !.sub = TRUE, !.auto = TRUE]]
        BY <1>6, <2>1, <3>1 DEF StartCall
      <4>2. /\ sess'[k] = [NoSession EXCEPT !.state = "on", !.start = "ack", !.sub = TRUE, !.auto = TRUE]
            /\ \A i \in Starts \ {k} : sess'[i] = sess[i]
        BY <1>0, <2>1, <4>1
      <4>3. sess'[k].state = "on" /\ sess'[k].start = "ack" /\ sess'[k].auto
        BY <4>2 DEF NoSession
      <4>. QED BY <3>1, <4>2, <4>3
    <3>2. CASE capture # "off"
      <4>1. sess' = [sess EXCEPT ![k] =
                       [NoSession EXCEPT !.state = "on", !.start = "ack", !.sub = TRUE, !.auto = FALSE]]
        BY <1>6, <2>1, <3>2 DEF StartCall
      <4>2. /\ sess'[k] = [NoSession EXCEPT !.state = "on", !.start = "ack", !.sub = TRUE, !.auto = FALSE]
            /\ \A i \in Starts \ {k} : sess'[i] = sess[i]
        BY <1>0, <2>1, <4>1
      <4>3. sess'[k].state = "on" /\ sess'[k].start = "ack" /\ ~ sess'[k].auto
        BY <4>2 DEF NoSession
      <4>. QED BY <3>2, <4>2, <4>3
    <3>. QED BY <3>1, <3>2
  <2>3. /\ shown' = "Starting" /\ cur' = k
        /\ capture' = IF capture = "off" THEN "call" ELSE capture
    BY <1>6, <2>1 DEF StartCall
  <2>5. sess[k].start = "no" /\ k # 0
    BY <1>0, <2>1, Zeroes DEF DiskInv, OpenedOnce
  <2>6. Answered' <=> Answered
    BY <2>2, <2>5 DEF Answered
  <2>7. RunsForACall' /\ FailureStops' /\ Followed(posts')
    BY <1>1, <1>2, <2>3, <2>5 DEF RunsForACall, FailureStops, ShownOver
  <2>8. OneLink'
    BY <1>1, <1>2, <1>6 DEF OneLink
  <2>9. (~ Answered => Calm)'
    BY <1>0, <1>1, <2>3, <2>6 DEF Calm, Pending
  <2>10. \A i \in Starts : Borrows(i)' => i = k /\ capture = "user" /\ capture' = "user"
    BY <1>0, <1>3, <1>4, <2>2, <2>3 DEF Borrows, Waits
  <2>11. Held(k)'
    BY <1>1, <1>2, <2>2, <2>3 DEF Held, ShownOver
  <2>12. Borrowing'
    <3>1. SUFFICES ASSUME capture = "user", capture' = "user"
                   PROVE  /\ capture' # "call" /\ ~ Answered' /\ ~ Holds(posts', "failed")
                          /\ \A j \in Starts : Waits(j)' => j = k
                          /\ conn' = "on" => Held(k)'
      BY <2>10 DEF Borrowing
    <3>2. ~ Answered' /\ \A j \in Starts : Waits(j)' => j = k
      BY <1>5, <2>2, <2>6, <3>1 DEF Answered, Waits
    <3>. QED BY <1>1, <1>2, <2>11, <3>1, <3>2
  <2>13. UsersOwn'
    BY <1>1, <1>2, <1>5, <2>2, <2>3 DEF UsersOwn, ShownOver, Waits
  <2>. QED BY <2>7, <2>8, <2>9, <2>12, <2>13 DEF Hands
<1>7. CASE sock # "up"
  <2>1. shown' = "Idle" /\ sess' = sess /\ capture' = capture
    BY <1>7 DEF StartCall
  <2>2. ~ Answered => Calm'
    BY <1>0, <1>1, <2>1 DEF Calm, Pending
  <2>3. capture' # "off" => capture' = "user" /\ \A i \in Starts : sess'[i].start \notin {"ack", "ok"}
    BY <1>0, <1>4, <1>5, <2>1
  <2>4. \A i \in Starts :
          /\ sess'[i].start = "ack" => sess[i].start = "ack" /\ sess'[i].auto = sess[i].auto
          /\ sess'[i].start = "ok" <=> sess[i].start = "ok"
          /\ Has(posts', "failed", i) => Has(posts, "failed", i)
          /\ (capture' = "call" /\ Has(posts', "failed", i)) => sess'[i].auto = sess[i].auto
    BY <1>1, <2>1
  <2>. QED BY <1>1, <1>2, <1>3, <2>1, <2>2, <2>3, <2>4, HandsStay
<1>. QED BY <1>6, <1>7

\* The call that waits is answered: then none that waits borrows its capture.
LEMMA HandsAcked ==
    ASSUME DesktopTypeOK, Hands, NEW i \in Starts, StartAcked(i)
    PROVE  Hands'
<1>0. /\ posts \in Seq(Posts) /\ Followed(posts) /\ sess \in [Starts -> Sessions] /\ Waits(i)
      /\ RunsForACall /\ FailureStops /\ OneLink /\ Borrowing /\ UsersOwn
  BY DEF DesktopTypeOK, Hands, StartAcked, Waits
<1>1. UNCHANGED <<capture, cur, shown, sock>>
  BY DEF StartAcked, link
<1>2. /\ sess'[i].start = "ok"
      /\ \A k \in Starts \ {i} : sess'[k] = sess[k]
  <2>1. sess' = [sess EXCEPT ![i] = [[[sess[i] EXCEPT !.start = "ok"] EXCEPT !.state = "on"] EXCEPT !.auto = FALSE]]
    BY DEF StartAcked
  <2>. QED BY <1>0, <2>1 DEF Sessions
<1>3. PICK q \in Seq(Posts) : /\ q = posts \/ q = posts \o <<[kind |-> "state", state |-> "InCall"]>>
                              /\ posts' = q \o <<[kind |-> "started", of |-> i]>>
  <2>1. "InCall" \in CallStates
    BY DEF CallStates
  <2>. QED BY <1>0, <2>1, ToldType DEF StartAcked
<1>4. PICK m \in Posts : m = [kind |-> "started", of |-> i] /\ m.kind \notin {"failed", "connected"} /\ ~ ShowsOver(m)
  BY PostKinds DEF ShowsOver
<1>5. PICK n \in Posts : /\ n = [kind |-> "state", state |-> "InCall"]
                         /\ n.kind \notin {"failed", "connected"} /\ ~ ShowsOver(n)
  BY PostKinds DEF ShowsOver, CallStates
<1>6. /\ Followed(q) /\ (Cleans(posts) => Cleans(q)) /\ \A k : Has(q, "failed", k) => Has(posts, "failed", k)
      /\ \A kind \in {"failed", "connected"} : Holds(q, kind) => Holds(posts, kind)
  <2>1. CASE q = posts
    BY <1>0, <2>1
  <2>2. CASE q = posts \o <<n>>
    BY <1>0, <1>5, <2>2, QueuePushed, KindsPushed
  <2>. QED BY <1>3, <1>5, <2>1, <2>2
<1>7. /\ Followed(posts') /\ (Cleans(q) => Cleans(posts')) /\ \A k : Has(posts', "failed", k) => Has(q, "failed", k)
      /\ \A kind \in {"failed", "connected"} : Holds(posts', kind) => Holds(q, kind)
  BY <1>3, <1>4, <1>6, QueuePushed, KindsPushed
<1>8. \A k \in Starts : Waits(k)' => k # i /\ Waits(k) /\ sess'[k] = sess[k]
  BY <1>2 DEF Waits
<1>9. RunsForACall' /\ OneLink' /\ Answered'
  BY <1>0, <1>1, <1>2, <1>6, <1>7, <1>8 DEF RunsForACall, ShownOver, OneLink, Answered
<1>10. FailureStops'
  <2>1. \A k \in Starts : Has(posts', "failed", k) => k # i /\ Has(posts, "failed", k) /\ sess'[k] = sess[k]
    BY <1>0, <1>2, <1>6, <1>7 DEF FailureStops
  <2>. QED BY <1>0, <1>1, <2>1 DEF FailureStops, Waits
<1>11. Borrowing'
  <2>1. \A k \in Starts : ~ Borrows(k)'
    BY <1>0, <1>8 DEF Borrowing, Borrows
  <2>. QED BY <2>1 DEF Borrowing
<1>12. UsersOwn'
  <2>1. SUFFICES ASSUME capture = "user", NEW k \in Starts, sess'[k].start \in {"ack", "ok"}
                 PROVE  /\ cur = k /\ (~ ShownOver' \/ Cleans(posts')) /\ ~ Holds(posts', "failed")
                        /\ Waits(k)' => ~ sess'[k].auto
    BY <1>1 DEF UsersOwn
  <2>2. sess[k].start \in {"ack", "ok"}
    BY <1>0, <1>2, <2>1 DEF Waits
  <2>3. cur = k /\ (~ ShownOver \/ Cleans(posts)) /\ ~ Holds(posts, "failed") /\ (Waits(k) => ~ sess[k].auto)
    BY <1>0, <2>1, <2>2 DEF UsersOwn
  <2>. QED BY <1>1, <1>6, <1>7, <1>8, <2>3 DEF ShownOver
<1>. QED BY <1>7, <1>9, <1>10, <1>11, <1>12 DEF Hands

\* The call that waits is refused: no other waits or was answered that uses the
\* capture it borrowed.
LEMMA HandsRefused ==
    ASSUME DesktopTypeOK, Hands, NEW i \in Starts, StartRefused(i)
    PROVE  Hands'
<1>0. /\ posts \in Seq(Posts) /\ Followed(posts) /\ sess \in [Starts -> Sessions] /\ Waits(i)
      /\ RunsForACall /\ FailureStops /\ OneLink /\ Borrowing /\ UsersOwn /\ (~ Answered => Calm)
  BY DEF DesktopTypeOK, Hands, StartRefused, Waits
<1>1. UNCHANGED <<capture, cur, shown, sock, end, task, leave>>
  BY DEF StartRefused, link
<1>2. /\ sess'[i].start = "refused" /\ sess'[i].auto = sess[i].auto
      /\ \A k \in Starts \ {i} : sess'[k] = sess[k]
  <2>1. sess' = [sess EXCEPT ![i] = [[sess[i] EXCEPT !.start = "refused"] EXCEPT !.state = "Idle"]]
    BY DEF StartRefused
  <2>. QED BY <1>0, <2>1 DEF Sessions
<1>3. PICK q \in Seq(Posts) : /\ q = posts \/ q = posts \o <<[kind |-> "state", state |-> "Idle"]>>
                              /\ posts' = q \o <<[kind |-> "failed", of |-> i]>>
  <2>1. "Idle" \in CallStates
    BY DEF CallStates
  <2>. QED BY <1>0, <2>1, ToldType DEF StartRefused
<1>4. PICK m \in Posts : m = [kind |-> "failed", of |-> i] /\ m.kind = "failed" /\ m.of = i
  BY PostKinds
<1>5. PICK n \in Posts : n = [kind |-> "state", state |-> "Idle"] /\ n.kind = "state" /\ n.state = "Idle"
  BY PostKinds DEF CallStates
<1>6. /\ \A k : Has(q, "failed", k) => Has(posts, "failed", k)
      /\ \A kind : kind # "state" => (Holds(q, kind) => Holds(posts, kind))
      /\ Begins(q) => Begins(posts)
  <2>1. CASE q = posts
    BY <2>1
  <2>2. CASE q = posts \o <<n>>
    BY <1>0, <1>5, <2>2, QueuePushed, KindsPushed
  <2>. QED BY <1>3, <1>5, <2>1, <2>2
<1>7. posts' = q \o <<m>>
  BY <1>3, <1>4
<1>8. Followed(posts') /\ Cleans(posts') /\ \A k : Has(posts', "failed", k) => Has(q, "failed", k) \/ k = i
  BY <1>4, <1>7, QueuePushed
<1>9. /\ \A kind : kind # "failed" => (Holds(posts', kind) => Holds(q, kind))
      /\ Begins(posts') => Begins(q)
  BY <1>4, <1>7, KindsPushed
<1>10. \A k \in Starts : sess'[k].start \in {"ack", "ok"} => k # i /\ sess'[k] = sess[k]
  BY <1>2
<1>11. Answered' <=> Answered
  BY <1>0, <1>2 DEF Answered, Waits
<1>12. RunsForACall' /\ OneLink'
  BY <1>0, <1>1, <1>6, <1>8, <1>9, <1>10 DEF RunsForACall, OneLink, Waits
<1>13. (~ Answered => Calm)'
  BY <1>0, <1>1, <1>6, <1>9, <1>11 DEF Calm, Pending
<1>14. FailureStops'
  <2>1. SUFFICES ASSUME NEW k \in Starts, Has(posts', "failed", k)
                 PROVE  sess'[k].start # "ack" /\ (capture = "call" => sess'[k].auto)
    BY <1>1 DEF FailureStops, Waits
  <2>2. CASE k = i
    BY <1>0, <1>2, <2>2 DEF Borrowing, Borrows
  <2>3. CASE k # i
    BY <1>0, <1>2, <1>6, <1>8, <2>1, <2>3 DEF FailureStops, Waits
  <2>. QED BY <2>2, <2>3
<1>15. Borrowing'
  <2>1. \A k \in Starts : ~ Borrows(k)'
    BY <1>0, <1>10 DEF Borrowing, Borrows, Waits
  <2>. QED BY <2>1 DEF Borrowing
<1>16. UsersOwn'
  <2>1. capture = "user" => \A k \in Starts : sess'[k].start \notin {"ack", "ok"}
    BY <1>0, <1>10 DEF UsersOwn, Waits
  <2>. QED BY <1>1, <2>1 DEF UsersOwn
<1>. QED BY <1>8, <1>12, <1>13, <1>14, <1>15, <1>16 DEF Hands

\* A window that is being closed does not come back.
LEMMA ClosingStays ==
    ASSUME DesktopNext, closing' = "no"
    PROVE  closing = "no" /\ ~ CloseAsked /\ ~ CallOver /\ ~ Close
<1>1. ~ CloseAsked /\ ~ CallOver /\ ~ Close
  BY DEF CloseAsked, CallOver, Close, Exit
<1>2. CASE \/ Connect \/ LoginFails \/ LoggedIn \/ Linked \/ LinkFails \/ Drop
           \/ StartCall \/ StartCallWithoutCapture \/ Disconnect \/ LetGo \/ Disconnected
           \/ UserStartsCapture \/ UserStopsCapture \/ Drain
  BY <1>1, <1>2
    DEF Connect, LoginFails, LoggedIn, Linked, LinkFails, Drop, StartCall, StartCallWithoutCapture, Disconnect,
        LetGo, Disconnected, UserStartsCapture, UserStopsCapture, Drain
<1>3. CASE \/ (\E kind \in {"broken", "refused"} : Trouble(kind))
           \/ (\E i \in Starts : StartAcked(i)) \/ (\E i \in Starts : StartRefused(i))
           \/ (\E e \in Ends : EndPressed(e)) \/ (\E e \in Ends : StopAcked(e)) \/ (\E i \in Starts : Give(i))
  BY <1>1, <1>3 DEF Trouble, StartAcked, StartRefused, EndPressed, StopAcked, Give
<1>4. CASE Window
  BY <1>1, <1>4 DEF Window, Started, StartFailed, ShowConnected, ShowState, Dropped, Broken, Refused, Stopped
<1>5. CASE \E e \in Ends : UploadStep(e)
  <2>1. PICK e \in Ends : UploadStep(e)
    BY <1>5
  <2>. QED BY <1>1, <2>1
    DEF UploadStep, NoToken, LocalDone, Initiated, InitiateRefused, PutDone, PutFails, Finalized, FinalizeRefused,
        Unexpected, Finish, Moves
<1>. QED BY <1>1, <1>2, <1>3, <1>4, <1>5 DEF DesktopNext

LEMMA HandsInvariant ==
    ASSUME ByHand \subseteq {0}
    PROVE  DesktopSpec => [](closing = "no" => Hands)
<1>1. DesktopInit => (closing = "no" => Hands)
  <2>1. SUFFICES ASSUME DesktopInit PROVE Hands
    OBVIOUS
  <2>2. /\ capture = "off" /\ posts = << >> /\ shown = "Idle" /\ task = 0
        /\ \A i \in Starts : sess[i].start = "no"
        /\ \A e \in Ends : end[e].at = "none"
    BY <2>1 DEF DesktopInit, NoSession, NoEnd
  <2>3. /\ Followed(posts) /\ \A kind, i : ~ Has(posts, kind, i)
        /\ ~ Begins(posts) /\ \A kind : ~ Holds(posts, kind)
    BY <2>2, QueueEmpty, KindsEmpty
  <2>4. RunsForACall /\ FailureStops /\ OneLink
    BY <2>2, <2>3 DEF RunsForACall, FailureStops, OneLink, Waits
  <2>5. Borrowing /\ UsersOwn /\ Calm
    BY <2>2, <2>3 DEF Borrowing, UsersOwn, Calm, Borrows, Waits, Pending
  <2>. QED BY <2>3, <2>4, <2>5 DEF Hands
<1>2. ASSUME DesktopTypeOK, DiskInv, closing = "no" => Hands, [DesktopNext]_desktop
      PROVE  (closing = "no" => Hands)'
  <2>1. SUFFICES ASSUME closing' = "no" PROVE Hands'
    OBVIOUS
  <2>2. CASE UNCHANGED desktop
    <3>1. Hands
      BY <1>2, <2>1, <2>2 DEF desktop
    <3>. QED BY <1>2, <2>2, <3>1, HandsQuiet
  <2>3. CASE DesktopNext
    <3>1. Hands /\ ~ CloseAsked /\ ~ CallOver /\ ~ Close
      BY <1>2, <2>1, <2>3, ClosingStays
    <3>2. CASE \/ Connect \/ LoginFails \/ LoggedIn \/ LinkFails \/ StartCallWithoutCapture
               \/ Disconnected \/ UserStopsCapture \/ Drain
               \/ (\E k \in Starts : Give(k)) \/ (\E e \in Ends : UploadStep(e))
      BY <1>2, <3>1, <3>2, HandsQuiet
    <3>3. CASE Linked \/ Drop \/ LetGo \/ \E kind \in {"broken", "refused"} : Trouble(kind)
      BY <1>2, <3>1, <3>3, HandsLink
    <3>4. CASE StartCall
      BY <1>2, <3>1, <3>4, HandsStartCall
    <3>5. CASE UserStartsCapture
      BY <1>2, <3>1, <3>5, HandsStart
    <3>6. CASE Window \/ Disconnect
      BY <1>2, <3>1, <3>6, HandsWindow, HandsDisconnect
    <3>7. CASE (\E i \in Starts : StartAcked(i)) \/ (\E i \in Starts : StartRefused(i))
      BY <1>2, <3>1, <3>7, HandsAcked, HandsRefused
    <3>8. CASE (\E e \in Ends : StopAcked(e)) \/ (\E e \in Ends : EndPressed(e))
      BY <1>2, <3>1, <3>8, HandsStopAcked, HandsEnd
    <3>. QED BY <2>3, <3>1, <3>2, <3>3, <3>4, <3>5, <3>6, <3>7, <3>8 DEF DesktopNext
  <2>. QED BY <1>2, <2>2, <2>3
<1>3. DesktopTypeOK /\ DiskInv /\ (closing = "no" => Hands) /\ [DesktopNext]_desktop
        => (closing = "no" => Hands)'
  BY <1>2
<1>. QED BY <1>1, <1>3, DesktopTyping, DiskInvariant, PTL DEF DesktopSpec

\* CaptureStopsWithCall: capture that was started for a call is stopped with
\* it, however the call ends, if the user starts capture by hand at most before
\* the first call.
THEOREM CaptureEndsWithItsCall ==
    ASSUME ByHand \subseteq {0}
    PROVE  DesktopSpec => []CaptureStopsWithCall
<1>1. (closing = "no" => Hands) => CaptureStopsWithCall
  BY DEF Hands, RunsForACall, CaptureStopsWithCall
<1>. QED BY <1>1, HandsInvariant, PTL

\* CallsStayApart: what belongs to a call stays with it: no other recording is
\* uploaded in the place of its own, its capture and its audio on the disk go
\* with it.  The archive may be switched on and off at any time.
THEOREM CallsApart ==
    ASSUME ByHand \subseteq {0}
    PROVE  DesktopSpec => []CallsStayApart
<1>1. ArchivedInItsPlace /\ CaptureStopsWithCall /\ AudioDoesNotStay => CallsStayApart
  BY DEF CallsStayApart, NothingLingers
<1>. QED BY <1>1, RecordingsInTheirPlace, CaptureEndsWithItsCall, NoAudioStays, PTL

=============================================================================
