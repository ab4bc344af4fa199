--------------------------- MODULE CallRecordings ---------------------------
(***************************************************************************)
(* Call recordings of one organization: the call_recordings table, the     *)
(* object store that holds the audio, the requests that upload, finalize   *)
(* and delete a recording, and the retention sweep that removes expired    *)
(* recordings and retries deletions the store refused.                     *)
(*                                                                         *)
(* A database transaction (withOrgContext) is one atomic step.  A call of  *)
(* the object store is a step of its own, outside every transaction: the   *)
(* other requests and sweeps run between it and the transactions around    *)
(* it, and a process may die there.                                        *)
(*                                                                         *)
(* Clock.  'age' is the time since the row was last updated, capped.  For  *)
(* an available row that is also the time since uploaded_at, which the     *)
(* same statement stamps.  'url' is what is left of the life of the signed *)
(* upload URL.                                                             *)
(***************************************************************************)
EXTENDS Integers, FiniteSets

CONSTANTS
    Recordings,     \* ids of the rows that may be created
    Users,          \* requests of authorized users, one at a time each
    Sweepers,       \* retention workers, one tick at a time each
    Providers,      \* storage providers a deployment may be configured with
    Retention,      \* recordingRetentionDays, in clock units
    RetryAfter,     \* recordingDeletePendingRetryAfterSec, in clock units
    UrlTtl,         \* RECORDING_UPLOAD_TTL_DEFAULT_SECONDS, in clock units
    BatchSize,      \* recordingBatchSize
    MaxBatches,     \* maxBatchesPerOrg
    MaxTick,        \* bound of the model: how long one retention tick lasts
    MaxFaults       \* bound of the model: failures and deployments together

ASSUME SetsAssumption == IsFiniteSet(Recordings) /\ IsFiniteSet(Sweepers)
ASSUME ClockAssumption ==
    Retention \in Nat /\ RetryAfter \in Nat /\ UrlTtl \in Nat /\ MaxTick \in Nat
ASSUME BatchAssumption == BatchSize \in Nat \ {0} /\ MaxBatches \in Nat \ {0}
ASSUME FaultsAssumption == MaxFaults \in Nat

VARIABLES
    status,     \* status[r]: the status column, "absent" before the row exists
    age,        \* age[r]: time since the last update of the row
    home,       \* home[r]: the storage_provider column
    object,     \* object[r]: what the store at home[r] holds under the key
    url,        \* url[r]: life left of the signed upload URL, 0 if none
    provider,   \* the provider of the running deployment
    user,       \* user[u]: where a request is between its steps
    sweep,      \* sweep[s]: where a retention tick is and what it remembers
    audited,    \* audited[r]: how often an audit row accounts for the tombstone
    lost,       \* history: tombstones counted by a tick that died before its audit
    misplaced,  \* history: rows a user's deletion looked up at another provider
    faults      \* failures and deployments so far

vars == <<status, age, home, object, url, provider, user, sweep, audited, lost,
          misplaced, faults>>

Statuses == {"absent", "upload_pending", "uploaded", "processing", "available",
             "failed", "delete_pending", "deleted"}

\* deleted_at IS NULL: what every repository statement filters on.
Active(r) == status[r] \notin {"absent", "deleted"}

\* The object: never stored, stored, removed by deleteObject (or found to be
\* missing by it), or stored again after that through a URL still valid.
Contents == {"never", "stored", "removed", "late"}
Cleared  == {"removed", "late"}

AgeCap == Retention + RetryAfter + MaxTick
Ages   == 0..AgeCap
Lives  == 0..UrlTtl

\* A request between two of its steps.
UserSteps == {"signing", "removing", "tombstoning"}
NoRequest == [at |-> "idle"]
Request(step, r) == [at |-> step, rec |-> r]
Requests  == {NoRequest} \cup [at: UserSteps, rec: Recordings]

\* A retention tick: the rows of the batch still to do, the row whose object
\* it just removed, the rows that failed in this tick, those it tombstoned,
\* whether the batch had a success, the number of batches, and the time
\* passed since the tick read the clock.
SweepSteps == {"idle", "listing", "working", "tombstoning", "auditing"}
NoTick == [at |-> "idle", expired |-> {}, pending |-> {}, removed |-> {},
           failed |-> {}, tally |-> {}, wins |-> FALSE, batch |-> 0, lag |-> 0]
Batches == SUBSET Recordings
Counts  == 0..MaxBatches
Lags    == 0..MaxTick
Ticks == [at: SweepSteps, expired: Batches, pending: Batches, removed: Batches,
          failed: Batches, tally: Batches, wins: BOOLEAN, batch: Counts, lag: Lags]

Init ==
    /\ status = [r \in Recordings |-> "absent"]
    /\ age = [r \in Recordings |-> 0]
    /\ provider \in Providers
    /\ home = [r \in Recordings |-> provider]
    /\ object = [r \in Recordings |-> "never"]
    /\ url = [r \in Recordings |-> 0]
    /\ user = [u \in Users |-> NoRequest]
    /\ sweep = [s \in Sweepers |-> NoTick]
    /\ audited = [r \in Recordings |-> 0]
    /\ lost = {}
    /\ misplaced = {}
    /\ faults = 0

Fault == faults < MaxFaults /\ faults' = faults + 1

Store     == <<object, url>>
Rows      == <<status, age, home>>
Histories == <<audited, lost, misplaced>>

----------------------------------------------------------------------------
(* Uploading.                                                              *)

\* initiateRecordingUpload, its transaction: the row, with the adapter's
\* provider, in upload_pending.
Initiate(u, r) ==
    /\ user[u] = NoRequest
    /\ status[r] = "absent"
    /\ status' = [status EXCEPT ![r] = "upload_pending"]
    /\ age' = [age EXCEPT ![r] = 0]
    /\ home' = [home EXCEPT ![r] = provider]
    /\ user' = [user EXCEPT ![u] = Request("signing", r)]
    /\ UNCHANGED <<Store, provider, sweep, Histories, faults>>

\* ... and createUploadUrl, after it.
SignUpload(u) ==
    /\ user[u].at = "signing"
    /\ url' = [url EXCEPT ![user[u].rec] = UrlTtl]
    /\ user' = [user EXCEPT ![u] = NoRequest]
    /\ UNCHANGED <<Rows, object, provider, sweep, Histories, faults>>

\* The client PUTs the audio straight to the store, at any time and as often
\* as it likes while the URL is valid; the server takes no part in it.
Put(r) ==
    /\ url[r] > 0
    /\ object' = [object EXCEPT ![r] = IF @ \in Cleared THEN "late" ELSE "stored"]
    /\ UNCHANGED <<Rows, url, provider, user, sweep, Histories, faults>>

\* Definitions named Bug... are plausible mistakes; PROJECT.json names the
\* definition each one replaces and the property that then fails.
BugFinalizeAnyActive(r) == Active(r)
BugFinalizeAgain(r) == status[r] \in {"upload_pending", "available", "failed"}

\* finalizeRecordingUpload's checks and the guard of markUploaded.
FinalizeGate(r) ==
    /\ Active(r)
    /\ status[r] \notin {"deleted", "delete_pending"}
    /\ status[r] \in {"upload_pending", "failed"}

\* markUploaded and markAvailable in one transaction.  Nothing asks the store
\* whether the object is there.
Finalize(r) ==
    /\ FinalizeGate(r)
    /\ status' = [status EXCEPT ![r] = "available"]
    /\ age' = [age EXCEPT ![r] = 0]
    /\ UNCHANGED <<home, Store, provider, user, sweep, Histories, faults>>

----------------------------------------------------------------------------
(* Deleting.                                                               *)

BugMarkDeletedAnyRow(r) == status[r] # "absent"

\* WHERE ... deleted_at IS NULL of markDeleted.
MarkDeletedGate(r) == Active(r)

\* deleteRecording, first transaction.  A second request for a row that is
\* already delete_pending goes the same way.
RequestDelete(u, r) ==
    /\ user[u] = NoRequest
    /\ Active(r)
    /\ status' = [status EXCEPT ![r] = "delete_pending"]
    /\ age' = [age EXCEPT ![r] = 0]
    /\ user' = [user EXCEPT ![u] = Request("removing", r)]
    /\ UNCHANGED <<home, Store, provider, sweep, Histories, faults>>

\* adapter.deleteObject: at the row's home the object goes (or is found to be
\* gone); at another provider there is nothing under the key.
RemoveObject(r) ==
    object' = IF home[r] = provider THEN [object EXCEPT ![r] = "removed"] ELSE object

\* deleteRecording calls the running adapter without looking at the provider
\* of the row; "not found" counts as success.
UserRemove(u) ==
    /\ user[u].at = "removing"
    /\ RemoveObject(user[u].rec)
    /\ misplaced' = IF home[user[u].rec] = provider THEN misplaced
                    ELSE misplaced \cup {user[u].rec}
    /\ user' = [user EXCEPT ![u] = Request("tombstoning", user[u].rec)]
    /\ UNCHANGED <<Rows, url, provider, sweep, audited, lost, faults>>

BugTombstoneAnyway(u) ==
    /\ user[u].at = "removing"
    /\ Fault
    /\ user' = [user EXCEPT ![u] = Request("tombstoning", user[u].rec)]
    /\ UNCHANGED <<Rows, Store, provider, sweep, Histories>>

\* The store fails, before or after it removed the object: the request ends
\* with 502 and the row stays delete_pending.
UserRemoveFails(u) ==
    /\ user[u].at = "removing"
    /\ Fault
    /\ UNCHANGED object \/ RemoveObject(user[u].rec)
    /\ user' = [user EXCEPT ![u] = NoRequest]
    /\ UNCHANGED <<Rows, url, provider, sweep, Histories>>

\* deleteRecording, second transaction.
UserTombstone(u) ==
    LET r == user[u].rec IN
    /\ user[u].at = "tombstoning"
    /\ status' = IF MarkDeletedGate(r) THEN [status EXCEPT ![r] = "deleted"] ELSE status
    /\ audited' = IF MarkDeletedGate(r) THEN [audited EXCEPT ![r] = @ + 1] ELSE audited
    /\ user' = [user EXCEPT ![u] = NoRequest]
    /\ UNCHANGED <<age, home, Store, provider, sweep, lost, misplaced, faults>>

\* The API process dies, or a call or transaction of the request throws.
UserAborts(u) ==
    /\ user[u] # NoRequest
    /\ Fault
    /\ user' = [user EXCEPT ![u] = NoRequest]
    /\ UNCHANGED <<Rows, Store, provider, sweep, Histories>>

----------------------------------------------------------------------------
(* The retention sweep of the organization (runRecordingRetentionForOrg).  *)

\* Time since the last update of the row when tick s read the clock.
AgeAtStart(s, r) == age[r] - sweep[s].lag

BugExpiredOnlyUploaded(s) ==
    {r \in Recordings : status[r] = "uploaded" /\ AgeAtStart(s, r) >= Retention}

\* listRetentionCandidates and listDeletePendingRetryCandidates.
Expired(s) == {r \in Recordings : /\ status[r] \in {"uploaded", "available", "failed"}
                                  /\ AgeAtStart(s, r) >= Retention}

BugPendingNeverStale(s) ==
    {r \in Recordings : status[r] = "delete_pending" /\ AgeAtStart(s, r) > AgeCap}

Stale(s) == {r \in Recordings : /\ status[r] = "delete_pending"
                                /\ AgeAtStart(s, r) >= RetryAfter}

\* ORDER BY the timestamp LIMIT n: n candidates none of which is younger than
\* one left out.
OldestOf(S, n) ==
    {T \in SUBSET S : /\ Cardinality(T) = IF Cardinality(S) < n THEN Cardinality(S) ELSE n
                      /\ \A x \in T, y \in S \ T : age[x] >= age[y]}

At(tick, step) == [tick EXCEPT !.at = step]
InSweep(s, step) == sweep[s].at = step
SweepGoes(s, tick) == sweep' = [sweep EXCEPT ![s] = tick]
OnlySweeps == UNCHANGED <<Rows, Store, provider, user, Histories, faults>>

SweepStart(s) ==
    /\ InSweep(s, "idle")
    /\ SweepGoes(s, At(NoTick, "listing"))
    /\ OnlySweeps

\* Rows that failed in this tick are skipped.
Listed(tick, E, P) ==
    [tick EXCEPT !.at = "working", !.wins = FALSE, !.batch = @ + 1,
                 !.expired = E \ tick.failed, !.pending = P \ tick.failed]

\* The candidates of one batch: expired rows first, then as many
\* deletions to retry as they leave room for.
SweepList(s) ==
    /\ InSweep(s, "listing")
    /\ \E E \in OldestOf(Expired(s), BatchSize) :
       \E P \in OldestOf(Stale(s), BatchSize - Cardinality(E)) :
          IF E \cup P = {}
          THEN SweepGoes(s, At(sweep[s], "auditing"))
          ELSE SweepGoes(s, Listed(sweep[s], E, P))
    /\ OnlySweeps

\* The next row of the batch: the expired ones come first.
NextInBatch(s, r) ==
    \/ r \in sweep[s].expired
    \/ sweep[s].expired = {} /\ r \in sweep[s].pending

\* What is left of the batch after row r.
Without(tick, r) == [tick EXCEPT !.expired = @ \ {r}, !.pending = @ \ {r}]
Removed(tick, r) == [Without(tick, r) EXCEPT !.at = "tombstoning", !.removed = {r}]
Failing(tick, r) == [Without(tick, r) EXCEPT !.failed = @ \cup {r}]

BugSweepIgnoresProvider(r) == TRUE

\* row.storage_provider !== adapter.provider
SameProvider(r) == home[r] = provider

SweepSkipsForeign(s, r) ==
    /\ InSweep(s, "working")
    /\ NextInBatch(s, r)
    /\ ~SameProvider(r)
    /\ SweepGoes(s, Failing(sweep[s], r))
    /\ OnlySweeps

SweepRemove(s, r) ==
    /\ InSweep(s, "working")
    /\ NextInBatch(s, r)
    /\ SameProvider(r)
    /\ RemoveObject(r)
    /\ SweepGoes(s, Removed(sweep[s], r))
    /\ UNCHANGED <<Rows, url, provider, user, Histories, faults>>

\* The store fails, before or after it removed the object; the row is left.
SweepRemoveFails(s, r) ==
    /\ InSweep(s, "working")
    /\ NextInBatch(s, r)
    /\ SameProvider(r)
    /\ Fault
    /\ UNCHANGED object \/ RemoveObject(r)
    /\ SweepGoes(s, Failing(sweep[s], r))
    /\ UNCHANGED <<Rows, url, provider, user, Histories>>

Tombstoned(tick, S) ==
    [tick EXCEPT !.at = "working", !.removed = {}, !.wins = @ \/ S # {}, !.tally = @ \cup S]

\* markDeleted in a fresh transaction; the tick counts the row only if it was
\* the one to tombstone it.
SweepTombstone(s, r) ==
    /\ InSweep(s, "tombstoning")
    /\ r \in sweep[s].removed
    /\ status' = IF MarkDeletedGate(r) THEN [status EXCEPT ![r] = "deleted"] ELSE status
    /\ SweepGoes(s, Tombstoned(sweep[s], IF MarkDeletedGate(r) THEN {r} ELSE {}))
    /\ UNCHANGED <<age, home, Store, provider, user, Histories, faults>>

BatchDone(s) ==
    InSweep(s, "working") /\ sweep[s].expired = {} /\ sweep[s].pending = {}

\* Another batch only if this one had a success.
Continue(s) == sweep[s].wins /\ sweep[s].batch < MaxBatches

SweepNextBatch(s) ==
    /\ BatchDone(s)
    /\ SweepGoes(s, At(sweep[s], IF Continue(s) THEN "listing" ELSE "auditing"))
    /\ OnlySweeps

\* The aggregate audit row of the tick, written if it has anything to report;
\* it accounts for the rows the tick counted.
SweepAudit(s) ==
    /\ InSweep(s, "auditing")
    /\ audited' = [r \in Recordings |->
                     IF r \in sweep[s].tally THEN audited[r] + 1 ELSE audited[r]]
    /\ SweepGoes(s, NoTick)
    /\ UNCHANGED <<Rows, Store, provider, user, lost, misplaced, faults>>

\* The worker dies, or a transaction throws and runRetentionTick goes on with
\* the next organization: what the tick counted is never audited.
SweepAborts(s) ==
    /\ sweep[s].at # "idle"
    /\ Fault
    /\ lost' = lost \cup sweep[s].tally
    /\ SweepGoes(s, NoTick)
    /\ UNCHANGED <<Rows, Store, provider, user, audited, misplaced>>

----------------------------------------------------------------------------
\* A deployment with another RECORDING_STORAGE_PROVIDER restarts every
\* process; the rows and the old store keep what they have.
Reconfigure ==
    /\ Fault
    /\ provider' \in Providers \ {provider}
    /\ user' = [u \in Users |-> NoRequest]
    /\ sweep' = [s \in Sweepers |-> NoTick]
    /\ lost' = lost \cup UNION {sweep[s].tally : s \in Sweepers}
    /\ UNCHANGED <<Rows, Store, audited, misplaced>>

Later(tick) == [tick EXCEPT !.lag = @ + 1]
Older(n) == IF n < AgeCap THEN n + 1 ELSE n

Tick ==
    /\ \A s \in Sweepers : sweep[s].at # "idle" => sweep[s].lag < MaxTick
    /\ age' = [r \in Recordings |->
                 IF status[r] \in {"absent", "upload_pending", "deleted"} THEN age[r]
                 ELSE Older(age[r])]
    /\ url' = [r \in Recordings |-> IF url[r] > 0 THEN url[r] - 1 ELSE 0]
    /\ sweep' = [s \in Sweepers |->
                   IF sweep[s].at = "idle" THEN sweep[s]
                   ELSE Later(sweep[s])]
    /\ UNCHANGED <<status, home, object, provider, user, Histories, faults>>

----------------------------------------------------------------------------
UserStep(u) == SignUpload(u) \/ UserRemove(u) \/ UserRemoveFails(u) \/ UserTombstone(u)

SweepRow(s, r) ==
    \/ SweepSkipsForeign(s, r)
    \/ SweepRemove(s, r)
    \/ SweepRemoveFails(s, r)
    \/ SweepTombstone(s, r)

SweepStep(s) ==
    \/ SweepStart(s) \/ SweepList(s) \/ SweepNextBatch(s) \/ SweepAudit(s)
    \/ \E r \in Recordings : SweepRow(s, r)

Next ==
    \/ \E u \in Users, r \in Recordings : Initiate(u, r) \/ RequestDelete(u, r)
    \/ \E r \in Recordings : Put(r) \/ Finalize(r)
    \/ \E u \in Users : UserStep(u) \/ UserAborts(u)
    \/ \E s \in Sweepers : SweepStep(s) \/ SweepAborts(s)
    \/ Reconfigure
    \/ Tick

Spec == Init /\ [][Next]_vars

\* The retention sweep is a repeatable job, an awaited call returns or throws,
\* and time passes.  Nothing obliges a user or a client to act.
FairSpec ==
    /\ Spec
    /\ \A u \in Users : WF_vars(UserStep(u))
    /\ \A s \in Sweepers : WF_vars(SweepStep(s))
    /\ WF_vars(Tick)

----------------------------------------------------------------------------
(* Properties.                                                             *)

\* Every column and every field of a process has its type; in particular a
\* tick never runs more than maxBatchesPerOrg batches.
TypeOK ==
    /\ status \in [Recordings -> Statuses]
    /\ age \in [Recordings -> Ages]
    /\ home \in [Recordings -> Providers]
    /\ object \in [Recordings -> Contents]
    /\ url \in [Recordings -> Lives]
    /\ provider \in Providers
    /\ user \in [Users -> Requests]
    /\ sweep \in [Sweepers -> Ticks]
    /\ audited \in [Recordings -> Nat]
    /\ lost \in SUBSET Recordings
    /\ misplaced \in SUBSET Recordings
    /\ faults \in 0..MaxFaults

\* A recording nobody can get at any more, or one past its retention.
Doomed(r) ==
    \/ status[r] \in {"delete_pending", "deleted"}
    \/ status[r] = "available" /\ age[r] >= Retention

\* No audio is lost that should be there: the object of a recording is removed
\* only after its deletion was requested or its retention has run out, however
\* uploads, finalizations, deletions and sweeps interleave.
ObjectsRemovedForAReason == \A r \in Recordings : object[r] \in Cleared => Doomed(r)

\* A tombstone stands for an object that is gone (or was stored again by a
\* late PUT), unless a user's deletion looked for it at another provider: a
\* failed, lost or skipped removal leads to no tombstone.
TombstoneMeansRemoved ==
    \A r \in Recordings :
        status[r] = "deleted" => object[r] \in Cleared \/ r \in misplaced

\* Every tombstone is accounted for exactly once: by the audit row of the
\* request that made it, by the aggregate audit row of a sweep, by a sweep
\* still running, or by none because that sweep died; a deletion raced by
\* another request or by a sweep is not reported twice.
Counting(r) == {s \in Sweepers : r \in sweep[s].tally}
TombstoneAccounted ==
    \A r \in Recordings :
        audited[r] + Cardinality(Counting(r)) + (IF r \in lost THEN 1 ELSE 0)
            = IF status[r] = "deleted" THEN 1 ELSE 0

\* A requested deletion is never taken back, and a tombstone is final: no late
\* finalization, second request or sweep makes the recording visible again.
DeletionIsFinal ==
    [][\A r \in Recordings :
          /\ status[r] = "delete_pending" => status'[r] \in {"delete_pending", "deleted"}
          /\ status[r] = "deleted" => status'[r] = "deleted"]_vars

\* Audio goes for a reason; a tombstone is true, was told once, and stays.
TombstonesAreTrue ==
    /\ [](ObjectsRemovedForAReason /\ TombstoneMeansRemoved /\ TombstoneAccounted)
    /\ DeletionIsFinal

\* What a recording is promised (RecordingPromise): how far it is is read off
\* the status and the age of its row, and it has been told of when an audit
\* row accounts for it, and never will be when the tick that counted it died.
Fate(st, a) ==
    CASE st = "absent" -> "none"
      [] st \in {"upload_pending", "uploaded", "processing", "failed"} -> "awaited"
      [] st = "available" /\ a < Retention -> "kept"
      [] st = "available" /\ a >= Retention -> "overdue"
      [] st = "delete_pending" -> "condemned"
      [] st = "deleted" -> "buried"

ToldOf(r) == IF r \in lost THEN "never" ELSE IF audited[r] > 0 THEN "yes" ELSE "no"

Promise(r) == INSTANCE RecordingPromise WITH
    fate <- Fate(status[r], age[r]), audio <- object[r],
    astray <- (r \in misplaced), told <- ToldOf(r)

\* Every recording is kept what it is promised, whatever the others and their
\* requests and sweeps do: this module implements RecordingPromise for each row.
KeepsItsPromise ==
    /\ \A r \in Recordings : Promise(r)!Init
    /\ [][\A r \in Recordings : [Promise(r)!Next]_(Promise(r)!promised)]_vars

\* Every recording that is not settled is stored with the provider in use.
InPlace ==
    \A r \in Recordings : status[r] \notin {"absent", "deleted"} => home[r] = provider

\* A deletion the store refused, or whose request died, is carried out in the
\* end by the retention sweep, as long as the provider stays.
DeletePendingSettles ==
    \A r \in Recordings :
        (status[r] = "delete_pending" /\ InPlace) ~> (status[r] = "deleted" \/ ~InPlace)

\* A recording that was made available does not outlive its retention for ever,
\* as long as the provider stays.
ExpiredSettles ==
    \A r \in Recordings :
        (status[r] = "available" /\ InPlace) ~> (status[r] = "deleted" \/ ~InPlace)

\* Whatever is to go goes in the end: the recordings a user deleted, and those
\* past their retention.
DoomedSettle == DeletePendingSettles /\ ExpiredSettles

\* What the documentation promises without exception: a tombstoned recording's
\* object has been removed from the store (or was stored again by a late PUT).
TombstoneMeansGone ==
    \A r \in Recordings : status[r] = "deleted" => object[r] \in Cleared

\* What the documentation promises without exception: a deletion that failed
\* is retried by the retention sweep until it is done (at least while the
\* deployment keeps the provider the recording was stored with).
FailedDeletesAreRetried ==
    \A r \in Recordings :
        (status[r] = "delete_pending" /\ home[r] = provider)
            ~> (status[r] = "deleted" \/ home[r] # provider)
=============================================================================
