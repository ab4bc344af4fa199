------------------------------ MODULE Retention ------------------------------
(***************************************************************************)
(* The retention sweep (services/retention.ts): a repeatable job that goes *)
(* through every organization and, in one transaction for each, deletes    *)
(* expired transcript lines in batches, takes mails that are stuck in      *)
(* 'sending' from their worker, and writes what it did to the activity     *)
(* log.  The recordings follow outside that transaction; CallRecordings    *)
(* models them, here they only take time.                                  *)
(*                                                                         *)
(* Two worker processes may sweep at once when a tick outlasts its         *)
(* interval: the statements lock the rows they choose and skip those that  *)
(* another transaction has locked.  Agents speak and the delivery worker   *)
(* leases mails meanwhile.                                                 *)
(***************************************************************************)
EXTENDS Integers, FiniteSets

CONSTANTS
    NumOrgs,        \* organizations, numbered in the order of their ids
    Busy,           \* bound of the model: those with calls and mails
    Poisonable,     \* bound of the model: those that may fail every time
    Workers,        \* worker processes, concurrency 1 each
    BatchSize,      \* transcriptBatchSize
    MaxBatches,     \* maxBatchesPerOrg
    RecoveryBatch,  \* emailRecoveryBatchSize
    Retained,       \* transcriptRetentionDays, in clock units
    StuckAfter,     \* emailStuckSendingAfterSec, in clock units
    MaxLines,       \* bound of the model: lines of an organization
    MaxMails,       \* bound of the model: mails of an organization
    MaxTime,        \* bound of the model: the clock
    MaxFaults       \* bound of the model: crashes and failed transactions

\* What loadRetentionConfigFromEnv lets through: positive integers.
Configured ==
    /\ {BatchSize, MaxBatches, RecoveryBatch} \subseteq Nat \ {0}
    /\ {Retained, StuckAfter} \subseteq Nat \ {0}

ASSUME ConfigAssumption == Configured
ASSUME BoundsAssumption ==
    {MaxLines, MaxMails, MaxTime, MaxFaults} \subseteq Nat
ASSUME OrgsAssumption == NumOrgs \in Nat \ {0} /\ Busy \cup Poisonable \subseteq 1..NumOrgs

VARIABLES
    clock,
    said,       \* said[o]: how many lines were written, in the order of time
    born,       \* born[o][k]: created_at of line k
    gone,       \* gone[o]: lines that were deleted
    mail,       \* mail[o][m]: status and locked_at of a row of email_outbox
    worker,     \* worker[w]: where a tick is and what its transaction did
    audited,    \* audited[o]: sums of deleted_count and recovered_count
    recovered,  \* history: recovered[o], recoveries that were committed
    poisoned,   \* organizations whose transaction always fails
    faults

vars == <<clock, said, born, gone, mail, worker, audited, recovered, poisoned, faults>>

Orgs  == 1..NumOrgs
Lines == 1..MaxLines
Mails == 1..MaxMails
Times == 0..MaxTime

Queued     == [st |-> "queued"]
Sending(t) == [st |-> "sending", at |-> t]
Settled    == [st |-> "settled"]
MailRows   == {Queued, Settled} \cup {Sending(t) : t \in Times}

\* A tick in the transaction of an organization, or about to open it, which
\* is also when the recordings of the one before are swept.  "now" is read
\* once, when the tick starts.
Idle == [at |-> "idle"]
InOrg(now, o) ==
    [at |-> "deleting", now |-> now, org |-> o, batches |-> 0, lines |-> {}, mails |-> {}]
TxSteps == {"deleting", "recovering", "auditing"}
WorkerStates ==
    {Idle} \cup [at : TxSteps, now : Times, org : Orgs, batches : 0..MaxBatches,
                 lines : SUBSET Lines, mails : SUBSET Mails]

Init ==
    /\ clock = 0
    /\ said = [o \in Orgs |-> 0]
    /\ born = [o \in Orgs |-> [k \in Lines |-> 0]]
    /\ gone = [o \in Orgs |-> {}]
    /\ mail = [o \in Orgs |-> [m \in Mails |-> Queued]]
    /\ worker = [w \in Workers |-> Idle]
    /\ audited = [o \in Orgs |-> [deleted |-> 0, recovered |-> 0]]
    /\ recovered = [o \in Orgs |-> 0]
    /\ poisoned \in SUBSET Poisonable
    /\ faults = 0

data == <<said, born, gone, mail, audited, recovered>>

----------------------------------------------------------------------------
(* What goes on meanwhile.                                                 *)

Tick ==
    /\ clock < MaxTime
    /\ clock' = clock + 1
    /\ UNCHANGED <<data, worker, poisoned, faults>>

\* insertTranscript.
Speak(o) ==
    /\ o \in Busy
    /\ said[o] < MaxLines
    /\ said' = [said EXCEPT ![o] = @ + 1]
    /\ born' = [born EXCEPT ![o][said[o] + 1] = clock]
    /\ UNCHANGED <<clock, gone, mail, worker, audited, recovered, poisoned, faults>>

InTx(w) == worker[w].at \in TxSteps

LinesLocked(o) ==
    UNION {worker[w].lines : w \in {v \in Workers : InTx(v) /\ worker[v].org = o}}
MailsLocked(o) ==
    UNION {worker[w].mails : w \in {v \in Workers : InTx(v) /\ worker[v].org = o}}

\* The delivery worker leases a mail that is due, and settles it under its
\* lock token, or dies and leaves it.
Lease(o, m) ==
    /\ o \in Busy
    /\ mail[o][m] = Queued
    /\ m \notin MailsLocked(o)
    /\ mail' = [mail EXCEPT ![o][m] = Sending(clock)]
    /\ UNCHANGED <<clock, said, born, gone, worker, audited, recovered, poisoned, faults>>

Settle(o, m) ==
    /\ mail[o][m].st = "sending"
    /\ m \notin MailsLocked(o)
    /\ mail' = [mail EXCEPT ![o][m] = Settled]
    /\ UNCHANGED <<clock, said, born, gone, worker, audited, recovered, poisoned, faults>>

----------------------------------------------------------------------------
(* The tick.                                                               *)

WorkerGoes(w, next) == worker' = [worker EXCEPT ![w] = next]
OnlyWorkers == UNCHANGED <<clock, data, poisoned, faults>>

\* The job is due: the processor reads the clock and the organizations.
StartTick(w) ==
    /\ worker[w] = Idle
    /\ WorkerGoes(w, InOrg(clock, 1))
    /\ OnlyWorkers

\* Definitions named Bug... are plausible mistakes; PROJECT.json names the
\* definition each one replaces and the property that then fails.
BugDueInclusive(o, now) ==
    {k \in 1..said[o] : k \notin gone[o] /\ born[o][k] + Retained <= now}

\* WHERE created_at < cutoff.
Due(o, now) == {k \in 1..said[o] : k \notin gone[o] /\ born[o][k] + Retained < now}

\* ORDER BY ... LIMIT n: of S, the n with the smallest key.
First(S, key, n) ==
    {T \in SUBSET S : /\ Cardinality(T) = IF Cardinality(S) < n THEN Cardinality(S) ELSE n
                      /\ \A x \in T, y \in S \ T : key[x] <= key[y]}

BugUnlockedLines(w) ==
    Due(worker[w].org, worker[w].now) \ worker[w].lines

\* ... FOR UPDATE SKIP LOCKED; the transaction's own rows are gone for it.
Doomed(w) == Due(worker[w].org, worker[w].now) \ LinesLocked(worker[w].org)

\* Of the loop over batches: an empty or a short batch ends it, or the limit.
LoopIsOver(D, n) == Cardinality(D) < BatchSize \/ n = MaxBatches

\* deleteExpiredTranscripts: one batch.
DeleteBatch(w) ==
    /\ worker[w].at = "deleting"
    /\ \E D \in First(Doomed(w), born[worker[w].org], BatchSize) :
          LET n == worker[w].batches + (IF D = {} THEN 0 ELSE 1) IN
          WorkerGoes(w, [worker[w] EXCEPT
              !.at = IF LoopIsOver(D, n) THEN "recovering" ELSE "deleting",
              !.batches = n,
              !.lines = @ \cup D])
    /\ OnlyWorkers

BugStuckAtOnce(o, now) == {m \in Mails : mail[o][m].st = "sending"}

\* WHERE status = 'sending' AND locked_at < cutoff.
Stuck(o, now) ==
    {m \in Mails : mail[o][m].st = "sending" /\ mail[o][m].at + StuckAfter < now}

\* recoverStuckSending: one batch of them, FOR UPDATE SKIP LOCKED.
RecoverMails(w) ==
    LET o == worker[w].org
        free == Stuck(o, worker[w].now) \ MailsLocked(o)
        since == [m \in Mails |-> IF m \in free THEN mail[o][m].at ELSE 0]
    IN
    /\ worker[w].at = "recovering"
    /\ \E M \in First(free, since, RecoveryBatch) :
          WorkerGoes(w, [worker[w] EXCEPT !.at = "auditing", !.mails = M])
    /\ OnlyWorkers

\* After the last organization the job is done.
NextOrg(w) ==
    IF worker[w].org = NumOrgs THEN Idle ELSE InOrg(worker[w].now, worker[w].org + 1)

BugTickStops(w) == Idle

\* The catch of runRetentionTick goes on with the next organization.
AfterFailure(w) == NextOrg(w)

\* Both audit rows and COMMIT: deletions, recoveries and their account
\* appear together.
CommitOrg(w) ==
    LET o == worker[w].org IN
    /\ worker[w].at = "auditing"
    /\ o \notin poisoned
    /\ gone' = [gone EXCEPT ![o] = @ \cup worker[w].lines]
    /\ mail' = [mail EXCEPT ![o] = [m \in Mails |->
                  IF m \in worker[w].mails THEN Queued ELSE mail[o][m]]]
    /\ audited' = [audited EXCEPT ![o] =
                     [deleted |-> @.deleted + Cardinality(worker[w].lines),
                      recovered |-> @.recovered + Cardinality(worker[w].mails)]]
    /\ recovered' = [recovered EXCEPT ![o] = @ + Cardinality(worker[w].mails)]
    /\ WorkerGoes(w, NextOrg(w))
    /\ UNCHANGED <<clock, said, born, poisoned, faults>>

\* A statement of the transaction throws: ROLLBACK.
OrgFails(w) ==
    /\ InTx(w)
    /\ IF worker[w].org \in poisoned
       THEN UNCHANGED faults
       ELSE faults < MaxFaults /\ faults' = faults + 1
    /\ WorkerGoes(w, AfterFailure(w))
    /\ UNCHANGED <<clock, data, poisoned>>

\* The process dies; the database rolls its transaction back.  The job is not
\* tried again: the next tick does what this one missed.
WorkerDies(w) ==
    /\ worker[w] # Idle
    /\ faults < MaxFaults
    /\ faults' = faults + 1
    /\ WorkerGoes(w, Idle)
    /\ UNCHANGED <<clock, data, poisoned>>

----------------------------------------------------------------------------
Sweep(w) ==
    \/ StartTick(w) \/ DeleteBatch(w) \/ RecoverMails(w) \/ CommitOrg(w)
    \/ (InTx(w) /\ worker[w].org \in poisoned /\ OrgFails(w))

Next ==
    \/ Tick
    \/ \E o \in Orgs : Speak(o) \/ \E m \in Mails : Lease(o, m) \/ Settle(o, m)
    \/ \E w \in Workers : Sweep(w) \/ OrgFails(w) \/ WorkerDies(w)

Spec == Init /\ [][Next]_vars

\* The job is repeated, a tick goes on, and a transaction that must fail
\* fails in the end.
FairSpec == Spec /\ WF_vars(Tick) /\ \A w \in Workers : WF_vars(Sweep(w))

----------------------------------------------------------------------------
(* Properties.                                                             *)

\* Every variable has its type.
TypeOK ==
    /\ clock \in Times
    /\ said \in [Orgs -> 0..MaxLines]
    /\ born \in [Orgs -> [Lines -> Times]]
    /\ gone \in [Orgs -> SUBSET Lines]
    /\ mail \in [Orgs -> [Mails -> MailRows]]
    /\ worker \in [Workers -> WorkerStates]
    /\ audited \in [Orgs -> [deleted : Nat, recovered : Nat]]
    /\ recovered \in [Orgs -> Nat]
    /\ poisoned \in SUBSET Orgs
    /\ faults \in 0..MaxFaults

\* The activity log tells exactly what the sweeps did: the counts of its rows
\* add up to the lines that are gone and the mails that were recovered,
\* whichever ticks overlapped, failed or died.
AuditTellsAll ==
    \A o \in Orgs : audited[o] = [deleted |-> Cardinality(gone[o]), recovered |-> recovered[o]]

\* A line is kept for its whole term: the one that disappears is older than
\* the retention period, the boundary included.
LinesKeepTheirTerm ==
    [][\A o \in Orgs : \A k \in gone'[o] \ gone[o] :
          k <= said[o] /\ born[o][k] + Retained < clock]_vars

\* No mail is taken from a delivery worker whose lease is younger than the
\* limit, also when it was recovered and leased again while a tick ran.
LeasesKeepTheirTerm ==
    [][\A o \in Orgs, m \in Mails :
          mail[o][m].st = "sending" /\ mail'[o][m] = Queued
              => mail[o][m].at + StuckAfter < clock]_vars

\* Nothing is taken before its time, neither from the call nor from a worker.
TermsAreKept == LinesKeepTheirTerm /\ LeasesKeepTheirTerm

\* Whatever expires goes, in every organization whose transactions can
\* succeed: neither a poisoned organization nor full batches, overlapping
\* ticks or crashes hold it up for ever.
Overdue(o) ==
    (\E k \in 1..said[o] : k \notin gone[o] /\ born[o][k] + Retained < clock)
        \/ \E m \in Mails : mail[o][m].st = "sending" /\ mail[o][m].at + StuckAfter < clock
Reclaimed == \A o \in Busy : (o \notin poisoned /\ Overdue(o)) ~> ~Overdue(o)
==============================================================================
