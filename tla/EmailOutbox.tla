---------------------------- MODULE EmailOutbox ----------------------------
(***************************************************************************)
(* The transactional e-mail outbox of one organization: the email_outbox   *)
(* table, the delivery workers that lease rows from it and call the mail   *)
(* provider, and the retention sweep that frees rows a worker left in      *)
(* 'sending'.                                                              *)
(*                                                                         *)
(* Every database transaction (withOrgContext) is one atomic step; a       *)
(* worker keeps what it read at the lease while it talks to the provider,  *)
(* so other workers and the sweep run between its transactions.            *)
(*                                                                         *)
(* Clock.  A timestamp that is compared with the wall clock is kept as the *)
(* time that is left or has passed: 'wait' is max(next_attempt_at - now,   *)
(* 0) and 'age' is min(now - locked_at, StuckAfter + 1).  Tick lets one    *)
(* unit of time pass for every row.                                        *)
(***************************************************************************)
EXTENDS Integers, FiniteSets

CONSTANTS
    Emails,         \* the rows that may be queued (message contents are irrelevant)
    Workers,        \* delivery worker processes, one tick at a time each
    NoWorker,       \* the NULL of lock_token
    MaxAttempts,    \* config.maxAttempts
    BaseBackoff,    \* config.baseBackoffMs, in clock units
    MaxBackoff,     \* MAX_BACKOFF_MS, in clock units
    StuckAfter,     \* emailStuckSendingAfterSec, in clock units
    RecoveryBatch,  \* emailRecoveryBatchSize
    MaxRecoveries,  \* bound of the model: recoveries of one row
    Faults          \* which failures of the environment may happen

ASSUME WorkersAssumption == IsFiniteSet(Workers) /\ NoWorker \notin Workers
ASSUME AttemptsAssumption == MaxAttempts \in Nat \ {0}
ASSUME ClockAssumption ==
    BaseBackoff \in Nat /\ MaxBackoff \in Nat /\ StuckAfter \in Nat
ASSUME RecoveryAssumption == RecoveryBatch \in Nat \ {0} /\ MaxRecoveries \in Nat
ASSUME FaultsAssumption == Faults \subseteq {"crash", "lost_response", "db_error"}

VARIABLES
    row,        \* row[e]: the columns of the row that decide what happens to it
    worker,     \* worker[w]: where a worker is in its tick and what it has read
    accepted,   \* accepted[e]: copies the mail provider has taken for delivery
    recoveries, \* recoveries[e]: times the retention sweep freed the row
    excuses,    \* history: events after which a second copy cannot be ruled out
    hopeless    \* history: e-mails refused for good or impossible to decrypt

vars == <<row, worker, accepted, recoveries, excuses, hopeless>>

Statuses == {"absent", "pending", "sending", "failed", "delivered", "dead_lettered"}
Live     == {"pending", "sending", "failed"}
Terminal == {"delivered", "dead_lettered"}

\* The sensitive payload: NULL, or a ciphertext the configured key opens or not.
Payloads == {"none", "good", "bad"}

Providers == {"dev_outbox", "resend"}
Delays    == 0..MaxBackoff
Ages      == 0..(StuckAfter + 1)
Owners    == Workers \cup {NoWorker}

Rows == [status: Statuses, provider: Providers, attempts: Nat, wait: Delays,
         age: Ages, lock: Owners, payload: Payloads]

\* Where a worker is: outside a tick, holding a leased row, or holding the
\* answer of the provider ("unexpected": markDelivered itself has thrown).
Phases == {"idle", "leased", "sent", "retryable", "permanent", "unexpected"}

Idle == [pc |-> "idle"]
Busy == [pc: Phases \ {"idle"}, email: Emails, attempts: Nat, payload: Payloads]

Holds(w, e) == worker[w].pc # "idle" /\ worker[w].email = e

----------------------------------------------------------------------------
(* The repository's statements, as functions of the row they update.       *)

Archived(r) == [r EXCEPT !.status = "delivered", !.provider = "dev_outbox"]
Queued(r, p) == [r EXCEPT !.status = "pending", !.payload = p]

\* Definitions named Bug... are plausible mistakes; PROJECT.json names the
\* definition each one replaces and the property that then fails.
BugDueAnyLive(r) == r.status \in Live /\ r.wait = 0
BugDueNeverRetries(r) == r.status = "pending" /\ r.wait = 0

\* LIMIT 1 FOR UPDATE SKIP LOCKED, then the UPDATE to 'sending'.
Due(r) == r.status \in {"pending", "failed"} /\ r.wait = 0

Leased(r, w) == [r EXCEPT !.status = "sending", !.age = 0, !.lock = w]

BugDeliveredKeepsPayload(r) ==
    [r EXCEPT !.status = "delivered", !.age = 0, !.lock = NoWorker]

\* markDelivered followed by scrubSensitivePayload in one transaction.
MarkDelivered(r) ==
    [r EXCEPT !.status = "delivered", !.age = 0, !.lock = NoWorker, !.payload = "none"]

MarkRetryableFailure(r, delay) ==
    [r EXCEPT !.status = "failed", !.attempts = @ + 1, !.wait = delay,
              !.age = 0, !.lock = NoWorker]

\* markDeadLetter followed by scrubSensitivePayload in one transaction.
MarkDeadLetter(r) ==
    [r EXCEPT !.status = "dead_lettered", !.attempts = @ + 1,
              !.age = 0, !.lock = NoWorker, !.payload = "none"]

BugNoGate(e) == row[e].status # "absent"

\* Every mark* gates on the status alone and throws, rolling its transaction
\* back, when the gate is closed.
MarkGate(e) == row[e].status = "sending"

BugRecoverKeepsLock(r) == [r EXCEPT !.status = "failed", !.wait = 0, !.age = 0]

RecoverStuckSending(r) ==
    [r EXCEPT !.status = "failed", !.wait = 0, !.age = 0, !.lock = NoWorker]

ComputeBackoff(attemptCountAfter) ==
    LET raw == BaseBackoff * 2 ^ (attemptCountAfter - 1)
    IN  IF raw \in Delays THEN raw ELSE MaxBackoff

----------------------------------------------------------------------------
Absent == [status |-> "absent", provider |-> "resend", attempts |-> 0, wait |-> 0,
           age |-> 0, lock |-> NoWorker, payload |-> "none"]

Init ==
    /\ row = [e \in Emails |-> Absent]
    /\ worker = [w \in Workers |-> Idle]
    /\ accepted = [e \in Emails |-> 0]
    /\ recoveries = [e \in Emails |-> 0]
    /\ excuses = [e \in Emails |-> 0]
    /\ hopeless = {}

\* A signup, invitation or reset flow archives its mail (dev provider).
InsertDeliveredDevEmail(e) ==
    /\ row[e].status = "absent"
    /\ row' = [row EXCEPT ![e] = Archived(row[e])]
    /\ UNCHANGED <<worker, accepted, recoveries, excuses, hopeless>>

\* The same flows queue their mail (resend provider).  The ciphertext may be
\* one the worker's key does not open: keys are configured per process.
InsertPendingEmail(e) ==
    /\ row[e].status = "absent"
    /\ \E p \in {"good", "bad"} :
          row' = [row EXCEPT ![e] = Queued(row[e], p)]
    /\ UNCHANGED <<worker, accepted, recoveries, excuses, hopeless>>

\* First transaction of a tick: lease one due row and remember its columns.
LeaseDueEmail(w, e) ==
    /\ worker[w].pc = "idle"
    /\ Due(row[e])
    /\ row' = [row EXCEPT ![e] = Leased(row[e], w)]
    /\ worker' = [worker EXCEPT ![w] =
          [pc |-> "leased", email |-> e,
           attempts |-> row[e].attempts, payload |-> row[e].payload]]
    /\ UNCHANGED <<accepted, recoveries, excuses, hopeless>>

\* The tick ends for worker w, having applied newRow if the gate was open; a
\* closed gate throws, and the tick ends with the transaction rolled back.
FinishTick(w, newRow) ==
    LET e == worker[w].email
    IN  /\ row' = IF MarkGate(e) THEN [row EXCEPT ![e] = newRow] ELSE row
        /\ worker' = [worker EXCEPT ![w] = Idle]

\* The payload is missing or cannot be decrypted: dead-letter at once.
RejectPayload(w) ==
    /\ worker[w].pc = "leased"
    /\ worker[w].payload # "good"
    /\ FinishTick(w, MarkDeadLetter(row[worker[w].email]))
    /\ hopeless' = hopeless \cup {worker[w].email}
    /\ UNCHANGED <<accepted, recoveries, excuses>>

CanSend(w) == worker[w].pc = "leased" /\ worker[w].payload = "good"

Answer(w, pc) == worker' = [worker EXCEPT ![w].pc = pc]

BugAcceptedReadAsFailure(w) ==
    /\ CanSend(w)
    /\ accepted' = [accepted EXCEPT ![worker[w].email] = @ + 1]
    /\ Answer(w, "retryable")
    /\ UNCHANGED <<row, recoveries, excuses, hopeless>>

\* adapter.send returned a message id.
SendAccepted(w) ==
    /\ CanSend(w)
    /\ accepted' = [accepted EXCEPT ![worker[w].email] = @ + 1]
    /\ Answer(w, "sent")
    /\ UNCHANGED <<row, recoveries, excuses, hopeless>>

\* The provider took the message but its answer was lost or unreadable: the
\* adapter reports a retryable failure.
SendLostResponse(w) ==
    /\ "lost_response" \in Faults
    /\ CanSend(w)
    /\ accepted' = [accepted EXCEPT ![worker[w].email] = @ + 1]
    /\ excuses' = [excuses EXCEPT ![worker[w].email] = @ + 1]
    /\ Answer(w, "retryable")
    /\ UNCHANGED <<row, recoveries, hopeless>>

BugRefusalReadAsSuccess(w) ==
    /\ CanSend(w)
    /\ Answer(w, "sent")
    /\ UNCHANGED <<row, accepted, recoveries, excuses, hopeless>>

\* Connection refused or a 5xx.
SendRefused(w) ==
    /\ CanSend(w)
    /\ Answer(w, "retryable")
    /\ UNCHANGED <<row, accepted, recoveries, excuses, hopeless>>

\* Any other status of the provider.
SendRefusedForGood(w) ==
    /\ CanSend(w)
    /\ Answer(w, "permanent")
    /\ hopeless' = hopeless \cup {worker[w].email}
    /\ UNCHANGED <<row, accepted, recoveries, excuses>>

\* The transaction after a successful send.
MarkSent(w) ==
    /\ worker[w].pc = "sent"
    /\ MarkGate(worker[w].email)
    /\ FinishTick(w, MarkDelivered(row[worker[w].email]))
    /\ UNCHANGED <<accepted, recoveries, excuses, hopeless>>

\* ... throws because the row has left 'sending', or because the database
\* fails.  The throw is inside the try block of the send, so it is handled
\* as if the send had failed.
MarkSentThrows(w) ==
    /\ worker[w].pc = "sent"
    /\ ~MarkGate(worker[w].email) \/ "db_error" \in Faults
    /\ excuses' = [excuses EXCEPT ![worker[w].email] = @ + 1]
    /\ Answer(w, "unexpected")
    /\ UNCHANGED <<row, accepted, recoveries, hopeless>>

\* handleSendFailure, its branches in the code's order.  The attempt count is
\* the one read at the lease.
HandlePermanent(w) ==
    /\ worker[w].pc = "permanent"
    /\ FinishTick(w, MarkDeadLetter(row[worker[w].email]))

BugCountsTwice(w) == worker[w].attempts + 2

AttemptCountAfter(w) == worker[w].attempts + 1

HandleLastAttempt(w) ==
    /\ worker[w].pc \in {"retryable", "unexpected"}
    /\ AttemptCountAfter(w) >= MaxAttempts
    /\ FinishTick(w, MarkDeadLetter(row[worker[w].email]))

BugRetriesAtCap(w) ==
    /\ worker[w].pc \in {"retryable", "unexpected"}
    /\ AttemptCountAfter(w) <= MaxAttempts
    /\ FinishTick(w, MarkRetryableFailure(row[worker[w].email],
                                          ComputeBackoff(AttemptCountAfter(w))))

HandleRetry(w) ==
    /\ worker[w].pc \in {"retryable", "unexpected"}
    /\ AttemptCountAfter(w) < MaxAttempts
    /\ FinishTick(w, MarkRetryableFailure(row[worker[w].email],
                                          ComputeBackoff(AttemptCountAfter(w))))

HandleSendFailure(w) ==
    /\ HandlePermanent(w) \/ HandleLastAttempt(w) \/ HandleRetry(w)
    /\ UNCHANGED <<accepted, recoveries, excuses, hopeless>>

\* The database fails in the transaction that would have ended the tick: the
\* sweep over the organizations logs it and goes on.
TickAborts(w) ==
    /\ "db_error" \in Faults
    /\ \/ worker[w].pc \in {"retryable", "unexpected", "permanent"}
       \/ worker[w].pc = "leased" /\ worker[w].payload # "good"
    /\ worker' = [worker EXCEPT ![w] = Idle]
    /\ UNCHANGED <<row, accepted, recoveries, excuses, hopeless>>

\* The worker process dies; a restarted one knows nothing of the lease.
Crash(w) ==
    /\ "crash" \in Faults
    /\ worker[w].pc # "idle"
    /\ worker' = [worker EXCEPT ![w] = Idle]
    /\ UNCHANGED <<row, accepted, recoveries, excuses, hopeless>>

BugStuckAtOnce(e) == row[e].status = "sending"

Stuck(e) == row[e].status = "sending" /\ row[e].age > StuckAfter

\* One retention sweep of the organization.  SKIP LOCKED may leave out rows
\* another transaction holds, so any batch of stuck rows may be taken.
RecoverSweep ==
    \E S \in SUBSET {e \in Emails : Stuck(e) /\ recoveries[e] < MaxRecoveries} :
        /\ S # {} /\ Cardinality(S) <= RecoveryBatch
        /\ row' = [e \in Emails |-> IF e \in S THEN RecoverStuckSending(row[e]) ELSE row[e]]
        /\ recoveries' = [e \in Emails |-> IF e \in S THEN recoveries[e] + 1 ELSE recoveries[e]]
        /\ excuses' = [e \in Emails |-> IF e \in S THEN excuses[e] + 1 ELSE excuses[e]]
        /\ UNCHANGED <<worker, accepted, hopeless>>

TimerRuns(r) ==
    \/ r.status = "failed" /\ r.wait > 0
    \/ r.status = "sending" /\ r.age <= StuckAfter

Elapsed(r) ==
    IF ~TimerRuns(r) THEN r
    ELSE IF r.status = "failed" THEN [r EXCEPT !.wait = @ - 1]
    ELSE [r EXCEPT !.age = @ + 1]

Tick ==
    /\ \E e \in Emails : TimerRuns(row[e])
    /\ row' = [e \in Emails |-> Elapsed(row[e])]
    /\ UNCHANGED <<worker, accepted, recoveries, excuses, hopeless>>

----------------------------------------------------------------------------
Send(w) ==
    SendAccepted(w) \/ SendLostResponse(w) \/ SendRefused(w) \/ SendRefusedForGood(w)

\* What a worker that holds a lease does next.
WorkerStep(w) ==
    RejectPayload(w) \/ Send(w) \/ MarkSent(w) \/ MarkSentThrows(w)
        \/ HandleSendFailure(w)

Enqueue(e) == InsertDeliveredDevEmail(e) \/ InsertPendingEmail(e)

Next ==
    \/ \E e \in Emails : Enqueue(e)
    \/ \E w \in Workers, e \in Emails : LeaseDueEmail(w, e)
    \/ \E w \in Workers : WorkerStep(w) \/ TickAborts(w) \/ Crash(w)
    \/ RecoverSweep
    \/ Tick

Spec == Init /\ [][Next]_vars

\* The delivery tick and the retention sweep are repeatable jobs, an awaited
\* call returns (or the process dies), and time passes.
Fairness ==
    /\ \A w \in Workers : WF_vars(\E e \in Emails : LeaseDueEmail(w, e))
    /\ \A w \in Workers : WF_vars(WorkerStep(w))
    /\ WF_vars(RecoverSweep)
    /\ WF_vars(Tick)

FairSpec == Spec /\ Fairness

----------------------------------------------------------------------------
TypeOK ==
    /\ row \in [Emails -> Rows]
    /\ worker \in [Workers -> {Idle} \cup Busy]
    /\ accepted \in [Emails -> Nat]
    /\ recoveries \in [Emails -> Nat]
    /\ excuses \in [Emails -> Nat]
    /\ hopeless \subseteq Emails

\* The secret URL is kept exactly as long as the mail may still be sent: a
\* late transaction of a stale worker must not wipe the payload of a row that
\* was freed for another attempt, and no settled row keeps one.
PayloadKeptWhileLive ==
    \A e \in Emails : row[e].payload # "none" <=> row[e].status \in Live

\* The lock columns mark the rows in 'sending' and no others, so the sweep
\* (which needs locked_at) can free every row that is stuck.
LockedIffSending ==
    \A e \in Emails : row[e].lock # NoWorker <=> row[e].status = "sending"

\* FOR UPDATE SKIP LOCKED: two workers hold the same row only after the sweep
\* took it from one of them, or a worker lost to the sweep released the
\* other's lease.
LeaseIsExclusive ==
    \A e \in Emails : excuses[e] = 0 =>
        /\ \A v, w \in Workers : Holds(v, e) /\ Holds(w, e) => v = w
        /\ \A w \in Workers : Holds(w, e) => row[e].status = "sending" /\ row[e].lock = w

\* Copies of one message are bounded: every copy after the first is paid for
\* by a recovery, a lost answer or a failed markDelivered of that e-mail.
CopiesExcused == \A e \in Emails : accepted[e] <= 1 + excuses[e]

\* A mail the provider took is reported as given up only after such an event.
DeadLetterNotSent ==
    \A e \in Emails :
        row[e].status = "dead_lettered" /\ accepted[e] > 0 => excuses[e] > 0

\* A queued mail is called delivered only if the provider took a copy of it.
DeliveredWasAccepted ==
    \A e \in Emails :
        row[e].status = "delivered" /\ row[e].provider = "resend" => accepted[e] > 0

\* A mail is given up only after a permanent refusal or the configured number
\* of counted attempts, although the count used was read at the lease.
DeadLetterJustified ==
    \A e \in Emails :
        row[e].status = "dead_lettered" => e \in hopeless \/ row[e].attempts >= MaxAttempts

\* The attempt counter passes the cap by at most one per recovery: only a
\* worker whose lease was taken away counts with a stale attempt number.
AttemptsBounded ==
    \A e \in Emails : row[e].attempts <= MaxAttempts + recoveries[e]

\* What one mail can cost is bounded: copies and counted attempts.
EffortIsBounded == CopiesExcused /\ AttemptsBounded

\* delivered and dead_lettered are terminal, and an attempt is never uncounted.
TerminalIsFinal ==
    [][\A e \in Emails :
          /\ row[e].status \in Terminal => row'[e] = row[e]
          /\ row[e].attempts <= row'[e].attempts]_vars

\* The sweep takes a row only from a lease older than the threshold, and never
\* counts the lost attempt: only mark* does.
RecoveryOnlyWhenStuck ==
    [][\A e \in Emails : recoveries'[e] # recoveries[e] =>
          /\ row[e].status = "sending" /\ row[e].age > StuckAfter
          /\ row'[e].attempts = row[e].attempts /\ Due(row'[e])]_vars

\* The lease as the workers and the sweep rely on it: no row in 'sending'
\* without a lock that the sweep can find, no row with two workers, and none
\* that is taken from its worker in time.
LeaseIsSound == [](LockedIffSending /\ LeaseIsExclusive) /\ RecoveryOnlyWhenStuck

\* What a row says of its mail is so: the secret is there as long as it may
\* still go out, delivered and given up mean what they say, for good.
FateIsJustified ==
    /\ [](PayloadKeptWhileLive /\ DeliveredWasAccepted)
    /\ [](DeadLetterNotSent /\ DeadLetterJustified)
    /\ TerminalIsFinal

\* Every queued mail is settled, unless its row needs endless recoveries.
EmailSettles ==
    \A e \in Emails : row[e].status \in Live ~>
        (row[e].status \in Terminal \/ recoveries[e] = MaxRecoveries)

----------------------------------------------------------------------------
(* The outbox implements EmailPromise.                                     *)

Fate(r) ==
    CASE r.status = "absent" -> "none"
      [] r.status \in Live -> "queued"
      [] r.status = "dead_lettered" -> "dead"
      [] r.status = "delivered" ->
            IF r.provider = "dev_outbox" THEN "archived" ELSE "delivered"

Promise == INSTANCE EmailPromise
    WITH fate <- [e \in Emails |-> Fate(row[e])], copies <- accepted

\* Seen from the flow that queued it, every mail obeys EmailPromise, whatever
\* leases, retries, crashes and recoveries its row goes through.
KeepsPromise == Promise!PromiseSpec

----------------------------------------------------------------------------
\* The migration's words about the lease columns: concurrent workers do not
\* send the same mail twice (checked with no crash and no fault at all).
ConcurrentWorkersDoNotDoubleSend == \A e \in Emails : accepted[e] <= 1
=============================================================================
