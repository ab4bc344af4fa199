------------------------- MODULE EmailOutbox_proofs -------------------------
(***************************************************************************)
(* Proofs about EmailOutbox, for every number of mails, workers, attempts  *)
(* and recoveries.                                                         *)
(***************************************************************************)
EXTENDS EmailOutbox, FiniteSetTheorems, TLAPS

\* The values the statements write are of the column types.
LEMMA Columns ==
    /\ \A s \in {"absent", "pending", "sending", "failed", "delivered", "dead_lettered"} :
          s \in Statuses
    /\ "dev_outbox" \in Providers /\ "resend" \in Providers
    /\ 0 \in Delays /\ 0 \in Ages /\ NoWorker \in Owners
    /\ \A w \in Workers : w \in Owners
    /\ \A p \in {"none", "good", "bad"} : p \in Payloads
    /\ \A n \in Nat : n + 1 \in Nat
    /\ \A d \in Delays : d > 0 => d - 1 \in Delays
    /\ \A a \in Ages : a <= StuckAfter => a + 1 \in Ages
BY ClockAssumption DEF Statuses, Providers, Delays, Ages, Owners, Payloads

\* A delay of computeBackoffMs never passes the cap.
LEMMA BackoffType ==
    ASSUME NEW n PROVE ComputeBackoff(n) \in Delays
BY ClockAssumption DEF ComputeBackoff, Delays

\* Every statement of the repository yields a row again.
LEMMA RowType ==
    ASSUME NEW r \in Rows, NEW w \in Workers, NEW d \in Delays
    PROVE  /\ Leased(r, w) \in Rows
           /\ MarkDelivered(r) \in Rows
           /\ MarkRetryableFailure(r, d) \in Rows
           /\ MarkDeadLetter(r) \in Rows
<1>. USE Columns DEF Rows
<1>1. Leased(r, w) \in Rows
  BY DEF Leased
<1>2. MarkDelivered(r) \in Rows
  BY DEF MarkDelivered
<1>3. MarkRetryableFailure(r, d) \in Rows
  BY DEF MarkRetryableFailure
<1>4. MarkDeadLetter(r) \in Rows
  BY DEF MarkDeadLetter
<1>. QED BY <1>1, <1>2, <1>3, <1>4

\* So do the sweep's statement and the passage of time.
LEMMA TimedRowType ==
    ASSUME NEW r \in Rows
    PROVE  RecoverStuckSending(r) \in Rows /\ Elapsed(r) \in Rows
<1>. USE Columns DEF Rows
<1>1. RecoverStuckSending(r) \in Rows
  BY DEF RecoverStuckSending
<1>2. CASE ~TimerRuns(r)
  BY <1>1, <1>2 DEF Elapsed
<1>3. CASE TimerRuns(r) /\ r.status = "failed"
  BY <1>1, <1>3 DEF Elapsed, TimerRuns
<1>4. CASE TimerRuns(r) /\ r.status # "failed"
  BY <1>1, <1>4 DEF Elapsed, TimerRuns
<1>. QED BY <1>2, <1>3, <1>4

\* What a worker remembers has its type before and after its answer.
LEMMA AnswerType ==
    ASSUME TypeOK, NEW w \in Workers, worker[w].pc # "idle",
           NEW pc \in Phases \ {"idle"}, Answer(w, pc)
    PROVE  worker' \in [Workers -> {Idle} \cup Busy]
BY DEF TypeOK, Answer, Idle, Busy, Phases

\* A transaction that ends a tick keeps the types, whatever row it writes.
LEMMA FinishType ==
    ASSUME TypeOK, NEW w \in Workers, worker[w].pc # "idle",
           NEW r \in Rows, FinishTick(w, r)
    PROVE  row' \in [Emails -> Rows] /\ worker' \in [Workers -> {Idle} \cup Busy]
BY DEF TypeOK, FinishTick, MarkGate

LEMMA BusyWorker ==
    ASSUME TypeOK, NEW w \in Workers, worker[w].pc # "idle"
    PROVE  /\ worker[w] \in Busy
           /\ worker[w].email \in Emails
           /\ row[worker[w].email] \in Rows
           /\ worker[w].attempts \in Nat
BY DEF TypeOK, Idle, Busy

\* The columns and the workers' memory keep their types.
THEOREM Typing == Spec => []TypeOK
<1>1. Init => TypeOK
  BY Columns DEF Init, TypeOK, Absent, Rows
<1>2. TypeOK /\ [Next]_vars => TypeOK'
  <2>. SUFFICES ASSUME TypeOK, [Next]_vars PROVE TypeOK'
    OBVIOUS
  <2>1. ASSUME NEW e \in Emails, Enqueue(e) PROVE TypeOK'
    <3>1. /\ Archived(row[e]) \in Rows
          /\ \A p \in Payloads : Queued(row[e], p) \in Rows
      BY Columns DEF TypeOK, Rows, Archived, Queued
    <3>2. /\ "good" \in Payloads /\ "bad" \in Payloads
          /\ row \in [Emails -> Rows]
      BY Columns DEF TypeOK
    <3>3. row' \in [Emails -> Rows]
      BY <2>1, <3>1, <3>2 DEF Enqueue, InsertDeliveredDevEmail, InsertPendingEmail
    <3>. QED BY <2>1, <3>3 DEF TypeOK, Enqueue, InsertDeliveredDevEmail, InsertPendingEmail
  <2>2. ASSUME NEW w \in Workers, NEW e \in Emails, LeaseDueEmail(w, e) PROVE TypeOK'
    <3>1. Leased(row[e], w) \in Rows
      BY RowType, Columns DEF TypeOK
    <3>. QED BY <2>2, <3>1 DEF TypeOK, LeaseDueEmail, Busy, Phases, Rows
  <2>3. ASSUME NEW w \in Workers, RejectPayload(w) PROVE TypeOK'
    <3>1. MarkDeadLetter(row[worker[w].email]) \in Rows
      BY <2>3, BusyWorker, RowType, Columns DEF RejectPayload
    <3>. QED BY <2>3, <3>1, FinishType, BusyWorker DEF RejectPayload, TypeOK
  <2>4. ASSUME NEW w \in Workers, Send(w) PROVE TypeOK'
    <3>1. worker[w].pc # "idle"
      BY <2>4 DEF Send, SendAccepted, SendLostResponse, SendRefused, SendRefusedForGood, CanSend
    <3>2. worker' \in [Workers -> {Idle} \cup Busy]
      BY <2>4, <3>1, AnswerType
         DEF Send, SendAccepted, SendLostResponse, SendRefused, SendRefusedForGood, Phases
    <3>. QED BY <2>4, <3>1, <3>2, BusyWorker
         DEF TypeOK, Send, SendAccepted, SendLostResponse, SendRefused, SendRefusedForGood
  <2>5. ASSUME NEW w \in Workers, MarkSent(w) PROVE TypeOK'
    <3>1. MarkDelivered(row[worker[w].email]) \in Rows
      BY <2>5, BusyWorker, RowType, Columns DEF MarkSent
    <3>. QED BY <2>5, <3>1, FinishType DEF MarkSent, TypeOK
  <2>6. ASSUME NEW w \in Workers, MarkSentThrows(w) PROVE TypeOK'
    <3>1. worker' \in [Workers -> {Idle} \cup Busy]
      BY <2>6, AnswerType DEF MarkSentThrows, Phases
    <3>. QED BY <2>6, <3>1, BusyWorker DEF MarkSentThrows, TypeOK
  <2>7. ASSUME NEW w \in Workers, HandleSendFailure(w) PROVE TypeOK'
    <3>1. worker[w].pc # "idle"
      BY <2>7 DEF HandleSendFailure, HandlePermanent, HandleLastAttempt, HandleRetry
    <3>2. /\ MarkDeadLetter(row[worker[w].email]) \in Rows
          /\ MarkRetryableFailure(row[worker[w].email],
                 ComputeBackoff(AttemptCountAfter(w))) \in Rows
      BY <3>1, BusyWorker, RowType, BackoffType
    <3>3. row' \in [Emails -> Rows] /\ worker' \in [Workers -> {Idle} \cup Busy]
      BY <2>7, <3>1, <3>2, FinishType
         DEF HandleSendFailure, HandlePermanent, HandleLastAttempt, HandleRetry
    <3>. QED BY <2>7, <3>3 DEF HandleSendFailure, TypeOK
  <2>8. ASSUME NEW w \in Workers, TickAborts(w) \/ Crash(w) PROVE TypeOK'
    BY <2>8 DEF TickAborts, Crash, TypeOK
  <2>9. CASE RecoverSweep
    <3>1. \A e \in Emails : RecoverStuckSending(row[e]) \in Rows
      BY TimedRowType DEF TypeOK
    <3>. QED BY <2>9, <3>1 DEF RecoverSweep, TypeOK
  <2>10. CASE Tick
    <3>1. \A e \in Emails : Elapsed(row[e]) \in Rows
      BY TimedRowType DEF TypeOK
    <3>. QED BY <2>10, <3>1 DEF Tick, TypeOK
  <2>11. CASE UNCHANGED vars
    BY <2>11 DEF vars, TypeOK
  <2>. QED BY <2>1, <2>2, <2>3, <2>4, <2>5, <2>6, <2>7, <2>8, <2>9, <2>10, <2>11
       DEF Next, WorkerStep
<1>. QED BY <1>1, <1>2, PTL DEF Spec

-----------------------------------------------------------------------------
(* What each statement writes, column by column.                           *)

Columns5(q, status, lock, payload, attempts, provider) ==
    /\ q.status = status /\ q.lock = lock /\ q.payload = payload
    /\ q.attempts = attempts /\ q.provider = provider

LEMMA Effects ==
    ASSUME NEW r \in Rows, NEW w, NEW d, NEW p
    PROVE
      /\ Columns5(Leased(r, w), "sending", w, r.payload, r.attempts, r.provider)
      /\ Columns5(MarkDelivered(r), "delivered", NoWorker, "none", r.attempts, r.provider)
      /\ Columns5(MarkRetryableFailure(r, d), "failed", NoWorker, r.payload,
                  r.attempts + 1, r.provider)
      /\ Columns5(MarkDeadLetter(r), "dead_lettered", NoWorker, "none",
                  r.attempts + 1, r.provider)
      /\ Columns5(RecoverStuckSending(r), "failed", NoWorker, r.payload,
                  r.attempts, r.provider)
      /\ Columns5(Archived(r), "delivered", r.lock, r.payload, r.attempts, "dev_outbox")
      /\ Columns5(Queued(r, p), "pending", r.lock, p, r.attempts, r.provider)
      /\ Columns5(Elapsed(r), r.status, r.lock, r.payload, r.attempts, r.provider)
<1>. USE DEF Rows, Columns5
<1>1. Columns5(Leased(r, w), "sending", w, r.payload, r.attempts, r.provider)
  BY DEF Leased
<1>2. Columns5(MarkDelivered(r), "delivered", NoWorker, "none", r.attempts, r.provider)
  BY DEF MarkDelivered
<1>3. Columns5(MarkRetryableFailure(r, d), "failed", NoWorker, r.payload,
               r.attempts + 1, r.provider)
  BY DEF MarkRetryableFailure
<1>4. Columns5(MarkDeadLetter(r), "dead_lettered", NoWorker, "none",
               r.attempts + 1, r.provider)
  BY DEF MarkDeadLetter
<1>5. Columns5(RecoverStuckSending(r), "failed", NoWorker, r.payload,
               r.attempts, r.provider)
  BY DEF RecoverStuckSending
<1>6. Columns5(Archived(r), "delivered", r.lock, r.payload, r.attempts, "dev_outbox")
  BY DEF Archived
<1>7. Columns5(Queued(r, p), "pending", r.lock, p, r.attempts, r.provider)
  BY DEF Queued
<1>8. Columns5(Elapsed(r), r.status, r.lock, r.payload, r.attempts, r.provider)
  BY DEF Elapsed, TimerRuns
<1>. HIDE DEF Rows, Columns5
<1>. QED BY <1>1, <1>2, <1>3, <1>4, <1>5, <1>6, <1>7, <1>8

-----------------------------------------------------------------------------
(* Every step changes a row by one statement, from the status it gates on. *)

Marked(old, new) ==
    \/ new = MarkDelivered(old)
    \/ new = MarkDeadLetter(old)
    \/ \E d \in Delays : new = MarkRetryableFailure(old, d)
    \/ new = RecoverStuckSending(old)

Statement(old, new) ==
    \/ new = old
    \/ old.status = "absent" /\ new = Archived(old)
    \/ old.status = "absent" /\ \E p \in {"good", "bad"} : new = Queued(old, p)
    \/ Due(old) /\ \E w \in Workers : new = Leased(old, w)
    \/ old.status = "sending" /\ Marked(old, new)
    \/ new = Elapsed(old)

LEMMA RowStep ==
    ASSUME TypeOK, [Next]_vars, NEW e \in Emails
    PROVE  Statement(row[e], row'[e])
<1>. USE DEF Statement
<1>t. row \in [Emails -> Rows]
  BY DEF TypeOK
<1>1. ASSUME NEW f \in Emails, Enqueue(f) PROVE Statement(row[e], row'[e])
  BY <1>1, <1>t DEF Enqueue, InsertDeliveredDevEmail, InsertPendingEmail
<1>2. ASSUME NEW w \in Workers, NEW f \in Emails, LeaseDueEmail(w, f)
      PROVE  Statement(row[e], row'[e])
  BY <1>2, <1>t DEF LeaseDueEmail
<1>3. ASSUME NEW w \in Workers, NEW q, FinishTick(w, q), worker[w].pc # "idle",
             Marked(row[worker[w].email], q)
      PROVE  Statement(row[e], row'[e])
  BY <1>3, <1>t, BusyWorker DEF FinishTick, MarkGate
<1>4. ASSUME NEW w \in Workers, RejectPayload(w) PROVE Statement(row[e], row'[e])
  BY <1>4, <1>3 DEF RejectPayload, Marked
<1>5. ASSUME NEW w \in Workers, MarkSent(w) PROVE Statement(row[e], row'[e])
  BY <1>5, <1>3 DEF MarkSent, Marked
<1>6. ASSUME NEW w \in Workers, HandleSendFailure(w) PROVE Statement(row[e], row'[e])
  <2>1. CASE HandlePermanent(w)
    BY <2>1, <1>3 DEF HandlePermanent, Marked
  <2>2. CASE HandleLastAttempt(w)
    BY <2>2, <1>3 DEF HandleLastAttempt, Marked
  <2>3. CASE HandleRetry(w)
    BY <2>3, <1>3, BackoffType DEF HandleRetry, Marked
  <2>. QED BY <1>6, <2>1, <2>2, <2>3 DEF HandleSendFailure
<1>7. ASSUME NEW w \in Workers, Send(w) \/ MarkSentThrows(w) \/ TickAborts(w) \/ Crash(w)
      PROVE  Statement(row[e], row'[e])
  BY <1>7 DEF Send, SendAccepted, SendLostResponse, SendRefused, SendRefusedForGood,
              MarkSentThrows, TickAborts, Crash
<1>8. CASE RecoverSweep
  BY <1>8, <1>t DEF RecoverSweep, Stuck, Marked
<1>9. CASE Tick
  BY <1>9, <1>t DEF Tick
<1>10. CASE UNCHANGED vars
  BY <1>10 DEF vars
<1>. QED BY <1>1, <1>2, <1>4, <1>5, <1>6, <1>7, <1>8, <1>9, <1>10 DEF Next, WorkerStep

-----------------------------------------------------------------------------
(* The payload and the lock columns.                                       *)

RowSafe(r) ==
    /\ r.payload # "none" <=> r.status \in Live
    /\ r.lock # NoWorker <=> r.status = "sending"

LEMMA StatementSafe ==
    ASSUME NEW old \in Rows, NEW new, Statement(old, new), RowSafe(old)
    PROVE  RowSafe(new)
<1>. USE Effects, WorkersAssumption DEF RowSafe, Columns5, Live
<1>1. CASE new = old
  BY <1>1
<1>2. CASE old.status = "absent" /\ new = Archived(old)
  BY <1>2
<1>3. CASE old.status = "absent" /\ \E p \in {"good", "bad"} : new = Queued(old, p)
  BY <1>3
<1>4. CASE Due(old) /\ \E w \in Workers : new = Leased(old, w)
  BY <1>4 DEF Due
<1>5. CASE old.status = "sending" /\ Marked(old, new)
  BY <1>5 DEF Marked
<1>6. CASE new = Elapsed(old)
  BY <1>6
<1>. QED BY <1>1, <1>2, <1>3, <1>4, <1>5, <1>6 DEF Statement

\* The secret is kept exactly while the mail may still be sent, and the lock
\* columns mark exactly the rows in 'sending', whatever stale workers do.
THEOREM RowsSafe == Spec => [](PayloadKeptWhileLive /\ LockedIffSending)
<1>. DEFINE Inv == \A e \in Emails : RowSafe(row[e])
<1>1. Init => Inv
  BY DEF Init, Absent, RowSafe, Live
<1>2. TypeOK /\ Inv /\ [Next]_vars => Inv'
  BY RowStep, StatementSafe DEF TypeOK
<1>3. Inv => PayloadKeptWhileLive /\ LockedIffSending
  BY DEF RowSafe, PayloadKeptWhileLive, LockedIffSending
<1>. QED BY <1>1, <1>2, <1>3, Typing, PTL DEF Spec

\* No statement changes a row once it is delivered or dead-lettered, and no
\* counted attempt is ever forgotten.
THEOREM SettledForGood == Spec => TerminalIsFinal
<1>1. ASSUME TypeOK, [Next]_vars, NEW e \in Emails
      PROVE  /\ row[e].status \in Terminal => row'[e] = row[e]
             /\ row[e].attempts <= row'[e].attempts
  <2>1. row[e] \in Rows /\ row[e].attempts \in Nat /\ Statement(row[e], row'[e])
    BY <1>1, RowStep DEF TypeOK, Rows
  <2>2. row[e].status \in Terminal => row'[e] = row[e]
    BY <2>1 DEF Statement, Terminal, Due, Elapsed, TimerRuns
  <2>3. row'[e].attempts \in {row[e].attempts, row[e].attempts + 1}
    BY <2>1, Effects DEF Statement, Marked, Columns5
  <2>. QED BY <2>1, <2>2, <2>3
<1>2. TypeOK /\ [Next]_vars =>
        [\A e \in Emails :
            /\ row[e].status \in Terminal => row'[e] = row[e]
            /\ row[e].attempts <= row'[e].attempts]_vars
  BY <1>1
<1>. QED BY <1>2, Typing, PTL DEF Spec, TerminalIsFinal

-----------------------------------------------------------------------------
(* What a worker that holds a row may assume of it.  While no excuse has    *)
(* been recorded the lease is still its own; in any case the row remembers  *)
(* at least the attempts the worker has read.                               *)

Held(w, e) ==
    /\ row[e].status # "absent" /\ row[e].provider = "resend"
    /\ worker[w].attempts <= row[e].attempts
    /\ worker[w].pc = "sent" => accepted[e] > 0
    /\ worker[w].pc = "permanent" => e \in hopeless
    /\ excuses[e] = 0 =>
          /\ row[e].status = "sending" /\ row[e].lock = w
          /\ accepted[e] > 0 => worker[w].pc = "sent"

\* What the mail provider has done is reflected in the row.
Honest(e) ==
    /\ row[e].status = "absent" => accepted[e] = 0 /\ excuses[e] = 0
    /\ row[e].status # "delivered" => row[e].provider = "resend"
    /\ row[e].status = "delivered" /\ row[e].provider = "resend" => accepted[e] > 0
    /\ row[e].status = "dead_lettered" =>
          e \in hopeless \/ row[e].attempts >= MaxAttempts
    /\ excuses[e] = 0 /\ row[e].status \in {"pending", "failed", "dead_lettered"} =>
          accepted[e] = 0

HInv == \A e \in Emails : Honest(e) /\ \A w \in Workers : Holds(w, e) => Held(w, e)

\* A statement on the row of e and the idling of worker w, who held e.
LEMMA FinishHeld ==
    ASSUME TypeOK, LockedIffSending, HInv, NEW w \in Workers, worker[w].pc # "idle",
           NEW q \in Rows, FinishTick(w, q), UNCHANGED <<accepted, excuses>>,
           hopeless \subseteq hopeless',
           q.status \in {"delivered", "dead_lettered", "failed"},
           q.provider = row[worker[w].email].provider,
           row[worker[w].email].attempts <= q.attempts,
           q.status = "delivered" => worker[w].pc = "sent",
           q.status = "failed" => worker[w].pc # "sent",
           q.status = "dead_lettered" =>
              /\ worker[w].pc # "sent"
              /\ worker[w].email \in hopeless' \/ q.attempts >= MaxAttempts
    PROVE  HInv'
<1>. DEFINE e == worker[w].email
<1>1. e \in Emails /\ Holds(w, e) /\ Held(w, e) /\ Honest(e)
  BY BusyWorker DEF HInv, Holds
<1>2. /\ worker' = [worker EXCEPT ![w] = Idle]
      /\ row' = IF row[e].status = "sending" THEN [row EXCEPT ![e] = q] ELSE row
      /\ row \in [Emails -> Rows] /\ worker \in [Workers -> {Idle} \cup Busy]
      /\ accepted' = accepted /\ excuses' = excuses
      /\ accepted[e] \in Nat
  BY <1>1 DEF FinishTick, MarkGate, TypeOK
<1>3. ASSUME NEW f \in Emails, NEW v \in Workers, Holds(v, f)'
      PROVE  v # w /\ worker'[v] = worker[v] /\ Holds(v, f) /\ Held(v, f)
  BY <1>2, <1>3 DEF Holds, Idle, HInv
<1>4. ASSUME NEW f \in Emails PROVE Honest(f)'
  <2>1. CASE f # e \/ row[e].status # "sending"
    BY <1>2, <2>1 DEF HInv, Honest
  <2>2. CASE f = e /\ row[e].status = "sending"
    <3>1. row'[f] = q /\ q.status # "absent"
      BY <1>1, <1>2, <2>2
    <3>2. q.status = "delivered" => accepted[e] > 0
      BY <1>1 DEF Held
    <3>3. excuses[e] = 0 /\ q.status \in {"failed", "dead_lettered"} => accepted[e] = 0
      BY <1>1, <1>2 DEF Held
    <3>4. q.provider = "resend"
      BY <1>1 DEF Held
    <3>. QED BY <1>2, <2>2, <3>1, <3>2, <3>3, <3>4 DEF Honest
  <2>. QED BY <2>1, <2>2
<1>5. ASSUME NEW f \in Emails, NEW v \in Workers, Holds(v, f)' PROVE Held(v, f)'
  <2>1. v # w /\ worker'[v] = worker[v] /\ Held(v, f)
    BY <1>3, <1>5
  <2>2. CASE f # e \/ row[e].status # "sending"
    BY <1>2, <2>1, <2>2 DEF Held
  <2>3. CASE f = e /\ row[e].status = "sending"
    <3>1. row'[f] = q /\ q.status # "absent"
      BY <1>1, <1>2, <2>3
    <3>2. excuses[e] # 0
      BY <1>1, <2>1, <2>3 DEF Held
    <3>3. worker[v].attempts <= q.attempts
      <4>1. Holds(v, f)
        BY <1>3, <1>5
      <4>2. worker[v].attempts \in Nat /\ row[e].attempts \in Nat /\ q.attempts \in Nat
        BY <4>1, <1>1, <1>2 DEF Holds, Busy, Idle, Rows
      <4>. QED BY <2>1, <2>3, <4>2 DEF Held
    <3>. QED BY <1>2, <2>1, <2>3, <3>1, <3>2, <3>3 DEF Held
  <2>. QED BY <2>2, <2>3
<1>. QED BY <1>4, <1>5 DEF HInv

\* An answer of the provider, or a throw of markDelivered, changes nothing of
\* the row; only worker w learns of it.
LEMMA AnswerHeld ==
    ASSUME TypeOK, HInv, NEW w \in Workers, worker[w].pc # "idle",
           NEW pc \in Phases \ {"idle"}, Answer(w, pc), UNCHANGED row,
           \/ UNCHANGED accepted
           \/ accepted' = [accepted EXCEPT ![worker[w].email] = @ + 1],
           UNCHANGED excuses \/ excuses' = [excuses EXCEPT ![worker[w].email] = @ + 1],
           hopeless \subseteq hopeless',
           pc = "sent" => accepted' = [accepted EXCEPT ![worker[w].email] = @ + 1],
           pc = "permanent" => worker[w].email \in hopeless',
           pc # "sent" => \/ UNCHANGED accepted /\ worker[w].pc # "sent"
                          \/ excuses' = [excuses EXCEPT ![worker[w].email] = @ + 1]
    PROVE  HInv'
<1>. DEFINE e == worker[w].email
<1>1. /\ e \in Emails /\ Holds(w, e) /\ Held(w, e) /\ Honest(e)
      /\ worker[w] \in Busy
  BY BusyWorker DEF HInv, Holds
<1>2. /\ worker' = [worker EXCEPT ![w].pc = pc] /\ row' = row
      /\ worker \in [Workers -> {Idle} \cup Busy]
      /\ accepted \in [Emails -> Nat] /\ excuses \in [Emails -> Nat]
  BY DEF Answer, TypeOK
<1>3. \A f \in Emails : accepted[f] <= accepted'[f] /\ excuses[f] <= excuses'[f]
  BY <1>1, <1>2
<1>4. ASSUME NEW f \in Emails, f # e
      PROVE  accepted'[f] = accepted[f] /\ excuses'[f] = excuses[f]
  BY <1>1, <1>2, <1>4
<1>5. excuses'[e] = 0 => excuses[e] = 0
  BY <1>1, <1>2
<1>6. ASSUME NEW f \in Emails PROVE Honest(f)'
  <2>1. CASE f # e
    BY <1>2, <1>4, <2>1 DEF HInv, Honest
  <2>2. CASE f = e
    BY <1>1, <1>2, <1>3, <1>5, <2>2 DEF Honest, Held
  <2>. QED BY <2>1, <2>2
<1>7. ASSUME NEW f \in Emails, NEW v \in Workers, Holds(v, f)' PROVE Held(v, f)'
  <2>1. CASE v = w
    <3>1. /\ worker'[w].pc = pc /\ worker'[w].email = e
          /\ worker'[w].attempts = worker[w].attempts
      BY <1>1, <1>2 DEF Busy
    <3>2. f = e
      BY <2>1, <3>1, <1>7 DEF Holds
    <3>3. pc = "sent" => accepted'[e] > 0
      BY <1>1, <1>2
    <3>4. excuses'[e] = 0 /\ accepted'[e] > 0 => pc = "sent"
      BY <1>1, <1>2 DEF Held
    <3>. QED BY <1>1, <1>2, <1>5, <2>1, <3>1, <3>2, <3>3, <3>4 DEF Held
  <2>2. CASE v # w
    <3>1. worker'[v] = worker[v] /\ Holds(v, f) /\ Held(v, f)
      BY <1>2, <1>7, <2>2 DEF Holds, HInv
    <3>2. CASE f # e
      BY <1>2, <1>4, <3>1, <3>2 DEF Held
    <3>3. CASE f = e
      <4>1. excuses[e] # 0
        BY <1>1, <2>2, <3>1, <3>3 DEF Held
      <4>. QED BY <1>2, <1>3, <1>5, <3>1, <3>3, <4>1 DEF Held
    <3>. QED BY <3>2, <3>3
  <2>. QED BY <2>1, <2>2
<1>. QED BY <1>6, <1>7 DEF HInv

LEMMA HInvStep ==
    ASSUME TypeOK, LockedIffSending, HInv, [Next]_vars PROVE HInv'
<1>t. /\ row \in [Emails -> Rows] /\ worker \in [Workers -> {Idle} \cup Busy]
      /\ \A e \in Emails : row[e].attempts \in Nat
  BY DEF TypeOK, Rows
<1>1. ASSUME NEW f \in Emails, Enqueue(f) PROVE HInv'
  <2>1. /\ row'[f].status \in {"delivered", "pending"} /\ row[f].status = "absent"
        /\ row'[f].status = "delivered" => row'[f].provider = "dev_outbox"
        /\ row'[f].status = "pending" => row'[f].provider = row[f].provider
        /\ \A e \in Emails \ {f} : row'[e] = row[e]
        /\ UNCHANGED <<worker, accepted, excuses, hopeless>>
    BY <1>1, <1>t, Effects DEF Enqueue, InsertDeliveredDevEmail, InsertPendingEmail, Columns5
  <2>2. \A e \in Emails, w \in Workers : Holds(w, e)' => e # f /\ Held(w, e)'
    BY <2>1 DEF HInv, Holds, Held
  <2>3. \A e \in Emails : Honest(e)'
    BY <2>1 DEF HInv, Honest
  <2>. QED BY <2>2, <2>3 DEF HInv
<1>2. ASSUME NEW w \in Workers, NEW f \in Emails, LeaseDueEmail(w, f) PROVE HInv'
  <2>1. /\ row'[f].status = "sending" /\ row'[f].lock = w
        /\ row'[f].attempts = row[f].attempts /\ row'[f].provider = row[f].provider
        /\ row[f].status \in {"pending", "failed"}
        /\ \A e \in Emails \ {f} : row'[e] = row[e]
        /\ UNCHANGED <<accepted, excuses, hopeless>>
    BY <1>2, <1>t, Effects DEF LeaseDueEmail, Columns5, Due
  <2>2. /\ worker'[w].pc = "leased" /\ worker'[w].email = f
        /\ worker'[w].attempts = row[f].attempts
        /\ \A v \in Workers \ {w} : worker'[v] = worker[v]
    BY <1>2, <1>t DEF LeaseDueEmail
  <2>3. \A e \in Emails : Honest(e)'
    BY <2>1 DEF HInv, Honest
  <2>4. Held(w, f)'
    BY <1>t, <2>1, <2>2 DEF HInv, Honest, Held
  <2>5. ASSUME NEW e \in Emails, NEW v \in Workers \ {w}, Holds(v, e)' PROVE Held(v, e)'
    <3>1. Holds(v, e) /\ Held(v, e)
      BY <2>2, <2>5 DEF Holds, HInv
    <3>. QED BY <2>1, <2>2, <3>1 DEF Held
  <2>6. ASSUME NEW e \in Emails, Holds(w, e)' PROVE e = f
    BY <2>2, <2>6 DEF Holds
  <2>. QED BY <2>3, <2>4, <2>5, <2>6 DEF HInv
<1>3. ASSUME NEW w \in Workers, RejectPayload(w) PROVE HInv'
  <2>1. worker[w].pc = "leased" /\ row[worker[w].email] \in Rows
        /\ row[worker[w].email].attempts \in Nat
    BY <1>3, <1>t, BusyWorker DEF RejectPayload
  <2>2. MarkDeadLetter(row[worker[w].email]) \in Rows
    BY <2>1, RowType, Columns
  <2>. QED BY <1>3, <2>1, <2>2, FinishHeld, Effects DEF RejectPayload, Columns5
<1>4. ASSUME NEW w \in Workers, Send(w) PROVE HInv'
  BY <1>4, AnswerHeld
     DEF Send, SendAccepted, SendLostResponse, SendRefused, SendRefusedForGood, CanSend, Phases
<1>5. ASSUME NEW w \in Workers, MarkSent(w) PROVE HInv'
  <2>1. worker[w].pc = "sent" /\ row[worker[w].email] \in Rows
        /\ row[worker[w].email].attempts \in Nat
    BY <1>5, <1>t, BusyWorker DEF MarkSent
  <2>2. MarkDelivered(row[worker[w].email]) \in Rows
    BY <2>1, RowType, Columns
  <2>. QED BY <1>5, <2>1, <2>2, FinishHeld, Effects DEF MarkSent, Columns5
<1>6. ASSUME NEW w \in Workers, MarkSentThrows(w) PROVE HInv'
  BY <1>6, AnswerHeld DEF MarkSentThrows, Phases
<1>7. ASSUME NEW w \in Workers, HandleSendFailure(w) PROVE HInv'
  <2>. DEFINE e == worker[w].email
              dead == MarkDeadLetter(row[e])
              retry == MarkRetryableFailure(row[e], ComputeBackoff(AttemptCountAfter(w)))
  <2>1. /\ worker[w].pc \in {"permanent", "retryable", "unexpected"}
        /\ UNCHANGED <<accepted, excuses, hopeless>>
    BY <1>7 DEF HandleSendFailure, HandlePermanent, HandleLastAttempt, HandleRetry
  <2>2. /\ e \in Emails /\ row[e] \in Rows /\ row[e].attempts \in Nat
        /\ worker[w].attempts \in Nat
        /\ Held(w, e)
    BY <2>1, <1>t, BusyWorker DEF HInv, Holds
  <2>3. dead \in Rows /\ retry \in Rows
    BY <2>2, RowType, BackoffType, Columns
  <2>4. /\ Columns5(dead, "dead_lettered", NoWorker, "none", row[e].attempts + 1, row[e].provider)
        /\ Columns5(retry, "failed", NoWorker, row[e].payload, row[e].attempts + 1, row[e].provider)
    BY <2>2, Effects
  <2>5. CASE HandlePermanent(w)
    BY <2>1, <2>2, <2>3, <2>4, <2>5, FinishHeld DEF HandlePermanent, Columns5, Held
  <2>6. CASE HandleLastAttempt(w)
    <3>1. dead.attempts >= MaxAttempts
      BY <2>2, <2>4, <2>6, AttemptsAssumption
         DEF HandleLastAttempt, AttemptCountAfter, Columns5, Held
    <3>. QED BY <2>1, <2>2, <2>3, <2>4, <2>6, <3>1, FinishHeld DEF HandleLastAttempt, Columns5
  <2>7. CASE HandleRetry(w)
    BY <2>1, <2>2, <2>3, <2>4, <2>7, FinishHeld DEF HandleRetry, Columns5
  <2>. QED BY <1>7, <2>5, <2>6, <2>7 DEF HandleSendFailure
<1>8. ASSUME NEW w \in Workers, TickAborts(w) \/ Crash(w) PROVE HInv'
  <2>1. /\ worker' = [worker EXCEPT ![w] = Idle]
        /\ UNCHANGED <<row, accepted, excuses, hopeless>>
    BY <1>8 DEF TickAborts, Crash
  <2>2. \A e \in Emails, v \in Workers : Holds(v, e)' => Holds(v, e) /\ worker'[v] = worker[v]
    BY <1>t, <2>1 DEF Holds, Idle
  <2>. QED BY <2>1, <2>2 DEF HInv, Held, Honest
<1>9. CASE RecoverSweep
  <2>1. ASSUME NEW e \in Emails
        PROVE  \/ row'[e] = row[e] /\ excuses'[e] = excuses[e]
               \/ /\ row'[e].status = "failed" /\ row'[e].attempts = row[e].attempts
                  /\ row'[e].provider = row[e].provider /\ row[e].status = "sending"
                  /\ excuses'[e] > 0
    <3>1. \/ row'[e] = row[e] /\ excuses'[e] = excuses[e]
          \/ /\ row'[e] = RecoverStuckSending(row[e]) /\ excuses'[e] = excuses[e] + 1
             /\ row[e].status = "sending"
      BY <1>9 DEF RecoverSweep, Stuck
    <3>2. row[e] \in Rows /\ excuses[e] \in Nat
      BY <1>t DEF TypeOK
    <3>. QED BY <3>1, <3>2, Effects DEF Columns5
  <2>2. UNCHANGED <<worker, accepted, hopeless>>
    BY <1>9 DEF RecoverSweep
  <2>3. ASSUME NEW e \in Emails PROVE Honest(e)'
    BY <2>1, <2>2 DEF HInv, Honest
  <2>4. ASSUME NEW e \in Emails, NEW w \in Workers, Holds(w, e)' PROVE Held(w, e)'
    <3>1. Holds(w, e) /\ Held(w, e)
      BY <2>2, <2>4 DEF Holds, HInv
    <3>. QED BY <2>1, <2>2, <3>1 DEF Held
  <2>. QED BY <2>3, <2>4 DEF HInv
<1>10. CASE Tick
  <2>1. /\ \A e \in Emails : Columns5(row'[e], row[e].status, row[e].lock, row[e].payload,
                                      row[e].attempts, row[e].provider)
        /\ UNCHANGED <<worker, accepted, excuses, hopeless>>
    BY <1>10, <1>t, Effects DEF Tick
  <2>. QED BY <2>1 DEF HInv, Honest, Held, Holds, Columns5
<1>11. CASE UNCHANGED vars
  BY <1>11 DEF vars, HInv, Honest, Held, Holds
<1>. QED BY <1>1, <1>2, <1>3, <1>4, <1>5, <1>6, <1>7, <1>8, <1>9, <1>10, <1>11
     DEF Next, WorkerStep

\* A lease is exclusive, a dead-lettered mail was not taken by the provider,
\* until a recovery, a lost answer or a failed markDelivered; a delivered one
\* was; and giving up is always justified.
THEOREM LeaseAndOutcome ==
    Spec => [](LeaseIsExclusive /\ DeadLetterNotSent /\ DeliveredWasAccepted
                 /\ DeadLetterJustified)
<1>1. Init => HInv
  BY DEF Init, HInv, Honest, Holds, Absent, Idle
<1>2. TypeOK /\ LockedIffSending /\ HInv /\ [Next]_vars => HInv'
  BY HInvStep
<1>3. TypeOK /\ HInv => /\ LeaseIsExclusive /\ DeadLetterNotSent
                        /\ DeliveredWasAccepted /\ DeadLetterJustified
  <2>. SUFFICES ASSUME TypeOK, HInv
                PROVE  /\ LeaseIsExclusive /\ DeadLetterNotSent
                       /\ DeliveredWasAccepted /\ DeadLetterJustified
    OBVIOUS
  <2>1. LeaseIsExclusive
    BY DEF HInv, Held, LeaseIsExclusive
  <2>2. DeadLetterNotSent
    BY DEF HInv, Honest, DeadLetterNotSent, TypeOK
  <2>3. DeliveredWasAccepted /\ DeadLetterJustified
    BY DEF HInv, Honest, DeliveredWasAccepted, DeadLetterJustified
  <2>. QED BY <2>1, <2>2, <2>3
<1>. QED BY <1>1, <1>2, <1>3, Typing, RowsSafe, PTL DEF Spec

-----------------------------------------------------------------------------
(* Copies.  A worker with an unsent or failed send may still cause one copy *)
(* (by sending, or by handing the row on), and so may a row that is due:    *)
(* together with the copies already taken they stay within the budget.      *)

Claims(e) ==
    {w \in Workers : Holds(w, e) /\ worker[w].pc \in {"leased", "retryable", "unexpected"}}

Open(e) == IF row[e].status \in {"pending", "failed"} THEN 1 ELSE 0

Budget(e) == accepted[e] + Cardinality(Claims(e)) + Open(e) <= 1 + excuses[e]

LEMMA ClaimsFinite ==
    ASSUME NEW e
    PROVE  /\ IsFiniteSet(Claims(e)) /\ Cardinality(Claims(e)) \in Nat
           /\ IsFiniteSet(Claims(e)') /\ Cardinality(Claims(e)') \in Nat
<1>1. Claims(e) \subseteq Workers /\ Claims(e)' \subseteq Workers
  BY DEF Claims
<1>. QED BY <1>1, WorkersAssumption, FS_Subset, FS_CardinalityType

\* When only worker w moves, a claim set changes by w alone.
LEMMA ClaimDelta ==
    ASSUME NEW w \in Workers, NEW e, \A v \in Workers \ {w} : worker'[v] = worker[v]
    PROVE  Cardinality(Claims(e)') =
              Cardinality(Claims(e)) + (IF w \in Claims(e)' THEN 1 ELSE 0)
                                     - (IF w \in Claims(e) THEN 1 ELSE 0)
<1>1. \A v \in Workers \ {w} : v \in Claims(e)' <=> v \in Claims(e)
  BY DEF Claims, Holds
<1>2. CASE w \in Claims(e)' /\ w \notin Claims(e)
  <2>1. Claims(e)' = Claims(e) \cup {w}
    BY <1>1, <1>2 DEF Claims
  <2>2. IsFiniteSet(Claims(e)) /\ Cardinality(Claims(e)) \in Nat
    BY ClaimsFinite
  <2>3. Cardinality(Claims(e) \cup {w}) = Cardinality(Claims(e)) + 1
    BY <1>2, <2>2, FS_AddElement
  <2>. QED BY <1>2, <2>1, <2>2, <2>3
<1>3. CASE w \notin Claims(e)' /\ w \in Claims(e)
  <2>1. Claims(e)' = Claims(e) \ {w}
    BY <1>1, <1>3 DEF Claims
  <2>2. IsFiniteSet(Claims(e)) /\ Cardinality(Claims(e)) \in Nat
    BY ClaimsFinite
  <2>3. Cardinality(Claims(e) \ {w}) = Cardinality(Claims(e)) - 1
    BY <1>3, <2>2, FS_RemoveElement
  <2>. QED BY <1>3, <2>1, <2>2, <2>3
<1>4. CASE w \in Claims(e)' <=> w \in Claims(e)
  <2>1. Claims(e)' = Claims(e)
    BY <1>1, <1>4 DEF Claims
  <2>. QED BY <1>4, <2>1, ClaimsFinite
<1>. QED BY <1>2, <1>3, <1>4

\* The end of a tick moves a claim from the worker to the row, or drops it.
LEMMA FinishBudget ==
    ASSUME TypeOK, NEW w \in Workers, worker[w].pc # "idle", NEW q,
           FinishTick(w, q), UNCHANGED <<accepted, excuses>>,
           q.status \in {"delivered", "dead_lettered", "failed"},
           q.status = "failed" => worker[w].pc \in {"retryable", "unexpected"},
           NEW e \in Emails, Budget(e)
    PROVE  Budget(e)'
<1>1. /\ worker' = [worker EXCEPT ![w] = Idle] /\ worker \in [Workers -> {Idle} \cup Busy]
      /\ row \in [Emails -> Rows]
      /\ row' = IF MarkGate(worker[w].email) THEN [row EXCEPT ![worker[w].email] = q] ELSE row
      /\ accepted[e] \in Nat /\ excuses[e] \in Nat
  BY DEF FinishTick, TypeOK
<1>2. /\ \A v \in Workers \ {w} : worker'[v] = worker[v]
      /\ w \notin Claims(e)'
  BY <1>1 DEF Claims, Holds, Idle
<1>3. Open(e)' <= Open(e) + (IF w \in Claims(e) THEN 1 ELSE 0)
  <2>1. CASE e # worker[w].email \/ ~MarkGate(worker[w].email)
    BY <1>1, <2>1 DEF Open
  <2>2. CASE e = worker[w].email /\ MarkGate(worker[w].email)
    <3>1. row'[e] = q /\ (q.status = "failed" => w \in Claims(e))
      BY <1>1, <2>2 DEF Claims, Holds
    <3>. QED BY <3>1 DEF Open
  <2>. QED BY <2>1, <2>2
<1>4. Open(e) \in Nat /\ Open(e)' \in Nat
  BY DEF Open
<1>. QED BY <1>1, <1>2, <1>3, <1>4, ClaimDelta, ClaimsFinite DEF Budget

\* A call returns: a claim becomes a copy, is dropped, or is kept and excused.
LEMMA AnswerBudget ==
    ASSUME TypeOK, NEW w \in Workers, worker[w].pc \in {"leased", "sent"},
           NEW pc \in Phases \ {"idle", "leased"}, Answer(w, pc), UNCHANGED row,
           NEW e \in Emails, accepted'[e] \in Nat, excuses'[e] \in Nat,
           e # worker[w].email => accepted'[e] = accepted[e] /\ excuses'[e] = excuses[e],
           e = worker[w].email =>
              accepted'[e] + (IF pc \in {"retryable", "unexpected"} THEN 1 ELSE 0) + excuses[e]
                <= accepted[e] + (IF worker[w].pc = "leased" THEN 1 ELSE 0) + excuses'[e],
           Budget(e)
    PROVE  Budget(e)'
<1>1. /\ worker' = [worker EXCEPT ![w].pc = pc] /\ worker[w] \in Busy
      /\ worker \in [Workers -> {Idle} \cup Busy]
      /\ accepted \in [Emails -> Nat] /\ excuses \in [Emails -> Nat]
  BY BusyWorker DEF Answer, TypeOK
<1>2. /\ \A v \in Workers \ {w} : worker'[v] = worker[v]
      /\ worker'[w].pc = pc /\ worker'[w].email = worker[w].email
  BY <1>1 DEF Busy
<1>3. /\ w \in Claims(e)' <=> e = worker[w].email /\ pc \in {"retryable", "unexpected"}
      /\ w \in Claims(e) <=> e = worker[w].email /\ worker[w].pc = "leased"
  BY <1>2 DEF Claims, Holds, Phases
<1>4. Open(e)' = Open(e) /\ Open(e) \in Nat
  BY DEF Open
<1>. QED BY <1>1, <1>2, <1>3, <1>4, ClaimDelta, ClaimsFinite DEF Budget

LEMMA BudgetStep ==
    ASSUME TypeOK, HInv, [Next]_vars, NEW e \in Emails, Budget(e) PROVE Budget(e)'
<1>t. /\ row \in [Emails -> Rows] /\ worker \in [Workers -> {Idle} \cup Busy]
      /\ accepted[e] \in Nat /\ excuses[e] \in Nat
      /\ Open(e) \in {0, 1} /\ Open(e)' \in {0, 1}
      /\ Cardinality(Claims(e)) \in Nat
  BY ClaimsFinite DEF TypeOK, Open
<1>1. ASSUME NEW f \in Emails, Enqueue(f) PROVE Budget(e)'
  <2>1. /\ row[f].status = "absent" /\ (f # e => row'[e] = row[e])
        /\ UNCHANGED <<worker, accepted, excuses>>
    BY <1>1, <1>t DEF Enqueue, InsertDeliveredDevEmail, InsertPendingEmail
  <2>2. Claims(e)' = Claims(e)
    BY <2>1 DEF Claims, Holds
  <2>3. CASE f # e
    BY <1>t, <2>1, <2>2, <2>3 DEF Budget, Open
  <2>4. CASE f = e
    <3>1. accepted[e] = 0 /\ excuses[e] = 0 /\ Claims(e) = {}
      BY <2>1, <2>4 DEF HInv, Honest, Held, Claims
    <3>. QED BY <1>t, <2>1, <2>2, <3>1, FS_EmptySet DEF Budget
  <2>. QED BY <2>3, <2>4
<1>2. ASSUME NEW w \in Workers, NEW f \in Emails, LeaseDueEmail(w, f) PROVE Budget(e)'
  <2>1. /\ row[f].status \in {"pending", "failed"} /\ row'[f].status = "sending"
        /\ f # e => row'[e] = row[e]
        /\ UNCHANGED <<accepted, excuses>>
        /\ worker[w].pc = "idle" /\ worker'[w].email = f
        /\ \A v \in Workers \ {w} : worker'[v] = worker[v]
    BY <1>2, <1>t, Effects DEF LeaseDueEmail, Due, Columns5
  <2>2. w \notin Claims(e) /\ (w \in Claims(e)' => e = f)
    BY <2>1 DEF Claims, Holds
  <2>3. Cardinality(Claims(e)') <= Cardinality(Claims(e)) + (IF e = f THEN 1 ELSE 0)
    BY <1>t, <2>1, <2>2, ClaimDelta
  <2>4. Open(e)' = Open(e) - (IF e = f THEN 1 ELSE 0)
    BY <2>1 DEF Open
  <2>5. Cardinality(Claims(e)') \in Nat
    BY ClaimsFinite
  <2>. QED BY <1>t, <2>1, <2>3, <2>4, <2>5 DEF Budget
<1>3. ASSUME NEW w \in Workers, RejectPayload(w) PROVE Budget(e)'
  <2>1. worker[w].pc = "leased" /\ row[worker[w].email] \in Rows
    BY <1>3, BusyWorker DEF RejectPayload
  <2>2. MarkDeadLetter(row[worker[w].email]).status = "dead_lettered"
    BY <2>1, Effects DEF Columns5
  <2>. QED BY <1>3, <2>1, <2>2, FinishBudget DEF RejectPayload
<1>4. ASSUME NEW w \in Workers, Send(w) PROVE Budget(e)'
  <2>. DEFINE f == worker[w].email
  <2>1. PICK pc \in {"sent", "retryable", "permanent"} :
          /\ Answer(w, pc) /\ UNCHANGED row /\ worker[w].pc = "leased"
          /\ accepted'[e] \in Nat /\ excuses'[e] \in Nat
          /\ f # e => accepted'[e] = accepted[e] /\ excuses'[e] = excuses[e]
          /\ f = e => accepted'[e] + (IF pc = "retryable" THEN 1 ELSE 0) + excuses[e]
                        <= accepted[e] + 1 + excuses'[e]
    <3>1. worker[w].pc = "leased" /\ f \in Emails
      BY <1>4, BusyWorker
         DEF Send, SendAccepted, SendLostResponse, SendRefused, SendRefusedForGood, CanSend
    <3>2. CASE SendAccepted(w)
      BY <1>t, <3>1, <3>2 DEF TypeOK, SendAccepted
    <3>3. CASE SendLostResponse(w)
      BY <1>t, <3>1, <3>3 DEF TypeOK, SendLostResponse
    <3>4. CASE SendRefused(w)
      BY <1>t, <3>1, <3>4 DEF SendRefused
    <3>5. CASE SendRefusedForGood(w)
      BY <1>t, <3>1, <3>5 DEF SendRefusedForGood
    <3>. QED BY <1>4, <3>2, <3>3, <3>4, <3>5 DEF Send
  <2>. QED BY <2>1, AnswerBudget DEF Phases
<1>5. ASSUME NEW w \in Workers, MarkSent(w) PROVE Budget(e)'
  <2>1. worker[w].pc = "sent" /\ row[worker[w].email] \in Rows
    BY <1>5, BusyWorker DEF MarkSent
  <2>2. MarkDelivered(row[worker[w].email]).status = "delivered"
    BY <2>1, Effects DEF Columns5
  <2>. QED BY <1>5, <2>1, <2>2, FinishBudget DEF MarkSent
<1>6. ASSUME NEW w \in Workers, MarkSentThrows(w) PROVE Budget(e)'
  <2>1. worker[w].pc = "sent" /\ worker[w].email \in Emails /\ accepted' = accepted
    BY <1>6, BusyWorker DEF MarkSentThrows
  <2>2. /\ excuses'[e] = excuses[e] + (IF e = worker[w].email THEN 1 ELSE 0)
        /\ excuses'[e] \in Nat
    BY <1>6, <1>t, <2>1 DEF MarkSentThrows, TypeOK
  <2>3. Answer(w, "unexpected") /\ UNCHANGED row
    BY <1>6 DEF MarkSentThrows
  <2>. QED BY <1>t, <2>1, <2>2, <2>3, AnswerBudget DEF Phases
<1>7. ASSUME NEW w \in Workers, HandleSendFailure(w) PROVE Budget(e)'
  <2>1. worker[w].pc \in {"permanent", "retryable", "unexpected"}
    BY <1>7 DEF HandleSendFailure, HandlePermanent, HandleLastAttempt, HandleRetry
  <2>2. /\ MarkDeadLetter(row[worker[w].email]).status = "dead_lettered"
        /\ MarkRetryableFailure(row[worker[w].email],
               ComputeBackoff(AttemptCountAfter(w))).status = "failed"
    BY <2>1, BusyWorker, Effects DEF Columns5
  <2>3. UNCHANGED <<accepted, excuses>>
    BY <1>7 DEF HandleSendFailure
  <2>4. CASE HandlePermanent(w)
    BY <2>1, <2>2, <2>3, <2>4, FinishBudget DEF HandlePermanent
  <2>5. CASE HandleLastAttempt(w)
    BY <2>1, <2>2, <2>3, <2>5, FinishBudget DEF HandleLastAttempt
  <2>6. CASE HandleRetry(w)
    BY <2>1, <2>2, <2>3, <2>6, FinishBudget DEF HandleRetry
  <2>. QED BY <1>7, <2>4, <2>5, <2>6 DEF HandleSendFailure
<1>8. ASSUME NEW w \in Workers, TickAborts(w) \/ Crash(w) PROVE Budget(e)'
  <2>1. /\ UNCHANGED <<row, accepted, excuses>> /\ w \notin Claims(e)'
        /\ \A v \in Workers \ {w} : worker'[v] = worker[v]
    BY <1>8, <1>t DEF TickAborts, Crash, Claims, Holds, Idle
  <2>2. Cardinality(Claims(e)') <= Cardinality(Claims(e)) /\ Open(e)' = Open(e)
    BY <1>t, <2>1, ClaimDelta DEF Open
  <2>. QED BY <1>t, <2>1, <2>2, ClaimsFinite DEF Budget
<1>9. CASE RecoverSweep
  <2>1. /\ \/ row'[e] = row[e] /\ excuses'[e] = excuses[e]
           \/ excuses'[e] = excuses[e] + 1 /\ row[e].status = "sending"
        /\ UNCHANGED <<worker, accepted>>
    BY <1>9 DEF RecoverSweep, Stuck
  <2>2. Claims(e)' = Claims(e)
    BY <2>1 DEF Claims, Holds
  <2>3. Open(e)' + excuses[e] <= Open(e) + excuses'[e]
    BY <1>t, <2>1 DEF Open
  <2>4. excuses'[e] \in Nat
    BY <1>t, <2>1
  <2>. QED BY <1>t, <2>1, <2>2, <2>3, <2>4 DEF Budget
<1>10. CASE Tick \/ UNCHANGED vars
  <2>1. /\ row'[e].status = row[e].status /\ UNCHANGED <<worker, accepted, excuses>>
    BY <1>10, <1>t, Effects DEF Tick, vars, Columns5
  <2>2. Claims(e)' = Claims(e) /\ Open(e)' = Open(e)
    BY <2>1 DEF Claims, Holds, Open
  <2>. QED BY <2>1, <2>2 DEF Budget
<1>. QED BY <1>1, <1>2, <1>3, <1>4, <1>5, <1>6, <1>7, <1>8, <1>9, <1>10
     DEF Next, WorkerStep

\* Every copy of a mail after the first is paid for by a recovery, a lost
\* answer or a failed markDelivered of that mail.
THEOREM CopiesAreExcused == Spec => []CopiesExcused
<1>. DEFINE BInv == \A e \in Emails : Budget(e)
<1>1. Init => HInv /\ BInv
  <2>. SUFFICES ASSUME Init PROVE HInv /\ BInv
    OBVIOUS
  <2>1. HInv
    BY DEF Init, HInv, Honest, Holds, Absent, Idle
  <2>2. \A e \in Emails : Claims(e) = {} /\ Open(e) = 0 /\ accepted[e] = 0 /\ excuses[e] = 0
    BY DEF Init, Claims, Holds, Idle, Open, Absent
  <2>. QED BY <2>1, <2>2, FS_EmptySet DEF Budget
<1>2. TypeOK /\ LockedIffSending /\ HInv /\ BInv /\ [Next]_vars => HInv' /\ BInv'
  BY HInvStep, BudgetStep
<1>3. TypeOK /\ BInv => CopiesExcused
  <2>. SUFFICES ASSUME TypeOK, BInv, NEW e \in Emails PROVE accepted[e] <= 1 + excuses[e]
    BY DEF CopiesExcused
  <2>1. accepted[e] \in Nat /\ excuses[e] \in Nat /\ Open(e) \in {0, 1}
    BY DEF TypeOK, Open
  <2>. QED BY <2>1, ClaimsFinite DEF Budget
<1>. QED BY <1>1, <1>2, <1>3, Typing, RowsSafe, PTL DEF Spec

-----------------------------------------------------------------------------
(* Attempts.  A row has one worker, and one more for each time the sweep    *)
(* took its lease away.  From the last but one attempt on no new worker     *)
(* will retry, so what the counter can still pass the cap by is bounded by  *)
(* the workers that read an older count.                                    *)

Holders(e) == {w \in Workers : Holds(w, e)}

Retriers(e) == {w \in Holders(e) : AttemptCountAfter(w) < MaxAttempts}

Effort(e) ==
    /\ Cardinality(Holders(e)) <= recoveries[e] + (IF row[e].status = "sending" THEN 1 ELSE 0)
    /\ row[e].status \notin Terminal /\ row[e].attempts >= MaxAttempts - 1
          => row[e].attempts + Cardinality(Retriers(e)) <= MaxAttempts - 1 + recoveries[e]
    /\ row[e].attempts <= MaxAttempts + recoveries[e]

LEMMA HoldersFinite ==
    ASSUME NEW e
    PROVE  /\ IsFiniteSet(Holders(e)) /\ IsFiniteSet(Retriers(e))
           /\ Cardinality(Holders(e)) \in Nat /\ Cardinality(Retriers(e)) \in Nat
           /\ IsFiniteSet(Holders(e)') /\ IsFiniteSet(Retriers(e)')
           /\ Cardinality(Holders(e)') \in Nat /\ Cardinality(Retriers(e)') \in Nat
<1>1. /\ Holders(e) \subseteq Workers /\ Retriers(e) \subseteq Workers
      /\ Holders(e)' \subseteq Workers /\ Retriers(e)' \subseteq Workers
  BY DEF Holders, Retriers
<1>. QED BY <1>1, WorkersAssumption, FS_Subset, FS_CardinalityType

\* The columns an effort is about, before and after a step.
LEMMA EffortNumbers ==
    ASSUME TypeOK, NEW e \in Emails
    PROVE  row[e].attempts \in Nat /\ recoveries[e] \in Nat /\ MaxAttempts \in Nat \ {0}
           /\ row[e] \in Rows
BY AttemptsAssumption DEF TypeOK, Rows

\* A worker that lets go of its row takes itself from both sets.
LEMMA LeaveHolders ==
    ASSUME TypeOK, NEW w \in Workers, worker[w].pc # "idle",
           worker' = [worker EXCEPT ![w] = Idle], NEW e \in Emails
    PROVE  /\ Holders(e)' = Holders(e) \ {w}
           /\ Retriers(e)' = Retriers(e) \ {w}
<1>1. worker \in [Workers -> {Idle} \cup Busy]
  BY DEF TypeOK
<1>2. /\ \A v \in Workers \ {w} : worker'[v] = worker[v]
      /\ worker'[w] = Idle
  BY <1>1
<1>3. Holders(e)' = Holders(e) \ {w}
  BY <1>2 DEF Holders, Holds, Idle
<1>4. \A v \in Holders(e)' : v # w /\ AttemptCountAfter(v)' = AttemptCountAfter(v)
  BY <1>2, <1>3 DEF AttemptCountAfter, Holders
<1>. QED BY <1>3, <1>4 DEF Retriers

\* The end of a tick: the worker lets go, and the row is as it was, or has
\* counted one attempt of a retrier, or is settled.
LEMMA FinishEffort ==
    ASSUME TypeOK, NEW w \in Workers, worker[w].pc # "idle", NEW q,
           FinishTick(w, q), UNCHANGED recoveries,
           \/ /\ q.status = "failed" /\ AttemptCountAfter(w) < MaxAttempts
              /\ q.attempts = row[worker[w].email].attempts + 1
           \/ /\ q.status \in Terminal
              /\ q.attempts \in {row[worker[w].email].attempts,
                                 row[worker[w].email].attempts + 1},
           NEW e \in Emails, Effort(e)
    PROVE  Effort(e)'
<1>t. /\ row[e].attempts \in Nat /\ recoveries[e] \in Nat /\ MaxAttempts \in Nat \ {0}
      /\ Cardinality(Holders(e)) \in Nat /\ Cardinality(Retriers(e)) \in Nat
      /\ Cardinality(Holders(e)') \in Nat /\ Cardinality(Retriers(e)') \in Nat
  BY EffortNumbers, HoldersFinite
<1>1. /\ worker' = [worker EXCEPT ![w] = Idle] /\ row \in [Emails -> Rows]
      /\ row' = IF MarkGate(worker[w].email) THEN [row EXCEPT ![worker[w].email] = q] ELSE row
  BY DEF FinishTick, TypeOK
<1>2. Holders(e)' = Holders(e) \ {w} /\ Retriers(e)' = Retriers(e) \ {w}
  BY <1>1, LeaveHolders
<1>3. /\ Cardinality(Holders(e)') <= Cardinality(Holders(e))
      /\ Cardinality(Retriers(e)') <= Cardinality(Retriers(e))
  BY <1>2, HoldersFinite, FS_Subset
<1>4. Retriers(e)' \subseteq Holders(e)' /\ Cardinality(Retriers(e)') <= Cardinality(Holders(e)')
  BY HoldersFinite, FS_Subset DEF Retriers
<1>5. CASE row'[e] = row[e]
  BY <1>t, <1>3, <1>5 DEF Effort
<1>6. CASE e = worker[w].email /\ row[e].status = "sending" /\ row'[e] = q
  <2>1. w \in Holders(e) /\ (AttemptCountAfter(w) < MaxAttempts => w \in Retriers(e))
    BY <1>6 DEF Holders, Holds, Retriers
  <2>2. Cardinality(Holders(e)') = Cardinality(Holders(e)) - 1
    BY <1>2, <2>1, HoldersFinite, FS_RemoveElement
  <2>3. Cardinality(Holders(e)') <= recoveries[e]
    BY <1>t, <1>6, <2>2 DEF Effort
  <2>4. CASE q.status \in Terminal
    BY <1>t, <1>6, <2>3, <2>4 DEF Effort, Terminal
  <2>5. CASE q.status \notin Terminal
    <3>1. /\ q.status = "failed" /\ q.attempts = row[e].attempts + 1
          /\ w \in Retriers(e)
      BY <1>6, <2>1, <2>5
    <3>2. Cardinality(Retriers(e)') = Cardinality(Retriers(e)) - 1
      BY <1>2, <3>1, HoldersFinite, FS_RemoveElement
    <3>3. CASE row[e].attempts >= MaxAttempts - 1
      BY <1>t, <1>6, <2>3, <3>1, <3>2, <3>3 DEF Effort, Terminal
    <3>4. CASE row[e].attempts < MaxAttempts - 1
      BY <1>t, <1>4, <1>6, <2>3, <3>1, <3>4 DEF Effort, Terminal
    <3>. QED BY <1>t, <3>3, <3>4
  <2>. QED BY <2>4, <2>5
<1>. QED BY <1>1, <1>5, <1>6 DEF MarkGate

\* A step that keeps the row's status and count and its workers' memory.
LEMMA StillEffort ==
    ASSUME NEW e \in Emails, Effort(e), UNCHANGED recoveries,
           row'[e].attempts = row[e].attempts,
           row[e].status = row'[e].status,
           \A w \in Workers : /\ Holds(w, e)' <=> Holds(w, e)
                              /\ worker'[w].attempts = worker[w].attempts
    PROVE  Effort(e)'
<1>1. Holders(e)' = Holders(e) /\ Retriers(e)' = Retriers(e)
  BY DEF Holders, Retriers, AttemptCountAfter
<1>. QED BY <1>1 DEF Effort

LEMMA EffortStep ==
    ASSUME TypeOK, [Next]_vars, NEW e \in Emails, Effort(e) PROVE Effort(e)'
<1>t. /\ row[e].attempts \in Nat /\ recoveries[e] \in Nat /\ MaxAttempts \in Nat \ {0}
      /\ Cardinality(Holders(e)) \in Nat /\ Cardinality(Retriers(e)) \in Nat
      /\ Cardinality(Holders(e)') \in Nat /\ Cardinality(Retriers(e)') \in Nat
      /\ row \in [Emails -> Rows] /\ worker \in [Workers -> {Idle} \cup Busy]
  BY EffortNumbers, HoldersFinite DEF TypeOK
<1>1. ASSUME NEW f \in Emails, Enqueue(f) PROVE Effort(e)'
  <2>1. /\ f # e => row'[e] = row[e]
        /\ f = e => /\ row[e].status = "absent" /\ row'[e].attempts = row[e].attempts
                    /\ row'[e].status \in {"delivered", "pending"}
        /\ UNCHANGED <<worker, recoveries>>
    BY <1>1, <1>t, Effects DEF Enqueue, InsertDeliveredDevEmail, InsertPendingEmail, Columns5
  <2>2. Holders(e)' = Holders(e) /\ Retriers(e)' = Retriers(e)
    BY <2>1 DEF Holders, Holds, Retriers, AttemptCountAfter
  <2>. QED BY <1>t, <2>1, <2>2 DEF Effort, Terminal
<1>2. ASSUME NEW w \in Workers, NEW f \in Emails, LeaseDueEmail(w, f) PROVE Effort(e)'
  <2>1. /\ row[f].status \in {"pending", "failed"} /\ row'[f].status = "sending"
        /\ row'[f].attempts = row[f].attempts /\ (f # e => row'[e] = row[e])
        /\ recoveries' = recoveries
        /\ worker[w].pc = "idle" /\ worker'[w].email = f /\ worker'[w].pc = "leased"
        /\ worker'[w].attempts = row[f].attempts
        /\ \A v \in Workers \ {w} : worker'[v] = worker[v]
    BY <1>2, <1>t, Effects DEF LeaseDueEmail, Due, Columns5
  <2>2. CASE f # e
    <3>1. Holders(e)' = Holders(e) /\ Retriers(e)' = Retriers(e)
      BY <2>1, <2>2 DEF Holders, Holds, Retriers, AttemptCountAfter
    <3>. QED BY <1>t, <2>1, <2>2, <3>1 DEF Effort
  <2>3. CASE f = e
    <3>1. w \notin Holders(e) /\ Holders(e)' = Holders(e) \cup {w}
      BY <2>1, <2>3 DEF Holders, Holds
    <3>2. Cardinality(Holders(e)') = Cardinality(Holders(e)) + 1
      BY <3>1, HoldersFinite, FS_AddElement
    <3>3. row[e].attempts >= MaxAttempts - 1 => Retriers(e)' \subseteq Retriers(e)
      BY <1>t, <2>1, <2>3, <3>1 DEF Retriers, Holders, AttemptCountAfter
    <3>4. row[e].attempts >= MaxAttempts - 1
            => Cardinality(Retriers(e)') <= Cardinality(Retriers(e))
      BY <3>3, HoldersFinite, FS_Subset
    <3>. QED BY <1>t, <2>1, <2>3, <3>2, <3>4 DEF Effort, Terminal
  <2>. QED BY <2>2, <2>3
<1>3. ASSUME NEW w \in Workers, RejectPayload(w) \/ MarkSent(w) \/ HandleSendFailure(w)
      PROVE  Effort(e)'
  <2>. DEFINE r == row[worker[w].email]
              d == ComputeBackoff(AttemptCountAfter(w))
  <2>1. worker[w].pc # "idle" /\ UNCHANGED recoveries /\ r \in Rows
    BY <1>3, BusyWorker DEF RejectPayload, MarkSent, HandleSendFailure, HandlePermanent,
       HandleLastAttempt, HandleRetry
  <2>2. /\ MarkDeadLetter(r).status \in Terminal
        /\ MarkDeadLetter(r).attempts = r.attempts + 1
        /\ MarkDelivered(r).status \in Terminal /\ MarkDelivered(r).attempts = r.attempts
        /\ MarkRetryableFailure(r, d).status = "failed"
        /\ MarkRetryableFailure(r, d).attempts = r.attempts + 1
    BY <2>1, Effects DEF Columns5, Terminal
  <2>3. \/ FinishTick(w, MarkDeadLetter(r)) \/ FinishTick(w, MarkDelivered(r))
        \/ FinishTick(w, MarkRetryableFailure(r, d)) /\ AttemptCountAfter(w) < MaxAttempts
    BY <1>3 DEF RejectPayload, MarkSent, HandleSendFailure, HandlePermanent,
       HandleLastAttempt, HandleRetry
  <2>4. CASE FinishTick(w, MarkDeadLetter(r))
    BY <2>1, <2>2, <2>4, FinishEffort
  <2>5. CASE FinishTick(w, MarkDelivered(r))
    BY <2>1, <2>2, <2>5, FinishEffort
  <2>6. CASE FinishTick(w, MarkRetryableFailure(r, d)) /\ AttemptCountAfter(w) < MaxAttempts
    BY <2>1, <2>2, <2>6, FinishEffort
  <2>. QED BY <2>3, <2>4, <2>5, <2>6
<1>4. ASSUME NEW w \in Workers, Send(w) \/ MarkSentThrows(w) PROVE Effort(e)'
  <2>1. PICK pc \in Phases \ {"idle"} :
          Answer(w, pc) /\ UNCHANGED <<row, recoveries>> /\ worker[w].pc # "idle"
    BY <1>4 DEF Send, SendAccepted, SendLostResponse, SendRefused, SendRefusedForGood,
       CanSend, MarkSentThrows, Phases
  <2>2. /\ \A v \in Workers \ {w} : worker'[v] = worker[v]
        /\ worker'[w].pc = pc /\ worker'[w].email = worker[w].email
        /\ worker'[w].attempts = worker[w].attempts
    BY <1>t, <2>1, BusyWorker DEF Answer, Busy
  <2>3. \A v \in Workers : /\ Holds(v, e)' <=> Holds(v, e)
                           /\ worker'[v].attempts = worker[v].attempts
    BY <2>1, <2>2 DEF Holds
  <2>. QED BY <2>1, <2>3, StillEffort
<1>5. ASSUME NEW w \in Workers, TickAborts(w) \/ Crash(w) PROVE Effort(e)'
  <2>1. /\ UNCHANGED <<row, recoveries>> /\ worker[w].pc # "idle"
        /\ worker' = [worker EXCEPT ![w] = Idle]
    BY <1>5 DEF TickAborts, Crash
  <2>2. Holders(e)' \subseteq Holders(e) /\ Retriers(e)' \subseteq Retriers(e)
    BY <2>1, LeaveHolders
  <2>3. /\ Cardinality(Holders(e)') <= Cardinality(Holders(e))
        /\ Cardinality(Retriers(e)') <= Cardinality(Retriers(e))
    BY <2>2, HoldersFinite, FS_Subset
  <2>. QED BY <1>t, <2>1, <2>3 DEF Effort
<1>6. CASE RecoverSweep
  <2>1. /\ \/ row'[e] = row[e] /\ recoveries'[e] = recoveries[e]
           \/ /\ recoveries'[e] = recoveries[e] + 1 /\ row[e].status = "sending"
              /\ row'[e] = RecoverStuckSending(row[e])
        /\ UNCHANGED worker
    BY <1>6 DEF RecoverSweep, Stuck
  <2>2. Holders(e)' = Holders(e) /\ Retriers(e)' = Retriers(e)
    BY <2>1 DEF Holders, Holds, Retriers, AttemptCountAfter
  <2>3. CASE row'[e] = row[e] /\ recoveries'[e] = recoveries[e]
    BY <2>2, <2>3 DEF Effort
  <2>4. CASE recoveries'[e] = recoveries[e] + 1
    <3>1. /\ row'[e].status = "failed" /\ row'[e].attempts = row[e].attempts
          /\ row[e].status = "sending"
      BY <1>t, <2>1, <2>4, Effects DEF Columns5
    <3>. QED BY <1>t, <2>2, <2>4, <3>1 DEF Effort, Terminal
  <2>. QED BY <2>1, <2>3, <2>4
<1>7. CASE Tick \/ UNCHANGED vars
  <2>1. /\ row'[e].status = row[e].status /\ row'[e].attempts = row[e].attempts
        /\ UNCHANGED <<worker, recoveries>>
    BY <1>7, <1>t, Effects DEF Tick, vars, Columns5
  <2>. QED BY <2>1, StillEffort DEF Holds
<1>. QED BY <1>1, <1>2, <1>3, <1>4, <1>5, <1>6, <1>7 DEF Next, WorkerStep

\* However workers, leases and recoveries interleave, the counter of attempts
\* passes the configured cap by at most one per recovery.
THEOREM AttemptsAreBounded == Spec => []AttemptsBounded
<1>. DEFINE EInv == \A e \in Emails : Effort(e)
<1>1. Init => EInv
  <2>. SUFFICES ASSUME Init, NEW e \in Emails PROVE Effort(e)
    OBVIOUS
  <2>1. /\ Holders(e) = {} /\ Retriers(e) = {} /\ row[e].attempts = 0 /\ recoveries[e] = 0
        /\ row[e].status = "absent"
    BY DEF Init, Holders, Retriers, Holds, Idle, Absent
  <2>. QED BY <2>1, FS_EmptySet, AttemptsAssumption DEF Effort
<1>2. TypeOK /\ EInv /\ [Next]_vars => EInv'
  BY EffortStep
<1>3. EInv => AttemptsBounded
  BY DEF Effort, AttemptsBounded
<1>. QED BY <1>1, <1>2, <1>3, Typing, PTL DEF Spec

\* What one mail can cost, in copies and in counted attempts.
THEOREM EffortBounded == Spec => []EffortIsBounded
BY CopiesAreExcused, AttemptsAreBounded, PTL DEF EffortIsBounded

-----------------------------------------------------------------------------
\* The sweep frees a row only from a lease past the threshold, never counts
\* an attempt for it, and leaves it due.
THEOREM RecoveryIsJustified == Spec => RecoveryOnlyWhenStuck
<1>1. ASSUME TypeOK, Next, NEW e \in Emails, recoveries'[e] # recoveries[e]
      PROVE  /\ row[e].status = "sending" /\ row[e].age > StuckAfter
             /\ row'[e].attempts = row[e].attempts /\ Due(row'[e])
  <2>1. RecoverSweep
    BY <1>1 DEF Next, Enqueue, InsertDeliveredDevEmail, InsertPendingEmail, LeaseDueEmail,
       WorkerStep, RejectPayload, Send, SendAccepted, SendLostResponse, SendRefused,
       SendRefusedForGood, MarkSent, MarkSentThrows, HandleSendFailure, TickAborts, Crash, Tick
  <2>2. Stuck(e) /\ row'[e] = RecoverStuckSending(row[e]) /\ row[e] \in Rows
    BY <1>1, <2>1 DEF RecoverSweep, TypeOK
  <2>3. RecoverStuckSending(row[e]).wait = 0
    BY <2>2 DEF RecoverStuckSending, Rows
  <2>. QED BY <2>2, <2>3, Effects DEF Stuck, Due, Columns5
<1>2. TypeOK /\ [Next]_vars =>
        [\A e \in Emails : recoveries'[e] # recoveries[e] =>
            /\ row[e].status = "sending" /\ row[e].age > StuckAfter
            /\ row'[e].attempts = row[e].attempts /\ Due(row'[e])]_vars
  BY <1>1
<1>. QED BY <1>2, Typing, PTL DEF Spec, RecoveryOnlyWhenStuck

\* A lease is found by the sweep, has one worker until it is taken away, and
\* is taken away only when it is too old.
THEOREM LeasesAreSound == Spec => LeaseIsSound
BY RowsSafe, LeaseAndOutcome, RecoveryIsJustified, PTL DEF LeaseIsSound

\* The secret is kept while it is needed, delivered and given up mean what
\* they say, and neither is taken back.
THEOREM FateJustified == Spec => FateIsJustified
BY RowsSafe, LeaseAndOutcome, SettledForGood, PTL DEF FateIsJustified

-----------------------------------------------------------------------------
(* The outbox implements EmailPromise.                                     *)

Fates == [e \in Emails |-> Fate(row[e])]

\* A step that changes the fate of at most mail f.
LEMMA FateOfOthers ==
    ASSUME row \in [Emails -> Rows], NEW f \in Emails,
           \A e \in Emails \ {f} : row'[e] = row[e]
    PROVE  Fates' = [Fates EXCEPT ![f] = Fate(row[f])']
BY DEF Fates

LEMMA FateValues ==
    ASSUME NEW r
    PROVE  /\ r.status = "absent" => Fate(r) = "none"
           /\ r.status \in Live => Fate(r) = "queued"
           /\ r.status = "dead_lettered" => Fate(r) = "dead"
           /\ r.status = "delivered" /\ r.provider = "dev_outbox" => Fate(r) = "archived"
           /\ r.status = "delivered" /\ r.provider = "resend" => Fate(r) = "delivered"
BY DEF Fate, Live

\* The actions of EmailPromise under the refinement mapping.
Becomes(e, from, to) == Fates[e] = from /\ Fates' = [Fates EXCEPT ![e] = to]

LEMMA PromiseActions ==
    ASSUME NEW e \in Emails
    PROVE  /\ Becomes(e, "none", "archived") /\ UNCHANGED accepted => Promise!Next
           /\ Becomes(e, "none", "queued") /\ UNCHANGED accepted => Promise!Next
           /\ /\ Fates[e] \in {"queued", "delivered", "dead"} /\ UNCHANGED Fates
              /\ accepted' = [accepted EXCEPT ![e] = @ + 1]
              => Promise!Next
           /\ Becomes(e, "queued", "delivered") /\ accepted[e] > 0 /\ UNCHANGED accepted
              => Promise!Next
           /\ Becomes(e, "queued", "dead") /\ UNCHANGED accepted => Promise!Next
<1>1. Becomes(e, "none", "archived") /\ UNCHANGED accepted => Promise!Archive(e)
  BY DEF Becomes, Fates, Promise!Archive, Promise!Decide
<1>2. Becomes(e, "none", "queued") /\ UNCHANGED accepted => Promise!Queue(e)
  BY DEF Becomes, Fates, Promise!Queue, Promise!Decide
<1>3. /\ Fates[e] \in {"queued", "delivered", "dead"} /\ UNCHANGED Fates
      /\ accepted' = [accepted EXCEPT ![e] = @ + 1]
      => Promise!Accept(e)
  BY DEF Fates, Promise!Accept
<1>4. Becomes(e, "queued", "delivered") /\ accepted[e] > 0 /\ UNCHANGED accepted
      => Promise!Deliver(e)
  BY DEF Becomes, Fates, Promise!Deliver, Promise!Decide
<1>5. Becomes(e, "queued", "dead") /\ UNCHANGED accepted => Promise!GiveUp(e)
  BY DEF Becomes, Fates, Promise!GiveUp, Promise!Decide
<1>. QED BY <1>1, <1>2, <1>3, <1>4, <1>5 DEF Promise!Next

LEMMA PromiseStep ==
    ASSUME TypeOK, HInv, [Next]_vars
    PROVE  [Promise!Next]_<<Fates, accepted>>
<1>t. row \in [Emails -> Rows]
  BY DEF TypeOK
<1>e. \A e \in Emails : Fates[e] = Fate(row[e])
  BY DEF Fates
<1>1. ASSUME NEW f \in Emails, Enqueue(f) PROVE Promise!Next
  <2>1. /\ \A e \in Emails \ {f} : row'[e] = row[e]
        /\ row[f].status = "absent" /\ UNCHANGED accepted
        /\ \/ row'[f].status = "delivered" /\ row'[f].provider = "dev_outbox"
           \/ row'[f].status = "pending"
    BY <1>1, <1>t, Effects DEF Enqueue, InsertDeliveredDevEmail, InsertPendingEmail, Columns5
  <2>2. Fates[f] = "none" /\ Fate(row[f])' \in {"archived", "queued"}
    BY <1>e, <2>1, FateValues DEF Live
  <2>3. Fates' = [Fates EXCEPT ![f] = Fate(row[f])']
    BY <1>t, <2>1, FateOfOthers
  <2>. QED BY <2>1, <2>2, <2>3, PromiseActions DEF Becomes
<1>2. ASSUME NEW w \in Workers, Send(w) PROVE [Promise!Next]_<<Fates, accepted>>
  <2>. DEFINE e == worker[w].email
  <2>1. e \in Emails /\ Held(w, e) /\ row[e] \in Rows /\ Fates' = Fates
    BY <1>2, BusyWorker DEF HInv, Holds, Fates, Send, SendAccepted, SendLostResponse,
       SendRefused, SendRefusedForGood, CanSend
  <2>2. Fates[e] \in {"queued", "delivered", "dead"}
    BY <1>e, <2>1, FateValues DEF Held, Rows, Statuses, Live
  <2>3. accepted' = accepted \/ accepted' = [accepted EXCEPT ![e] = @ + 1]
    BY <1>2 DEF Send, SendAccepted, SendLostResponse, SendRefused, SendRefusedForGood
  <2>. QED BY <2>1, <2>2, <2>3, PromiseActions
<1>3. ASSUME NEW w \in Workers, NEW q \in Rows, FinishTick(w, q), worker[w].pc # "idle",
             UNCHANGED accepted, q.provider = row[worker[w].email].provider,
             q.status \in {"failed", "dead_lettered", "delivered"},
             q.status = "delivered" => worker[w].pc = "sent"
      PROVE  [Promise!Next]_<<Fates, accepted>>
  <2>. DEFINE e == worker[w].email
  <2>1. e \in Emails /\ Held(w, e)
    BY <1>3, BusyWorker DEF HInv, Holds
  <2>2. CASE ~MarkGate(e)
    BY <1>3, <2>2 DEF FinishTick, Fates
  <2>3. CASE MarkGate(e)
    <3>1. row' = [row EXCEPT ![e] = q] /\ row[e].status = "sending"
      BY <1>3, <2>3 DEF FinishTick, MarkGate
    <3>2. Fates[e] = "queued"
      BY <1>e, <2>1, <3>1, FateValues DEF Live
    <3>3. row'[e] = q /\ \A f \in Emails \ {e} : row'[f] = row[f]
      BY <1>t, <2>1, <3>1
    <3>4. Fates' = [Fates EXCEPT ![e] = Fate(q)]
      BY <1>t, <2>1, <3>3, FateOfOthers
    <3>5. CASE q.status = "failed"
      <4>1. Fate(q) = "queued"
        BY <3>5, FateValues DEF Live
      <4>2. Fates' = Fates
        BY <2>1, <3>2, <3>4, <4>1 DEF Fates
      <4>. QED BY <1>3, <4>2
    <3>6. CASE q.status = "dead_lettered"
      <4>1. Fate(q) = "dead"
        BY <3>6, FateValues
      <4>. QED BY <1>3, <2>1, <3>2, <3>4, <4>1, PromiseActions DEF Becomes
    <3>7. CASE q.status = "delivered"
      <4>1. Fate(q) = "delivered" /\ accepted[e] > 0
        BY <1>3, <2>1, <3>7, FateValues DEF Held
      <4>. QED BY <1>3, <2>1, <3>2, <3>4, <4>1, PromiseActions DEF Becomes
    <3>. QED BY <1>3, <3>5, <3>6, <3>7
  <2>. QED BY <2>2, <2>3
<1>4. ASSUME NEW w \in Workers, RejectPayload(w) \/ MarkSent(w) \/ HandleSendFailure(w)
      PROVE  [Promise!Next]_<<Fates, accepted>>
  <2>. DEFINE r == row[worker[w].email]
              d == ComputeBackoff(AttemptCountAfter(w))
  <2>1. worker[w].pc # "idle" /\ UNCHANGED accepted /\ r \in Rows
    BY <1>4, BusyWorker DEF RejectPayload, MarkSent, HandleSendFailure, HandlePermanent,
       HandleLastAttempt, HandleRetry
  <2>2. /\ MarkDeadLetter(r) \in Rows /\ MarkDelivered(r) \in Rows
        /\ MarkRetryableFailure(r, d) \in Rows
    BY <2>1, RowType, BackoffType
  <2>3. /\ MarkDeadLetter(r).status = "dead_lettered" /\ MarkDeadLetter(r).provider = r.provider
        /\ MarkDelivered(r).status = "delivered" /\ MarkDelivered(r).provider = r.provider
        /\ MarkRetryableFailure(r, d).status = "failed"
        /\ MarkRetryableFailure(r, d).provider = r.provider
    BY <2>1, Effects DEF Columns5
  <2>4. \/ FinishTick(w, MarkDeadLetter(r)) \/ FinishTick(w, MarkRetryableFailure(r, d))
        \/ FinishTick(w, MarkDelivered(r)) /\ worker[w].pc = "sent"
    BY <1>4 DEF RejectPayload, MarkSent, HandleSendFailure, HandlePermanent,
       HandleLastAttempt, HandleRetry
  <2>5. CASE FinishTick(w, MarkDeadLetter(r))
    BY <1>3, <2>1, <2>2, <2>3, <2>5
  <2>6. CASE FinishTick(w, MarkRetryableFailure(r, d))
    BY <1>3, <2>1, <2>2, <2>3, <2>6
  <2>7. CASE FinishTick(w, MarkDelivered(r)) /\ worker[w].pc = "sent"
    BY <1>3, <2>1, <2>2, <2>3, <2>7
  <2>. QED BY <2>4, <2>5, <2>6, <2>7
<1>5. ASSUME UNCHANGED accepted,
             \A e \in Emails : \/ row'[e] = row[e]
                              \/ /\ row[e].status \in Live /\ row'[e].status \in Live
                              \/ /\ row'[e].status = row[e].status
                                 /\ row'[e].provider = row[e].provider
      PROVE  UNCHANGED <<Fates, accepted>>
  <2>1. ASSUME NEW e \in Emails PROVE Fate(row'[e]) = Fate(row[e])
    <3>1. CASE row'[e] = row[e]
      BY <3>1
    <3>2. CASE row[e].status \in Live /\ row'[e].status \in Live
      BY <3>2, FateValues
    <3>3. CASE row'[e].status = row[e].status /\ row'[e].provider = row[e].provider
      BY <3>3 DEF Fate
    <3>. QED BY <1>5, <3>1, <3>2, <3>3
  <2>. QED BY <1>5, <2>1 DEF Fates
<1>6. ASSUME NEW w \in Workers, NEW e \in Emails, LeaseDueEmail(w, e)
      PROVE  UNCHANGED <<Fates, accepted>>
  BY <1>5, <1>6, <1>t, Effects DEF LeaseDueEmail, Due, Columns5, Live
<1>7. ASSUME NEW w \in Workers, MarkSentThrows(w) \/ TickAborts(w) \/ Crash(w)
      PROVE  UNCHANGED <<Fates, accepted>>
  BY <1>7 DEF MarkSentThrows, TickAborts, Crash, Fates
<1>8. CASE RecoverSweep
  <2>1. \A e \in Emails : \/ row'[e] = row[e]
                          \/ row[e].status = "sending" /\ row'[e] = RecoverStuckSending(row[e])
    BY <1>8 DEF RecoverSweep, Stuck
  <2>2. \A e \in Emails : RecoverStuckSending(row[e]).status = "failed"
    BY <1>t, Effects DEF Columns5
  <2>. QED BY <1>5, <1>8, <2>1, <2>2 DEF RecoverSweep, Live
<1>9. CASE Tick
  BY <1>5, <1>9, <1>t, Effects DEF Tick, Columns5
<1>10. CASE UNCHANGED vars
  BY <1>10 DEF vars, Fates
<1>. QED BY <1>1, <1>2, <1>4, <1>6, <1>7, <1>8, <1>9, <1>10 DEF Next, WorkerStep

\* Through every lease, retry, crash and recovery, the sender sees a mail whose
\* fate is decided once, and delivered only after a copy was taken.
THEOREM OutboxKeepsPromise == Spec => KeepsPromise
<1>1. Init => Promise!Init
  BY FateValues DEF Init, Promise!Init, Absent
<1>2. Init => HInv
  BY DEF Init, HInv, Honest, Holds, Absent, Idle
<1>3. TypeOK /\ LockedIffSending /\ HInv /\ [Next]_vars => HInv'
  BY HInvStep
<1>4. TypeOK /\ HInv /\ [Next]_vars =>
        [Promise!Next]_<<[e \in Emails |-> Fate(row[e])], accepted>>
  BY PromiseStep DEF Fates
<1>. QED BY <1>1, <1>2, <1>3, <1>4, Typing, RowsSafe, PTL
     DEF Spec, KeepsPromise, Promise!PromiseSpec
=============================================================================
