------------------------------ MODULE CallRecord ------------------------------
(***************************************************************************)
(* The record of one call after and while it is held: requests of several  *)
(* users end it, link a customer, write a summary, append lines, tick its  *)
(* checklist and act on a suggestion and an action item, while the job of  *)
(* the automatic summary runs, is retried, and may run twice.              *)
(*                                                                         *)
(* A request is a transaction in READ COMMITTED: it reads the call without *)
(* a lock, then waits for the row lock its UPDATE needs and holds it until *)
(* it commits.  Steps between which no other transaction can see or change *)
(* anything are one action.                                                *)
(*                                                                         *)
(* Sources: services/calls.ts, customerLinkage.ts, callSummary.ts,         *)
(* callSuggestions.ts, callChecklist.ts, callActionItems.ts, the           *)
(* repositories behind them, workers/callSummary.worker.ts, queue/.        *)
(***************************************************************************)
EXTENDS Naturals, FiniteSets

CONSTANTS
  MaxRequests, \* bound: requests made on the call
  Runners,     \* processes of the summary worker
  Customers, NoOne,
  Attempts,    \* attempts of a job: 3 in queues.ts
  MaxStalls,   \* bound: times the queue takes a running job for dead
  MaxAppends     \* bound: lines of the transcript

Requests == 1 .. MaxRequests

ASSUME RecordBounds ==
  /\ Attempts \in Nat \ {0} /\ MaxStalls \in Nat /\ MaxAppends \in Nat /\ MaxRequests \in Nat
  /\ NoOne \notin Customers \cup Requests \cup Runners

VARIABLES
  call,     \* the row of the call
  lock,     \* request that holds its lock, or NoOne
  req,      \* each request
  lines,    \* transcripts of the call
  contact,  \* last_contacted_at of each customer
  trail,    \* activity_log of the links: the customer they leave, and the
            \* unlinks: [said, was]
  card,     \* a suggestion, the checklist's item and an action item
  job,      \* the summary job in the queue
  run       \* each runner

recordVars == <<call, lock, req, lines, contact, trail, card, job, run>>

Kinds == {"end", "link", "unlink", "manual", "append", "use", "dismiss",
          "initialize", "check", "uncheck", "patchItem", "deleteItem"}
CallRows == [ended : BOOLEAN, customer : Customers \cup {NoOne},
             source : {"none", "ai", "manual"}, summary : Requests \cup Runners \cup {NoOne}]
RequestRows == [kind : Kinds, at : {"new", "write", "commit", "enqueue", "ok", "refused"},
                customer : Customers \cup {NoOne}, \* to link; or read before an unlink
                time : 0 .. MaxRequests, next : 0 .. MaxAppends]
LineRows == [seq : 0 .. MaxAppends - 1, by : Requests]
Cards == [suggestion : {"open", "used", "dismissed"}, item : {"none", "open", "done"},
          action : {"open", "done", "deleted"}]
Jobs == [state : {"none", "waiting", "active", "done", "failed"}, tries : 0 .. Attempts,
         stalls : 0 .. MaxStalls, owner : Runners \cup {NoOne}]
Runs == {"idle", "llm", "usage", "apply"}

RecordTypeOK ==
  /\ call \in CallRows
  /\ lock \in Requests \cup {NoOne}
  /\ req \in [Requests -> RequestRows]
  /\ lines \subseteq LineRows
  /\ contact \in [Customers -> 0 .. MaxRequests]
  /\ trail.customer \in Customers \cup {NoOne}
  /\ trail.unlinks \subseteq [said : Customers \cup {NoOne}, was : Customers \cup {NoOne}]
  /\ card \in Cards
  /\ job \in Jobs
  /\ run \in [Runners -> [at : Runs, sawManual : BOOLEAN]]

NewRequest == [kind |-> "end", at |-> "new", customer |-> NoOne, time |-> 0, next |-> 0]
NewJob == [state |-> "none", tries |-> 0, stalls |-> 0, owner |-> NoOne]

\* A call as its first request finds it: with a customer or not, with a ticked
\* checklist or none.
RecordInit ==
  /\ \E c \in Customers \cup {NoOne} :
       /\ call = [ended |-> FALSE, customer |-> c, source |-> "none", summary |-> NoOne]
       /\ trail = [customer |-> c, unlinks |-> {}]
  /\ lock = NoOne
  /\ req = [r \in Requests |-> NewRequest]
  /\ lines = {}
  /\ contact = [c \in Customers |-> 0]
  /\ \E item \in {"none", "done"} : card = [suggestion |-> "open", item |-> item, action |-> "open"]
  /\ job = NewJob
  /\ run = [w \in Runners |-> [at |-> "idle", sawManual |-> FALSE]]

-----------------------------------------------------------------------------
(* Requests                                                                *)

Begun == Cardinality({r \in Requests : req[r].at # "new"})

\* The permission is checked on the row as read here.  An unlink keeps the
\* customer it read; the time of an end is that of its request.
Begin(r, kind, c) ==
  /\ r = Begun + 1
  /\ kind = "append" => Cardinality({s \in Requests : req[s].kind = "append" /\ req[s].at # "new"}) < MaxAppends
  /\ kind = "link" \/ c = call.customer
  /\ c = NoOne => kind # "link"
  /\ req' = [req EXCEPT ![r] = [kind |-> kind, at |-> "write", customer |-> c, time |-> r, next |-> 0]]
  /\ UNCHANGED <<call, lock, lines, contact, trail, card, job, run>>

Writes(r, kind) == req[r].kind = kind /\ req[r].at = "write"
Moves(r, at) == req' = [req EXCEPT ![r].at = at]
Answered(r, at) == req' = [req EXCEPT ![r] = [NewRequest EXCEPT !.kind = req[r].kind, !.at = at]]

\* linkCustomerInCurrentOrg, or its UPDATE to NULL: the row lock is kept.
LinkUpdate(r) ==
  /\ \E kind \in {"link", "unlink"} : Writes(r, kind)
  /\ lock = NoOne
  /\ lock' = r
  /\ Moves(r, "commit")
  /\ UNCHANGED <<call, lines, contact, trail, card, job, run>>

Target(r) == IF req[r].kind = "link" THEN req[r].customer ELSE NoOne

BugLinkCommit(r) ==
  /\ req[r].at = "commit" /\ lock = r
  /\ lock' = NoOne
  /\ call' = [call EXCEPT !.customer = Target(r)]
  /\ \E audited \in BOOLEAN : trail' =
       [trail EXCEPT !.customer = IF audited THEN Target(r) ELSE @,
                     !.unlinks = IF audited /\ req[r].kind = "unlink"
                                   THEN @ \cup {[said |-> req[r].customer, was |-> call.customer]} ELSE @]
  /\ Answered(r, "ok")
  /\ UNCHANGED <<lines, contact, card, job, run>>

\* The audit row is written, and both become visible.
LinkCommit(r) ==
  /\ req[r].at = "commit" /\ lock = r
  /\ lock' = NoOne
  /\ call' = [call EXCEPT !.customer = Target(r)]
  /\ trail' = [customer |-> Target(r),
               unlinks |-> IF req[r].kind = "link" THEN trail.unlinks
                           ELSE trail.unlinks \cup {[said |-> req[r].customer, was |-> call.customer]}]
  /\ Answered(r, "ok")
  /\ UNCHANGED <<lines, contact, card, job, run>>

\* Any statement after the lock fails: ROLLBACK.
Fails(r) ==
  /\ req[r].at = "commit" /\ lock = r
  /\ lock' = NoOne
  /\ Answered(r, "refused")
  /\ UNCHANGED <<call, lines, contact, trail, card, job, run>>

\* applyManualSummary
ManualSummary(r) ==
  /\ Writes(r, "manual") /\ lock = NoOne
  /\ call' = [call EXCEPT !.source = "manual", !.summary = r]
  /\ Answered(r, "ok")
  /\ UNCHANGED <<lock, lines, contact, trail, card, job, run>>

BugContacted(t) == [contact EXCEPT ![call.customer] = t]

\* GREATEST(last_contacted_at, ended_at)
Contacted(t) == [contact EXCEPT ![call.customer] = IF t > @ THEN t ELSE @]

\* endCall: the row, the customer and the audit in one transaction; the
\* status of the row is not a condition, a call can be ended again.
EndCall(r) ==
  /\ Writes(r, "end") /\ lock = NoOne
  /\ call' = [call EXCEPT !.ended = TRUE]
  /\ contact' = IF call.customer = NoOne THEN contact ELSE Contacted(req[r].time)
  /\ Moves(r, "enqueue")
  /\ UNCHANGED <<lock, lines, trail, card, job, run>>

\* enqueueCallSummary after the commit: a job of that id is not added again.
Enqueue(r) ==
  /\ req[r].at = "enqueue"
  /\ job' = IF job.state = "none" THEN [job EXCEPT !.state = "waiting"] ELSE job
  /\ Answered(r, "ok")
  /\ UNCHANGED <<call, lock, lines, contact, trail, card, run>>

\* Redis does not answer: logged, the call is ended.
EnqueueFails(r) ==
  /\ req[r].at = "enqueue"
  /\ Answered(r, "ok")
  /\ UNCHANGED <<call, lock, lines, contact, trail, card, job, run>>

NextSeq == IF lines = {} THEN 0 ELSE 1 + (CHOOSE s \in {l.seq : l \in lines} : \A l \in lines : l.seq <= s)

BugLockForAppend(r) == lock' = lock

\* SELECT ... FOR UPDATE on the call
LockForAppend(r) == lock = NoOne /\ lock' = r

AppendLocks(r) ==
  /\ Writes(r, "append")
  /\ LockForAppend(r)
  /\ req' = [req EXCEPT ![r].at = "commit", ![r].next = NextSeq]
  /\ UNCHANGED <<call, lines, contact, trail, card, job, run>>

AppendInserts(r) ==
  /\ req[r].kind = "append" /\ req[r].at = "commit"
  /\ lines' = lines \cup {[seq |-> req[r].next, by |-> r]}
  /\ lock' = IF lock = r THEN NoOne ELSE lock
  /\ Answered(r, "ok")
  /\ UNCHANGED <<call, contact, trail, card, job, run>>

Decision == [use |-> "used", dismiss |-> "dismissed"]

BugUndecided(kind) == card.suggestion # Decision[kind]

\* WHERE dismissed_at IS NULL AND used_at IS NULL, whatever was read before
Undecided(kind) == card.suggestion = "open"

Decide(r) ==
  \E kind \in {"use", "dismiss"} :
    /\ Writes(r, kind)
    /\ IF Undecided(kind) THEN card' = [card EXCEPT !.suggestion = Decision[kind]] /\ Answered(r, "ok")
       ELSE UNCHANGED card /\ Answered(r, "refused")
    /\ UNCHANGED <<call, lock, lines, contact, trail, job, run>>

BugSeeded == "open"

\* ON CONFLICT (call_id, template_id) DO NOTHING
Seeded == IF card.item = "none" THEN "open" ELSE card.item

Initialize(r) ==
  /\ Writes(r, "initialize") /\ lock = NoOne
  /\ card' = [card EXCEPT !.item = Seeded]
  /\ Answered(r, "ok")
  /\ UNCHANGED <<call, lock, lines, contact, trail, job, run>>

MarkItem(r) ==
  \E kind \in {"check", "uncheck"} :
    /\ Writes(r, kind)
    /\ IF card.item = "none" THEN UNCHANGED card /\ Answered(r, "refused")
       ELSE card' = [card EXCEPT !.item = IF kind = "check" THEN "done" ELSE "open"] /\ Answered(r, "ok")
    /\ UNCHANGED <<call, lock, lines, contact, trail, job, run>>

\* One conditional statement each: a row deleted meanwhile is not found.
ActionItem(r) ==
  \E kind \in {"patchItem", "deleteItem"} :
    /\ Writes(r, kind)
    /\ IF card.action = "deleted" THEN UNCHANGED card /\ Answered(r, "refused")
       ELSE card' = [card EXCEPT !.action = IF kind = "patchItem" THEN "done" ELSE "deleted"] /\ Answered(r, "ok")
    /\ UNCHANGED <<call, lock, lines, contact, trail, job, run>>

-----------------------------------------------------------------------------
(* The summary worker                                                      *)

\* The processor starts and reads the transcript.
Take(w) ==
  /\ job.state = "waiting" /\ run[w].at = "idle"
  /\ job' = [job EXCEPT !.state = "active", !.owner = w]
  /\ run' = [run EXCEPT ![w] = [at |-> "llm", sawManual |-> call.source = "manual"]]
  /\ UNCHANGED <<call, lock, req, lines, contact, trail, card>>

\* The model answers; its usage row is written or its failure is swallowed.
Summarized(w) ==
  /\ run[w].at = "llm"
  /\ run' = [run EXCEPT ![w].at = "apply"]
  /\ UNCHANGED <<call, lock, req, lines, contact, trail, card, job>>

\* Only the runner that holds the job's lock moves it.
Finished(w, moved) == job' = IF job.owner = w THEN moved ELSE job

BugMayApply(w) == ~run[w].sawManual

\* WHERE summary_source IS NULL OR summary_source = 'ai'
MayApply(w) == call.source # "manual"

ApplyAiSummary(w) ==
  /\ run[w].at = "apply" /\ lock = NoOne
  /\ call' = IF MayApply(w) THEN [call EXCEPT !.source = "ai", !.summary = w] ELSE call
  /\ Finished(w, [job EXCEPT !.state = "done", !.owner = NoOne])
  /\ run' = [run EXCEPT ![w].at = "idle"]
  /\ UNCHANGED <<lock, req, lines, contact, trail, card>>

\* attempts: 3, then the set of failed jobs
Retried == [job EXCEPT !.state = IF job.tries + 1 < Attempts THEN "waiting" ELSE "failed",
                       !.tries = @ + 1, !.owner = NoOne]

BugThrows(w) ==
  /\ run[w].at # "idle"
  /\ Finished(w, [job EXCEPT !.state = "done", !.owner = NoOne])
  /\ run' = [run EXCEPT ![w].at = "idle"]
  /\ UNCHANGED <<call, lock, req, lines, contact, trail, card>>

\* The provider or the database throws.
Throws(w) ==
  /\ run[w].at # "idle"
  /\ Finished(w, Retried)
  /\ run' = [run EXCEPT ![w].at = "idle"]
  /\ UNCHANGED <<call, lock, req, lines, contact, trail, card>>

\* The runner is slow, or gone: the queue gives the job to another, and
\* fails it the next time.
Stalls(gone) ==
  /\ job.state = "active"
  /\ job' = IF job.stalls < MaxStalls
            THEN [job EXCEPT !.state = "waiting", !.owner = NoOne, !.stalls = @ + 1]
            ELSE [job EXCEPT !.state = "failed", !.owner = NoOne]
  /\ run' = IF gone THEN [run EXCEPT ![job.owner].at = "idle"] ELSE run
  /\ UNCHANGED <<call, lock, req, lines, contact, trail, card>>

RecordNext ==
  \/ \E r \in Requests, kind \in Kinds, c \in Customers \cup {NoOne} : Begin(r, kind, c)
  \/ \E r \in Requests : LinkUpdate(r)
  \/ \E r \in Requests : req[r].kind # "append" /\ LinkCommit(r)
  \/ \E r \in Requests : Fails(r)
  \/ \E r \in Requests : ManualSummary(r)
  \/ \E r \in Requests : EndCall(r)
  \/ \E r \in Requests : Enqueue(r)
  \/ \E r \in Requests : EnqueueFails(r)
  \/ \E r \in Requests : AppendLocks(r)
  \/ \E r \in Requests : AppendInserts(r)
  \/ \E r \in Requests : Decide(r)
  \/ \E r \in Requests : Initialize(r)
  \/ \E r \in Requests : MarkItem(r)
  \/ \E r \in Requests : ActionItem(r)
  \/ \E w \in Runners : Take(w)
  \/ \E w \in Runners : Summarized(w)
  \/ \E w \in Runners : ApplyAiSummary(w)
  \/ \E w \in Runners : Throws(w)
  \/ \E gone \in BOOLEAN : Stalls(gone)

\* Statements of an open transaction are answered; the worker runs.
RecordFairness ==
  /\ \A r \in Requests : WF_recordVars(LinkCommit(r) \/ AppendInserts(r))
  /\ WF_recordVars(\E w \in Runners : Take(w))
  /\ \A w \in Runners : WF_recordVars(Summarized(w) \/ ApplyAiSummary(w))

RecordSpec == RecordInit /\ [][RecordNext]_recordVars /\ RecordFairness

-----------------------------------------------------------------------------
(* Properties                                                              *)

\* callSummary.ts: "a race between an AI worker and a user click can't drop
\* the manual edit", also when the worker read the call before the edit.
ManualStands ==
  [][call.source = "manual" =>
       /\ call'.source = "manual"
       /\ call'.summary # call.summary => \E r \in Requests : Writes(r, "manual")]_recordVars

\* A call with a summary job gets a summary, or the job is in the failed set
\* for an operator: it is not lost by a retry or by a runner that stops.
SummaryArrives == (job.state # "none") ~> (call.source # "none" \/ job.state = "failed")

\* The audit tells which customer the call has, in the order the links took
\* effect, and tells nothing that was rolled back.
LinksAreAudited == trail.customer = call.customer

\* Two ends of one call that commit in the other order: the customer's last
\* contact is the later one.
ContactNeverGoesBack == [][\A c \in Customers : contact'[c] >= contact[c]]_recordVars

\* Of the requests to use or dismiss one suggestion, one is answered yes.
DecidedOnce ==
  Cardinality({r \in Requests : req[r].at = "ok" /\ req[r].kind \in {"use", "dismiss"}}) <= 1

\* Seeding the checklist again keeps what was ticked.
MarksSurvive ==
  [][(card.item = "done" /\ card'.item # "done") => \E r \in Requests : Writes(r, "uncheck")]_recordVars

\* Lines appended at the same time get different numbers, without a gap.
LinesAreNumbered ==
  {l.seq : l \in lines} = {n \in 0 .. MaxAppends : n < Cardinality(lines)}

\* The rows of a call agree with each other, although two requests may write
\* them at once: audit and link, answers and suggestion, numbers and lines.
RecordAgrees == LinksAreAudited /\ DecidedOnce /\ LinesAreNumbered

\* What a person wrote or a later event brought about is not undone by a
\* worker or a request that read the row before.
EditsStand == ManualStands /\ ContactNeverGoesBack /\ MarksSurvive

\* customerLinkage.ts:73-76: the audit of an unlink shows "what binding was
\* just removed".
UnlinkSaysWhatItRemoved == \A u \in trail.unlinks : u.said = u.was

=============================================================================
