# Kloser in TLA+

Kloser assists sales calls. A browser or a Windows shell streams a call to a
Fastify server, which transcribes it, suggests what to say, stores the
recording and summarises the call. All durable state is in Postgres, one
organization per row-level-security context (`plugins/db.ts`, `withOrgContext`);
background workers and WebSocket handlers run over the same rows as the REST
routes. This directory holds models of the parts where that concurrency
matters, the TLC runs that check them, and TLAPS proofs about them.

Paths below are relative to `src/server/src` unless they begin with `src/`.

* [1. Inventory](#1-inventory)
* [2. Modules and runs](#2-modules-and-runs)
* The components: [3. EmailOutbox](#3-emailoutbox), [4. CallRecordings](#4-callrecordings),
  [5. CallSession](#5-callsession), [6. TeamAdmins](#6-teamadmins),
  [7. AuthSessions and SessionChain](#7-authsessions-and-sessionchain),
  [8. Credentials](#8-credentials), [9. Seats, PlanLimits and the activity log](#9-seats-planlimits-and-the-activity-log),
  [10. CallAssist and CallRecord](#10-callassist-and-callrecord),
  [11. DesktopCall and AudioCapture](#11-desktopcall-and-audiocapture),
  [12. WebClient](#12-webclient), [13. Retention](#13-retention)
* [14. What is proved, and what is only checked](#14-what-is-proved-and-what-is-only-checked)
* [15. Divergences found](#15-divergences-found)
* [16. Not modelled](#16-not-modelled), [17. Plan](#17-plan)

## 1. Inventory

| Component | State | Operations | What makes it correct |
|---|---|---|---|
| **E-mail outbox** `services/email.ts`, `repositories/emailOutbox*.ts`, `workers/emailDelivery.worker.ts` | `email_outbox` rows; what a worker read at the lease | enqueue, lease, send, mark*, recovery of stuck rows | a mail is not lost, nor sent twice without an excuse; the sensitive payload lives exactly as long as it is needed |
| **Recordings** `services/callRecordings.ts`, `services/retention.ts` | `call_recordings` rows, objects in the store | initiate, sign, PUT, finalize, delete in two phases, retention sweep | audio is removed only for a reason; a tombstone stands for removed audio; each is audited once |
| **Call sessions** `ws/calls.ts`, `services/calls.ts`, `workers/heartbeatSweep.worker.ts` | `calls` rows; a context per socket, an audio session per call, in memory | start_call, audio_start/chunk/end, end_call, disconnect, heartbeat, sweep | no heard audio vanishes without a cause; an acknowledged end is an end; live calls are not dropped, silent ones are |
| **Team administration** `services/memberships.ts`, `services/teams.ts` | `memberships`, `teams`, row locks, `activity_log` | patch a member, create, change and delete a team | an active admin remains; the audit agrees with the rows; requests end |
| **Sessions and authentication** `services/auth.ts`, `repositories/sessions.ts` | `sessions` in families, the membership | login, refresh with rotation and grace window, logout, password reset, disabling of a member | a login is one chain of sessions with one live end; what is revoked stays so; a disabled member has no session |
| **One-time tokens and the second factor** `services/auth-tokens.ts`, `services/auth.ts`, `repositories/mfaUsers.ts`, `services/organizationSecurity.ts` | `auth_tokens`, the MFA columns of `users`, `mfa_required` | mint, invalidate, consume; TOTP set-up, confirmation, challenge, disable; the policy | one live token per purpose, spent once; an enabled secret was proven; lockouts are earned |
| **Invitations and seats** `services/invitations.ts` | `invitations`, their links, `memberships` | create, resend, cancel, accept | accepted once, through the newest link; a new seat is within the plan; no cycle of waits |
| **Plan limits** `services/billing.ts` | counts per organization | assertPlanAllows, assertPlanAllowsAbsolute and their callers | count and insert are one step for every path |
| **Customers and linkage** `services/customerLinkage.ts` | `calls.customer_id`, last contact | link, unlink | the audit names the customer the call has |
| **Knowledge base** `services/knowledge.ts` | bases, chunks | create, replace chunks, delete | within the plan's caps |
| **Transcripts and text chunks** `repositories/transcripts.ts`, `ws/calls.ts` | `transcripts(seq)`, the window of a call | append, text_chunk | numbers without gaps; what was said is read by a question |
| **Suggestions** `ws/calls.ts`, `services/callSuggestions.ts` | one-shot timer and group number in memory, rows | fire, persist, use, dismiss | stored for the call they answer; use and dismissal exclude each other |
| **Checklists, action items** | rows | seed, mark, edit, delete | seeding keeps what was ticked |
| **Summaries** `workers/callSummary.worker.ts` | `calls.summary*`, `llm_usage_log`, a job | enqueue, summarise, retry, manual edit | a manual summary stands; a job ends in a summary or in the failed set |
| **Retention of transcripts, mails, audit** `services/retention.ts` | transcripts, `email_outbox`, `activity_log` | batched deletes, recovery of stuck mails | nothing goes before its term or without its audit; what is overdue goes |
| **Web client** `src/platform/api.js`, `ws.js` | access token and one refresh per page, one cookie per browser | fetch, refresh, retry, socket, logout | nobody is signed out without a reason, no waiter is left hanging |
| **Desktop client** `src/desktop` | capture, socket, session of a call, local archive | connect, start, end, upload, close | the recording is of its call and in its place; capture and files do not outlive the call |
| **Activity log** `services/activityLog.ts`, `repositories/activityLog.ts`, `routes/activityLog.ts` | `activity_log`; list and cursor of the settings page | record an event, sanitize its payload, list by filter and cursor | a change and its row stand or fall together, nothing secret is written; paging loses and repeats no row |
| Adapters, reports, other pages, deployment | none that outlives a request | | |

**How they interact.** A socket's `end_call` ends the row through
`services/calls.ts` and enqueues a summary job; the heartbeat sweep writes the
same row from another process. The desktop shell uploads a recording straight
to the object store and finalizes it over REST; the retention sweep and users
delete it. Authentication, invitations and team administration queue mails in
the transaction of their own change, and the delivery worker picks them up.
Team administration revokes the sessions of a disabled member. Invitations
insert memberships while teams are being deleted.

**What is hard.** Transactions are short and the slow work (mail provider,
object store, LLM, speech-to-text) happens between them, so what was read before
may be stale afterwards; WebSocket handlers of one socket interleave at each
`await`; a worker or the API can die between two steps; providers can do the
work and lose the answer; row locks can deadlock; the sweeps must be late rather
than early, but must come. `PROJECT.json` lists the single hazards with the line
where each bites and the properties that would catch it.

## 2. Modules and runs

| Module | Contents |
|---|---|
| `EmailOutbox` | the outbox, its workers, the recovery sweep |
| `EmailPromise` | abstract: what the outbox promises whoever queues a mail |
| `CallRecordings` | recordings, the object store, user deletions, the retention sweep |
| `RecordingPromise` | abstract: what becomes of one recording, its audio and its audit |
| `CallSession` | sockets, handlers, audio sessions, call rows, the heartbeat sweep |
| `TeamAdmins` | membership and team transactions over Postgres row locks |
| `AuthSessions` | login, refresh, logout, reset and disable over row locks |
| `SessionChain` | abstract: the sessions of one login as one chain with one live end |
| `Credentials` | one-time tokens, the second factor, its lockout and the policy |
| `Seats` | invitations, their links, acceptance and the seats of the plan |
| `PlanLimits` | the hard caps, counted under the lock of the organization |
| `ActivityRecord` | every event the code records, the sanitizer and the transactions around them |
| `ActivityFeed` | the pages of the activity log, read while rows are committed |
| `CallAssist` | text chunks, the suggestion timer and its overlapping questions |
| `CallRecord` | requests and summary job on the record of one call |
| `DesktopCall` | the window, the socket, the call, capture and the archive's upload |
| `AudioCapture` | one audio source from the device to its place in the file |
| `WebClient` | the pages of a browser, their refreshes, requests and sockets |
| `Retention` | overlapping retention ticks over organizations |
| `MC_*` | small instances for TLC |
| `*_proofs` | theorems, each in a module that EXTENDS those it is about |

| Run | Instance | Questions |
|---|---|---|
| `email_outbox` | 1 mail, 2 workers, 3 attempts, 2 recoveries, all faults | leases, fate of a mail, effort, settlement, `EmailPromise` |
| `recordings` | 1 recording, 2 requests, 2 sweeps, 2 providers, 1 fault | reasons of removal, tombstones, `RecordingPromise`, doomed recordings settle |
| `calls` | 1 call, 1 socket, 2 sources, 2 awaiting handlers | audio ledger, acknowledgements, the sweep, calls come to rest |
| `team_admins` | 2 members, 1 team, 2 requests | serial patches, deadlocks, requests end |
| `sessions` | 3 sessions, 2 requests, 1 disable | one chain, sign-ins, revocations, `SessionChain` |
| `credentials` | 2 tokens, 2 secrets, 2 requests, threshold 2 | tokens, secrets, lockouts, enrolment |
| `billing` | `Seats`: 4 addresses of 2 organizations, 2 requests; `PlanLimits`: 2 requests, 2 bases, 2 months; `ActivityRecord`: every event and 4 slips; `ActivityFeed`: 3 rows, pages of 1 and 2 | caps, wait cycles, invitations, the activity log written and read |
| `assist` | `CallAssist`: 2 calls, 2 texts, 2 questions; `CallRecord`: 2 requests, 2 runners, 2 customers | suggestions, the record, edits, answers |
| `desktop` | `DesktopCall`: 2 calls, 2 ends, 1 trouble; `AudioCapture`: 12 samples, 2 ticks | recording, leftovers, ends |
| `web` | 2 pages with a request and a socket each, 5 sessions, 2 events | staying signed in, waiters, `SessionChain` |
| `retention` | 2 organizations, 2 workers, 3 lines, 1 mail | audit, terms, what is overdue |
| `web_grace` | as `web` | expected violation, section 15 |

`AuthSessions_proofs` is also about `WebClient`, `CallRecordings_proofs` also about
`AudioCapture` and `DesktopCall`, `Billing_proofs` about `PlanLimits`, `Seats`, `ActivityRecord` and
`ActivityFeed`, and
`CallData_proofs` about `CallAssist`, `CallRecord` and `Retention`.

A run over several modules (`billing`, `assist`, `desktop`) puts them side by side:
a behaviour takes the steps of one of them, chosen at the start. Several
properties gather named parts (`LeaseIsSound`, `TombstonesAreTrue`, ...); the
parts are defined, with their own comments, above the property that joins them.

Conventions shared by the modules:

* A transaction that does no outside work is one atomic step, except in
  `TeamAdmins`, where the interleaving of statements is the point.
* What a process remembers between steps is in a record of that process
  (`worker`, `user`, `sweep`, `task`, `job`), so stale reads are possible.
* Time is relative: an `age` or a `wait` in clock units, capped one above the
  largest threshold, advanced by `Tick`.
* One organization: row-level security filters each statement by organization,
  so organizations share no row. `Retention` has several, because one tick visits
  them in turn, and so have `Seats` and `Credentials`, for the users and e-mails
  they share.
* Definitions named `Bug...` are plausible mistakes. `PROJECT.json` ("mutants")
  says which definition each replaces and which property then fails.
* Variables marked *history* are never read by an action of the code.

## 3. EmailOutbox

**State.** `row[e]` is the row of a mail (status, attempt_count, time to
next_attempt_at, age of locked_at, lock_token, payload); `worker[w]` is where a
worker is in its tick and what it read at the lease. `accepted` counts the
copies the provider took.

**Actions.** `InsertPendingEmail` and `InsertDeliveredDevEmail` enqueue;
`LeaseDueEmail` is `leaseDueEmail` (FOR UPDATE SKIP LOCKED); `RejectPayload`,
`Send*` and `Answer` are the call of the provider with each outcome (taken,
taken but answer lost, refused, refused for good); `MarkSent`, `MarkSentThrows`,
`HandlePermanent`, `HandleLastAttempt`, `HandleRetry` are `markDelivered` and
`handleSendFailure`; `Crash` and `TickAborts` end a tick at any point;
`RecoverSweep` is `recoverStuckSending`. The mark* statements gate on
`status='sending'` alone, as in the code, so a worker that lost its lease can
settle the lease of its successor.

**Run `email_outbox`.** One mail is enough because no statement relates two rows;
two workers and two recoveries let a mail be held by a worker that lost its lease
while another holds it.

* `LeaseIsSound`: the lock columns mark the rows in 'sending' and no others; two
  workers hold a row only after the sweep, or a worker that lost to it, released
  it; the sweep takes a row only past the threshold and counts no attempt;
* `FateIsJustified`: the sensitive payload lives exactly as long as the mail may
  still go out, delivered means accepted, given up means refused for good or tried
  as often as configured, and both are final;
* `EffortIsBounded`: every copy after the first is paid for by a recovery, a lost
  answer or a failed markDelivered; the attempt counter passes the cap by at most
  one per recovery;
* `KeepsPromise`: the outbox implements `EmailPromise` under the mapping
  `Fate(row[e])`, `accepted[e]`;
* `EmailSettles`: a queued mail is delivered or given up.

**Fairness.** Worker ticks and the sweep are repeatable jobs; awaited calls
return or throw; time passes. Nothing is assumed about crashes or refusals:
their number is bounded by `MaxRecoveries` and `MaxAttempts`, and `EmailSettles`
excuses a mail that has used up the bound of the model.

## 4. CallRecordings

**State.** `status`, `age` and `home` are columns (`home` is storage_provider);
`object[r]` says whether the store has the audio, had it removed, or got it again
from a late PUT; `url[r]` is the rest of the life of the signed URL; `provider`
is what the processes are configured with; `user[u]` and `sweep[s]` are requests
and retention ticks with the rows they hold in memory.

**Actions.** `Initiate` and `SignUpload` are the two halves of
`initiateRecordingUpload`; `Put` is the client, straight to the store;
`Finalize`; `RequestDelete`, `UserRemove`, `UserRemoveFails`, `UserTombstone` are
the two transactions of `deleteRecording` with `deleteObject` between them;
`SweepStart` to `SweepAudit` are `runRecordingRetentionForOrg` with its batch of
expired rows first and deletions to retry in the room that is left; `UserAborts`,
`SweepAborts` and `Reconfigure` are failures, deaths and a deployment with
another provider. `Finalize` does not look at the store, as in the code.

**Run `recordings`.** One recording and four processes give every race for one
row; two recordings matter only for the room in a batch (section 15).

* `TombstonesAreTrue`: only a requested deletion or an expired retention removes
  audio (`ObjectsRemovedForAReason`); a tombstone stands for removed audio, unless
  the deletion went to another provider; audit rows, running ticks and ticks that
  died account for each exactly once; a deletion is never taken back;
* `KeepsItsPromise`: each row, whatever the others and their requests do,
  implements `RecordingPromise` under the mapping `Fate`, `ToldOf`: its fate only
  moves on, its audio goes only when it is doomed, it is buried once and after its
  audio, and told of at most once;
* `DoomedSettle`: as long as the provider stays, the sweep carries out deletions
  and retention in the end.

**Fairness.** The sweep is a repeatable job, awaited calls return or throw, time
passes. No user or client is obliged to act. The store fails at most `MaxFaults`
times; a store that always fails settles nothing.

## 5. CallSession

**State.** `status`, `reason` and `seen` are columns of a call; `context[s]` is
the entry of a socket in the map of contexts; `phase`, `todo` and `heard` are the
audio session in the context object of a call; `task[t]` is a handler that
awaits, with what it closed over; `sweep` is the age of the cutoff of a running
sweep. `begun`, `said`, `finals`, `lost`, `usage`, `torn`, `acked`, `promised`
are history.

**Actions.** A handler runs up to its next await in one step; when the awaited
transaction settles, it resumes in another. So `StartCall`, `CallCreated` and
`CallRefused` are start_call; `AudioStart`, `AudioChunk`, `AudioEnd`,
`AppendFinal` and `AudioFlushed` the audio session; `EndCall`, `EndFlushFailed`,
`RowEnded`, `EndFails` and `EndAcked` are end_call; `RestEnd` and `Heartbeat*`
the REST routes; `SweepStart`, `SweepDrops` and `SweepFails` the heartbeat sweep;
`Crash` loses every context and task.

**Run `calls`.** Two handlers are enough for any overlap of two of audio_end,
end_call, start_call and heartbeat, two sources for a flush caught between two
appends. The cutoff is 0 units: a heartbeat is stale after one tick.

* `AudioLedger`: each source heard leads to one final transcript, is given up for
  a cause or is still pending; a session has at most one usage row;
* `EndAcksTruthful`: an acknowledged end is behind a row that is over;
* `SweepIsJust`: the sweep drops only calls in progress whose last heartbeat is
  older than the cutoff when its statement runs;
* `CallsComeToRest`: a call that had heartbeats and gets none any more leaves
  in_progress, and end_call frees its socket whatever fails in it.

**Fairness.** Handlers resume, time passes and sweeps start (weak); the statement
of the sweep does not fail every time (strong, since each failed sweep ends and
another starts). Clients owe nothing.

## 6. TeamAdmins

**State.** Rows (`row`, `teamOf`, `manager`), row locks (`memberLock`,
`teamLock`), what `activity_log` says of each member (`trail`), and per request
its statement (`pc`), its input and what it read (`job`), the rows its statement
has still to lock (`queue`) and the ids `lockActiveAdminIds` has collected
(`admins`).

**Actions.** Statements at READ COMMITTED. A statement finds its rows from the
committed state, then locks them one by one; a row that changed while the
statement waited is checked again and dropped when it no longer matches. For a
patch: `BeginPatch`, `LockAdmin` (row by row, by id), `TargetMissing`,
`LockTarget`, `RefuseLastAdmin`, `FindTeams`, `LockTeam`, `CommitPatch`. For
teams: `BeginAssign`, `CreateTeam`, `AssignManager`; `BeginDelete`,
`LockTeammate` (in any order), `DeleteRefused` (404 or the composite foreign
key), `DeleteTeam`. `TxFails` is any statement that throws; `BreakDeadlock` is
Postgres aborting a request on a waiting cycle; `Join` is the row
`acceptInvitation` inserts.

**Run `team_admins`.** Two admins that go for each other, or a patch against a
deletion of the team, are the smallest cases of each conflict; the theorems cover
larger ones.

* `PatchesAreSerial`: never no active admin; the audit rows, replayed, are the
  memberships;
* `SameAdminsNoDeadlock`: two patches whose scans found the same admins never
  wait for each other;
* `RequestsEnd`: every request commits or is rolled back.

**Fairness.** Strong, per request: Postgres queues the waiters of a row in order,
so a lock that comes free again and again is granted in the end, and the deadlock
detector runs.

## 7. AuthSessions and SessionChain

**State.** The rows of one membership's sessions (`session`: state, family,
successor, second factor, and whether the clock that matters for the row has run
out), the membership, whether a second factor is asked for, the row locks, and per
request the step it is at and what it read (`job`). `epoch` and `born` are history.

**Actions.** Transactions are split where they can wait or others can slip in:
login reads the membership and later inserts (`BeginLogin`, `Insert`); refresh
locks the row of the token, then reads or locks its successor, and rotates,
answers inside the grace window, or revokes the family; an UPDATE over many
sessions picks its rows when it starts and locks them one by one, so a session
inserted meanwhile is not among them; disabling the membership locks its row
first, which the foreign key of an insert waits for.

**Run `sessions`.** Three sessions let a family rotate twice, or a second login
stand beside a rotation.

* `FamilyIsOneChain`: however many pages present one token, a family has one live
  end, and a rotation hands a token on once and keeps the factor;
* `SignedInRightly`: what survives a disable was read before it; inside the grace
  window the answer is a live session of the family;
* `RevocationHolds`: a revoked session stays so; whoever disables a member leaves
  no live session; a replayed token takes its family, but for what comes of the
  rotation of another row that held its lock when the UPDATE came to it (with four
  sessions the rotation's own successor may be rotated again meanwhile, so the
  survivor need not be it);
* `KeepsChain`: the rows implement `SessionChain`: a login opens a family, a
  session hands its place to one successor, of its family and with its factor.

## 8. Credentials

**State.** The tokens of one user by purpose, the MFA columns of the user, the
policy of the organizations, the memberships that are active, and what each
request that tests a code has read. A token that is dead keeps no more than that.

**Actions.** Every operation of `services/auth.ts` on tokens and the second
factor. A request that tests a code is two steps, since the user's row is read
without a lock: `Begin*`, then `WrongCode`, `RightCode`, `ConfirmOwn`, `Disable`,
`StoreSecret` or `RollBack`. The confirmation that ends a login is three: after a
right code it reads the policy again (`Reread`), by a SELECT that locks nothing,
and goes on to `enableMfa` and the commit (`ConfirmChallenge`) whatever the policy
is by then. A request with a challenge holds the lock of its token row meanwhile
(`Locked`).

**Run `credentials`.** Two requests, two secrets and a threshold of two reach
every order of a stale read and a write. The user has one organization, whose
policy and membership change at any time.

* `SecretsAreProven`: one live token per purpose, spent at most once; the secret
  that guards the account is one a code was given for, unless it was stored while
  a confirmation of another was under way;
* `FactorsAreEarned`: a lockout needs as many wrong codes as the threshold since
  the one before; a login enrols under the policy as it is after the right code,
  so that one withdrawn before is noticed however old the set-up is. One withdrawn
  between that read and the commit is missed (`overtaken`), which refutes
  `NoFurtherRace` (section 15).

## 9. Seats, PlanLimits and the activity log

**Seats.** A transaction (`tx`) is the locks it holds and the one it waits for;
create, resend and cancel lock invitation, link and organization in turn, accept
the link's invitation and the link, and the key-share lock and the unique index a
new member meets. A statement that waited looks at its row again.
`InvitationsAreKept`: while an invitation is pending one link opens it, a final
answer stays, who joins does it through the newest link and takes the seat the
invitation had, and a new seat was free. `NoWaitCycle`: no set of requests waits
for itself. Bounds: two requests at a time, one e-mail invited by two
organizations and a second to the first, whose member is disabled and enabled.

**PlanLimits.** Lock the organization, count, write, for customers, bases,
chunks (rows of the live bases, as the SQL counts them) and calls, with deletions
and the turn of the month meanwhile. `PlanHolds`:
no cap is exceeded, at the last free unit too.

**ActivityRecord.** The rows that the helpers of `services/activityLog.ts` and their
callers write, with action, target, pool and the keys of the payload (`LoginEvents`
to `RetentionEvents`), and the transaction around each: begin, change, insert,
commit. The sanitizer looks at the words of every key at every depth (`Sanitizes`),
the table at action and target (`Admitted`); the role of the service pool may insert
and not read back. An insert that fails takes the change with it, except for the view
of a report, where a savepoint lets the request go on. `AuditIsJust`: a change is
committed with its row or not at all, only a view without; no event the code records
is refused for what it says; nothing secret is in the log, whatever a caller hands
over (`SlipPayloads`: two to be refused, two that only look like it). One writer is
enough: writers share nothing but the table they append to.

**ActivityFeed.** A row's time is that of the beginning of its transaction and its id
is random, so rows appear in no order of either. `Query` is the route: limit + 1 rows
to see whether there are more, and at the cap of 100 a `Probe` in a second
transaction. The cursor knows times to the millisecond (`Older`), the filters to the
microsecond (`Matches`). The panel of `settings.html` clears its list on a reload,
ignores what is asked while it loads and appends pages. `PagesGoOn`: no row comes
twice or above one that is shown, whatever is committed, chosen or lost in between;
`ListIsWhole`: a reader who has come to the end under one filter has seen every
matching row of the start, and no other kind; `FeedIsTrue` is both. Bounds: three
rows, two microseconds to the millisecond, three times, so that rows share a
millisecond, a time, or neither; `MaxLimit = 2` stands for the 100 of the code, with
pages below and at the cap; two actions, one of which can be filtered by, and two
ranges of time (the panel filters by action only, so a reader keeps the range).

## 10. CallAssist and CallRecord

**CallAssist.** One socket with its calls: `TextChunk` and `Stored` are the two
halves of text_chunk, `Timer` is the one-shot timer, `Answers`, `RecordUsage` and
`Persist` follow the question to the LLM. A chunk that is stored after its call
ended arms a timer no context knows (`stray`), which fires in the socket's next
call. `SuggestionsAreTrue`: a suggestion is stored for the call whose texts it
answers, and each answer is counted. `TextIsHeard` (in `AnswersArrive`): no text
waits in a live call with no timer to come for it.

**CallRecord.** The row of a call under its lock, its lines, one suggestion, one
checklist item, one action item and the summary job with its attempts, stalls and
two runners. `RecordAgrees`: the audit of the links gives the customer the call
has, lines are numbered without a gap, a suggestion is used or dismissed once.
`EditsStand`: a manual summary, a tick and the last contact are not undone by a
step that read before them. `SummaryArrives` (in `AnswersArrive`): a job ends in a
summary or in the failed set.

**Fairness.** A due timer runs; statements of an open transaction are answered;
the worker runs. The LLM may always fail: the job is then in the failed set, and
a suggestion is not owed.

## 11. DesktopCall and AudioCapture

**DesktopCall.** The view model on its thread: handlers run to an await, what
happens elsewhere is posted to the queue of the window (`posts`). The socket
(`sock`) and what the window shows of it (`conn`) are two things, as in the code.
A call is a session (`sess`), an archive (`file`) with its upload, and the run of
EndCallAsync that ends it (`end`). `CallsStayApart`: no other recording is
uploaded under a call in the place of its own (`ArchivedInItsPlace`), capture started
for a call stops with it (`CaptureStopsWithCall`), and an answered upload leaves no
audio on the disk (`AudioDoesNotStay`). `EndIsAnEnd`: no frame of after its end is in a recording, and a call whose end
alone waits for the server is over in the end. Bounds: two calls and two runs of EndCallAsync, for a
second call begun while the first is still ending; one lost connection, transport
error or refusal; capture started by hand only before the first call (`ByHand`);
the archive may be switched on or off before every call (`Toggles`).

**AudioCapture.** Samples of the device are converted to 16 kHz across blocks
(`tail`, `pos`), cut into frames, queued with a cap that drops the oldest, drained
by ticks that may overlap, and written where the frame's time says. A sample is
the index of the device's sample it comes from. `AudioIsTrue`: every sample in the
file is at its place and frames given and dropped add up. Bounds: twelve samples
in blocks of two and six, a ratio of three to two, a queue of two frames, two ticks.

**Fairness.** The window handles its queue, and the server answers over a
connection that is up.

## 12. WebClient

**State.** The rows of sessions as the server keeps them, the cookie the pages
share (`jar`), and per page its place, its access token, its one refresh, its
request and its socket. `orphans` are refreshes of pages that were left before the
answer. `odds` and `burned` are history.

**Actions.** A request is sent, served and answered in steps of their own;
`Awaited` is the promise all waiters of a page share. Rotation, grace window and
reuse are one step each of the server: `AuthSessions` has them in detail. Leaving a
page aborts what it has under way, and the server may or may not have worked.

**Run `web`.** Two pages, for the races between them; five sessions, for two
logins with rotations; two events (an expiry, a page change or a login).

* `StaysSignedIn`: as long as no answer was lost and nobody left or logged in
  again, the cookie of the live session is in the jar or on its way; nobody is
  sent to the login page without a reason; a socket asks once between two
  connections;
* `ServerKeepsChain`: the server as the pages see it, one step an answer,
  implements the `SessionChain` that `AuthSessions` implements with its locks, and
  a family has one live end: the two models agree on what a refresh may do;
* `WaitersReleased`: whoever waits for a token gets one, or the page goes to the
  login page.

**Fairness.** The fetch behind a refresh is answered or fails, and settled
promises run their continuations.

## 13. Retention

**State.** Lines with their time of birth, mails with their lease, the tick of
each worker (`worker`: the clock it read, the organization, the batches and the
rows its transaction has locked), the sums in `activity_log`, and the
organizations whose transaction always fails (`poisoned`).

**Actions.** `StartTick`; `DeleteBatch` until a short batch or the limit;
`RecoverMails`; `CommitOrg` with both audit rows; `OrgFails`, after which the tick
goes on with the next organization; `WorkerDies`. Agents speak (`Speak`) and the
delivery worker leases and settles mails meanwhile. The recordings of section 4
follow each organization; here they only take time.

**Run `retention`.** The first organization may be poisoned, the second has the
lines and the mail (`Poisonable`, `Busy`): a property of one organization does not
need both to have data. Three lines with batches of one and a limit of two leave
rows for another tick.

* `AuditTellsAll`: the counts in the activity log add up to what is gone and
  recovered, whichever ticks overlapped, failed or died;
* `TermsAreKept`: a line is kept for its term, a lease for its limit;
* `Reclaimed`: what is overdue goes, unless the organization itself is poisoned.

**Fairness.** The job is repeated, a tick goes on, time passes.

## 14. What is proved, and what is only checked

Each theorem holds for every value of the constants that satisfies the named
assumptions of the module (finite sets of processes, natural bounds); the
proofs need no others. `PROJECT.json` lists the theorems. Those that state a
property of a run carry the property's definition; the others are the parts of it.

**EmailOutbox.** `Typing` and `RowsSafe` follow from `Statement`: every step
changes a row by one statement of the repository, from the status it gates on;
so does `SettledForGood`. `LeaseAndOutcome` needs `HInv`: a worker that holds a
mail nothing has excused yet still has its lease, and the row remembers at least
the attempts it read (`Held`); the row is honest about what the provider did
(`Honest`). The property alone is not inductive because a mark* does not check
the lock token. `LeasesAreSound` and `FateJustified` join these. `CopiesAreExcused`
counts: copies taken, workers that may still cause one (`Claims`) and a row that
is due (`Open`) together never pass one plus the excuses (`Budget`).
`AttemptsAreBounded` counts in the same way: every recovery leaves behind at most
one worker that read an old count, so the attempts on the row, the workers that
hold it (`Holders`) and among them those that will write a retry (`Retriers`) stay
within the cap and the recoveries (`Effort`); `EffortBounded` is both bounds.
`OutboxKeepsPromise` shows that initial states map to initial states of
`EmailPromise` and each step to a step or a stutter.

**CallRecordings.** `IInv`: rows that a request or a tick still holds in memory
are doomed already, and doomed rows stay doomed (`RecordingMoves`). This gives
`NoAudioLost`, `TombstonesTrue` and `DeletionsFinal`. `TombstonesCounted` is a
ledger (`Books`): only the statement gated on an active row makes a tombstone,
and whoever passes the gate audits it or keeps it in its tally.
`TombstonesAreSound` joins these. `PromiseKept` shows that each recording implements
`RecordingPromise`: a step moves one row by one statement, and what a request or a
tick still holds in memory says which (`IInv`); a tombstone is told of by the row
that counts it, never twice (`Books`).

**CallSession.** `AcksTruthful`, `EndedStaysEnded` and `DropsAreDue` (joined in
`SweepsAreJust`) rest on what a step may do to a row (`RowFacts`) and on `Closed`:
a handler that enqueues the summary has closed the row. `LedgerBalances` needs
`AudioInv`: while one handler flushes a call nobody can begin another flush of it
(`Guarded`, `Sole`), because the session is marked or no socket has its context
any more; contexts belong to one socket (`Apart`); the usage row of a session is
written once (`Budget`).

**TeamAdmins.** `AnAdminRemains` and `AuditIsFaithful`, joined in `PatchesSerial`,
follow from `Protected`: the admins a patch has counted are locked and hence still
active admins, and its target is locked and still the row it read and checked.
`SameAdminsAreSafe` follows from `Lining`: while the admins are locked in order, a
request holds only rows of its scan below every row it has still to lock, so two
requests with one scan cannot each hold what the other waits for.

**Retention.** `AuditTold` and `TermsKept` need `Chosenness`: what the open
transaction of a tick has chosen is past its term by the clock of the tick, hence
by the present one, and still there (`Good`); no row is chosen by two transactions
(`Apart`), because a statement takes only rows nobody has locked. Without it a
commit could count a row another tick has deleted, or free a mail that has been
leased again since.

**AuthSessions.** `IInv` has four parts. `Chained`: rows are numbered as they are
created, families exist, a family has one live end, and a rotation is handed on
once. `RoomKept` and `EpochLeft` are about the bounds. `Locking`: what a request
holds at the step it is at. `Requests`: what a request has read is still so,
because it has the row locked (`JobOK`), the UPDATE of a disable has every live
session in sight (`Thorough`), and that of a replay has the family in sight but
for what comes of a rotation of another row (`Raced`). A step only fades rows
(`Fades`) or inserts one (`Inserted`), so each action is shown to be one of
these; the refinement of `SessionChain` maps the same two. The first form of the
replay property, "what survives is the successor of a session the rotation held",
turned out to be no invariant once there are four sessions: that successor may be
rotated again before the UPDATE comes to it. `ReuseLeavesOnlyARacedRotation` says
what does hold.

**Credentials.** `SecretsAreProven` and `FactorsAreEarned` need `Holds`: a request
with a challenge has the token's row locked, so the token is still good, and the
secret a confirmation will enable is the one tested, or one that raced it;
`HoldAlone`, the lock has one holder; and `Counted`, the counter of the row never
runs ahead of the wrong codes given. `Holds` also says that what has read the
policy enrols under it, or is among those it was withdrawn from since; that the
challenge keeps its organization (`ChallengeStays`) and that a flip of the policy
marks every enrolment under way (`PolicyFlips`) keep it. The counter of the code is a read, an
increment and a write, which is why the lockout needs its own argument.

**PlanLimits.** `CapsHold` from `CapInv`: who has counted and not ended has the
organization locked (`Holder`), what it was allowed is allowed still
(`StillAllowed`, but for calls counted in a month that has ended), and a base or
a month to come has no rows (`Ahead`). Deletions only make room.

**Seats.** `SeatInv`: links and invitations fit each other (`Rowed`), a pending
invitation is opened by its newest link and no other is (`Opened`); the locks of a
transaction are one of eleven stages (`Lined`), no two transactions hold locks
that conflict (`Exclusive`), and what a transaction has read under a lock is still
so (`Knows`): its invitation is pending, its link opens it, and the seat it
counted is free. Commits go through `Settles`: rows change, and the transactions
that go on keep what they know, since they hold other invitations (`Alone`) and
other organizations (`Quiet`). `NoWaiting` gives every lock a level, invitation,
link, user, organization (`Climbs`): of a set of waiting transactions the one that
waits at the highest level waits for none of the others. `InvitationsKept` reads
its four parts off `SeatInv` and the three ways in which rows change
(`CreateWrites`, `AcceptWrites`, `OthersKeep`).

**ActivityRecord.** `HelpersFine` goes through the events one group at a time: the
keys of each are among `KnownKeys`, none of which has a forbidden word, and action
and target are among those of the table. `AuditJust` follows from `AuditInv`: a row is
there to be written only when sanitizer and table let it through, who commits has one
or is a view (`WriterOK`), and the log holds the rows of the answered writers. A step
other than a commit moves one writer that has not committed (`OneWriter`).

**ActivityFeed.** `FeedTrue` from `FeedInv`: what the panel shows, awaits or goes on from
are rows of the log (`FeedSees`), which never change (`FeedFrame`); the cursor is the
oldest row shown (`CursorIsLast`); a page under way lies below it and ends with its own
oldest row (`PageIsBelow`); and a row that was there at the start is shown, in that
page, or below it with more to come (`OwedIsAhead`). The last is what the peek and the
probe are for: `QueryFinds` says that what a page leaves out is older than its last
row and that then there is more, or a probe that will tell.

**CallAssist.** `SuggestionsTrue` from `AssistInv`: questions are asked in the order
of their numbers, each has read a group below its own number (`AsksInOrder`), and
what is awaited fits its bounds (`CallsFit`, `TextsFit`). A step that asks nothing
leaves the groups alone (`NoQuestion`), so only the timer, the answer and the two
writes after it need an argument.

**CallRecord.** `RecordsAgree` and `EditsKept` from `RecordInv`: the row lock has one
holder, the request that has still to commit (`Committing`); the number it has read
is the number of lines there are (`Numbering`), which is why lines have no gap
although the number is read in one statement and used in another; an open
suggestion was decided on by nobody (`Deciding`); a job has an owner while it runs
(`Retrying`).

**WebClient.** `SignedInStays` needs `WebInv`. Its core is `InOrder`: as long as no
answer was lost and nobody left or logged in again, there is one family with one
live session (`OneFamily`) and its cookie is in the jar or in one answer on its
way, never in both (`OneHolder`). While nothing odd at all has happened refreshes
take turns and each presents the live session (`Quiet`). `WebLatch` ties the flag
of a socket to the refresh it has used up, `Steady` says that a token a refresh
brought is good for the request that waited. `PagesKeepChain` needs the types
alone to show that each answer of the server is a step of `SessionChain` or a
stutter (`WebChainStep`); that a family has one live end (`OneEndEach`) then follows
from the steps of `SessionChain`, with the families of the sessions there are being
sessions themselves (`WebFamiliesExist`).

**AudioCapture.** `AudioTrue` from `AudioInv`. The resampler works on blocks; what it
carries over is the position of the next sample relative to the block, and
`Carries` gives it in closed form: samples made times the step, less samples fed.
So the sample it takes is the one of its place in the recording (`SampleAt`), for
every ratio and size of block; the rest is that queue and batches pass frames on
as they are (`FramesInPlace`) and that each is counted once (`LossIsCounted`).

**DesktopCall.** `NoAudioStays` and `EndsStopRecording` rest on `DiskInv`: a call's
start is posted once, its archive is untouched until then (`OpenedOnce`), and an
archive an end has taken is not written again (`ShutForGood`).
`RecordingsInTheirPlace` rests on `PlaceInv`: the number of the call and, with the
toggle on, its archive are set in one handler, and an end reads both when nothing is
posted in between (`Announced`). With the toggle off the archive may be an earlier
call's, but then the present call has no file (`Placed`, `RunsPlaced`) and never gets
one: a file is opened only for a call the window has not heard of before
(`OpenedWhenHeard`), and the numbers in use are of calls it has heard of (`AllHeard`).
`UploadsAreOfTheirCall` adds that with the toggle left on every such call has a file
(`Recorded`).
`CaptureEndsWithItsCall` rests on `Hands`, an invariant as long as the window is not
being closed: capture started for a call runs for the present one, or what will
stop it is posted (`RunsForACall`). The hard case is a call begun while the user's
own capture runs, which starts none and, if its start fails, stops none
(`Borrows`). No other call may then have started capture meanwhile (`FailureStops`),
so none may begin while such a call waits for its answer: the window shows it or
disconnects (`Borrowing`, `Held`). That holds because nobody was answered before
(`Calm`: without an answered call nothing ends the one that waits), because a lost
connection leaves no call that waits (`OneLink`), and because, while the user's
capture runs, a call that waits or was answered is the present one (`UsersOwn`). Two theorems have a
hypothesis. `UploadsAreOfTheirCall` assumes the archive is left on
(`Toggles = {TRUE}`), because with the toggle free a call without a recording may be
given another's (section 15); `RecordingsInTheirPlace` needs no such assumption.
`CaptureEndsWithItsCall` assumes that the user starts capture by hand at most before
the first call (`ByHand` within `{0}`, as in the run); started by hand between two
calls, the property is false from three calls on (section 15). `CallsApart` joins it
with `RecordingsInTheirPlace` and `NoAudioStays`, so it covers the instance of the run
and every larger one.

The models pick the next free row with CHOOSE and count rows; such facts need no
induction over data: the least element of a set of numbers comes from the
well-foundedness of `<` (`Least`), cardinalities from the library's theorems on
adding and removing one element.

**Only checked by TLC:** the liveness properties (`EmailSettles`, `DoomedSettle`,
`CallsComeToRest`, `RequestsEnd`, `AnswersArrive`, `EndingEnds`,
`WaitersReleased`, `Reclaimed`), which need fairness and ENABLED, out of the
prover's reach; and the counterexamples of section 15. Every safety invariant and
action property of a run is stated by a theorem, those of `DesktopCall` with the two
hypotheses above, which its run satisfies. `DesktopCall` and `AudioCapture` have no
type invariant in their run: `DesktopTyping` and `AudioTyping` prove it.

## 15. Divergences found

**By a run.** `web_grace`: the grace window answers a second presentation of a
rotated token with an access token and no cookie, because "the browser already
received the new cookie from the racing first request" (`routes/auth.ts:456-457`).
It need not have: when the first answer was lost (a page left, a connection cut),
the jar keeps the rotated cookie, and the next refresh after the window revokes
the family.

**By properties kept beside the others without a run.** Each is what a text of the
repository promises, and TLC refutes it as an invariant or property of the
instance named.

| Property | Instance | What happens |
|---|---|---|
| `EmailOutbox!ConcurrentWorkersDoNotDoubleSend` | `email_outbox` with `Faults = {}` | a worker slower than the recovery threshold loses its row to another; both send |
| `CallRecordings!TombstoneMeansGone` | `recordings` | after RECORDING_STORAGE_PROVIDER changes, a user's deletion asks the new store, takes "not found" for success and tombstones the row; the audio stays in the old store. The sweep does compare the providers |
| `CallRecordings!FailedDeletesAreRetried` | two recordings, one provider | expired rows that always fail fill the batch of every tick; deletions to retry get only the room they leave |
| `CallSession!FlushBeforeTeardown` | `calls` | `end_call` behind an `audio_end` that still awaits skips the flush and clears the sessions the other handler walks: the second source's final transcript is never written |
| `CallSession!PresenceIsStarted` | two calls | an `end_call` that resumes late clears the context of the call started after it |
| `TeamAdmins!PatchesDontDeadlock` | three members | a target promoted after the scan is locked out of order; two patches deadlock in spite of ORDER BY id |
| `TeamAdmins!ManagersAreActive` | `team_admins` | a team gets a manager who was disabled after the check |
| `AuthSessions!ReuseRevokesFamily` | `sessions` | the UPDATE of `revokeTokenFamily` (`repositories/sessions.ts:170`) waits for a rotation of the same family and does not see the session it inserts, which stays live; `docs/plan/phase-1/PHASE_1_STEP_3_FINDINGS.md` promises the whole family |
| `Credentials!ResetCanBeAsked` | two organizations, both movable | a reset minted in one organization is not invalidated from the other (`services/auth.ts:679`, in the organization's context), and the unique index per user refuses the new one |
| `Credentials!NoFurtherRace` | `credentials` | `confirmLoginMfaChallenge` reads `mfa_required` again "inside the SAME transaction as enableMfa so there's no further race window" (`services/auth.ts:1617`); at READ COMMITTED that SELECT (`:1628`) locks nothing. The code is right, the policy is read as on, an admin's `setOrganizationMfaRequired` (`services/organizationSecurity.ts:119`) commits `false`, most easily while `enableMfa` waits for the users row, and the user is enrolled for a policy that is gone. A SELECT ... FOR SHARE of the organization would close the gap |
| `CallRecord!UnlinkSaysWhatItRemoved` | `assist` | the audit of an unlink names the customer read before the lock (`services/customerLinkage.ts:73-76`) |
| `DesktopCall!ArchivedUnderItsCall` | `desktop` | with the archive switched off for a second call while the first is ending, the first call's archive is uploaded again under the second (`MainWindowViewModel.cs:887-888`) |
| `AudioCapture!GapsAreSilence` | `desktop` | frames are timed by their number (`Pcm16FrameEmitter.cs:127`), so a pause of the device shortens the recording; PHASE_9_STEP_6_PLAN.md:163 expects silence |

Further ones, visible in the definitions named:

* `DesktopCall!CaptureStopsWithCall` with three calls, two troubles and capture by
  hand: the first call has its audio refused; the user starts capture, so the
  second call starts none of its own; the refusal of the first, handled late, stops
  the capture and shows no call; the third call starts capture for itself; now the
  server refuses the start of the second, and StartCallAsync, resumed for it, cleans
  up the third call's session and leaves the capture on
  (`MainWindowViewModel.cs:782-849`, `1151-1166`).
* `CallSession!RestEnd`, `RowEnded`: `endByIdInCurrentOrg` updates a row of any
  status, so a call the sweep dropped becomes ended and keeps its dropped_reason,
  although `workers/heartbeatSweep.worker.ts:13` says the statement filters on
  in_progress.
* `DesktopCall!NoSocketKept`: after a lost connection the client keeps its socket,
  and connecting again throws until the user disconnects by hand;
  `ClosingCloses`: a window asked to close waits for the end of the call without
  a limit when the answer never comes; a call can be shown as ending for good
  when two ends overlap (hence `EndsAlone` in `EndingEnds`).
* `Credentials!ConfirmOwn`: the secret that is enabled is the one stored now, not
  the one the code was tested against (hence `raced`); `AfterRead`: a stale "the
  lock is over" lifts a lockout set meanwhile.
* `Seats!NoInvitationForAMember`: an invitation made while the invited person is
  joining by another stays pending; expired ones count as seats although the list
  hides them; a member enabled again is not counted against the plan.
* `PlanLimits!EveryMonthHolds`: the count is of the month the transaction began
  in, the row of the month its clock says; at the turn of the month they differ.
* `CallAssist!GroupOf`: overlapping questions of one call share a group number,
  and the later answer may set the counter back (`ws/calls.ts:127`).
* `CallRecord!Enqueue`: a summary job that failed keeps its id, which then refuses
  a second one for the call; lines flushed after the job read them are missed.
* `ActivityFeed!Filterable`: the route accepts the actions of a list of its own, and
  `routes/activityLog.ts:67-70` says that TypeScript fails the build when a new action
  lands in the repository but not there. `satisfies readonly ActivityAction[]` checks
  only that the list has no other actions; the five `recording.*` actions and
  `retention.recordings_deleted` are missing, and to filter by them is a 400.
* `ActivityFeed!Choose`: a filter chosen while a page loads is not applied
  (`src/platform/settings.html:1813`); the list keeps the old one, and "load more" goes
  on under the new (hence one filter in `ListIsWhole`).
* `ActivityFeed!Matches`: a range that ends at a time as it is shown leaves out the
  rows of that millisecond with a later microsecond, so "remaining after this
  cursor" with `createdTo: beforeCreatedAt`, as the comment at
  `repositories/activityLog.ts:393-395` suggests, is not that.
* `WebClient!RefreshRefused`: a 401 that arrives late clears the cookie of a login
  made meanwhile; a logout raced by a rotation leaves the successor live.

## 16. Not modelled

* **Adapters** of the LLM, speech-to-text, embedding and pricing providers: calls
  that answer or fail, which is how the modules around them see them. The e-mail
  adapter is modelled by its outcomes (`SendAccepted` and the like), the object
  store by what a key holds.
* **Reports and dashboard**: queries that keep nothing.
* **Process bootstrap, fixtures, tests, scripts, deployment**, and the pages apart
  from their sign-in, requests and sockets.
* In modelled components: notes, titles and the playback URL; object versions;
  `markProcessing`, `markFailed`, `hardDelete` and the calls' `softDelete`, which
  have no caller; the back-pressure of audio frames on the server; the clock
  override of the retention job (`nowIso`); embedding search; the rows of customers
  and of plans beyond what the caps count; the sweep of directories the desktop
  client left behind (`PendingRecordingsSweeper.cs`).
* In the object store: expiry and signature of URLs beyond their life, and partial
  writes of the local provider (`writeFile` is not atomic).

## 17. Plan

1. `CallSession` and `CallAssist` over one context map, for the stray timer that
   meets the next call.
2. `DesktopCall` over `RecordingPromise`: the row that `RecordingArchiveClient`
   creates and cleans up.
3. Action items with their audit: the status an audit row says the item had is read
   without a lock (`routes/calls.ts`).
4. The sweep of left directories, against a call still writing into one.
