----------------------------- MODULE AuthSessions -----------------------------
(***************************************************************************)
(* The sessions of one member of one organization: login, refresh with     *)
(* rotation, grace window and reuse detection, logout, password reset, and *)
(* the disable of the member, over the row locks of Postgres at READ       *)
(* COMMITTED.                                                              *)
(*                                                                         *)
(* A transaction is split where it can wait or where others can slip in.   *)
(* An UPDATE that revokes many sessions picks its rows from what is        *)
(* committed when it starts and locks them one by one in no fixed order; a *)
(* session inserted after that moment is not among them.  The foreign key  *)
(* sessions.membership_id makes an INSERT wait for a transaction that      *)
(* locked the membership.  What a transaction writes shows at its commit.  *)
(*                                                                         *)
(* Sources: services/auth.ts, repositories/sessions.ts,                    *)
(* services/memberships.ts, routes/auth.ts, migrations 00000 and 01000.    *)
(***************************************************************************)
EXTENDS Naturals, FiniteSets

CONSTANTS
  MaxSessions, \* bound: sessions ever created
  MaxDisables, \* bound: times the member is disabled
  Procs,       \* requests the server works on at the same time
  None

Sessions == 1 .. MaxSessions

\* Why many sessions are revoked at once.
Reasons == {"reuse_detected", "membership_inactive", "admin_disabled", "password_reset"}

ASSUME BoundsAssumption == MaxSessions \in Nat \ {0} /\ MaxDisables \in Nat
ASSUME ProcsAssumption ==
  IsFiniteSet(Procs) /\ None \notin Procs \cup Sessions /\ None \notin Reasons

VARIABLES
  session,    \* rows of sessions
  membership, \* memberships.status
  mfa,        \* users.mfa_enabled_at is set or organizations.mfa_required
  lock,       \* transaction that holds the row lock of a session
  memberLock, \* transaction that locked the membership FOR UPDATE
  job,        \* what each request is doing
  epoch,      \* history: disables committed so far
  born        \* history: epoch in which the maker of a session read the membership

rows == <<session, membership, mfa>>
locks == <<lock, memberLock>>
history == <<epoch, born>>
vars == <<rows, locks, job, history>>

\* expires_at has passed, or, once the row is revoked, the grace window since has.
Rows == {r \in [state : {"absent", "live", "revoked"}, family : Sessions \cup {None},
                next : Sessions \cup {None}, verified : BOOLEAN, late : BOOLEAN] :
           /\ r.state = "absent" <=> r.family = None
           /\ r.next # None => r.state = "revoked"}
Absent == [state |-> "absent", family |-> None, next |-> None,
           verified |-> FALSE, late |-> FALSE]

Steps == {"idle", "token", "replacement", "grace", "insert", "sweep"}
Jobs == [at : Steps, on : Sessions \cup {None}, why : Reasons \cup {None},
         verified : BOOLEAN, read : 0 .. MaxDisables,
         left : SUBSET Sessions, kept : SUBSET Sessions]
Idle == [at |-> "idle", on |-> None, why |-> None, verified |-> FALSE, read |-> 0,
         left |-> {}, kept |-> {}]

Existing == {s \in Sessions : session[s].state # "absent"}
Live == {s \in Sessions : session[s].state = "live"}
Family(s) == {t \in Existing : session[t].family = session[s].family}
BugFree(p, s) == TRUE
Free(p, s) == lock[s] \in {None, p}
MemberFree(p) == memberLock \in {None, p}

\* Room for one more session, with those the running requests may still insert.
Makers == {p \in Procs : job[p].at \in {"token", "insert"}}
HasRoom == Cardinality(Existing) + Cardinality(Makers) < MaxSessions

-----------------------------------------------------------------------------
(* Transactions                                                            *)

Unlocked(p) ==
  /\ lock' = [s \in Sessions |-> IF lock[s] = p THEN None ELSE lock[s]]
  /\ memberLock' = IF memberLock = p THEN None ELSE memberLock

\* COMMIT or ROLLBACK: the locks go, the client has its answer.
End(p) ==
  /\ Unlocked(p)
  /\ job' = [job EXCEPT ![p] = Idle]

Begin(p, j) ==
  /\ job[p].at = "idle"
  /\ job' = [job EXCEPT ![p] = j]
  /\ UNCHANGED <<rows, locks, history>>

Take(p, s) == lock' = [lock EXCEPT ![s] = p]

-----------------------------------------------------------------------------
(* Revoking many sessions: revokeTokenFamily, the UPDATE of resetPassword  *)
(* and the one of updateMembership.                                        *)

BugScope(j) == IF j.why \in {"reuse_detected", "membership_inactive"} THEN {j.on} ELSE Live

Scope(j) == IF j.why \in {"reuse_detected", "membership_inactive"} THEN Family(j.on) ELSE Live

\* WHERE revoked_at IS NULL, checked again under the lock; revokeTokenFamily has no such clause.
StillMatches(j, s) ==
  j.why \in {"reuse_detected", "membership_inactive"} \/ session[s].state = "live"

\* The statement starts: it sees the committed rows of its scope.
StartSweep(p, why, on) ==
  LET j == [Idle EXCEPT !.at = "sweep", !.why = why, !.on = on] IN
  job' = [job EXCEPT ![p] = [j EXCEPT !.left = Scope(j)]]

BugRevoked(r) == [r EXCEPT !.state = "revoked", !.late = FALSE, !.next = None]

\* revokeSession, without a successor: COALESCE keeps what an earlier one wrote.
Revoked(r) ==
  IF r.state = "live" THEN [r EXCEPT !.state = "revoked", !.late = FALSE] ELSE r

SweepRow(p, s) ==
  LET j == job[p] IN
  /\ j.at = "sweep" /\ s \in j.left
  /\ Free(p, s)
  /\ IF StillMatches(j, s)
     THEN Take(p, s) /\ job' = [job EXCEPT ![p].left = @ \ {s}, ![p].kept = @ \cup {s}]
     ELSE job' = [job EXCEPT ![p].left = @ \ {s}] /\ UNCHANGED lock
  /\ UNCHANGED <<rows, memberLock, history>>

SweepCommit(p) ==
  LET j == job[p] IN
  /\ j.at = "sweep" /\ j.left = {}
  /\ session' = [s \in Sessions |-> IF s \in j.kept THEN Revoked(session[s]) ELSE session[s]]
  /\ IF j.why = "admin_disabled"
     THEN membership' = "disabled" /\ epoch' = epoch + 1
     ELSE UNCHANGED <<membership, epoch>>
  /\ End(p)
  /\ UNCHANGED <<mfa, born>>

-----------------------------------------------------------------------------
(* login, signup, verifyLoginMfa: a session of a new family                *)

BugBeginLogin(p) ==
  \E v \in BOOLEAN :
    /\ HasRoom
    /\ v \/ ~mfa
    /\ Begin(p, [Idle EXCEPT !.at = "insert", !.verified = v, !.read = epoch])

\* The membership is read; a password alone is enough when no factor is required.
BeginLogin(p) ==
  \E v \in BOOLEAN :
    /\ HasRoom
    /\ membership = "active"
    /\ v \/ ~mfa
    /\ Begin(p, [Idle EXCEPT !.at = "insert", !.verified = v, !.read = epoch])

-----------------------------------------------------------------------------
(* refresh                                                                 *)

BeginRefresh(p, s) ==
  /\ s \in Existing
  /\ s \in Live => HasRoom
  /\ Begin(p, [Idle EXCEPT !.at = "token", !.on = s])

WithinGrace(r) == r.next # None /\ ~r.late

\* assertRefreshMfaGate
Gated(r) == mfa /\ ~r.verified

\* The row of the token under its lock, and what is decided from it.
ReadToken(p) ==
  LET s == job[p].on
      r == session[s] IN
  /\ job[p].at = "token"
  /\ Free(p, s)
  /\ UNCHANGED <<rows, history>>
  /\ \/ /\ r.state = "revoked" /\ ~WithinGrace(r)
        /\ Take(p, s) /\ StartSweep(p, "reuse_detected", s)
        /\ UNCHANGED memberLock
     \/ /\ r.state = "revoked" /\ WithinGrace(r)
        /\ Take(p, s) /\ job' = [job EXCEPT ![p].at = "replacement"]
        /\ UNCHANGED memberLock
     \/ /\ r.state = "live"
        /\ r.late \/ (membership = "active" /\ Gated(r))
        /\ End(p)
     \/ /\ r.state = "live" /\ ~r.late /\ membership # "active"
        /\ Take(p, s) /\ StartSweep(p, "membership_inactive", s)
        /\ UNCHANGED memberLock
     \/ /\ r.state = "live" /\ ~r.late /\ membership = "active" /\ ~Gated(r)
        /\ Take(p, s)
        /\ job' = [job EXCEPT ![p].at = "insert", ![p].read = epoch, ![p].verified = r.verified]
        /\ UNCHANGED memberLock

BugUsableRevoked(r) == ~r.late

\* Inside the grace window the successor answers, when it can still be used.
Usable(r) == r.state = "live" /\ ~r.late

ReadReplacement(p) ==
  LET t == session[job[p].on].next IN
  /\ job[p].at = "replacement"
  /\ Free(p, t)
  /\ UNCHANGED <<rows, history>>
  /\ \/ /\ ~Usable(session[t])
        /\ Take(p, t) /\ StartSweep(p, "reuse_detected", job[p].on)
        /\ UNCHANGED memberLock
     \/ /\ Usable(session[t]) /\ membership = "active" /\ ~Gated(session[t])
        /\ Take(p, t) /\ job' = [job EXCEPT ![p].at = "grace"]
        /\ UNCHANGED memberLock
     \/ /\ Usable(session[t]) /\ (membership # "active" \/ Gated(session[t]))
        /\ End(p)

\* touchLastUsed, and the successor is the answer.
AnswerReplacement(p) ==
  /\ job[p].at = "grace"
  /\ End(p)
  /\ UNCHANGED <<rows, history>>

-----------------------------------------------------------------------------
(* createSession, with the revocation of the session it replaces           *)

NewId == CHOOSE s \in Sessions : session[s].state = "absent"
                                  /\ \A t \in Sessions : session[t].state = "absent" => s <= t

BugRotated(r, t) == [r EXCEPT !.next = t]

\* revokeSession with a successor
Rotated(r, t) ==
  [Revoked(r) EXCEPT !.next = IF r.next = None THEN t ELSE @]

BugNewRowUnverified(j, t) ==
  [Absent EXCEPT !.state = "live", !.family = IF j.on = None THEN t ELSE session[j.on].family]

NewRow(j, t) ==
  [Absent EXCEPT !.state = "live", !.verified = j.verified,
                 !.family = IF j.on = None THEN t ELSE session[j.on].family]

Insert(p) ==
  LET j == job[p] IN
  /\ j.at = "insert"
  /\ MemberFree(p)
  /\ session' = [s \in Sessions |->
       IF s = NewId THEN NewRow(j, NewId)
       ELSE IF s = j.on THEN Rotated(session[s], NewId) ELSE session[s]]
  /\ born' = [born EXCEPT ![NewId] = j.read]
  /\ End(p)
  /\ UNCHANGED <<membership, mfa, epoch>>

-----------------------------------------------------------------------------
(* logout, password reset, disable and enable, TOTP                        *)

Logout(p, s) ==
  /\ job[p].at = "idle" /\ s \in Existing
  /\ Free(p, s)
  /\ session' = [session EXCEPT ![s] = Revoked(@)]
  /\ UNCHANGED <<membership, mfa, locks, job, history>>

\* The token is consumed, the password written, and the sessions of the user looked up.
BeginReset(p) ==
  /\ job[p].at = "idle"
  /\ StartSweep(p, "password_reset", None)
  /\ UNCHANGED <<rows, locks, history>>

Disabling == {p \in Procs : job[p].why = "admin_disabled"}

BugBeginDisable(p) ==
  /\ job[p].at = "idle" /\ epoch + Cardinality(Disabling) < MaxDisables
  /\ membership = "active"
  /\ StartSweep(p, "admin_disabled", None)
  /\ UNCHANGED <<rows, locks, history>>

\* getByIdForUpdate, and the UPDATE of the sessions starts; a member that is
\* disabled already has none to revoke.
BeginDisable(p) ==
  /\ job[p].at = "idle" /\ epoch + Cardinality(Disabling) < MaxDisables
  /\ membership = "active" /\ memberLock = None
  /\ memberLock' = p
  /\ StartSweep(p, "admin_disabled", None)
  /\ UNCHANGED <<rows, lock, history>>

Enable ==
  /\ membership = "disabled" /\ memberLock = None
  /\ membership' = "active"
  /\ UNCHANGED <<session, mfa, locks, job, history>>

\* confirmAuthenticatedTotp: enableMfa and markMfaVerified.
ConfirmTotp(s) ==
  /\ s \in Live /\ lock[s] = None /\ membership = "active"
  /\ session' = [session EXCEPT ![s].verified = TRUE]
  /\ mfa' = TRUE
  /\ UNCHANGED <<membership, locks, job, history>>

\* The organization changes its policy, or the user gives up the factor.
SetMfa == mfa' = ~mfa /\ UNCHANGED <<session, membership, locks, job, history>>

-----------------------------------------------------------------------------
(* Time and failures                                                       *)

GraceEnds(s) ==
  /\ session[s].state = "revoked" /\ session[s].next # None /\ ~session[s].late
  /\ session' = [session EXCEPT ![s].late = TRUE]
  /\ UNCHANGED <<membership, mfa, locks, job, history>>

Expires(s) ==
  /\ s \in Live /\ ~session[s].late
  /\ session' = [session EXCEPT ![s].late = TRUE]
  /\ UNCHANGED <<membership, mfa, locks, job, history>>

\* q holds what p waits for.
WaitsFor(p, q) ==
  /\ p # q
  /\ \/ job[p].at = "token" /\ lock[job[p].on] = q
     \/ job[p].at = "replacement" /\ lock[session[job[p].on].next] = q
     \/ job[p].at = "sweep" /\ \E s \in job[p].left : lock[s] = q
     \/ job[p].at = "insert" /\ memberLock = q

\* Each of D waits for another of D, and so is waited for.
Deadlocked(D) ==
  /\ D # {}
  /\ \A p \in D : \E q \in D : WaitsFor(p, q)
  /\ \A q \in D : \E p \in D : WaitsFor(p, q)

\* ROLLBACK after 40P01
BreakDeadlock(p) ==
  /\ \E D \in SUBSET Procs : p \in D /\ Deadlocked(D)
  /\ End(p)
  /\ UNCHANGED <<rows, history>>

Advance(p) ==
  \/ ReadToken(p) \/ ReadReplacement(p) \/ AnswerReplacement(p) \/ Insert(p)
  \/ SweepCommit(p) \/ \E s \in Sessions : SweepRow(p, s)
  \/ BreakDeadlock(p)

Request(p) ==
  \/ BeginLogin(p) \/ BeginReset(p) \/ BeginDisable(p)
  \/ \E s \in Sessions : BeginRefresh(p, s) \/ Logout(p, s)

Environment ==
  \/ Enable \/ SetMfa
  \/ \E s \in Sessions : ConfirmTotp(s) \/ GraceEnds(s) \/ Expires(s)

Init ==
  /\ session = [s \in Sessions |-> Absent]
  /\ membership = "active" /\ mfa = FALSE
  /\ lock = [s \in Sessions |-> None] /\ memberLock = None
  /\ job = [p \in Procs |-> Idle]
  /\ epoch = 0 /\ born = [s \in Sessions |-> 0]

Next ==
  \/ \E p \in Procs : Advance(p) \/ Request(p)
  \/ Environment

Spec == Init /\ [][Next]_vars

-----------------------------------------------------------------------------
(* Properties                                                              *)

TypeOK ==
  /\ session \in [Sessions -> Rows]
  /\ membership \in {"active", "disabled"} /\ mfa \in BOOLEAN
  /\ lock \in [Sessions -> Procs \cup {None}] /\ memberLock \in Procs \cup {None}
  /\ job \in [Procs -> Jobs]
  /\ epoch \in 0 .. MaxDisables /\ born \in [Sessions -> 0 .. MaxDisables]

\* The row locks of refresh: however many pages present one token, its family
\* never has two sessions that can be refreshed.
OneLiveEnd == \A s, t \in Live : session[s].family = session[t].family => s = t

\* A rotation hands a token on once, inside the family, and never loses the
\* second factor, though confirmAuthenticatedTotp may stamp the row meanwhile.
RotationKeeps ==
  \A s \in Existing :
    LET t == session[s].next IN
    t # None => /\ t \in Family(s) /\ t > s
                /\ session[s].state = "revoked"
                /\ session[s].verified => session[t].verified
                /\ \A u \in Existing : session[u].next = t => u = s

\* The sessions of one login are one chain with at most one end in use.
FamilyIsOneChain == OneLiveEnd /\ RotationKeeps

\* What survives the disable of a member came from a login or a refresh that
\* had read the membership before; nobody signs in after it.
DisabledOnlyInFlight ==
  membership = "disabled" => \A s \in Live : born[s] < epoch

\* COALESCE in every UPDATE: a revoked session stays so, with its
\* first successor or none.
RevocationSticks ==
  [][\A s \in Sessions : session[s].state = "revoked" =>
       /\ session'[s].state = "revoked"
       /\ session'[s].next = session[s].next]_vars

\* Inside the grace window the answer is a session that can be used, of the
\* same family, and the lock keeps it so until the commit.
GraceAnswersAreGood ==
  \A p \in Procs : job[p].at = "grace" =>
    LET t == session[job[p].on].next IN
    /\ session[t].state = "live" /\ t \in Family(job[p].on)

\* Whoever disables a member leaves no session behind, whatever logs in and
\* refreshes meanwhile: the lock of the membership holds off the inserts.
DisableIsThorough ==
  [][\A p \in Procs : membership = "active" /\ membership' = "disabled" =>
       \A s \in Sessions : session'[s].state # "live"]_vars

\* A replayed token takes its family with it: what survives comes of a rotation,
\* under way at the time, of another row, which the UPDATE waited for.
ReuseLeavesOnlyARacedRotation ==
  [][\A p \in Procs : job[p].why = "reuse_detected" /\ SweepCommit(p) =>
       \A s \in Family(job[p].on) : session'[s].state = "live" =>
         \E u \in job[p].kept \ {job[p].on} : session[u].next \notin job[p].kept \cup {None}]_vars

\* The three ways a session is taken away, each against whatever is under way:
\* for good, from every device of a disabled member, and with its family.
RevocationHolds == RevocationSticks /\ DisableIsThorough /\ ReuseLeavesOnlyARacedRotation

\* docs/plan/phase-1/PHASE_1_STEP_3_FINDINGS.md: a replayed token revokes its whole family.
ReuseRevokesFamily ==
  [][\A p \in Procs : job[p].why = "reuse_detected" /\ SweepCommit(p) =>
       \A s \in Family(job[p].on) : session'[s].state # "live"]_vars

\* Nobody signs in past a disable, and nobody inside the grace window gets a
\* session that is dead.
SignedInRightly == DisabledOnlyInFlight /\ GraceAnswersAreGood

Chain == INSTANCE SessionChain WITH
  live <- Live,
  used <- Existing,
  successor <- [s \in Sessions |-> session[s].next],
  family <- [s \in Sessions |-> session[s].family],
  factor <- {s \in Existing : session[s].verified}

\* The transactions keep the promise of one chain per login.
KeepsChain == Chain!Spec
===============================================================================
