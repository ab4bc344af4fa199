------------------------------ MODULE Credentials ------------------------------
(***************************************************************************)
(* The one-time tokens and the second factor of one user: e-mail           *)
(* verification, password reset, the challenge a login hands out when a    *)
(* factor is required, and TOTP set-up, confirmation and disable from a    *)
(* session or from a challenge.                                            *)
(*                                                                         *)
(* A request that tests a code reads the user's row once, without a lock,  *)
(* and writes it later: two steps here, and three for the confirmation     *)
(* that ends a login, which reads the policy again in between, without a   *)
(* lock too.  A request with a challenge holds the lock of its token row   *)
(* meanwhile.  The other transactions are one step.  A secret is a number, *)
(* a code is right or wrong for the secret that was read.                  *)
(*                                                                         *)
(* Sources: services/auth.ts, services/auth-tokens.ts,                     *)
(* repositories/mfaUsers.ts, services/organizationSecurity.ts.             *)
(***************************************************************************)
EXTENDS Naturals, FiniteSets

CONSTANTS
  MaxTokens,  \* bound: tokens ever minted
  MaxSecrets, \* bound: TOTP secrets ever generated
  Threshold,  \* MFA_LOCKOUT_THRESHOLD
  Procs,      \* requests that test a code or store a secret at the same time
  Orgs,       \* the organizations of the user, oldest first: 1, 2, ...
  Movable,    \* bound: those whose membership is disabled and enabled
  None

Tokens == 1 .. MaxTokens
Secrets == 1 .. MaxSecrets

ASSUME BoundsAssumption ==
  MaxTokens \in Nat \ {0} /\ MaxSecrets \in Nat /\ Threshold \in Nat \ {0}
ASSUME OrgsAssumption == Orgs \subseteq Nat /\ 1 \in Orgs /\ Movable \subseteq Orgs
ASSUME ProcsAssumption ==
  IsFiniteSet(Procs) /\ None \notin Procs \cup Secrets \cup Tokens \cup Orgs

VARIABLES
  token,     \* auth_tokens
  user,      \* the MFA columns of users, and email_verified_at
  policy,    \* the organizations with mfa_required
  active,    \* the organizations the user is an active member of
  attempt,   \* what each request read
  uses,      \* history: times a token had its effect
  confirmed, \* history: secrets a right code was given for
  raced,     \* history: secrets stored while a confirmation of another was under way
  wrong,     \* history: wrong codes since the counter was last allowed to start again
  overtaken  \* history: enrolments under way whose policy was withdrawn after they read it

rows == <<token, user, policy, active>>
history == <<uses, confirmed, raced, wrong, overtaken>>
vars == <<rows, attempt, history>>

Purposes == {"email_verification", "password_reset", "mfa_challenge"}
\* Of a row that is consumed or invalidated the purpose is not kept.
TokenRows == [purpose : Purposes \cup {None}, org : Orgs \cup {None},
              state : {"absent", "live", "expired", "consumed", "invalidated"}]

\* secret set and enabled: on; set and not enabled: pending.
Users == {u \in [mfa : {"off", "pending", "on"}, secret : Secrets \cup {None}, failed : Nat,
                 lock : {"none", "running", "over"}, verified : BOOLEAN] :
            u.mfa = "off" <=> u.secret = None}

\* A confirmation that has read the policy again goes on as "enrol".
Kinds == {"verify", "setup", "confirm", "enrol", "own_setup", "own_confirm", "disable"}
Attempts == [kind : Kinds, token : Tokens \cup {None}, secret : Secrets \cup {None}, over : BOOLEAN]

\* Counters stop here; beyond it the lock is already set.
MaxFailed == Threshold + Cardinality(Procs)
Up(n) == IF n < MaxFailed THEN n + 1 ELSE n

NextId == CHOOSE t \in Tokens : token[t].state = "absent"
                                 /\ \A u \in Tokens : token[u].state = "absent" => t <= u
Used == {s \in Secrets : s \in confirmed \cup raced \/ user.secret = s
                          \/ \E p \in Procs : attempt[p] # None /\ attempt[p].secret = s}
HasToken == \E t \in Tokens : token[t].state = "absent"

\* A request with a challenge has its token row locked.
Locked(t) == \E p \in Procs : attempt[p] # None /\ attempt[p].token = t

-----------------------------------------------------------------------------
(* auth-tokens.ts                                                          *)

Active(r) == r.state \in {"live", "expired"}

Fresh(purpose, o) == [purpose |-> purpose, org |-> o, state |-> "live"]

Unminted == [purpose |-> None, org |-> None, state |-> "absent"]
Dead(r, state) == [r EXCEPT !.purpose = None, !.state = state]

BugReplacing(purpose, o, t, seen) == [token EXCEPT ![t] = Fresh(purpose, o)]

\* invalidateActiveTokens and mintToken, in one transaction; row security
\* shows it the tokens of the organizations in seen.
Replacing(purpose, o, t, seen) ==
  [u \in Tokens |-> IF u = t THEN Fresh(purpose, o)
                    ELSE IF token[u].purpose = purpose /\ Active(token[u]) /\ token[u].org \in seen
                         THEN Dead(token[u], "invalidated") ELSE token[u]]

\* Waits for a request that holds the token it would invalidate.  A token it
\* does not see is in the way of the unique index: a 500, and nothing is kept.
Mint(purpose, o, seen) ==
  /\ HasToken
  /\ \A u \in Tokens : token[u].purpose = purpose /\ Active(token[u])
                          => token[u].org \in seen /\ ~Locked(u)
  /\ token' = Replacing(purpose, o, NextId, seen)

BugValid(t, purpose) == token[t].purpose = purpose /\ token[t].state = "live"

\* consumeToken and lockAndValidateTokenById: the row is locked and still good.
Valid(t, purpose) ==
  token[t].purpose = purpose /\ token[t].state = "live" /\ ~Locked(t)

Consume(t) == /\ token' = [token EXCEPT ![t] = Dead(@, "consumed")]
              /\ uses' = [uses EXCEPT ![t] = IF @ < 2 THEN @ + 1 ELSE @]

Expires(t) ==
  /\ token[t].state = "live"
  /\ token' = [token EXCEPT ![t].state = "expired"]
  /\ UNCHANGED <<user, policy, active, attempt, history>>

-----------------------------------------------------------------------------
(* E-mail verification and password reset                                  *)

VerifyEmail(t) ==
  /\ Valid(t, "email_verification")
  /\ Consume(t)
  /\ user' = [user EXCEPT !.verified = TRUE]
  /\ UNCHANGED <<policy, active, attempt, confirmed, raced, wrong, overtaken>>

\* From a session of organization o.
ResendVerification(o) ==
  /\ ~user.verified /\ o \in active
  /\ Mint("email_verification", o, {o})
  /\ UNCHANGED <<user, policy, active, attempt, history>>

\* listActiveMembershipsAcrossOrgs: the oldest organization of the user
FirstOrg == CHOOSE o \in active : \A q \in active : o <= q

RequestReset ==
  /\ active # {}
  /\ Mint("password_reset", FirstOrg, {FirstOrg})
  /\ UNCHANGED <<user, policy, active, attempt, history>>

ResetPassword(t) ==
  /\ Valid(t, "password_reset")
  /\ Consume(t)
  /\ UNCHANGED <<user, policy, active, attempt, confirmed, raced, wrong, overtaken>>

-----------------------------------------------------------------------------
(* login: a right password gives a challenge when a factor is required     *)

\* invalidateStaleMfaChallenges sees the challenges of every organization.
Challenge(o) ==
  /\ o \in active
  /\ user.mfa = "on" \/ o \in policy
  /\ Mint("mfa_challenge", o, Orgs)
  /\ UNCHANGED <<user, policy, active, attempt, history>>

-----------------------------------------------------------------------------
(* Requests that read the row first                                        *)

\* What it keeps of the row: a confirmation the secret, all but a setup
\* whether a lock is over.
Read(p, kind, t) ==
  /\ attempt[p] = None
  /\ attempt' = [attempt EXCEPT ![p] =
       [kind |-> kind, token |-> t,
        secret |-> IF kind \in {"confirm", "own_confirm"} THEN user.secret ELSE None,
        over |-> kind \notin {"setup", "own_setup"} /\ user.lock = "over"]]
  /\ UNCHANGED <<rows, history>>

\* The 423 of a running lock.
Unlocked(u) == u.lock # "running"

BeginVerify(p, t) ==
  /\ Valid(t, "mfa_challenge")
  /\ user.mfa = "on" /\ Unlocked(user)
  /\ Read(p, "verify", t)

\* setupLoginMfaChallenge asks for no code: no lock holds it up.
BeginSetup(p, t) ==
  /\ Valid(t, "mfa_challenge")
  /\ user.mfa # "on" /\ token[t].org \in policy \cap active
  /\ Read(p, "setup", t)

BeginConfirm(p, t) ==
  /\ Valid(t, "mfa_challenge")
  /\ user.mfa = "pending" /\ Unlocked(user)
  /\ Read(p, "confirm", t)

\* startAuthenticatedTotpSetup
BeginOwnSetup(p) ==
  /\ active # {}
  /\ user.mfa # "on"
  /\ Read(p, "own_setup", None)

\* confirmAuthenticatedTotp
BeginOwnConfirm(p) ==
  /\ active # {}
  /\ user.mfa = "pending" /\ Unlocked(user)
  /\ Read(p, "own_confirm", None)

\* disableTotp, from a session of an organization that does not require a factor
BeginDisable(p) ==
  /\ active \ policy # {}
  /\ user.mfa = "on" /\ Unlocked(user)
  /\ Read(p, "disable", None)

Done(p) == /\ attempt' = [attempt EXCEPT ![p] = None]
           /\ overtaken' = overtaken \ {p}
Cleared(u) == [u EXCEPT !.failed = 0, !.lock = "none"]

BugAfterRead(a) == IF a.over THEN [user EXCEPT !.lock = "none"] ELSE user

\* A lock that was over when the row was read is lifted, with its counter.
AfterRead(a) == IF a.over THEN Cleared(user) ELSE user

-----------------------------------------------------------------------------
(* Codes                                                                   *)

\* incrementFailedAttempts, and setLockedUntil at the threshold
Failed(u) == LET n == Up(u.failed) IN
  [u EXCEPT !.failed = n, !.lock = IF n >= Threshold THEN "running" ELSE @]

\* The wrong code commits its count; the challenge stays.
WrongCode(p) ==
  LET a == attempt[p] IN
  /\ a # None /\ a.kind \notin {"setup", "own_setup", "enrol"}
  /\ user' = Failed(AfterRead(a))
  /\ wrong' = Up(IF a.over /\ user.lock = "over" THEN 0 ELSE wrong)
  /\ Done(p)
  /\ UNCHANGED <<token, policy, active, uses, confirmed, raced>>

\* verifyLoginMfa: the challenge is spent on a session.
RightCode(p) ==
  LET a == attempt[p] IN
  /\ a # None /\ a.kind = "verify"
  /\ token[a.token].org \in active
  /\ user' = Cleared(user)
  /\ Consume(a.token)
  /\ wrong' = 0
  /\ Done(p)
  /\ UNCHANGED <<policy, active, confirmed, raced>>

BugStillRequired(o) == TRUE

StillRequired(o) == o \in policy

\* confirmLoginMfaChallenge, after a right code: a plain SELECT of the policy.
Reread(p) ==
  /\ attempt[p] # None /\ attempt[p].kind = "confirm"
  /\ StillRequired(token[attempt[p].token].org)
  /\ attempt' = [attempt EXCEPT ![p].kind = "enrol"]
  /\ UNCHANGED <<rows, history>>

\* enableMfa, whatever secret the row has by now.
Enabled(u) == [Cleared(u) EXCEPT !.mfa = "on"]

\* enableMfa and what follows it, to the COMMIT; the policy is not looked at.
ConfirmChallenge(p) ==
  LET a == attempt[p] IN
  /\ a # None /\ a.kind = "enrol"
  /\ token[a.token].org \in active /\ user.secret # None
  /\ user' = Enabled(user)
  /\ Consume(a.token)
  /\ confirmed' = confirmed \cup {a.secret} /\ wrong' = 0
  /\ Done(p)
  /\ UNCHANGED <<policy, active, raced>>

\* markMfaVerified stamps the session of the request.
ConfirmOwn(p) ==
  LET a == attempt[p] IN
  /\ a # None /\ a.kind = "own_confirm"
  /\ user.secret # None
  /\ user' = Enabled(user)
  /\ confirmed' = confirmed \cup {a.secret} /\ wrong' = 0
  /\ Done(p)
  /\ UNCHANGED <<token, policy, active, uses, raced>>

BugOff(u) == [Cleared(u) EXCEPT !.mfa = "off"]

\* clearMfa
Off(u) == [Cleared(u) EXCEPT !.mfa = "off", !.secret = None]

Disable(p) ==
  LET a == attempt[p] IN
  /\ a # None /\ a.kind = "disable"
  /\ user' = Off(user)
  /\ wrong' = 0
  /\ Done(p)
  /\ UNCHANGED <<token, policy, active, uses, confirmed, raced>>

\* A session revoked meanwhile, a membership or a policy that changed, a failure.
RollBack(p) ==
  /\ attempt[p] # None
  /\ Done(p)
  /\ UNCHANGED <<rows, uses, confirmed, raced, wrong>>

BugStored(u, s) == [Cleared(u) EXCEPT !.mfa = IF @ = "on" THEN @ ELSE "pending", !.secret = s]

\* storePendingSecret
Stored(u, s) == [Cleared(u) EXCEPT !.mfa = "pending", !.secret = s]

Confirming ==
  {p \in Procs : attempt[p] # None /\ attempt[p].kind \in {"confirm", "enrol", "own_confirm"}}

StoreSecret(p, s) ==
  /\ attempt[p] # None /\ attempt[p].kind \in {"setup", "own_setup"}
  /\ s \notin Used /\ \A u \in Secrets \ Used : s <= u
  /\ user' = Stored(user, s)
  /\ wrong' = 0
  /\ raced' = IF Confirming = {} THEN raced ELSE raced \cup {s}
  /\ Done(p)
  /\ UNCHANGED <<token, policy, active, uses, confirmed>>

-----------------------------------------------------------------------------
LockEnds ==
  /\ user.lock = "running"
  /\ user' = [user EXCEPT !.lock = "over"]
  /\ UNCHANGED <<token, policy, active, attempt, history>>

\* The enrolments for o that have read the policy and not committed.
Enrolling(o) ==
  {p \in Procs : /\ attempt[p] # None /\ attempt[p].kind = "enrol"
                 /\ token[attempt[p].token].org = o}

\* setOrganizationMfaRequired
SetPolicy(o) ==
  /\ policy' = IF o \in policy THEN policy \ {o} ELSE policy \cup {o}
  /\ overtaken' = IF o \in policy THEN overtaken \cup Enrolling(o) ELSE overtaken
  /\ UNCHANGED <<token, user, active, attempt, uses, confirmed, raced, wrong>>

\* memberships.ts
SetMember(o) ==
  /\ active' = IF o \in active THEN active \ {o} ELSE active \cup {o}
  /\ UNCHANGED <<token, user, policy, attempt, history>>

\* signup, with the first verification token
Init ==
  /\ token = [t \in Tokens |-> IF t = 1 THEN Fresh("email_verification", 1)
                               ELSE Unminted]
  /\ user = [mfa |-> "off", secret |-> None, failed |-> 0, lock |-> "none", verified |-> FALSE]
  /\ policy = {} /\ active = Orgs
  /\ attempt = [p \in Procs |-> None]
  /\ uses = [t \in Tokens |-> 0]
  /\ confirmed = {} /\ raced = {} /\ wrong = 0 /\ overtaken = {}

Begin(p) ==
  \/ BeginOwnSetup(p) \/ BeginOwnConfirm(p) \/ BeginDisable(p)
  \/ \E t \in Tokens : BeginVerify(p, t) \/ BeginSetup(p, t) \/ BeginConfirm(p, t)

Answer(p) ==
  \/ WrongCode(p) \/ RightCode(p) \/ Reread(p) \/ ConfirmChallenge(p) \/ ConfirmOwn(p)
  \/ Disable(p) \/ RollBack(p) \/ \E s \in Secrets : StoreSecret(p, s)

Next ==
  \/ RequestReset
  \/ \E o \in Orgs : ResendVerification(o) \/ Challenge(o) \/ SetPolicy(o)
  \/ \E o \in Movable : SetMember(o)
  \/ \E t \in Tokens : VerifyEmail(t) \/ ResetPassword(t) \/ Expires(t)
  \/ \E p \in Procs : Begin(p) \/ Answer(p)
  \/ LockEnds

Spec == Init /\ [][Next]_vars

-----------------------------------------------------------------------------
(* Properties                                                              *)

TypeOK ==
  /\ token \in [Tokens -> TokenRows] /\ user \in Users
  /\ policy \subseteq Orgs /\ active \subseteq Orgs
  /\ attempt \in [Procs -> Attempts \cup {None}]
  /\ uses \in [Tokens -> 0 .. 2] /\ confirmed \subseteq Secrets /\ raced \subseteq Secrets
  /\ wrong \in 0 .. MaxFailed /\ user.failed \in 0 .. MaxFailed /\ overtaken \subseteq Procs

\* auth_tokens_user_purpose_active_idx: what was mailed or handed out before
\* is worth nothing once another token of the purpose is.
OneActiveToken ==
  \A t, u \in Tokens : Active(token[t]) /\ Active(token[u])
                       /\ token[t].purpose = token[u].purpose => t = u

\* A token presented twice at once, or while it is being replaced, has its
\* effect once, and then it is consumed.
SpentOnce == \A t \in Tokens : uses[t] <= 1 /\ (uses[t] = 1 => token[t].state = "consumed")

\* The lockout comes after as many wrong codes as the threshold, counted from
\* the end of the one before: one that is over does not shorten the next.
LockIsEarned ==
  [][user.lock # "running" /\ user'.lock = "running" => wrong' >= Threshold]_vars

\* The secret that guards the account is one its owner has given a code for,
\* unless it was stored while a confirmation of another was under way.
EnabledWasConfirmed == user.mfa = "on" => user.secret \in confirmed \cup raced

\* A login enrols only under a policy: one withdrawn before the code was found
\* right is noticed, however long ago it asked for the code; one withdrawn
\* between that and the commit may be missed.
EnrolledByPolicy ==
  [][\A p \in Procs : LET a == attempt[p] IN
       a # None /\ a.kind \in {"confirm", "enrol"} /\ uses'[a.token] > uses[a.token]
         => token[a.token].org \in policy \/ p \in overtaken]_vars

\* What a challenge or a code is good for: one effect per token, and a factor
\* whose owner has shown to have it.
SecretsAreProven == OneActiveToken /\ SpentOnce /\ EnabledWasConfirmed

\* Lockouts rest on the codes that were given since the last one, enrolments on
\* the policy as it is after the code, not on what the request had read before.
FactorsAreEarned == LockIsEarned /\ EnrolledByPolicy

\* auth.ts:1617 re-reads the policy "inside the SAME transaction as enableMfa so
\* there's no further race window": none is enrolled for a policy that is gone.
NoFurtherRace ==
  [][\A p \in Procs : LET a == attempt[p] IN
       a # None /\ a.kind = "enrol" /\ uses'[a.token] > uses[a.token]
         => token[a.token].org \in policy]_vars

\* auth.ts:679 invalidates any prior reset token "to satisfy
\* auth_tokens_user_purpose_active_idx": no earlier one, of whatever age and
\* organization, keeps a user from asking for a reset.
ResetCanBeAsked ==
  active # {} => \A t \in Tokens : token[t].purpose = "password_reset" /\ Active(token[t])
                                   => token[t].org = FirstOrg
===============================================================================
