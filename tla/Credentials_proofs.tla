-------------------------- MODULE Credentials_proofs --------------------------
(***************************************************************************)
(* Proofs about Credentials, for every number of tokens, secrets, requests *)
(* and organizations and every threshold: tokens are spent once, the       *)
(* secret that guards the account was confirmed, lockouts and enrolments   *)
(* are earned.                                                             *)
(***************************************************************************)
EXTENDS Credentials, FiniteSetTheorems, TLAPS

-----------------------------------------------------------------------------
(* The inductive invariant                                                 *)

\* A request with a challenge has the row of its token locked, so that only it
\* can spend it; a confirmation tests the secret the row has, unless another
\* was stored meanwhile or the factor was given up; and what has read the policy
\* enrols under it, unless it was withdrawn since.
Holds(p) ==
  LET a == attempt[p] IN
  a # None =>
    /\ a.kind \in {"verify", "setup", "confirm", "enrol"} <=> a.token # None
    /\ a.token # None => token[a.token].purpose = "mfa_challenge" /\ Active(token[a.token])
    /\ a.kind \in {"confirm", "enrol", "own_confirm"} =>
         a.secret \in Secrets /\ user.secret \in {a.secret, None} \cup raced
    /\ a.kind = "enrol" => token[a.token].org \in policy \/ p \in overtaken

\* The row lock has one holder.
HoldAlone ==
  \A p, q \in Procs :
    (attempt[p] # None /\ attempt[q] # None /\ attempt[p].token # None
     /\ attempt[p].token = attempt[q].token) => p = q

\* The counter of the row never runs ahead of the wrong codes.
Counted == user.failed <= wrong

IInv == /\ TypeOK /\ SecretsAreProven /\ Counted /\ HoldAlone
        /\ \A p \in Procs : Holds(p)

-----------------------------------------------------------------------------
(* Numbers, rows and requests                                              *)

LEMMA Numbers ==
    /\ MaxTokens \in Nat \ {0} /\ Threshold \in Nat \ {0} /\ MaxSecrets \in Nat
    /\ MaxFailed \in Nat /\ MaxFailed >= Threshold
    /\ None \notin Procs /\ None \notin Secrets /\ None \notin Tokens /\ None \notin Orgs
    /\ Orgs \subseteq Nat /\ 1 \in Orgs /\ Movable \subseteq Orgs
    /\ Tokens \subseteq Nat /\ Secrets \subseteq Nat
<1>1. Cardinality(Procs) \in Nat
  BY FS_CardinalityType, ProcsAssumption
<1>2. MaxTokens \in Nat \ {0} /\ Threshold \in Nat \ {0} /\ MaxSecrets \in Nat
  BY BoundsAssumption
<1>3. MaxFailed \in Nat /\ MaxFailed >= Threshold
  BY <1>1, <1>2 DEF MaxFailed
<1>4. None \notin Procs /\ None \notin Secrets /\ None \notin Tokens /\ None \notin Orgs
  BY ProcsAssumption
<1>5. Orgs \subseteq Nat /\ 1 \in Orgs /\ Movable \subseteq Orgs
  BY OrgsAssumption
<1>6. Tokens \subseteq Nat /\ Secrets \subseteq Nat
  BY <1>2 DEF Tokens, Secrets
<1>. QED BY <1>2, <1>3, <1>4, <1>5, <1>6

\* A set of numbers has a least one.
LEMMA Least ==
    ASSUME NEW S \in SUBSET Nat, S # {}
    PROVE  \E m \in S : \A k \in S : m <= k
<1>. DEFINE R == OpToRel(<, Nat)
<1>1. IsWellFoundedOn(R, Nat)
  BY NatLessThanWellFounded
<1>. HIDE DEF R
<1>2. PICK m \in S : \A k \in S : ~ (<<k, m>> \in R)
  BY <1>1, WFMin
<1>3. \A k \in S : k < m => <<k, m>> \in R
  BY DEF R, OpToRel
<1>4. ASSUME NEW k \in S PROVE m <= k
  <2>1. ~ (k < m) /\ k \in Nat /\ m \in Nat
    BY <1>2, <1>3
  <2>. QED BY <2>1
<1>. QED BY <1>4

\* createToken takes a row that is not there yet.
LEMMA NextIdIs ==
    ASSUME HasToken
    PROVE  NextId \in Tokens /\ token[NextId].state = "absent"
<1>. DEFINE S == {t \in Tokens : token[t].state = "absent"}
<1>1. S # {} /\ S \in SUBSET Nat
  BY Numbers DEF HasToken
<1>2. PICK m \in S : \A k \in S : m <= k
  BY <1>1, Least
<1>3. \E t \in Tokens : token[t].state = "absent"
                         /\ \A u \in Tokens : token[u].state = "absent" => t <= u
  BY <1>2
<1>. QED BY <1>3 DEF NextId

LEMMA FirstOrgIs ==
    ASSUME active \subseteq Orgs, active # {}
    PROVE  FirstOrg \in active
<1>1. active \in SUBSET Nat
  BY Numbers
<1>2. PICK m \in active : \A k \in active : m <= k
  BY <1>1, Least
<1>. QED BY <1>2 DEF FirstOrg

LEMMA UpIs ==
    ASSUME NEW n \in 0 .. MaxFailed
    PROVE  /\ Up(n) \in 0 .. MaxFailed /\ n <= Up(n)
           /\ \A m \in 0 .. MaxFailed : m <= n => Up(m) <= Up(n)
           /\ Up(n) > 0
BY Numbers DEF Up

LEMMA UserIs ==
    ASSUME NEW u \in Users
    PROVE  /\ u.mfa \in {"off", "pending", "on"} /\ u.secret \in Secrets \cup {None}
           /\ u.failed \in Nat /\ u.lock \in {"none", "running", "over"}
           /\ u.verified \in BOOLEAN /\ (u.mfa = "off" <=> u.secret = None)
BY DEF Users

LEMMA ClearedIs ==
    ASSUME NEW u \in Users
    PROVE  /\ Cleared(u) \in Users /\ Cleared(u).failed = 0 /\ Cleared(u).lock = "none"
           /\ Cleared(u).mfa = u.mfa /\ Cleared(u).secret = u.secret
BY DEF Users, Cleared

LEMMA EnabledIs ==
    ASSUME NEW u \in Users, u.secret # None
    PROVE  /\ Enabled(u) \in Users /\ Enabled(u).failed = 0 /\ Enabled(u).lock = "none"
           /\ Enabled(u).mfa = "on" /\ Enabled(u).secret = u.secret
BY DEF Users, Cleared, Enabled

LEMMA OffIs ==
    ASSUME NEW u \in Users
    PROVE  /\ Off(u) \in Users /\ Off(u).failed = 0 /\ Off(u).lock = "none"
           /\ Off(u).mfa = "off" /\ Off(u).secret = None
BY Numbers DEF Users, Cleared, Off

LEMMA StoredIs ==
    ASSUME NEW u \in Users, NEW s \in Secrets
    PROVE  /\ Stored(u, s) \in Users /\ Stored(u, s).failed = 0 /\ Stored(u, s).lock = "none"
           /\ Stored(u, s).mfa = "pending" /\ Stored(u, s).secret = s
BY Numbers DEF Users, Cleared, Stored

LEMMA FailedIs ==
    ASSUME NEW u \in Users, u.failed \in 0 .. MaxFailed
    PROVE  /\ Failed(u) \in Users /\ Failed(u).failed = Up(u.failed)
           /\ Failed(u).mfa = u.mfa /\ Failed(u).secret = u.secret
           /\ Failed(u).lock = IF Up(u.failed) >= Threshold THEN "running" ELSE u.lock
<1>1. Up(u.failed) \in Nat
  BY UpIs, Numbers
<1>. QED BY <1>1 DEF Users, Failed

LEMMA AttemptIs ==
    ASSUME TypeOK, NEW p \in Procs, attempt[p] # None
    PROVE  /\ attempt[p] \in Attempts /\ attempt[p].kind \in Kinds
           /\ attempt[p].token \in Tokens \cup {None}
           /\ attempt[p].secret \in Secrets \cup {None} /\ attempt[p].over \in BOOLEAN
<1>1. attempt[p] \in Attempts
  BY DEF TypeOK
<1>. QED BY <1>1 DEF Attempts

-----------------------------------------------------------------------------
(* What a step does to the tokens                                          *)

\* The challenge of a running request is still good, for the same organization.
ChallengeStays(t) ==
  LET r == token'[t] IN
  r.purpose = "mfa_challenge" /\ Active(r) /\ r.org = token[t].org

\* The tokens of running requests are as they were, and the others in order.
TokensGo ==
  /\ token' \in [Tokens -> TokenRows] /\ uses' \in [Tokens -> 0 .. 2]
  /\ OneActiveToken' /\ SpentOnce'
  /\ \A p \in Procs :
       (attempt'[p] # None /\ attempt[p].token # None) => ChallengeStays(attempt[p].token)

LEMMA TokensStay ==
    ASSUME IInv, token' = token, uses' = uses, \A p \in Procs : attempt'[p] \in {attempt[p], None}
    PROVE  TokensGo
<1>1. OneActiveToken' /\ SpentOnce'
  BY DEF IInv, SecretsAreProven, OneActiveToken, SpentOnce, Active
<1>. QED BY <1>1 DEF IInv, TypeOK, TokensGo, Holds, ChallengeStays

LEMMA TokensSpent ==
    ASSUME IInv, NEW t \in Tokens, Active(token[t]), Consume(t),
           \A p \in Procs : attempt'[p] \in {attempt[p], None},
           \A p \in Procs : attempt'[p] # None => attempt[p].token # t
    PROVE  TokensGo
<1>. DEFINE x == Dead(token[t], "consumed")
            n == IF uses[t] < 2 THEN uses[t] + 1 ELSE uses[t]
<1>0. /\ TypeOK /\ OneActiveToken /\ SpentOnce
      /\ token \in [Tokens -> TokenRows] /\ uses \in [Tokens -> 0 .. 2]
  BY DEF IInv, TypeOK, SecretsAreProven
<1>1. x \in TokenRows /\ x.state = "consumed" /\ ~Active(x)
  BY <1>0 DEF TokenRows, Dead, Active
<1>2. uses[t] = 0
  <2>1. token[t].state # "consumed"
    BY DEF Active
  <2>2. uses[t] \in 0 .. 2 /\ uses[t] <= 1 /\ uses[t] # 1
    BY <1>0, <2>1 DEF SpentOnce
  <2>. QED BY <2>2
<1>3. n = 1
  BY <1>2
<1>4. token' = [token EXCEPT ![t] = x] /\ uses' = [uses EXCEPT ![t] = n]
  BY DEF Consume
<1>. HIDE DEF x, n
<1>5. /\ token'[t] = x /\ \A u \in Tokens \ {t} : token'[u] = token[u]
      /\ uses'[t] = 1 /\ \A u \in Tokens \ {t} : uses'[u] = uses[u]
      /\ token' \in [Tokens -> TokenRows] /\ uses' \in [Tokens -> 0 .. 2]
  BY <1>0, <1>1, <1>3, <1>4
<1>6. OneActiveToken'
  <2>1. \A u \in Tokens : Active(token'[u]) => u # t /\ token'[u] = token[u]
    BY <1>1, <1>5
  <2>. QED BY <1>0, <2>1 DEF OneActiveToken
<1>7. SpentOnce'
  <2>. SUFFICES ASSUME NEW u \in Tokens
                PROVE  uses'[u] <= 1 /\ (uses'[u] = 1 => token'[u].state = "consumed")
    BY DEF SpentOnce
  <2>1. CASE u = t
    BY <1>1, <1>5, <2>1
  <2>2. CASE u # t
    BY <1>0, <1>5, <2>2 DEF SpentOnce
  <2>. QED BY <2>1, <2>2
<1>8. ASSUME NEW p \in Procs, attempt'[p] # None, attempt[p].token # None
      PROVE  ChallengeStays(attempt[p].token)
  <2>1. attempt[p] # None /\ Holds(p) /\ attempt[p].token # t
    BY <1>8 DEF IInv
  <2>2. attempt[p].token \in Tokens
    BY <1>0, <1>8, <2>1, AttemptIs
  <2>. QED BY <1>5, <1>8, <2>1, <2>2 DEF Holds, ChallengeStays
<1>. QED BY <1>5, <1>6, <1>7, <1>8 DEF TokensGo

LEMMA TokensMinted ==
    ASSUME IInv, NEW purpose \in Purposes, NEW o \in Orgs, NEW seen, Mint(purpose, o, seen),
           uses' = uses, attempt' = attempt
    PROVE  TokensGo
<1>. DEFINE n == NextId
<1>0. /\ TypeOK /\ OneActiveToken /\ SpentOnce
      /\ token \in [Tokens -> TokenRows] /\ uses \in [Tokens -> 0 .. 2]
  BY DEF IInv, TypeOK, SecretsAreProven
<1>1. n \in Tokens /\ token[n].state = "absent"
  BY NextIdIs DEF Mint
<1>2. \A u \in Tokens : token[u].purpose = purpose /\ Active(token[u])
                          => token[u].org \in seen /\ ~Locked(u)
  BY DEF Mint
<1>3. token' = [u \in Tokens |->
                  IF u = n THEN Fresh(purpose, o)
                  ELSE IF token[u].purpose = purpose /\ Active(token[u]) /\ token[u].org \in seen
                       THEN Dead(token[u], "invalidated") ELSE token[u]]
  BY DEF Mint, Replacing
<1>. HIDE DEF n
<1>4. Fresh(purpose, o) \in TokenRows /\ Fresh(purpose, o).purpose = purpose
  BY DEF Fresh, TokenRows
<1>5. \A r \in TokenRows : /\ Dead(r, "invalidated") \in TokenRows
                           /\ Dead(r, "invalidated").state = "invalidated"
                           /\ ~Active(Dead(r, "invalidated"))
  BY DEF TokenRows, Dead, Active
<1>6. \A u \in Tokens \ {n} :
        \/ token'[u] = token[u] /\ ~(token[u].purpose = purpose /\ Active(token[u]))
        \/ /\ token[u].purpose = purpose /\ Active(token[u])
           /\ token'[u] = Dead(token[u], "invalidated")
  BY <1>2, <1>3
<1>7. token'[n] = Fresh(purpose, o) /\ token' \in [Tokens -> TokenRows]
  BY <1>0, <1>1, <1>3, <1>4, <1>5
<1>8. OneActiveToken'
  <2>1. \A u \in Tokens : Active(token'[u]) =>
           u = n \/ (token'[u] = token[u] /\ token[u].purpose # purpose)
    BY <1>0, <1>5, <1>6
  <2>. QED BY <1>0, <1>4, <1>7, <2>1 DEF OneActiveToken
<1>9. SpentOnce'
  <2>1. \A u \in Tokens : token[u].state = "consumed" => token'[u] = token[u]
    BY <1>1, <1>6 DEF Active
  <2>. QED BY <1>0, <2>1 DEF SpentOnce
<1>10. ASSUME NEW p \in Procs, attempt'[p] # None, attempt[p].token # None
       PROVE  ChallengeStays(attempt[p].token)
  <2>. DEFINE t == attempt[p].token
  <2>1. attempt[p] # None /\ Holds(p) /\ Locked(t)
    BY <1>10 DEF IInv, Locked
  <2>2. t \in Tokens /\ token[t].purpose = "mfa_challenge" /\ Active(token[t])
    BY <1>0, <1>10, <2>1, AttemptIs DEF Holds
  <2>3. t # n
    BY <1>1, <2>2 DEF Active
  <2>4. token'[t] = token[t]
    BY <1>2, <1>6, <2>1, <2>2, <2>3
  <2>. QED BY <2>2, <2>4 DEF ChallengeStays
<1>. QED BY <1>0, <1>7, <1>8, <1>9, <1>10 DEF TokensGo

-----------------------------------------------------------------------------
(* What a step does to the policy                                          *)

\* What enrols under a policy goes on to, or the policy is withdrawn under it.
PolicyGoes ==
  /\ policy' \subseteq Orgs /\ overtaken' \subseteq Procs
  /\ \A p \in Procs :
       LET o == token[attempt[p].token].org IN
       (attempt'[p] # None /\ attempt[p].kind = "enrol" /\ (o \in policy \/ p \in overtaken))
         => (o \in policy' \/ p \in overtaken')

LEMMA PolicyStays ==
    ASSUME IInv, UNCHANGED <<policy, overtaken>> PROVE PolicyGoes
BY DEF IInv, TypeOK, PolicyGoes

\* The policy is withdrawn from the enrolments of its organization.
LEMMA PolicyFlips ==
    ASSUME IInv, NEW o \in Orgs, SetPolicy(o) PROVE PolicyGoes
<1>1. /\ policy \subseteq Orgs /\ overtaken \subseteq Procs /\ attempt' = attempt
      /\ policy' = IF o \in policy THEN policy \ {o} ELSE policy \cup {o}
      /\ overtaken' = IF o \in policy THEN overtaken \cup Enrolling(o) ELSE overtaken
  BY DEF IInv, TypeOK, SetPolicy
<1>2. policy' \subseteq Orgs /\ overtaken' \subseteq Procs
  BY <1>1 DEF Enrolling
<1>3. ASSUME NEW p \in Procs, attempt'[p] # None, attempt[p].kind = "enrol",
             token[attempt[p].token].org \in policy \/ p \in overtaken
      PROVE  token[attempt[p].token].org \in policy' \/ p \in overtaken'
  BY <1>1, <1>3 DEF Enrolling
<1>. QED BY <1>2, <1>3 DEF PolicyGoes

-----------------------------------------------------------------------------
(* The steps                                                               *)

\* No request begins; the secret that a running confirmation will enable is the
\* one it tests, or one that was stored meanwhile.
LEMMA Keeps ==
    ASSUME IInv, TokensGo, PolicyGoes, active' \subseteq Orgs,
           attempt' \in [Procs -> Attempts \cup {None}],
           \A p \in Procs : attempt'[p] \in {attempt[p], None},
           user' \in Users, user'.failed \in 0 .. MaxFailed, wrong' \in 0 .. MaxFailed,
           user'.failed <= wrong', confirmed' \subseteq Secrets, raced' \subseteq Secrets,
           EnabledWasConfirmed',
           \A p \in Procs :
             (attempt'[p] # None /\ attempt[p].kind \in {"confirm", "enrol", "own_confirm"})
               => user'.secret \in {attempt[p].secret, None} \cup raced'
    PROVE  IInv'
<1>1. TypeOK' /\ SecretsAreProven' /\ Counted'
  BY DEF TokensGo, PolicyGoes, TypeOK, SecretsAreProven, Counted
<1>2. HoldAlone'
  BY DEF IInv, HoldAlone
<1>3. ASSUME NEW p \in Procs PROVE Holds(p)'
  <2>. SUFFICES ASSUME attempt'[p] # None PROVE Holds(p)'
    BY DEF Holds
  <2>1. attempt'[p] = attempt[p] /\ attempt[p] # None /\ Holds(p)
    BY DEF IInv
  <2>2. (attempt[p].kind = "enrol") =>
          (token'[attempt[p].token].org \in policy' \/ p \in overtaken')
    BY <2>1 DEF Holds, TokensGo, ChallengeStays, PolicyGoes
  <2>. QED BY <2>1, <2>2 DEF Holds, TokensGo, ChallengeStays, Active
<1>. QED BY <1>1, <1>2, <1>3 DEF IInv

\* The same, when the secret of the row stays and is as much in use as it was.
LEMMA KeepsSecret ==
    ASSUME IInv, TokensGo, PolicyGoes, active' \subseteq Orgs,
           attempt' \in [Procs -> Attempts \cup {None}],
           \A p \in Procs : attempt'[p] \in {attempt[p], None},
           user' \in Users, user'.secret = user.secret, user'.mfa = user.mfa,
           user'.failed \in 0 .. MaxFailed, wrong' \in 0 .. MaxFailed,
           user'.failed <= wrong', confirmed' = confirmed, raced' = raced
    PROVE  IInv'
<1>0. confirmed' \subseteq Secrets /\ raced' \subseteq Secrets
  BY DEF IInv, TypeOK
<1>1. EnabledWasConfirmed'
  <2>1. EnabledWasConfirmed
    BY DEF IInv, SecretsAreProven
  <2>. QED BY <2>1 DEF EnabledWasConfirmed
<1>2. ASSUME NEW p \in Procs, attempt'[p] # None, attempt[p].kind \in {"confirm", "enrol", "own_confirm"}
      PROVE  user'.secret \in {attempt[p].secret, None} \cup raced'
  <2>1. attempt[p] # None /\ Holds(p)
    BY <1>2 DEF IInv
  <2>. QED BY <1>2, <2>1 DEF Holds
<1>. QED BY <1>0, <1>1, <1>2, Keeps

\* No request is concerned, and neither is the factor.
LEMMA KeepsRequests ==
    ASSUME IInv, TokensGo, PolicyGoes, active' \subseteq Orgs, attempt' = attempt,
           user' \in Users, user'.secret = user.secret, user'.mfa = user.mfa,
           user'.failed = user.failed, UNCHANGED <<confirmed, raced, wrong>>
    PROVE  IInv'
<1>1. /\ attempt \in [Procs -> Attempts \cup {None}] /\ user.failed \in 0 .. MaxFailed
      /\ wrong \in 0 .. MaxFailed /\ user.failed <= wrong
  BY DEF IInv, TypeOK, Counted
<1>. QED BY <1>1, KeepsSecret

LEMMA MintSteps ==
    ASSUME IInv, RequestReset \/ \E o \in Orgs : ResendVerification(o) \/ Challenge(o)
    PROVE  IInv'
<1>0. TypeOK
  BY DEF IInv
<1>1. PICK purpose \in Purposes, o \in Orgs, seen \in SUBSET Orgs :
        Mint(purpose, o, seen) /\ UNCHANGED <<user, policy, active, attempt, history>>
  <2>1. CASE RequestReset
    <3>1. FirstOrg \in Orgs
      BY <1>0, <2>1, FirstOrgIs DEF RequestReset, TypeOK
    <3>. QED BY <2>1, <3>1 DEF RequestReset, Purposes
  <2>2. CASE \E o \in Orgs : ResendVerification(o)
    BY <2>2 DEF ResendVerification, Purposes
  <2>3. CASE \E o \in Orgs : Challenge(o)
    BY <2>3 DEF Challenge, Purposes
  <2>. QED BY <2>1, <2>2, <2>3
<1>2. UNCHANGED <<user, policy, active, attempt, uses, confirmed, raced, wrong, overtaken>>
  BY <1>1 DEF history
<1>3. TokensGo /\ PolicyGoes
  BY <1>1, <1>2, TokensMinted, PolicyStays
<1>. QED BY <1>0, <1>2, <1>3, KeepsRequests DEF TypeOK

LEMMA SpendSteps ==
    ASSUME IInv, NEW t \in Tokens, VerifyEmail(t) \/ ResetPassword(t)
    PROVE  IInv'
<1>0. TypeOK /\ user \in Users
  BY DEF IInv, TypeOK
<1>1. /\ token[t].state = "live" /\ ~Locked(t) /\ Consume(t)
      /\ user' \in {user, [user EXCEPT !.verified = TRUE]}
      /\ UNCHANGED <<policy, active, attempt, confirmed, raced, wrong, overtaken>>
  BY DEF VerifyEmail, ResetPassword, Valid
<1>2. TokensGo
  <2>1. \A p \in Procs : attempt'[p] # None => attempt[p].token # t
    BY <1>1 DEF Locked
  <2>. QED BY <1>1, <2>1, TokensSpent DEF Active
<1>3. /\ user' \in Users /\ user'.secret = user.secret /\ user'.mfa = user.mfa
      /\ user'.failed = user.failed
  BY <1>0, <1>1 DEF Users
<1>. QED BY <1>0, <1>1, <1>2, <1>3, PolicyStays, KeepsRequests DEF TypeOK

LEMMA ExpireStep ==
    ASSUME IInv, NEW t \in Tokens, Expires(t) PROVE IInv'
<1>0. /\ TypeOK /\ token \in [Tokens -> TokenRows] /\ OneActiveToken /\ SpentOnce
      /\ token[t].state = "live" /\ token' = [token EXCEPT ![t].state = "expired"]
      /\ UNCHANGED <<user, policy, active, attempt, uses, confirmed, raced, wrong, overtaken>>
  BY DEF IInv, TypeOK, SecretsAreProven, Expires, history
<1>. DEFINE x == [token[t] EXCEPT !.state = "expired"]
<1>1. x \in TokenRows /\ x.state = "expired" /\ x.purpose = token[t].purpose
      /\ x.org = token[t].org
  BY <1>0 DEF TokenRows
<1>2. token' = [token EXCEPT ![t] = x]
  BY <1>0
<1>. HIDE DEF x
<1>3. token' \in [Tokens -> TokenRows] /\ token'[t] = x /\ \A u \in Tokens \ {t} : token'[u] = token[u]
  BY <1>0, <1>1, <1>2
<1>4. ASSUME NEW u \in Tokens
      PROVE  /\ Active(token'[u]) <=> Active(token[u])
             /\ token'[u].purpose = token[u].purpose /\ token'[u].org = token[u].org
             /\ token[u].state = "consumed" => token'[u].state = "consumed"
  <2>1. CASE u = t
    BY <1>0, <1>1, <1>3, <2>1 DEF Active
  <2>2. CASE u # t
    <3>1. token'[u] = token[u]
      BY <1>3, <2>2
    <3>. QED BY <3>1
  <2>. QED BY <2>1, <2>2
<1>5. OneActiveToken' /\ SpentOnce'
  <2>1. OneActiveToken'
    BY <1>0, <1>4 DEF OneActiveToken
  <2>2. SpentOnce'
    BY <1>0, <1>4 DEF SpentOnce
  <2>. QED BY <2>1, <2>2
<1>6. TokensGo
  <2>1. ASSUME NEW p \in Procs, attempt'[p] # None, attempt[p].token # None
        PROVE  ChallengeStays(attempt[p].token)
    <3>1. attempt[p] # None /\ Holds(p)
      BY <1>0, <2>1 DEF IInv
    <3>2. attempt[p].token \in Tokens
      BY <1>0, <2>1, <3>1, AttemptIs
    <3>3. token[attempt[p].token].purpose = "mfa_challenge" /\ Active(token[attempt[p].token])
      BY <2>1, <3>1 DEF Holds
    <3>. QED BY <1>4, <3>2, <3>3 DEF ChallengeStays
  <2>. QED BY <1>0, <1>3, <1>5, <2>1 DEF TokensGo, TypeOK
<1>. QED BY <1>0, <1>6, PolicyStays, KeepsRequests DEF TypeOK

LEMMA SettingSteps ==
    ASSUME IInv, LockEnds \/ (\E o \in Orgs : SetPolicy(o)) \/ \E o \in Movable : SetMember(o)
    PROVE  IInv'
<1>0. TypeOK /\ user \in Users
  BY DEF IInv, TypeOK
<1>1. /\ user' = user \/ user' = [user EXCEPT !.lock = "over"]
      /\ active' \subseteq Orgs /\ UNCHANGED <<token, attempt, uses, confirmed, raced, wrong>>
  BY <1>0, Numbers DEF LockEnds, SetPolicy, SetMember, history, TypeOK
<1>2. TokensGo /\ PolicyGoes
  <2>1. LockEnds \/ (\E o \in Movable : SetMember(o)) => UNCHANGED <<policy, overtaken>>
    BY DEF LockEnds, SetMember, history
  <2>. QED BY <1>1, <2>1, TokensStay, PolicyStays, PolicyFlips
<1>3. /\ user' \in Users /\ user'.secret = user.secret /\ user'.mfa = user.mfa
      /\ user'.failed = user.failed
  BY <1>0, <1>1 DEF Users
<1>. QED BY <1>1, <1>2, <1>3, KeepsRequests

\* A request begins: its token is in order and locked by no other, and a
\* confirmation takes the secret of the row.
LEMMA Reads ==
    ASSUME IInv, NEW p \in Procs, NEW kind \in Kinds, NEW t \in Tokens \cup {None},
           Read(p, kind, t), kind # "enrol", kind \in {"verify", "setup", "confirm"} <=> t # None,
           t # None => Valid(t, "mfa_challenge"),
           kind \in {"confirm", "own_confirm"} => user.mfa = "pending"
    PROVE  IInv'
<1>. DEFINE x == [kind |-> kind, token |-> t,
                  secret |-> IF kind \in {"confirm", "own_confirm"} THEN user.secret ELSE None,
                  over |-> kind \notin {"setup", "own_setup"} /\ user.lock = "over"]
<1>0. /\ TypeOK /\ SecretsAreProven /\ Counted /\ HoldAlone /\ \A q \in Procs : Holds(q)
      /\ attempt[p] = None /\ attempt' = [attempt EXCEPT ![p] = x]
      /\ UNCHANGED <<token, user, policy, active, uses, confirmed, raced, wrong, overtaken>>
  BY DEF IInv, Read, rows, history
<1>1. /\ x \in Attempts /\ x.kind = kind /\ x.token = t
      /\ kind \in {"confirm", "own_confirm"} => x.secret = user.secret
  BY <1>0, UserIs DEF Attempts, TypeOK
<1>. HIDE DEF x
<1>2. /\ attempt' \in [Procs -> Attempts \cup {None}] /\ attempt'[p] = x
      /\ \A q \in Procs \ {p} : attempt'[q] = attempt[q]
  BY <1>0, <1>1 DEF TypeOK
<1>3. TypeOK' /\ Counted'
  BY <1>0, <1>2 DEF TypeOK, Counted
<1>4. SecretsAreProven'
  BY <1>0 DEF SecretsAreProven, OneActiveToken, SpentOnce, EnabledWasConfirmed, Active
<1>5. HoldAlone'
  <2>1. \A q \in Procs : (attempt[q] # None /\ t # None) => attempt[q].token # t
    BY DEF Valid, Locked
  <2>. QED BY <1>0, <1>1, <1>2, <2>1 DEF HoldAlone
<1>6. Holds(p)'
  <2>1. t # None => token[t].purpose = "mfa_challenge" /\ Active(token[t])
    BY DEF Valid, Active
  <2>2. kind \in {"confirm", "own_confirm"} => x.secret \in Secrets /\ x.secret = user.secret
    BY <1>0, <1>1, UserIs DEF TypeOK
  <2>. QED BY <1>0, <1>1, <1>2, <2>1, <2>2 DEF Holds, Active
<1>7. ASSUME NEW q \in Procs \ {p} PROVE Holds(q)'
  <2>1. Holds(q) /\ attempt'[q] = attempt[q]
    BY <1>0, <1>2
  <2>. QED BY <1>0, <2>1 DEF Holds, Active
<1>. QED BY <1>3, <1>4, <1>5, <1>6, <1>7 DEF IInv

LEMMA BeginStep ==
    ASSUME IInv, NEW p \in Procs, Begin(p) PROVE IInv'
<1>1. PICK kind \in Kinds, t \in Tokens \cup {None} :
        /\ Read(p, kind, t) /\ kind # "enrol" /\ (kind \in {"verify", "setup", "confirm"} <=> t # None)
        /\ t # None => Valid(t, "mfa_challenge")
        /\ kind \in {"confirm", "own_confirm"} => user.mfa = "pending"
  <2>1. CASE BeginOwnSetup(p) \/ BeginOwnConfirm(p) \/ BeginDisable(p)
    BY <2>1 DEF BeginOwnSetup, BeginOwnConfirm, BeginDisable, Kinds
  <2>2. CASE \E t \in Tokens : BeginVerify(p, t) \/ BeginSetup(p, t) \/ BeginConfirm(p, t)
    <3>1. PICK t \in Tokens : BeginVerify(p, t) \/ BeginSetup(p, t) \/ BeginConfirm(p, t)
      BY <2>2
    <3>2. t # None
      BY Numbers
    <3>. QED BY <3>1, <3>2 DEF BeginVerify, BeginSetup, BeginConfirm, Kinds
  <2>. QED BY <2>1, <2>2 DEF Begin
<1>. QED BY <1>1, Reads

\* A request that answers: the others go on as they were.
LEMMA Answers ==
    ASSUME IInv, NEW p \in Procs, Done(p)
    PROVE  /\ attempt' \in [Procs -> Attempts \cup {None}] /\ attempt'[p] = None
           /\ \A q \in Procs : attempt'[q] \in {attempt[q], None}
           /\ \A q \in Procs \ {p} : attempt'[q] = attempt[q]
           /\ policy' = policy => PolicyGoes
BY DEF IInv, TypeOK, Done, PolicyGoes

LEMMA AnswerSpends ==
    ASSUME IInv, NEW p \in Procs, attempt[p] # None, attempt[p].token # None,
           Consume(attempt[p].token), Done(p)
    PROVE  TokensGo
<1>0. TypeOK /\ Holds(p) /\ HoldAlone
  BY DEF IInv
<1>1. attempt[p].token \in Tokens /\ Active(token[attempt[p].token])
  BY <1>0, AttemptIs DEF Holds
<1>2. \A q \in Procs : attempt'[q] # None => attempt[q].token # attempt[p].token
  BY <1>0, Answers DEF HoldAlone
<1>. QED BY <1>1, <1>2, Answers, TokensSpent

LEMMA AfterReadIs ==
    ASSUME IInv, NEW p \in Procs, attempt[p] # None
    PROVE  LET u == AfterRead(attempt[p]) IN
           /\ u \in Users /\ u.mfa = user.mfa /\ u.secret = user.secret
           /\ u.failed = IF attempt[p].over THEN 0 ELSE user.failed
           /\ u.lock = IF attempt[p].over THEN "none" ELSE user.lock
<1>1. user \in Users
  BY DEF IInv, TypeOK
<1>. QED BY <1>1, ClearedIs DEF AfterRead

\* What a wrong code makes of the counters.
LEMMA WrongCodeIs ==
    ASSUME IInv, NEW p \in Procs, WrongCode(p)
    PROVE  /\ user' \in Users /\ user'.mfa = user.mfa /\ user'.secret = user.secret
           /\ user'.failed \in 0 .. MaxFailed /\ wrong' \in 0 .. MaxFailed
           /\ user'.failed <= wrong'
           /\ (user'.lock = "running" /\ user.lock # "running") => wrong' >= Threshold
<1>. DEFINE a == attempt[p]
            u == AfterRead(a)
            w == IF a.over /\ user.lock = "over" THEN 0 ELSE wrong
<1>0. /\ TypeOK /\ Counted /\ a # None /\ user' = Failed(u) /\ wrong' = Up(w)
      /\ wrong \in 0 .. MaxFailed /\ user.failed \in 0 .. MaxFailed
  BY DEF IInv, TypeOK, WrongCode
<1>1. /\ u \in Users /\ u.mfa = user.mfa /\ u.secret = user.secret
      /\ u.failed = IF a.over THEN 0 ELSE user.failed
      /\ u.lock = IF a.over THEN "none" ELSE user.lock
  BY <1>0, AfterReadIs
<1>2. /\ w \in 0 .. MaxFailed /\ u.failed \in 0 .. MaxFailed /\ u.failed <= w
  BY <1>0, <1>1, Numbers DEF Counted
<1>. HIDE DEF u, w, a
<1>3. /\ Up(u.failed) \in 0 .. MaxFailed /\ Up(w) \in 0 .. MaxFailed /\ Up(u.failed) <= Up(w)
  BY <1>2, UpIs
<1>4. /\ user' \in Users /\ user'.failed = Up(u.failed) /\ user'.mfa = u.mfa
      /\ user'.secret = u.secret
      /\ user'.lock = IF Up(u.failed) >= Threshold THEN "running" ELSE u.lock
  BY <1>0, <1>1, <1>2, FailedIs
<1>5. (user'.lock = "running" /\ user.lock # "running") => wrong' >= Threshold
  BY <1>0, <1>1, <1>3, <1>4, Numbers
<1>. QED BY <1>0, <1>1, <1>3, <1>4, <1>5

LEMMA WrongCodeStep ==
    ASSUME IInv, NEW p \in Procs, WrongCode(p) PROVE IInv'
<1>1. /\ Done(p) /\ UNCHANGED <<token, policy, active, uses, confirmed, raced>>
      /\ policy \subseteq Orgs /\ active \subseteq Orgs
  BY DEF IInv, TypeOK, WrongCode
<1>. QED BY <1>1, WrongCodeIs, Answers, TokensStay, KeepsSecret

LEMMA RightCodeStep ==
    ASSUME IInv, NEW p \in Procs, RightCode(p) PROVE IInv'
<1>1. /\ attempt[p] # None /\ attempt[p].kind = "verify" /\ user' = Cleared(user)
      /\ Consume(attempt[p].token) /\ wrong' = 0 /\ Done(p)
      /\ UNCHANGED <<policy, active, confirmed, raced>>
      /\ policy \subseteq Orgs /\ active \subseteq Orgs /\ user \in Users /\ Holds(p)
  BY DEF IInv, TypeOK, RightCode
<1>2. TokensGo
  BY <1>1, AnswerSpends DEF Holds
<1>3. user' \in Users /\ user'.failed = 0 /\ user'.mfa = user.mfa /\ user'.secret = user.secret
  BY <1>1, ClearedIs
<1>. QED BY <1>1, <1>2, <1>3, Answers, Numbers, KeepsSecret

\* enableMfa: what is enabled is the secret of the row, which a code was given
\* for unless it was stored meanwhile.
LEMMA EnableStep ==
    ASSUME IInv, NEW p \in Procs, ConfirmChallenge(p) \/ ConfirmOwn(p) PROVE IInv'
<1>. DEFINE a == attempt[p]
<1>1. /\ a # None /\ a.kind \in {"enrol", "own_confirm"} /\ user.secret # None
      /\ user' = Enabled(user) /\ confirmed' = confirmed \cup {a.secret} /\ wrong' = 0
      /\ Done(p) /\ UNCHANGED <<policy, active, raced>>
      /\ \/ a.kind = "enrol" /\ Consume(a.token)
         \/ UNCHANGED <<token, uses>>
      /\ TypeOK /\ user \in Users /\ Holds(p)
  BY DEF IInv, TypeOK, ConfirmChallenge, ConfirmOwn
<1>2. TokensGo
  <2>1. CASE a.kind = "enrol" /\ Consume(a.token)
    BY <1>1, <2>1, AnswerSpends DEF Holds
  <2>2. CASE UNCHANGED <<token, uses>>
    BY <1>1, <2>2, Answers, TokensStay
  <2>. QED BY <1>1, <2>1, <2>2
<1>3. user' \in Users /\ user'.failed = 0 /\ user'.mfa = "on" /\ user'.secret = user.secret
  BY <1>1, EnabledIs
<1>4. a.secret \in Secrets /\ user.secret \in {a.secret} \cup raced
  BY <1>1 DEF Holds
<1>5. EnabledWasConfirmed'
  BY <1>1, <1>3, <1>4 DEF EnabledWasConfirmed
<1>6. ASSUME NEW q \in Procs, attempt'[q] # None, attempt[q].kind \in {"confirm", "enrol", "own_confirm"}
      PROVE  user'.secret \in {attempt[q].secret, None} \cup raced'
  <2>1. attempt[q] # None /\ Holds(q)
    BY <1>1, <1>6, Answers DEF IInv
  <2>. QED BY <1>1, <1>3, <1>6, <2>1 DEF Holds
<1>7. /\ policy' \subseteq Orgs /\ active' \subseteq Orgs /\ confirmed' \subseteq Secrets
      /\ raced' \subseteq Secrets /\ user'.failed <= wrong'
      /\ user'.failed \in 0 .. MaxFailed /\ wrong' \in 0 .. MaxFailed
  <2>1. policy' \subseteq Orgs /\ active' \subseteq Orgs /\ raced' \subseteq Secrets
    BY <1>1 DEF TypeOK
  <2>2. confirmed' \subseteq Secrets
    BY <1>1, <1>4 DEF TypeOK
  <2>3. /\ user'.failed <= wrong' /\ user'.failed \in 0 .. MaxFailed
        /\ wrong' \in 0 .. MaxFailed
    BY <1>1, <1>3, Numbers
  <2>. QED BY <2>1, <2>2, <2>3
<1>. QED BY <1>1, <1>2, <1>3, <1>5, <1>6, <1>7, Answers, Keeps

\* The policy is on when it is read again.
LEMMA RereadStep ==
    ASSUME IInv, NEW p \in Procs, Reread(p) PROVE IInv'
<1>. DEFINE x == [attempt[p] EXCEPT !.kind = "enrol"]
<1>0. /\ TypeOK /\ SecretsAreProven /\ Counted /\ HoldAlone /\ \A q \in Procs : Holds(q)
      /\ attempt[p] # None /\ attempt[p].kind = "confirm"
      /\ token[attempt[p].token].org \in policy
      /\ attempt' = [attempt EXCEPT ![p].kind = "enrol"]
      /\ UNCHANGED <<token, user, policy, active, uses, confirmed, raced, wrong, overtaken>>
  BY DEF IInv, Reread, StillRequired, rows, history
<1>1. /\ x \in Attempts /\ x.kind = "enrol" /\ x.token = attempt[p].token
      /\ x.secret = attempt[p].secret /\ attempt' = [attempt EXCEPT ![p] = x]
  <2>1. attempt[p] \in Attempts
    BY <1>0, AttemptIs
  <2>2. x \in Attempts /\ x.kind = "enrol" /\ x.token = attempt[p].token
        /\ x.secret = attempt[p].secret
    BY <2>1 DEF Attempts, Kinds
  <2>. QED BY <1>0, <2>2
<1>. HIDE DEF x
<1>2. /\ attempt' \in [Procs -> Attempts \cup {None}] /\ attempt'[p] = x
      /\ \A q \in Procs \ {p} : attempt'[q] = attempt[q]
  BY <1>0, <1>1 DEF TypeOK
<1>3. TypeOK' /\ Counted'
  BY <1>0, <1>2 DEF TypeOK, Counted
<1>4. SecretsAreProven'
  BY <1>0 DEF SecretsAreProven, OneActiveToken, SpentOnce, EnabledWasConfirmed, Active
<1>5. HoldAlone'
  BY <1>0, <1>1, <1>2 DEF HoldAlone
<1>6. Holds(p)'
  BY <1>0, <1>1, <1>2 DEF Holds, Active
<1>7. ASSUME NEW q \in Procs \ {p} PROVE Holds(q)'
  <2>1. Holds(q) /\ attempt'[q] = attempt[q]
    BY <1>0, <1>2
  <2>. QED BY <1>0, <2>1 DEF Holds, Active
<1>. QED BY <1>3, <1>4, <1>5, <1>6, <1>7 DEF IInv

LEMMA DisableStep ==
    ASSUME IInv, NEW p \in Procs, Disable(p) PROVE IInv'
<1>1. /\ user' = Off(user) /\ wrong' = 0 /\ Done(p)
      /\ UNCHANGED <<token, policy, active, uses, confirmed, raced>>
      /\ TypeOK /\ user \in Users
  BY DEF IInv, TypeOK, Disable
<1>2. user' \in Users /\ user'.failed = 0 /\ user'.mfa = "off" /\ user'.secret = None
  BY <1>1, OffIs
<1>3. TokensGo /\ EnabledWasConfirmed'
  BY <1>1, <1>2, Answers, TokensStay DEF EnabledWasConfirmed
<1>4. /\ policy' \subseteq Orgs /\ active' \subseteq Orgs /\ confirmed' \subseteq Secrets
      /\ raced' \subseteq Secrets /\ user'.failed <= wrong'
      /\ user'.failed \in 0 .. MaxFailed /\ wrong' \in 0 .. MaxFailed
  BY <1>1, <1>2, Numbers DEF TypeOK
<1>. QED BY <1>1, <1>2, <1>3, <1>4, Answers, Keeps

\* storePendingSecret, under the confirmations that are under way.
LEMMA StoreSecretStep ==
    ASSUME IInv, NEW p \in Procs, NEW s \in Secrets, StoreSecret(p, s) PROVE IInv'
<1>1. /\ attempt[p] # None /\ attempt[p].kind \in {"setup", "own_setup"}
      /\ user' = Stored(user, s) /\ wrong' = 0 /\ Done(p)
      /\ raced' = IF Confirming = {} THEN raced ELSE raced \cup {s}
      /\ UNCHANGED <<token, policy, active, uses, confirmed>>
      /\ TypeOK /\ user \in Users
  BY DEF IInv, TypeOK, StoreSecret
<1>2. user' \in Users /\ user'.failed = 0 /\ user'.mfa = "pending" /\ user'.secret = s
  BY <1>1, StoredIs
<1>3. TokensGo /\ EnabledWasConfirmed'
  BY <1>1, <1>2, Answers, TokensStay DEF EnabledWasConfirmed
<1>4. /\ policy' \subseteq Orgs /\ active' \subseteq Orgs /\ confirmed' \subseteq Secrets
      /\ raced' \subseteq Secrets /\ user'.failed <= wrong'
      /\ user'.failed \in 0 .. MaxFailed /\ wrong' \in 0 .. MaxFailed
  BY <1>1, <1>2, Numbers DEF TypeOK
<1>5. ASSUME NEW q \in Procs, attempt'[q] # None, attempt[q].kind \in {"confirm", "enrol", "own_confirm"}
      PROVE  user'.secret \in {attempt[q].secret, None} \cup raced'
  <2>1. q \in Confirming
    BY <1>1, <1>5, Answers DEF Confirming
  <2>. QED BY <1>1, <1>2, <2>1
<1>. QED BY <1>1, <1>2, <1>3, <1>4, <1>5, Answers, Keeps

LEMMA RollBackStep ==
    ASSUME IInv, NEW p \in Procs, RollBack(p) PROVE IInv'
<1>1. /\ Done(p) /\ UNCHANGED <<token, user, policy, active, uses, confirmed, raced, wrong>>
      /\ TypeOK /\ Counted
  BY DEF IInv, RollBack, rows
<1>. QED BY <1>1, Answers, TokensStay, KeepsSecret DEF TypeOK, Counted

-----------------------------------------------------------------------------
(* The invariant and the properties                                        *)

LEMMA Initially == Init => IInv
<1>. SUFFICES ASSUME Init PROVE IInv
  OBVIOUS
<1>. DEFINE f == Fresh("email_verification", 1)
<1>1. /\ f \in TokenRows /\ f.state = "live" /\ Unminted \in TokenRows
      /\ Unminted.state = "absent"
  BY Numbers DEF Fresh, Unminted, TokenRows, Purposes
<1>2. token = [t \in Tokens |-> IF t = 1 THEN f ELSE Unminted]
  BY DEF Init
<1>3. \A t \in Tokens : Active(token[t]) => t = 1
  BY <1>1, <1>2 DEF Active
<1>. HIDE DEF f
<1>4. TypeOK
  <2>1. token \in [Tokens -> TokenRows]
    BY <1>1, <1>2
  <2>2. user \in Users /\ user.failed = 0
    BY DEF Init, Users
  <2>3. policy \subseteq Orgs /\ active \subseteq Orgs /\ confirmed \subseteq Secrets
        /\ raced \subseteq Secrets /\ attempt \in [Procs -> Attempts \cup {None}]
        /\ overtaken \subseteq Procs
    BY DEF Init
  <2>4. uses \in [Tokens -> 0 .. 2] /\ wrong \in 0 .. MaxFailed
    BY Numbers DEF Init
  <2>. QED BY <2>1, <2>2, <2>3, <2>4, Numbers DEF TypeOK
<1>5. OneActiveToken
  BY <1>3 DEF OneActiveToken
<1>6. SpentOnce /\ EnabledWasConfirmed /\ Counted
  BY DEF Init, SpentOnce, EnabledWasConfirmed, Counted
<1>7. HoldAlone /\ \A p \in Procs : Holds(p)
  BY DEF Init, HoldAlone, Holds
<1>. QED BY <1>4, <1>5, <1>6, <1>7 DEF IInv, SecretsAreProven

LEMMA Stutter == IInv /\ UNCHANGED vars => IInv'
<1>. SUFFICES ASSUME IInv, UNCHANGED vars PROVE IInv'
  OBVIOUS
<1>1. UNCHANGED <<token, user, policy, active, attempt, uses, confirmed, raced, wrong, overtaken>>
  BY DEF vars, rows, history
<1>2. TokensGo /\ PolicyGoes
  BY <1>1, TokensStay, PolicyStays
<1>. QED BY <1>1, <1>2, KeepsRequests DEF IInv, TypeOK

LEMMA AnswerStep ==
    ASSUME IInv, NEW p \in Procs, Answer(p) PROVE IInv'
BY WrongCodeStep, RightCodeStep, RereadStep, EnableStep, DisableStep, StoreSecretStep, RollBackStep
   DEF Answer

LEMMA Stepwise == IInv /\ [Next]_vars => IInv'
<1>. SUFFICES ASSUME IInv, [Next]_vars PROVE IInv'
  OBVIOUS
<1>1. CASE RequestReset \/ \E o \in Orgs : ResendVerification(o) \/ Challenge(o)
  BY <1>1, MintSteps
<1>2. CASE LockEnds \/ (\E o \in Orgs : SetPolicy(o)) \/ \E o \in Movable : SetMember(o)
  BY <1>2, SettingSteps
<1>3. CASE \E t \in Tokens : VerifyEmail(t) \/ ResetPassword(t) \/ Expires(t)
  BY <1>3, SpendSteps, ExpireStep
<1>4. CASE \E p \in Procs : Begin(p) \/ Answer(p)
  BY <1>4, BeginStep, AnswerStep
<1>5. CASE UNCHANGED vars
  BY <1>5, Stutter
<1>. QED BY <1>1, <1>2, <1>3, <1>4, <1>5 DEF Next

LEMMA Invariance == Spec => []IInv
BY Initially, Stepwise, PTL DEF Spec

\* Every row, request and history stays within its type.
THEOREM Typing == Spec => []TypeOK
<1>1. IInv => TypeOK
  BY DEF IInv
<1>. QED BY <1>1, Invariance, PTL

\* Tokens have one effect each, the last of a purpose is the only good one, and
\* the secret that guards the account was confirmed (consumeToken, enableMfa).
THEOREM SecretsProven == Spec => []SecretsAreProven
<1>1. IInv => SecretsAreProven
  BY DEF IInv
<1>. QED BY <1>1, Invariance, PTL

\* Only a wrong code locks the account.
LEMMA LocksAreEarned ==
    ASSUME IInv, [Next]_vars, user.lock # "running", user'.lock = "running"
    PROVE  wrong' >= Threshold
<1>0. user \in Users
  BY DEF IInv, TypeOK
<1>1. \A p \in Procs : Begin(p) => user' = user
  BY DEF Begin, BeginOwnSetup, BeginOwnConfirm, BeginDisable, BeginVerify, BeginSetup,
         BeginConfirm, Read, rows
<1>2. ASSUME NEW p \in Procs, Answer(p) PROVE WrongCode(p)
  <2>1. RightCode(p) => user' = Cleared(user)
    BY DEF RightCode
  <2>2. ConfirmChallenge(p) \/ ConfirmOwn(p) => user' = Enabled(user) /\ user.secret # None
    BY DEF ConfirmChallenge, ConfirmOwn
  <2>3. Disable(p) => user' = Off(user)
    BY DEF Disable
  <2>4. RollBack(p) \/ Reread(p) => user' = user
    BY DEF RollBack, Reread, rows
  <2>5. \A s \in Secrets : StoreSecret(p, s) => user' = Stored(user, s)
    BY DEF StoreSecret
  <2>. QED BY <1>0, <1>2, <2>1, <2>2, <2>3, <2>4, <2>5, ClearedIs, EnabledIs, OffIs, StoredIs
           DEF Answer
<1>3. \A t \in Tokens : VerifyEmail(t) \/ ResetPassword(t) \/ Expires(t) => user'.lock = user.lock
  BY <1>0 DEF VerifyEmail, ResetPassword, Expires, Users
<1>4. LockEnds => user'.lock = "over"
  BY <1>0 DEF LockEnds, Users
<1>5. RequestReset => user' = user
  BY DEF RequestReset
<1>6. \A o \in Orgs : ResendVerification(o) \/ Challenge(o) \/ SetPolicy(o) => user' = user
  BY DEF ResendVerification, Challenge, SetPolicy
<1>7. \A o \in Movable : SetMember(o) => user' = user
  BY DEF SetMember
<1>8. UNCHANGED vars => user' = user
  BY DEF vars, rows
<1>9. PICK p \in Procs : WrongCode(p)
  BY <1>1, <1>2, <1>3, <1>4, <1>5, <1>6, <1>7, <1>8 DEF Next
<1>. QED BY <1>9, WrongCodeIs

\* Only the request itself spends its challenge, and a confirmation does so
\* under the policy it has read again, unless that was withdrawn since.
LEMMA EnrolmentsAreRequired ==
    ASSUME IInv, [Next]_vars, NEW p \in Procs, attempt[p] # None,
           attempt[p].kind \in {"confirm", "enrol"},
           uses'[attempt[p].token] > uses[attempt[p].token]
    PROVE  token[attempt[p].token].org \in policy \/ p \in overtaken
<1>. DEFINE t == attempt[p].token
<1>0. /\ TypeOK /\ HoldAlone /\ \A q \in Procs : Holds(q)
      /\ t \in Tokens /\ t # None /\ Locked(t) /\ uses \in [Tokens -> 0 .. 2]
  BY AttemptIs DEF IInv, TypeOK, Holds, Locked
<1>. HIDE DEF t
<1>1. uses'[t] # uses[t]
  <2>1. uses[t] \in 0 .. 2
    BY <1>0
  <2>. QED BY <2>1 DEF t
<1>2. \A u \in Tokens : Consume(u) /\ uses'[t] # uses[t] => u = t
  BY <1>0 DEF Consume
<1>3. \A q \in Procs : ~Begin(q)
  BY <1>1 DEF Begin, BeginOwnSetup, BeginOwnConfirm, BeginDisable, BeginVerify, BeginSetup,
              BeginConfirm, Read, history
<1>4. \A u \in Tokens : ~VerifyEmail(u) /\ ~ResetPassword(u) /\ ~Expires(u)
  BY <1>0, <1>1, <1>2 DEF VerifyEmail, ResetPassword, Expires, Valid, history
<1>5. /\ ~RequestReset /\ ~LockEnds /\ ~UNCHANGED vars
      /\ \A o \in Orgs : ~ResendVerification(o) /\ ~Challenge(o) /\ ~SetPolicy(o)
      /\ \A o \in Movable : ~SetMember(o)
  BY <1>1 DEF RequestReset, LockEnds, ResendVerification, Challenge, SetPolicy, SetMember,
              history, vars
<1>6. PICK q \in Procs : Answer(q)
  BY <1>3, <1>4, <1>5 DEF Next
<1>7. RightCode(q) \/ ConfirmChallenge(q)
  BY <1>1, <1>6 DEF Answer, WrongCode, Reread, ConfirmOwn, Disable, RollBack, StoreSecret, history
<1>8. attempt[q] # None /\ attempt[q].kind \in {"verify", "enrol"} /\ Consume(attempt[q].token)
  BY <1>7 DEF RightCode, ConfirmChallenge
<1>9. attempt[q].token \in Tokens /\ attempt[q].token # None
  BY <1>0, <1>8, AttemptIs DEF Holds
<1>10. q = p
  <2>1. attempt[q].token = t
    BY <1>1, <1>2, <1>8, <1>9
  <2>. QED BY <1>0, <1>8, <1>9, <2>1 DEF HoldAlone, t
<1>11. ConfirmChallenge(p)
  BY <1>7, <1>10 DEF RightCode
<1>. QED BY <1>0, <1>11 DEF ConfirmChallenge, Holds

\* A lockout comes after as many wrong codes as the threshold, and a login
\* enrols under the policy as it was after the right code, or under one that was
\* withdrawn between that and the commit (incrementFailedAttempts,
\* confirmLoginMfaChallenge).
THEOREM FactorsEarned == Spec => FactorsAreEarned
<1>1. IInv /\ [Next]_vars =>
        [user.lock # "running" /\ user'.lock = "running" => wrong' >= Threshold]_vars
  BY LocksAreEarned
<1>2. IInv /\ [Next]_vars =>
        [\A p \in Procs : LET a == attempt[p] IN
           a # None /\ a.kind \in {"confirm", "enrol"} /\ uses'[a.token] > uses[a.token]
             => token[a.token].org \in policy \/ p \in overtaken]_vars
  BY EnrolmentsAreRequired
<1>3. Spec => LockIsEarned
  BY <1>1, Invariance, PTL DEF Spec, LockIsEarned
<1>4. Spec => EnrolledByPolicy
  BY <1>2, Invariance, PTL DEF Spec, EnrolledByPolicy
<1>. QED BY <1>3, <1>4 DEF FactorsAreEarned

===============================================================================
