------------------------- MODULE AuthSessions_proofs -------------------------
(***************************************************************************)
(* Proofs about AuthSessions, for every number of sessions, of requests at *)
(* a time and of disables: one chain of sessions per login, who is signed  *)
(* in, what a revocation leaves, and that the rows implement SessionChain; *)
(* and about WebClient, for every number of pages and of requests: the     *)
(* pages of a browser keep the user signed in.                             *)
(***************************************************************************)
EXTENDS AuthSessions, WebClient, FiniteSetTheorems, TLAPS

-----------------------------------------------------------------------------
(* The inductive invariant                                                 *)

\* Sessions are numbered as they are created.
Contiguous == \E n \in 0 .. MaxSessions : Existing = 1 .. n

\* The requests that will insert a session, or still may, find a row for it.
Rotating == {p \in Procs : \/ job[p].at = "insert"
                           \/ job[p].at = "token" /\ job[p].on \in Live}
RoomKept == Cardinality(Existing) + Cardinality(Rotating) <= MaxSessions

\* A family is named after the session that opened it.
FamiliesExist == \A s \in Existing : session[s].family \in Existing

Chained == Contiguous /\ FamiliesExist /\ OneLiveEnd /\ RotationKeeps

\* Who holds what: a request that has not reached a row holds none, and the
\* membership is locked by the one that disables the member.
Locking ==
  \A p \in Procs :
    /\ \A s \in Sessions : lock[s] = p => job[p].at \notin {"idle", "token"}
    /\ memberLock = p <=> job[p].why = "admin_disabled"

\* A disable that is under way has a number left to count.
EpochLeft == memberLock # None => epoch < MaxDisables

BornBefore ==
  /\ \A s \in Sessions : born[s] <= epoch
  /\ DisabledOnlyInFlight

\* What a request has found, and what its locks keep so.
JobOK(p) ==
  LET j == job[p] IN
  /\ j.at = "idle" => j = Idle
  /\ j.at # "sweep" => j.why = None /\ j.left = {} /\ j.kept = {}
  /\ j.at = "sweep" => j.why \in Reasons
  /\ j.at \in {"token", "replacement", "grace"} => j.on \in Existing
  /\ j.why \in {"reuse_detected", "membership_inactive"} => j.on \in Existing
  /\ j.why = "reuse_detected" => lock[j.on] = p /\ session[j.on].state = "revoked"
  /\ j.at \in {"replacement", "grace"} => lock[j.on] = p /\ session[j.on].next # None
  /\ j.at = "grace" => /\ lock[session[j.on].next] = p
                       /\ session[session[j.on].next].state = "live"
  /\ (j.at = "insert" /\ j.on # None) =>
        j.on \in Live /\ lock[j.on] = p /\ session[j.on].verified = j.verified
  /\ j.at = "insert" => j.read <= epoch /\ (membership = "disabled" => j.read < epoch)
  /\ j.left \subseteq Existing /\ j.kept \subseteq Existing
  /\ \A s \in j.kept : lock[s] = p

\* The UPDATE of a disable has every live session in sight.
Thorough(p) ==
  job[p].why = "admin_disabled" => Live \subseteq job[p].left \cup job[p].kept

\* The UPDATE after a replay has the family in sight, but for what comes of a
\* rotation of another row, which it is still to reach or had to wait for.
Raced(p) ==
  job[p].why = "reuse_detected" =>
    LET seen == job[p].left \cup job[p].kept IN
    \/ \A s \in Live : session[s].family = session[job[p].on].family => s \in seen
    \/ \E u \in seen \ {job[p].on} : session[u].next \notin seen \cup {None}

Requests == \A p \in Procs : JobOK(p) /\ Thorough(p) /\ Raced(p)

IInv == /\ TypeOK /\ Chained /\ RoomKept /\ Locking /\ EpochLeft /\ BornBefore
        /\ Requests

-----------------------------------------------------------------------------
(* Rows and jobs                                                           *)

LEMMA Facts ==
    /\ None \notin Procs /\ None \notin Sessions /\ None \notin Reasons
    /\ MaxSessions \in Nat \ {0}
    /\ MaxDisables \in Nat /\ IsFiniteSet(Procs) /\ Sessions \subseteq Nat \ {0}
    /\ Idle \in Jobs /\ Idle.at = "idle" /\ Idle.on = None /\ Idle.why = None
    /\ Idle.left = {} /\ Idle.kept = {} /\ Idle.read = 0
<1>1. MaxSessions \in Nat \ {0} /\ MaxDisables \in Nat
  BY BoundsAssumption
<1>2. /\ IsFiniteSet(Procs) /\ None \notin Procs /\ None \notin Sessions
      /\ None \notin Reasons
  BY ProcsAssumption
<1>3. Sessions \subseteq Nat \ {0}
  BY <1>1 DEF Sessions
<1>4. Idle \in Jobs
  BY <1>1 DEF Idle, Jobs, Steps
<1>. QED BY <1>1, <1>2, <1>3, <1>4 DEF Idle

LEMMA RowIs ==
    ASSUME NEW r \in Rows
    PROVE  /\ r.state \in {"absent", "live", "revoked"} /\ r.family \in Sessions \cup {None}
           /\ r.next \in Sessions \cup {None} /\ r.verified \in BOOLEAN /\ r.late \in BOOLEAN
           /\ r.state = "absent" <=> r.family = None
           /\ r.next # None => r.state = "revoked"
BY DEF Rows

LEMMA Later ==
    ASSUME NEW r \in Rows
    PROVE  LET x == [r EXCEPT !.late = TRUE] IN
           /\ x \in Rows /\ x.state = r.state /\ x.family = r.family /\ x.next = r.next
           /\ x.verified = r.verified
BY DEF Rows

LEMMA Verified ==
    ASSUME NEW r \in Rows
    PROVE  LET x == [r EXCEPT !.verified = TRUE] IN
           /\ x \in Rows /\ x.state = r.state /\ x.family = r.family /\ x.next = r.next
           /\ x.verified
BY DEF Rows

LEMMA RevokedIs ==
    ASSUME NEW r \in Rows
    PROVE  /\ Revoked(r) \in Rows /\ Revoked(r).family = r.family /\ Revoked(r).next = r.next
           /\ Revoked(r).verified = r.verified
           /\ Revoked(r).state = IF r.state = "live" THEN "revoked" ELSE r.state
BY DEF Rows, Revoked

\* A live row has no successor yet, so that the one of the rotation stays.
LEMMA RotatedIs ==
    ASSUME NEW r \in Rows, r.state = "live", NEW t \in Sessions
    PROVE  /\ Rotated(r, t) \in Rows /\ Rotated(r, t).family = r.family
           /\ Rotated(r, t).next = t /\ Rotated(r, t).verified = r.verified
           /\ Rotated(r, t).state = "revoked"
<1>1. r.next = None
  BY RowIs
<1>2. Revoked(r) = [r EXCEPT !.state = "revoked", !.late = FALSE]
  BY DEF Revoked
<1>. QED BY <1>1, <1>2, Facts DEF Rotated, Rows

LEMMA NewRowIs ==
    ASSUME NEW j \in Jobs, NEW t \in Sessions,
           j.on # None => session[j.on].family \in Sessions
    PROVE  LET x == NewRow(j, t) IN
           /\ x \in Rows /\ x.state = "live" /\ x.next = None /\ x.verified = j.verified
           /\ x.family = IF j.on = None THEN t ELSE session[j.on].family
<1>1. /\ j.verified \in BOOLEAN
      /\ (IF j.on = None THEN t ELSE session[j.on].family) \in Sessions
  BY DEF Jobs
<1>. QED BY <1>1, Facts DEF NewRow, Absent, Rows

LEMMA JobIs ==
    ASSUME TypeOK, NEW p \in Procs
    PROVE  /\ job[p] \in Jobs
           /\ job[p].at \in Steps /\ job[p].on \in Sessions \cup {None}
           /\ job[p].why \in Reasons \cup {None} /\ job[p].verified \in BOOLEAN
           /\ job[p].read \in 0 .. MaxDisables
           /\ job[p].left \subseteq Sessions /\ job[p].kept \subseteq Sessions
<1>1. job[p] \in Jobs
  BY DEF TypeOK
<1>. QED BY <1>1 DEF Jobs

LEMMA SessionIs ==
    ASSUME TypeOK
    PROVE  /\ \A s \in Sessions : session[s] \in Rows
           /\ Existing \subseteq Sessions /\ Live \subseteq Existing
           /\ \A s \in Sessions : s \in Existing <=> session[s].state # "absent"
           /\ \A s \in Sessions : s \in Live <=> session[s].state = "live"
           /\ \A s \in Existing : session[s].family \in Sessions
           /\ \A s \in Sessions : session[s].next # None => s \in Existing \ Live
           /\ IsFiniteSet(Existing) /\ Cardinality(Existing) \in Nat
<1>1. \A s \in Sessions : session[s] \in Rows
  BY DEF TypeOK
<1>2. Existing \subseteq Sessions /\ IsFiniteSet(Sessions)
  BY FS_Interval, Facts DEF Existing, Sessions
<1>3. IsFiniteSet(Existing) /\ Cardinality(Existing) \in Nat
  BY <1>2, FS_Subset, FS_CardinalityType
<1>4. /\ \A s \in Sessions : s \in Existing <=> session[s].state # "absent"
      /\ \A s \in Sessions : s \in Live <=> session[s].state = "live"
  BY DEF Existing, Live
<1>5. Live \subseteq Existing
  BY DEF Existing, Live
<1>6. \A s \in Existing : session[s].family \in Sessions
  BY <1>1, <1>2, <1>4, RowIs
<1>7. \A s \in Sessions : session[s].next # None => s \in Existing \ Live
  BY <1>1, <1>4, RowIs
<1>. QED BY <1>1, <1>2, <1>3, <1>4, <1>5, <1>6, <1>7

-----------------------------------------------------------------------------
(* What a step leaves as it was                                            *)

\* A row may be revoked or verified; its place in the chain is as it was.
Fade(r, x) ==
  /\ x.family = r.family /\ x.next = r.next
  /\ x.state = r.state \/ (r.state = "live" /\ x.state = "revoked")
  /\ r.verified => x.verified
  /\ x.state = "revoked" => x.verified = r.verified
Fades == \A s \in Sessions : Fade(session[s], session'[s])

LEMMA Still ==
    ASSUME TypeOK, session' = session PROVE Fades
BY DEF Fades, Fade

LEMMA FadesKeeps ==
    ASSUME TypeOK, TypeOK', Fades
    PROVE  /\ Existing' = Existing /\ Live' \subseteq Live
           /\ \A s \in Sessions : /\ session'[s].family = session[s].family
                                  /\ session'[s].next = session[s].next
           /\ \A s \in Sessions : session[s].state = "revoked" => session'[s].state = "revoked"
           /\ \A s \in Sessions : session[s].verified => session'[s].verified
           /\ \A s \in Sessions :
                session'[s].state = "revoked" => session'[s].verified = session[s].verified
BY DEF Fades, Fade, Existing, Live

LEMMA ChainFades ==
    ASSUME TypeOK, TypeOK', Chained, Fades
    PROVE  Chained'
<1>. USE FadesKeeps
<1>0. Existing \subseteq Sessions /\ Live' \subseteq Sessions /\ \A s \in Sessions : session'[s] \in Rows
  BY SessionIs DEF TypeOK, Live
<1>1. Contiguous'
  BY DEF Chained, Contiguous
<1>2. FamiliesExist'
  BY <1>0 DEF Chained, FamiliesExist
<1>3. OneLiveEnd'
  BY <1>0 DEF Chained, OneLiveEnd
<1>4. RotationKeeps'
  <2>. SUFFICES ASSUME NEW s \in Existing, session[s].next # None
                PROVE  LET t == session[s].next IN
                       /\ t \in Family(s)' /\ t > s
                       /\ session'[s].state = "revoked"
                       /\ session'[s].verified => session'[t].verified
                       /\ \A u \in Existing : session[u].next = t => u = s
    BY <1>0 DEF RotationKeeps
  <2>. DEFINE t == session[s].next
  <2>1. /\ t \in Family(s) /\ t > s /\ session[s].state = "revoked"
        /\ session[s].verified => session[t].verified
        /\ \A u \in Existing : session[u].next = t => u = s
    BY DEF Chained, RotationKeeps
  <2>2. t \in Existing /\ session[t].family = session[s].family
    BY <2>1 DEF Family
  <2>3. t \in Family(s)'
    BY <2>2, <1>0 DEF Family
  <2>. QED BY <2>1, <2>2, <2>3, <1>0
<1>. QED BY <1>1, <1>2, <1>3, <1>4 DEF Chained

\* What q relies on is as it was: its job, its locks, and the rows under them.
Untouched(q) ==
  /\ job'[q] = job[q]
  /\ \A s \in Sessions : (lock[s] = q /\ s \in Existing) =>
        /\ lock'[s] = q
        /\ session'[s].state = session[s].state /\ session'[s].verified = session[s].verified

\* No session is lost, nor a successor.
Sticks ==
  \A s \in Existing : s \in Existing' /\ (session[s].next # None => session'[s].next = session[s].next)

\* A member is not disabled but by a new epoch.
EpochGoesOn ==
  /\ epoch \in Nat /\ epoch' \in Nat /\ epoch <= epoch'
  /\ membership' = "disabled" => membership = "disabled" \/ epoch < epoch'

LEMMA JobFrame ==
    ASSUME TypeOK, TypeOK', NEW q \in Procs, JobOK(q), Untouched(q), Sticks, EpochGoesOn,
           RotationKeeps
    PROVE  JobOK(q)'
<1>. DEFINE j == job[q]
<1>0. /\ job'[q] = j /\ j.on \in Sessions \cup {None} /\ j.read \in Nat
      /\ j.left \subseteq Sessions /\ j.kept \subseteq Sessions
  BY JobIs, Facts DEF Untouched
<1>1. Existing \subseteq Existing' /\ Existing \subseteq Sessions
  BY SessionIs DEF Sticks
<1>2. j.at \in {"replacement", "grace"} => lock'[j.on] = q /\ session'[j.on].next # None
  BY <1>0, <1>1 DEF JobOK, Untouched, Sticks
<1>3. j.at = "grace" => /\ lock'[session'[j.on].next] = q
                        /\ session'[session'[j.on].next].state = "live"
  <2>. HAVE j.at = "grace"
  <2>1. j.on \in Existing /\ session[j.on].next # None /\ session'[j.on].next = session[j.on].next
    BY DEF JobOK, Sticks
  <2>2. session[j.on].next \in Sessions /\ session[j.on].next \in Existing
    BY <2>1, <1>1 DEF RotationKeeps, Family
  <2>. QED BY <2>1, <2>2 DEF JobOK, Untouched
<1>4. (j.at = "insert" /\ j.on # None) =>
         j.on \in Live' /\ lock'[j.on] = q /\ session'[j.on].verified = j.verified
  <2>1. Live \subseteq Existing
    BY SessionIs
  <2>. QED BY <1>0, <1>1, <2>1 DEF JobOK, Untouched, Live
<1>5. j.at = "insert" => j.read <= epoch' /\ (membership' = "disabled" => j.read < epoch')
  BY <1>0 DEF JobOK, EpochGoesOn
<1>6. \A s \in j.kept : lock'[s] = q
  BY <1>0, <1>1 DEF JobOK, Untouched
<1>7. j.why = "reuse_detected" => lock'[j.on] = q /\ session'[j.on].state = "revoked"
  BY <1>1 DEF JobOK, Untouched
<1>. QED BY <1>0, <1>1, <1>2, <1>3, <1>4, <1>5, <1>6, <1>7 DEF JobOK

LEMMA ThoroughFrame ==
    ASSUME NEW q \in Procs, Thorough(q), job'[q] = job[q], Live' \subseteq Live
    PROVE  Thorough(q)'
BY DEF Thorough

LEMMA RacedFrame ==
    ASSUME TypeOK, TypeOK', Fades, NEW q \in Procs, JobOK(q), Raced(q), job'[q] = job[q]
    PROVE  Raced(q)'
<1>. SUFFICES ASSUME job[q].why = "reuse_detected" PROVE Raced(q)'
  BY DEF Raced
<1>1. job[q].on \in Sessions /\ job[q].left \subseteq Sessions /\ job[q].kept \subseteq Sessions
  BY SessionIs, JobIs DEF JobOK
<1>2. Live' \subseteq Live /\ Live \subseteq Sessions
  BY FadesKeeps, SessionIs
<1>. QED BY <1>1, <1>2, FadesKeeps DEF Raced

\* The requests that a step, which only fades rows, leaves alone.
LEMMA Others ==
    ASSUME IInv, TypeOK', Fades, EpochGoesOn, NEW P \in SUBSET Procs,
           \A q \in P : Untouched(q)
    PROVE  \A q \in P : JobOK(q)' /\ Thorough(q)' /\ Raced(q)'
<1>. SUFFICES ASSUME NEW q \in P PROVE JobOK(q)' /\ Thorough(q)' /\ Raced(q)'
  OBVIOUS
<1>0. TypeOK /\ JobOK(q) /\ Thorough(q) /\ Raced(q) /\ Untouched(q) /\ job'[q] = job[q]
  BY DEF IInv, Requests, Untouched
<1>1. RotationKeeps
  BY DEF IInv, Chained
<1>2. Sticks
  BY <1>0, FadesKeeps, SessionIs DEF Sticks
<1>3. Live' \subseteq Live
  BY <1>0, FadesKeeps
<1>. QED BY <1>0, <1>1, <1>2, <1>3, JobFrame, ThoroughFrame, RacedFrame

LEMMA RoomFrame ==
    ASSUME IInv, TypeOK', Existing' = Existing, Rotating' \subseteq Rotating
    PROVE  RoomKept'
<1>0. TypeOK /\ RoomKept
  BY DEF IInv
<1>1. IsFiniteSet(Rotating) /\ Cardinality(Rotating) \in Nat
  BY FS_Subset, FS_CardinalityType, Facts DEF Rotating
<1>2. Cardinality(Rotating') \in Nat /\ Cardinality(Rotating') <= Cardinality(Rotating)
  BY <1>1, FS_Subset, FS_CardinalityType
<1>3. Cardinality(Existing) \in Nat
  BY <1>0, SessionIs
<1>4. Cardinality(Existing)' = Cardinality(Existing) /\ Cardinality(Rotating)' = Cardinality(Rotating')
  OBVIOUS
<1>. QED BY <1>0, <1>1, <1>2, <1>3, <1>4, Facts DEF RoomKept

\* A step of p that leaves the other requests alone and does not start an
\* insert, or one that only fades rows, without a request.
LEMMA RotatingFrame ==
    ASSUME TypeOK, TypeOK', Live' \subseteq Live, NEW p \in Procs,
           \A q \in Procs \ {p} : job'[q] = job[q],
           \/ job'[p].at \notin {"insert", "token"} \/ job'[p] = job[p]
           \/ job'[p].at = "insert" /\ p \in Rotating
           \/ job'[p].at = "token" /\ job'[p].on \notin Live
    PROVE  Rotating' \subseteq Rotating
BY DEF Rotating

\* There is room for the session of one more request.
LEMMA RoomForOne ==
    ASSUME IInv, TypeOK', Existing' = Existing, Live' \subseteq Live, NEW p \in Procs,
           \A q \in Procs \ {p} : job'[q] = job[q], HasRoom
    PROVE  RoomKept'
<1>0. TypeOK
  BY DEF IInv
<1>1. Rotating' \subseteq Makers \cup {p} /\ Makers \subseteq Procs
  BY DEF Rotating, Makers
<1>2. IsFiniteSet(Makers) /\ Cardinality(Makers) \in Nat
  BY <1>1, FS_Subset, FS_CardinalityType, Facts
<1>3. /\ IsFiniteSet(Makers \cup {p}) /\ Cardinality(Makers \cup {p}) \in Nat
      /\ Cardinality(Makers \cup {p}) <= Cardinality(Makers) + 1
  <2>1. /\ IsFiniteSet(Makers \cup {p})
        /\ Cardinality(Makers \cup {p}) = IF p \in Makers THEN Cardinality(Makers) ELSE Cardinality(Makers) + 1
    BY <1>2, FS_AddElement
  <2>. QED BY <1>2, <2>1
<1>4. Cardinality(Rotating') \in Nat /\ Cardinality(Rotating') <= Cardinality(Makers \cup {p})
  BY <1>1, <1>3, FS_Subset, FS_CardinalityType
<1>5. Cardinality(Existing) \in Nat
  BY <1>0, SessionIs
<1>6. Cardinality(Existing)' = Cardinality(Existing) /\ Cardinality(Rotating)' = Cardinality(Rotating')
  OBVIOUS
<1>. QED BY <1>2, <1>3, <1>4, <1>5, <1>6, Facts DEF RoomKept, HasRoom

\* COMMIT and ROLLBACK
LEMMA Released ==
    ASSUME TypeOK, NEW p \in Procs, Unlocked(p)
    PROVE  /\ lock' \in [Sessions -> Procs \cup {None}] /\ memberLock' \in Procs \cup {None}
           /\ \A s \in Sessions : lock'[s] # p
           /\ \A q \in Procs \ {p} : \A s \in Sessions : lock'[s] = q <=> lock[s] = q
           /\ memberLock' # p
           /\ \A q \in Procs \ {p} : memberLock' = q <=> memberLock = q
           /\ memberLock' # None => memberLock # None
BY Facts DEF TypeOK, Unlocked

LEMMA Taken ==
    ASSUME TypeOK, NEW p \in Procs, NEW s \in Sessions, Free(p, s), Take(p, s)
    PROVE  /\ lock' \in [Sessions -> Procs \cup {None}] /\ lock'[s] = p
           /\ \A u \in Sessions : lock[u] = p => lock'[u] = p
           /\ \A u \in Sessions : lock'[u] = p => lock[u] = p \/ u = s
           /\ \A q \in Procs \ {p} : \A u \in Sessions : lock'[u] = q <=> lock[u] = q
BY Facts DEF TypeOK, Free, Take

LEMMA JobGoes ==
    ASSUME TypeOK, NEW p \in Procs, NEW x \in Jobs, job' = [job EXCEPT ![p] = x]
    PROVE  job' \in [Procs -> Jobs] /\ job'[p] = x /\ \A q \in Procs \ {p} : job'[q] = job[q]
BY DEF TypeOK

LEMMA SameEpoch ==
    ASSUME TypeOK, UNCHANGED epoch, UNCHANGED membership PROVE EpochGoesOn
BY Facts DEF TypeOK, EpochGoesOn

LEMMA LockingFrame ==
    ASSUME Locking, NEW p \in Procs,
           \A q \in Procs \ {p} : /\ job'[q] = job[q]
                                  /\ \A s \in Sessions : lock'[s] = q => lock[s] = q
                                  /\ memberLock' = q <=> memberLock = q,
           \A s \in Sessions : lock'[s] = p => job'[p].at \notin {"idle", "token"},
           memberLock' = p <=> job'[p].why = "admin_disabled"
    PROVE  Locking'
BY DEF Locking

LEMMA BornFrame ==
    ASSUME TypeOK, TypeOK', BornBefore, Live' \subseteq Live, born' = born, EpochGoesOn,
           (membership' = "disabled" /\ membership # "disabled") => Live' = {}
    PROVE  BornBefore'
<1>0. MaxDisables \in Nat
  BY BoundsAssumption
<1>1. \A s \in Sessions : born[s] \in Nat /\ born'[s] = born[s]
  BY <1>0 DEF TypeOK
<1>2. Live \subseteq Sessions
  BY SessionIs
<1>. QED BY <1>1, <1>2 DEF BornBefore, DisabledOnlyInFlight, EpochGoesOn

\* A step of p that fades rows at most.
LEMMA StepOf ==
    ASSUME IInv, TypeOK', Fades, EpochGoesOn, born' = born, NEW p \in Procs,
           \A q \in Procs \ {p} : /\ Untouched(q)
                                  /\ \A s \in Sessions : lock'[s] = q => lock[s] = q
                                  /\ memberLock' = q <=> memberLock = q,
           \A s \in Sessions : lock'[s] = p => job'[p].at \notin {"idle", "token"},
           memberLock' = p <=> job'[p].why = "admin_disabled",
           \/ job'[p].at \notin {"insert", "token"} \/ job'[p] = job[p]
           \/ job'[p].at = "insert" /\ p \in Rotating
           \/ (job'[p].at = "token" /\ job'[p].on \notin Live) \/ HasRoom,
           EpochLeft',
           (membership' = "disabled" /\ membership # "disabled") => Live' = {},
           JobOK(p)', Thorough(p)', Raced(p)'
    PROVE  IInv'
<1>0. /\ TypeOK /\ Chained /\ RoomKept /\ Locking /\ EpochLeft /\ BornBefore
      /\ \A q \in Procs \ {p} : job'[q] = job[q]
  BY DEF IInv, Untouched
<1>1. Existing' = Existing /\ Live' \subseteq Live
  BY <1>0, FadesKeeps
<1>2. Chained'
  BY <1>0, ChainFades
<1>3. RoomKept'
  BY <1>0, <1>1, RotatingFrame, RoomFrame, RoomForOne
<1>4. Locking'
  BY <1>0, LockingFrame
<1>5. BornBefore'
  BY <1>0, <1>1, BornFrame
<1>6. \A q \in Procs \ {p} : JobOK(q)' /\ Thorough(q)' /\ Raced(q)'
  BY Others
<1>. QED BY <1>2, <1>3, <1>4, <1>5, <1>6 DEF IInv, Requests

\* The same, when no row changes.
LEMMA RequestGoes ==
    ASSUME IInv, UNCHANGED <<rows, history>>, NEW p \in Procs,
           job' \in [Procs -> Jobs], \A q \in Procs \ {p} : job'[q] = job[q],
           lock' \in [Sessions -> Procs \cup {None}], memberLock' \in Procs \cup {None},
           \A q \in Procs \ {p} : \A s \in Sessions : lock'[s] = q <=> lock[s] = q,
           \A q \in Procs \ {p} : memberLock' = q <=> memberLock = q,
           \A s \in Sessions : lock'[s] = p => job'[p].at \notin {"idle", "token"},
           memberLock' = p <=> job'[p].why = "admin_disabled",
           \/ job'[p].at \notin {"insert", "token"} \/ job'[p] = job[p]
           \/ job'[p].at = "insert" /\ p \in Rotating
           \/ (job'[p].at = "token" /\ job'[p].on \notin Live) \/ HasRoom,
           EpochLeft', JobOK(p)', Thorough(p)', Raced(p)'
    PROVE  IInv'
<1>0. TypeOK
  BY DEF IInv
<1>2. /\ session' = session /\ membership' = membership /\ mfa' = mfa
      /\ epoch' = epoch /\ born' = born
  BY DEF rows, history
<1>3. TypeOK'
  BY <1>0, <1>2 DEF TypeOK
<1>4. Fades /\ EpochGoesOn
  BY <1>0, <1>2, Still, SameEpoch
<1>5. \A q \in Procs \ {p} : Untouched(q)
  BY <1>2 DEF Untouched
<1>. QED BY <1>2, <1>3, <1>4, <1>5, StepOf

-----------------------------------------------------------------------------
(* The steps of a request                                                  *)

\* An answer, or a rollback.
LEMMA EndStep ==
    ASSUME IInv, NEW p \in Procs, End(p), UNCHANGED <<rows, history>>
    PROVE  IInv'
<1>0. TypeOK /\ EpochLeft
  BY DEF IInv
<1>1. /\ lock' \in [Sessions -> Procs \cup {None}] /\ memberLock' \in Procs \cup {None}
      /\ \A s \in Sessions : lock'[s] # p
      /\ \A q \in Procs \ {p} : \A s \in Sessions : lock'[s] = q <=> lock[s] = q
      /\ memberLock' # p
      /\ \A q \in Procs \ {p} : memberLock' = q <=> memberLock = q
      /\ memberLock' # None => memberLock # None
  BY <1>0, Released DEF End
<1>2. job'[p] = Idle /\ job' \in [Procs -> Jobs] /\ \A q \in Procs \ {p} : job'[q] = job[q]
  BY <1>0, JobGoes, Facts DEF End
<1>3. JobOK(p)' /\ Thorough(p)' /\ Raced(p)'
  <2>1. None # "admin_disabled" /\ None # "reuse_detected" /\ None # "membership_inactive"
    BY Facts DEF Reasons
  <2>2. JobOK(p)'
    BY <1>2, <2>1, Facts DEF JobOK
  <2>. QED BY <1>2, <2>1, <2>2, Facts DEF Thorough, Raced
<1>4. EpochLeft'
  BY <1>0, <1>1 DEF EpochLeft, history
<1>5. job'[p].why # "admin_disabled" /\ job'[p].at \notin {"insert", "token"}
  BY <1>2, Facts DEF Reasons
<1>. QED BY <1>1, <1>2, <1>3, <1>4, <1>5, RequestGoes

\* The job of an UPDATE that starts.
Sweeping(why, on) ==
  [[Idle EXCEPT !.at = "sweep", !.why = why, !.on = on] EXCEPT
     !.left = IF why \in {"reuse_detected", "membership_inactive"} THEN Family(on) ELSE Live]

LEMMA Starts ==
    ASSUME TypeOK, NEW p \in Procs, NEW why \in Reasons, NEW on \in Sessions \cup {None},
           StartSweep(p, why, on)
    PROVE  /\ Sweeping(why, on) \in Jobs
           /\ job' \in [Procs -> Jobs] /\ \A q \in Procs \ {p} : job'[q] = job[q]
           /\ job'[p] = Sweeping(why, on)
<1>1. job' = [job EXCEPT ![p] = Sweeping(why, on)]
  <2>. DEFINE j == [Idle EXCEPT !.at = "sweep", !.why = why, !.on = on]
  <2>0. j.why = why /\ j.on = on
    BY DEF Idle
  <2>. HIDE DEF j
  <2>1. j.why = why /\ j.on = on =>
          Scope(j) = IF why \in {"reuse_detected", "membership_inactive"} THEN Family(on) ELSE Live
    BY DEF Scope
  <2>2. [j EXCEPT !.left = Scope(j)] = Sweeping(why, on)
    BY <2>0, <2>1 DEF Sweeping, j
  <2>. QED BY <2>2 DEF StartSweep, j
<1>2. Live \subseteq Sessions /\ Family(on) \subseteq Sessions
  BY SessionIs DEF Family
<1>3. Sweeping(why, on) \in Jobs
  BY <1>2, Facts DEF Sweeping, Idle, Jobs, Steps
<1>. QED BY <1>1, <1>3, JobGoes

\* A sweep of p that starts is in order.
LEMMA SweepStarts ==
    ASSUME IInv, UNCHANGED <<rows, history>>, NEW p \in Procs,
           NEW why \in Reasons, NEW on \in Existing \cup {None},
           StartSweep(p, why, on),
           why \in {"reuse_detected", "membership_inactive"} => on \in Existing,
           why = "reuse_detected" => lock'[on] = p /\ session[on].state = "revoked",
           lock' \in [Sessions -> Procs \cup {None}], memberLock' \in Procs \cup {None},
           \A q \in Procs \ {p} : \A s \in Sessions : lock'[s] = q <=> lock[s] = q,
           \A q \in Procs \ {p} : memberLock' = q <=> memberLock = q,
           memberLock' = p <=> why = "admin_disabled",
           EpochLeft'
    PROVE  IInv'
<1>. DEFINE x == Sweeping(why, on)
<1>0. TypeOK /\ session' = session /\ on \in Sessions \cup {None}
  BY SessionIs DEF IInv, rows
<1>1. job' \in [Procs -> Jobs] /\ (\A q \in Procs \ {p} : job'[q] = job[q]) /\ job'[p] = x
  BY <1>0, Starts
<1>2. /\ x.at = "sweep" /\ x.why = why /\ x.on = on /\ x.kept = {}
      /\ x.left = IF why \in {"reuse_detected", "membership_inactive"} THEN Family(on) ELSE Live
  BY DEF Sweeping, Idle
<1>3. Existing' = Existing /\ Live' = Live /\ Live \subseteq Existing /\ Family(on) \subseteq Existing
  BY <1>0, SessionIs DEF Existing, Live, Family
<1>. HIDE DEF x
<1>4. JobOK(p)'
  BY <1>0, <1>1, <1>2, <1>3 DEF JobOK
<1>5. Thorough(p)'
  BY <1>1, <1>2, <1>3 DEF Thorough
<1>6. Raced(p)'
  BY <1>0, <1>1, <1>2, <1>3 DEF Raced, Family
<1>7. /\ job'[p].at \notin {"insert", "token", "idle"}
      /\ memberLock' = p <=> job'[p].why = "admin_disabled"
  BY <1>1, <1>2
<1>. QED BY <1>1, <1>4, <1>5, <1>6, <1>7, RequestGoes

LEMMA BeginResetStep ==
    ASSUME IInv, NEW p \in Procs, BeginReset(p) PROVE IInv'
<1>0. TypeOK /\ Locking /\ EpochLeft /\ job[p].at = "idle" /\ job[p].why # "admin_disabled"
  <2>1. JobOK(p) /\ job[p].at = "idle"
    BY DEF IInv, Requests, BeginReset
  <2>. QED BY <2>1, Facts DEF IInv, JobOK, Reasons
<1>1. UNCHANGED <<rows, lock, memberLock, history>>
  BY DEF BeginReset, locks
<1>2. memberLock' # p
  BY <1>0, <1>1 DEF Locking
<1>3. EpochLeft'
  BY <1>0, <1>1 DEF EpochLeft, history
<1>4. StartSweep(p, "password_reset", None) /\ "password_reset" \in Reasons
  BY DEF BeginReset, Reasons
<1>. QED BY <1>0, <1>1, <1>2, <1>3, <1>4, SweepStarts DEF TypeOK

LEMMA BeginDisableStep ==
    ASSUME IInv, NEW p \in Procs, BeginDisable(p) PROVE IInv'
<1>0. /\ TypeOK /\ Locking /\ memberLock = None /\ memberLock' = p
      /\ UNCHANGED <<rows, history>> /\ lock' = lock
      /\ StartSweep(p, "admin_disabled", None) /\ "admin_disabled" \in Reasons
  BY DEF IInv, BeginDisable, Reasons
<1>1. Disabling = {}
  BY <1>0, Facts DEF Locking, Disabling
<1>2. epoch < MaxDisables
  <2>1. Cardinality(Disabling) = 0
    BY <1>1, FS_EmptySet
  <2>. QED BY <1>0, <2>1, Facts DEF BeginDisable, TypeOK
<1>3. EpochLeft'
  BY <1>0, <1>2 DEF EpochLeft, history
<1>4. \A q \in Procs \ {p} : memberLock' = q <=> memberLock = q
  BY <1>0, Facts
<1>. QED BY <1>0, <1>3, <1>4, SweepStarts DEF TypeOK

\* The requests that hold nothing yet.
LEMMA Waiting ==
    ASSUME IInv, NEW p \in Procs, job[p].at \in {"idle", "token"}
    PROVE  /\ TypeOK /\ Locking /\ EpochLeft
           /\ \A s \in Sessions : lock[s] # p
           /\ memberLock # p /\ job[p].why = None /\ job[p].left = {} /\ job[p].kept = {}
<1>1. TypeOK /\ Locking /\ EpochLeft /\ JobOK(p)
  BY DEF IInv, Requests
<1>2. job[p].why = None /\ job[p].left = {} /\ job[p].kept = {}
  BY <1>1 DEF JobOK
<1>. QED BY <1>1, <1>2, Facts DEF Locking, Reasons

\* A request that begins with x, which has locked nothing.
LEMMA Begins ==
    ASSUME IInv, NEW p \in Procs, NEW x \in Jobs, Begin(p, x), x.at \in {"token", "insert"},
           x.why = None, x.left = {}, x.kept = {},
           x.at = "token" => x.on \in Existing /\ (x.on \in Live => HasRoom),
           x.at = "insert" => HasRoom /\ x.on = None /\ x.read = epoch /\ membership = "active"
    PROVE  IInv'
<1>0. UNCHANGED <<rows, history>> /\ lock' = lock /\ memberLock' = memberLock
  BY DEF Begin, locks
<1>1. job[p].at = "idle" /\ job' = [job EXCEPT ![p] = x]
  BY DEF Begin
<1>2. /\ TypeOK /\ Locking /\ EpochLeft /\ \A u \in Sessions : lock[u] # p
      /\ memberLock # p
  BY <1>1, Waiting
<1>3. job' \in [Procs -> Jobs] /\ job'[p] = x /\ \A q \in Procs \ {p} : job'[q] = job[q]
  BY <1>1, <1>2, JobGoes
<1>4. session' = session /\ epoch' = epoch /\ membership' = membership
  BY <1>0 DEF rows, history
<1>5. Existing' = Existing /\ epoch \in Nat
  BY <1>2, <1>4, Facts DEF Existing, TypeOK
<1>6. JobOK(p)'
  BY <1>3, <1>4, <1>5, Facts DEF JobOK, Reasons
<1>7. Thorough(p)' /\ Raced(p)' /\ job'[p].why # "admin_disabled"
  BY <1>3, Facts DEF Thorough, Raced, Reasons
<1>8. EpochLeft'
  BY <1>0, <1>2, <1>4 DEF EpochLeft
<1>9. \/ job'[p].at \notin {"insert", "token"} \/ job'[p] = job[p]
      \/ job'[p].at = "insert" /\ p \in Rotating
      \/ (job'[p].at = "token" /\ job'[p].on \notin Live) \/ HasRoom
  BY <1>3
<1>10. /\ lock' \in [Sessions -> Procs \cup {None}] /\ memberLock' \in Procs \cup {None}
       /\ \A q \in Procs \ {p} : \A s \in Sessions : lock'[s] = q <=> lock[s] = q
       /\ \A q \in Procs \ {p} : memberLock' = q <=> memberLock = q
       /\ \A s \in Sessions : lock'[s] = p => job'[p].at \notin {"idle", "token"}
       /\ memberLock' = p <=> job'[p].why = "admin_disabled"
  BY <1>0, <1>2, <1>7 DEF TypeOK
<1>. QED BY <1>0, <1>3, <1>6, <1>7, <1>8, <1>9, <1>10, RequestGoes

LEMMA BeginRefreshStep ==
    ASSUME IInv, NEW p \in Procs, NEW s \in Sessions, BeginRefresh(p, s) PROVE IInv'
<1>. DEFINE x == [Idle EXCEPT !.at = "token", !.on = s]
<1>1. s \in Existing /\ (s \in Live => HasRoom) /\ Begin(p, x)
  BY DEF BeginRefresh
<1>2. /\ x \in Jobs /\ x.at = "token" /\ x.on = s /\ x.why = None /\ x.left = {} /\ x.kept = {}
  BY Facts DEF Idle, Jobs, Steps
<1>. HIDE DEF x
<1>. QED BY <1>1, <1>2, Begins

LEMMA BeginLoginStep ==
    ASSUME IInv, NEW p \in Procs, BeginLogin(p) PROVE IInv'
<1>1. PICK v \in BOOLEAN :
        /\ HasRoom /\ membership = "active"
        /\ Begin(p, [Idle EXCEPT !.at = "insert", !.verified = v, !.read = epoch])
  BY DEF BeginLogin
<1>. DEFINE x == [Idle EXCEPT !.at = "insert", !.verified = v, !.read = epoch]
<1>2. epoch \in 0 .. MaxDisables
  BY DEF IInv, TypeOK
<1>3. /\ x \in Jobs /\ x.at = "insert" /\ x.on = None /\ x.why = None /\ x.left = {}
      /\ x.kept = {} /\ x.read = epoch
  BY <1>2, Facts DEF Idle, Jobs, Steps
<1>. HIDE DEF x
<1>4. Begin(p, x)
  BY <1>1 DEF x
<1>. QED BY <1>1, <1>3, <1>4, Begins

\* A request that takes the lock of s and goes on from what its job was.
LEMMA TakesAndGoes ==
    ASSUME IInv, NEW p \in Procs, NEW s \in Sessions, Free(p, s), Take(p, s),
           UNCHANGED <<rows, history>>, memberLock' = memberLock,
           job' \in [Procs -> Jobs], \A q \in Procs \ {p} : job'[q] = job[q],
           job'[p].at \in {"replacement", "grace", "insert"},
           job'[p].at = "insert" => p \in Rotating,
           job'[p].why = None, job[p].why = None, JobOK(p)'
    PROVE  IInv'
<1>0. TypeOK /\ Locking /\ EpochLeft
  BY DEF IInv
<1>1. /\ lock' \in [Sessions -> Procs \cup {None}]
      /\ \A q \in Procs \ {p} : \A u \in Sessions : lock'[u] = q <=> lock[u] = q
  BY <1>0, Taken
<1>2. memberLock # p /\ memberLock' # p /\ job'[p].why \notin {"admin_disabled", "reuse_detected"}
  BY <1>0, Facts DEF Locking, Reasons
<1>3. Thorough(p)' /\ Raced(p)'
  BY <1>2 DEF Thorough, Raced
<1>4. EpochLeft' /\ memberLock' \in Procs \cup {None}
  BY <1>0 DEF EpochLeft, history, TypeOK
<1>. QED BY <1>1, <1>2, <1>3, <1>4, RequestGoes

\* A request that takes the lock of s and starts to revoke a family.
LEMMA TakesAndSweeps ==
    ASSUME IInv, NEW p \in Procs, NEW s \in Sessions, Free(p, s), Take(p, s),
           UNCHANGED <<rows, history>>, memberLock' = memberLock, job[p].why = None,
           NEW on \in Existing, NEW why \in {"reuse_detected", "membership_inactive"},
           why = "reuse_detected" => (on = s \/ lock[on] = p) /\ session[on].state = "revoked",
           StartSweep(p, why, on)
    PROVE  IInv'
<1>0. TypeOK /\ Locking /\ EpochLeft
  BY DEF IInv
<1>1. /\ lock' \in [Sessions -> Procs \cup {None}]
      /\ \A q \in Procs \ {p} : \A u \in Sessions : lock'[u] = q <=> lock[u] = q
  BY <1>0, Taken
<1>1a. why = "reuse_detected" => lock'[on] = p
  BY <1>0, SessionIs, Taken
<1>2. memberLock' # p /\ why \in Reasons /\ why # "admin_disabled"
  BY <1>0, Facts DEF Locking, Reasons
<1>3. EpochLeft' /\ memberLock' \in Procs \cup {None}
  BY <1>0 DEF EpochLeft, history, TypeOK
<1>. QED BY <1>1, <1>1a, <1>2, <1>3, SweepStarts

LEMMA ReadTokenStep ==
    ASSUME IInv, NEW p \in Procs, ReadToken(p) PROVE IInv'
<1>. DEFINE s == job[p].on
            r == session[s]
<1>0. /\ job[p].at = "token" /\ Free(p, s) /\ UNCHANGED <<rows, history>>
  BY DEF ReadToken
<1>1. /\ TypeOK /\ JobOK(p) /\ s \in Existing /\ s \in Sessions /\ r \in Rows
      /\ job[p].why = None /\ job[p].left = {} /\ job[p].kept = {} /\ job[p] \in Jobs
  <2>1. TypeOK /\ JobOK(p)
    BY DEF IInv, Requests
  <2>. QED BY <1>0, <2>1, SessionIs, JobIs DEF JobOK
<1>2. /\ session' = session /\ epoch' = epoch /\ membership' = membership
      /\ Existing' = Existing /\ Live' = Live
  BY <1>0 DEF rows, history, Existing, Live
<1>3. CASE r.state = "revoked" /\ Take(p, s) /\ StartSweep(p, "reuse_detected", s) /\ UNCHANGED memberLock
  BY <1>0, <1>1, <1>3, TakesAndSweeps
<1>4. CASE Take(p, s) /\ StartSweep(p, "membership_inactive", s) /\ UNCHANGED memberLock
  BY <1>0, <1>1, <1>4, TakesAndSweeps
<1>5. CASE End(p)
  BY <1>0, <1>5, EndStep
<1>6. CASE /\ r.state = "revoked" /\ WithinGrace(r)
           /\ Take(p, s) /\ job' = [job EXCEPT ![p].at = "replacement"]
           /\ UNCHANGED memberLock
  <2>. DEFINE x == [job[p] EXCEPT !.at = "replacement"]
  <2>1. /\ x \in Jobs /\ x.at = "replacement" /\ x.on = s /\ x.why = None
        /\ x.left = {} /\ x.kept = {}
    BY <1>1 DEF Jobs, Steps
  <2>2. job' = [job EXCEPT ![p] = x]
    BY <1>6
  <2>. HIDE DEF x
  <2>3. job' \in [Procs -> Jobs] /\ job'[p] = x /\ \A q \in Procs \ {p} : job'[q] = job[q]
    BY <1>1, <2>1, <2>2, JobGoes
  <2>4. lock'[s] = p
    BY <1>0, <1>1, <1>6, Taken
  <2>5. r.next # None
    BY <1>6 DEF WithinGrace
  <2>6. JobOK(p)'
    BY <1>1, <1>2, <2>1, <2>3, <2>4, <2>5, Facts DEF JobOK, Reasons
  <2>. QED BY <1>0, <1>1, <1>6, <2>1, <2>3, <2>6, TakesAndGoes
<1>7. CASE /\ r.state = "live" /\ ~r.late /\ membership = "active" /\ ~Gated(r)
           /\ Take(p, s)
           /\ job' = [job EXCEPT ![p].at = "insert", ![p].read = epoch, ![p].verified = r.verified]
           /\ UNCHANGED memberLock
  <2>. DEFINE x == [job[p] EXCEPT !.at = "insert", !.read = epoch, !.verified = r.verified]
  <2>0. epoch \in 0 .. MaxDisables /\ epoch \in Nat /\ r.verified \in BOOLEAN /\ s \in Live
    BY <1>1, <1>7, Facts, RowIs DEF TypeOK, Live
  <2>1. /\ x \in Jobs /\ x.at = "insert" /\ x.on = s /\ x.why = None
        /\ x.left = {} /\ x.kept = {} /\ x.read = epoch /\ x.verified = r.verified
    BY <1>1, <2>0 DEF Jobs, Steps
  <2>2. job' = [job EXCEPT ![p] = x]
    BY <1>7
  <2>. HIDE DEF x
  <2>3. job' \in [Procs -> Jobs] /\ job'[p] = x /\ \A q \in Procs \ {p} : job'[q] = job[q]
    BY <1>1, <2>1, <2>2, JobGoes
  <2>4. lock'[s] = p
    BY <1>0, <1>1, <1>7, Taken
  <2>5. p \in Rotating
    BY <1>0, <2>0 DEF Rotating
  <2>6. JobOK(p)'
    BY <1>1, <1>2, <1>7, <2>0, <2>1, <2>3, <2>4, Facts DEF JobOK, Reasons
  <2>. QED BY <1>0, <1>1, <1>7, <2>1, <2>3, <2>5, <2>6, TakesAndGoes
<1>. QED BY <1>3, <1>4, <1>5, <1>6, <1>7 DEF ReadToken

LEMMA ReadReplacementStep ==
    ASSUME IInv, NEW p \in Procs, ReadReplacement(p) PROVE IInv'
<1>. DEFINE s == job[p].on
            t == session[s].next
<1>0. job[p].at = "replacement" /\ Free(p, t) /\ UNCHANGED <<rows, history>>
  BY DEF ReadReplacement
<1>1. /\ TypeOK /\ JobOK(p) /\ s \in Existing /\ s \in Sessions /\ t \in Sessions /\ t # None
      /\ job[p].why = None /\ job[p].left = {} /\ job[p].kept = {} /\ job[p] \in Jobs
      /\ lock[s] = p /\ session[s].state = "revoked"
  <2>1. TypeOK /\ JobOK(p)
    BY DEF IInv, Requests
  <2>2. s \in Existing /\ s \in Sessions /\ t # None /\ session[s] \in Rows
    BY <1>0, <2>1, SessionIs DEF JobOK
  <2>. QED BY <1>0, <2>1, <2>2, JobIs, RowIs DEF JobOK
<1>2. session' = session /\ Existing' = Existing /\ Live' = Live
  BY <1>0 DEF rows, Existing, Live
<1>3. CASE Take(p, t) /\ StartSweep(p, "reuse_detected", s) /\ UNCHANGED memberLock
  BY <1>0, <1>1, <1>3, TakesAndSweeps
<1>4. CASE End(p)
  BY <1>0, <1>4, EndStep
<1>5. CASE /\ Usable(session[t]) /\ Take(p, t) /\ job' = [job EXCEPT ![p].at = "grace"]
           /\ UNCHANGED memberLock
  <2>. DEFINE x == [job[p] EXCEPT !.at = "grace"]
  <2>1. /\ x \in Jobs /\ x.at = "grace" /\ x.on = s /\ x.why = None
        /\ x.left = {} /\ x.kept = {}
    BY <1>1 DEF Jobs, Steps
  <2>2. job' = [job EXCEPT ![p] = x]
    BY <1>5
  <2>. HIDE DEF x
  <2>3. job' \in [Procs -> Jobs] /\ job'[p] = x /\ \A q \in Procs \ {p} : job'[q] = job[q]
    BY <1>1, <2>1, <2>2, JobGoes
  <2>4. lock'[t] = p /\ lock'[s] = p
    BY <1>0, <1>1, <1>5, Taken
  <2>5. session[t].state = "live"
    BY <1>5 DEF Usable
  <2>6. JobOK(p)'
    BY <1>1, <1>2, <2>1, <2>3, <2>4, <2>5, Facts DEF JobOK, Reasons
  <2>. QED BY <1>0, <1>1, <1>5, <2>1, <2>3, <2>6, TakesAndGoes
<1>. QED BY <1>3, <1>4, <1>5 DEF ReadReplacement

LEMMA SweepRowStep ==
    ASSUME IInv, NEW p \in Procs, NEW s \in Sessions, SweepRow(p, s) PROVE IInv'
<1>. DEFINE j == job[p]
<1>0. /\ j.at = "sweep" /\ s \in j.left /\ Free(p, s)
      /\ UNCHANGED <<rows, history>> /\ memberLock' = memberLock
  BY DEF SweepRow
<1>1. /\ TypeOK /\ Locking /\ EpochLeft /\ JobOK(p) /\ Thorough(p) /\ Raced(p) /\ j \in Jobs
      /\ j.left \subseteq Sessions /\ j.kept \subseteq Sessions /\ j.why \in Reasons
      /\ j.on \in Sessions \cup {None}
  <2>1. TypeOK /\ Locking /\ EpochLeft /\ JobOK(p) /\ Thorough(p) /\ Raced(p)
    BY DEF IInv, Requests
  <2>. QED BY <1>0, <2>1, JobIs DEF JobOK
<1>2. /\ session' = session /\ Existing' = Existing /\ Live' = Live
      /\ epoch' = epoch /\ membership' = membership
  BY <1>0 DEF rows, history, Existing, Live
<1>. DEFINE taken == StillMatches(j, s)
            x == IF taken THEN [j EXCEPT !.left = @ \ {s}, !.kept = @ \cup {s}]
                 ELSE [j EXCEPT !.left = @ \ {s}]
<1>3. /\ x \in Jobs /\ x.at = "sweep" /\ x.why = j.why /\ x.on = j.on /\ x.left = j.left \ {s}
      /\ x.kept = IF taken THEN j.kept \cup {s} ELSE j.kept
  BY <1>0, <1>1 DEF Jobs
<1>4. job' = [job EXCEPT ![p] = x]
  <2>1. CASE taken
    <3>1. job' = [job EXCEPT ![p].left = @ \ {s}, ![p].kept = @ \cup {s}]
      BY <2>1 DEF SweepRow
    <3>. QED BY <2>1, <3>1
  <2>2. CASE ~taken
    <3>1. job' = [job EXCEPT ![p].left = @ \ {s}]
      BY <2>2 DEF SweepRow
    <3>. QED BY <2>2, <3>1
  <2>. QED BY <2>1, <2>2
<1>5. taken => Take(p, s)
  BY DEF SweepRow
<1>6. ~taken => lock' = lock
  BY DEF SweepRow
<1>7. j.why \in {"reuse_detected", "membership_inactive"} \/ session[s].state = "live" <=> taken
  BY DEF StillMatches
<1>. HIDE DEF x, taken
<1>8. job' \in [Procs -> Jobs] /\ job'[p] = x /\ \A q \in Procs \ {p} : job'[q] = job[q]
  BY <1>1, <1>3, <1>4, JobGoes
<1>9. /\ lock' \in [Sessions -> Procs \cup {None}]
      /\ \A q \in Procs \ {p} : \A u \in Sessions : lock'[u] = q <=> lock[u] = q
      /\ \A u \in Sessions : lock[u] = p => lock'[u] = p
      /\ taken => lock'[s] = p
  <2>1. CASE taken
    BY <1>0, <1>1, <1>5, <2>1, Taken
  <2>2. CASE ~taken
    BY <1>1, <1>6, <2>2 DEF TypeOK
  <2>. QED BY <2>1, <2>2
<1>10. JobOK(p)'
  <2>1. \A u \in x.kept : lock'[u] = p
    BY <1>1, <1>3, <1>9 DEF JobOK
  <2>2. x.left \subseteq Existing /\ x.kept \subseteq Existing
    BY <1>0, <1>1, <1>3 DEF JobOK
  <2>3. j.why = "reuse_detected" => lock'[j.on] = p /\ session'[j.on].state = "revoked"
    BY <1>1, <1>2, <1>9, SessionIs DEF JobOK
  <2>. QED BY <1>1, <1>2, <1>3, <1>8, <2>1, <2>2, <2>3 DEF JobOK
<1>11. Thorough(p)'
  <2>. SUFFICES ASSUME job'[p].why = "admin_disabled"
                PROVE  Live' \subseteq job'[p].left \cup job'[p].kept
    BY DEF Thorough
  <2>1. j.why = "admin_disabled" /\ Live \subseteq j.left \cup j.kept
    BY <1>1, <1>3, <1>8 DEF Thorough
  <2>2. ~taken => s \notin Live
    BY <1>7 DEF Live
  <2>. QED BY <1>2, <1>3, <1>8, <2>1, <2>2
<1>12. Raced(p)'
  <2>. SUFFICES ASSUME j.why = "reuse_detected" PROVE Raced(p)'
    BY <1>3, <1>8 DEF Raced
  <2>1. x.left \cup x.kept = j.left \cup j.kept
    BY <1>0, <1>3, <1>7
  <2>2. job'[p].left \cup job'[p].kept = j.left \cup j.kept /\ job'[p].on = j.on
    BY <1>3, <1>8, <2>1
  <2>. QED BY <1>1, <1>2, <2>2 DEF Raced
<1>13. EpochLeft' /\ memberLock' \in Procs \cup {None}
  BY <1>0, <1>1, <1>2 DEF EpochLeft, TypeOK
<1>14. memberLock' = p <=> job'[p].why = "admin_disabled"
  BY <1>0, <1>1, <1>3, <1>8 DEF Locking
<1>15. job'[p].at \notin {"insert", "token", "idle"}
  BY <1>3, <1>8
<1>. QED BY <1>0, <1>8, <1>9, <1>10, <1>11, <1>12, <1>13, <1>14, <1>15, RequestGoes

\* The UPDATE of a sweep only fades the rows it has locked.
LEMMA SweepCommitStep ==
    ASSUME IInv, NEW p \in Procs, SweepCommit(p) PROVE IInv'
<1>. DEFINE j == job[p]
<1>0. /\ j.at = "sweep" /\ j.left = {} /\ End(p) /\ mfa' = mfa /\ born' = born
      /\ session' = [s \in Sessions |-> IF s \in j.kept THEN Revoked(session[s]) ELSE session[s]]
      /\ j.why = "admin_disabled" => membership' = "disabled" /\ epoch' = epoch + 1
      /\ j.why # "admin_disabled" => membership' = membership /\ epoch' = epoch
  BY DEF SweepCommit
<1>1. /\ TypeOK /\ Locking /\ EpochLeft /\ JobOK(p) /\ Thorough(p)
      /\ \A q \in Procs \ {p} : JobOK(q)
  BY DEF IInv, Requests
<1>2. /\ lock' \in [Sessions -> Procs \cup {None}] /\ memberLock' \in Procs \cup {None}
      /\ \A s \in Sessions : lock'[s] # p
      /\ \A q \in Procs \ {p} : \A s \in Sessions : lock'[s] = q <=> lock[s] = q
      /\ memberLock' # p
      /\ \A q \in Procs \ {p} : memberLock' = q <=> memberLock = q
      /\ memberLock' # None => memberLock # None
  BY <1>0, <1>1, Released DEF End
<1>3. job' \in [Procs -> Jobs] /\ job'[p] = Idle /\ \A q \in Procs \ {p} : job'[q] = job[q]
  BY <1>0, <1>1, JobGoes, Facts DEF End
<1>4. session' \in [Sessions -> Rows] /\ Fades
  <2>1. \A s \in Sessions : session[s] \in Rows
    BY <1>1, SessionIs
  <2>2. \A s \in Sessions : Revoked(session[s]) \in Rows /\ Fade(session[s], Revoked(session[s]))
    BY <2>1, RevokedIs DEF Fade
  <2>3. \A s \in Sessions : Fade(session[s], session[s])
    BY DEF Fade
  <2>. QED BY <1>0, <2>1, <2>2, <2>3 DEF Fades
<1>5. j.why = "admin_disabled" => memberLock = p /\ epoch < MaxDisables
  BY <1>1, Facts DEF Locking, EpochLeft
<1>6. /\ epoch \in 0 .. MaxDisables /\ epoch' \in 0 .. MaxDisables
      /\ membership \in {"active", "disabled"} /\ membership' \in {"active", "disabled"}
  BY <1>0, <1>1, <1>5, Facts DEF TypeOK
<1>7. TypeOK'
  BY <1>0, <1>1, <1>2, <1>3, <1>4, <1>6 DEF TypeOK
<1>8. EpochGoesOn
  <2>1. MaxDisables \in Nat
    BY Facts
  <2>. QED BY <1>0, <1>6, <2>1 DEF EpochGoesOn
<1>9. \A q \in Procs \ {p} : Untouched(q)
  <2>. SUFFICES ASSUME NEW q \in Procs \ {p}, NEW s \in Sessions, lock[s] = q
                PROVE  lock'[s] = q /\ session'[s] = session[s]
    BY <1>3 DEF Untouched
  <2>1. s \notin j.kept
    BY <1>1 DEF JobOK
  <2>. QED BY <1>0, <1>2, <2>1
<1>10. (membership' = "disabled" /\ membership # "disabled") => Live' = {}
  <2>. HAVE membership' = "disabled" /\ membership # "disabled"
  <2>1. j.why = "admin_disabled" /\ Live \subseteq j.kept
    BY <1>0, <1>1 DEF Thorough
  <2>2. \A s \in Sessions : session'[s].state # "live"
    <3>. TAKE s \in Sessions
    <3>1. CASE s \in Live
      BY <1>0, <1>1, <2>1, <3>1, SessionIs, RevokedIs DEF Live
    <3>2. CASE s \notin Live
      BY <1>0, <1>1, <3>2, SessionIs, RevokedIs DEF Live
    <3>. QED BY <3>1, <3>2
  <2>. QED BY <2>2 DEF Live
<1>11. EpochLeft'
  <2>1. CASE j.why = "admin_disabled"
    BY <1>2, <1>5, <2>1, Facts DEF EpochLeft
  <2>2. CASE j.why # "admin_disabled"
    BY <1>0, <1>1, <1>2, <2>2 DEF EpochLeft
  <2>. QED BY <2>1, <2>2
<1>12. JobOK(p)' /\ Thorough(p)' /\ Raced(p)' /\ job'[p].why # "admin_disabled"
  <2>1. None # "admin_disabled" /\ None # "reuse_detected" /\ None # "membership_inactive"
    BY Facts DEF Reasons
  <2>2. JobOK(p)'
    BY <1>3, <2>1, Facts DEF JobOK
  <2>. QED BY <1>3, <2>1, <2>2, Facts DEF Thorough, Raced
<1>13. job'[p].at \notin {"insert", "token"}
  BY <1>3, Facts
<1>. QED BY <1>0, <1>2, <1>4, <1>7, <1>8, <1>9, <1>10, <1>11, <1>12, <1>13, StepOf

-----------------------------------------------------------------------------
(* The steps without a request that goes on                                *)

\* Rows fade, and every request goes on as it was.
LEMMA OnlyFades ==
    ASSUME IInv, TypeOK', Fades, EpochGoesOn, UNCHANGED <<lock, memberLock, job, epoch, born>>,
           membership' = "disabled" => membership = "disabled",
           \A s \in Sessions :
             lock[s] # None => /\ session'[s].state = session[s].state
                               /\ session'[s].verified = session[s].verified
    PROVE  IInv'
<1>0. /\ TypeOK /\ Chained /\ RoomKept /\ Locking /\ EpochLeft /\ BornBefore
  BY DEF IInv
<1>1. Existing' = Existing /\ Live' \subseteq Live
  BY <1>0, FadesKeeps
<1>2. Chained'
  BY <1>0, ChainFades
<1>3. Rotating' \subseteq Rotating
  BY <1>1 DEF Rotating
<1>4. RoomKept'
  BY <1>1, <1>3, RoomFrame
<1>5. Locking' /\ EpochLeft'
  BY <1>0 DEF Locking, EpochLeft
<1>6. BornBefore'
  BY <1>0, <1>1, BornFrame
<1>7. \A q \in Procs : Untouched(q)
  BY Facts DEF Untouched
<1>8. \A q \in Procs : JobOK(q)' /\ Thorough(q)' /\ Raced(q)'
  BY <1>7, Others
<1>. QED BY <1>2, <1>4, <1>5, <1>6, <1>8 DEF IInv, Requests

LEMMA RowFades ==
    ASSUME TypeOK, NEW s \in Sessions, NEW x \in Rows, session' = [session EXCEPT ![s] = x],
           Fade(session[s], x)
    PROVE  /\ session' \in [Sessions -> Rows] /\ Fades /\ session'[s] = x
           /\ \A u \in Sessions \ {s} : session'[u] = session[u]
BY DEF TypeOK, Fades, Fade

LEMMA LogoutStep ==
    ASSUME IInv, NEW p \in Procs, NEW s \in Sessions, Logout(p, s) PROVE IInv'
<1>0. /\ TypeOK /\ job[p].at = "idle" /\ lock[s] \in {None, p}
      /\ session' = [session EXCEPT ![s] = Revoked(session[s])]
      /\ UNCHANGED <<membership, mfa, lock, memberLock, job, epoch, born>>
  BY DEF IInv, Logout, Free, locks, history
<1>1. lock[s] = None
  BY <1>0, Waiting
<1>2. session[s] \in Rows /\ Revoked(session[s]) \in Rows /\ Fade(session[s], Revoked(session[s]))
  BY <1>0, SessionIs, RevokedIs DEF Fade
<1>3. /\ session' \in [Sessions -> Rows] /\ Fades
      /\ \A u \in Sessions \ {s} : session'[u] = session[u]
  BY <1>0, <1>2, RowFades
<1>4. TypeOK' /\ EpochGoesOn
  BY <1>0, <1>3, SameEpoch DEF TypeOK
<1>. QED BY <1>0, <1>1, <1>3, <1>4, OnlyFades

LEMMA ConfirmTotpStep ==
    ASSUME IInv, NEW s \in Sessions, ConfirmTotp(s) PROVE IInv'
<1>0. /\ TypeOK /\ s \in Live /\ lock[s] = None
      /\ session' = [session EXCEPT ![s].verified = TRUE] /\ mfa' = TRUE
      /\ UNCHANGED <<membership, lock, memberLock, job, epoch, born>>
  BY DEF IInv, ConfirmTotp, locks, history
<1>. DEFINE x == [session[s] EXCEPT !.verified = TRUE]
<1>1. session[s] \in Rows /\ session[s].state = "live"
  BY <1>0, SessionIs
<1>2. x \in Rows /\ x.state = session[s].state /\ x.family = session[s].family
      /\ x.next = session[s].next /\ x.verified
  BY <1>1, Verified
<1>3. session' = [session EXCEPT ![s] = x]
  BY <1>0
<1>. HIDE DEF x
<1>4. Fade(session[s], x)
  BY <1>1, <1>2 DEF Fade
<1>5. /\ session' \in [Sessions -> Rows] /\ Fades
      /\ \A u \in Sessions \ {s} : session'[u] = session[u]
  BY <1>0, <1>2, <1>3, <1>4, RowFades
<1>6. TypeOK' /\ EpochGoesOn
  BY <1>0, <1>5, SameEpoch DEF TypeOK
<1>. QED BY <1>0, <1>5, <1>6, OnlyFades

LEMMA LateStep ==
    ASSUME IInv, NEW s \in Sessions, GraceEnds(s) \/ Expires(s) PROVE IInv'
<1>0. /\ TypeOK /\ session' = [session EXCEPT ![s].late = TRUE]
      /\ UNCHANGED <<membership, mfa, lock, memberLock, job, epoch, born>>
  BY DEF IInv, GraceEnds, Expires, locks, history
<1>. DEFINE x == [session[s] EXCEPT !.late = TRUE]
<1>1. session[s] \in Rows
  BY <1>0, SessionIs
<1>2. x \in Rows /\ x.state = session[s].state /\ x.family = session[s].family
      /\ x.next = session[s].next /\ x.verified = session[s].verified
  BY <1>1, Later
<1>3. session' = [session EXCEPT ![s] = x]
  BY <1>0
<1>. HIDE DEF x
<1>4. Fade(session[s], x)
  BY <1>1, <1>2 DEF Fade
<1>5. /\ session' \in [Sessions -> Rows] /\ Fades /\ session'[s] = x
      /\ \A u \in Sessions \ {s} : session'[u] = session[u]
  BY <1>0, <1>2, <1>3, <1>4, RowFades
<1>6. TypeOK' /\ EpochGoesOn
  BY <1>0, <1>5, SameEpoch DEF TypeOK
<1>. QED BY <1>0, <1>2, <1>5, <1>6, OnlyFades

LEMMA EnableOrSetMfaStep ==
    ASSUME IInv, Enable \/ SetMfa PROVE IInv'
<1>0. /\ TypeOK /\ session' = session
      /\ UNCHANGED <<lock, memberLock, job, epoch, born>>
      /\ membership' = "active" \/ membership' = membership
      /\ mfa' \in BOOLEAN
  BY DEF IInv, TypeOK, Enable, SetMfa, locks, history
<1>1. TypeOK' /\ Fades
  BY <1>0, Still DEF TypeOK
<1>2. EpochGoesOn
  BY <1>0, Facts DEF EpochGoesOn, TypeOK
<1>. QED BY <1>0, <1>1, <1>2, OnlyFades

-----------------------------------------------------------------------------
(* A session is inserted                                                   *)

\* There is a number left, and the next one is taken.
LEMMA NewIdIs ==
    ASSUME IInv, NEW p \in Procs, job[p].at = "insert"
    PROVE  \E n \in 0 .. MaxSessions :
             /\ Existing = 1 .. n /\ Cardinality(Existing) = n
             /\ NewId = n + 1 /\ NewId \in Sessions /\ NewId \notin Existing
<1>0. TypeOK /\ RoomKept /\ Contiguous /\ MaxSessions \in Nat
  BY Facts DEF IInv, Chained
<1>1. PICK n \in 0 .. MaxSessions : Existing = 1 .. n
  BY <1>0 DEF Contiguous
<1>2. n \in Nat /\ Cardinality(Existing) = n
  BY <1>0, <1>1, FS_Interval
<1>3. p \in Rotating /\ IsFiniteSet(Rotating) /\ Cardinality(Rotating) \in Nat
  BY FS_Subset, FS_CardinalityType, Facts DEF Rotating
<1>4. Cardinality(Rotating) # 0
  BY <1>3, FS_EmptySet
<1>5. n < MaxSessions
  BY <1>0, <1>2, <1>3, <1>4 DEF RoomKept
<1>6. n + 1 \in Sessions /\ n + 1 \notin Existing
  BY <1>0, <1>1, <1>2, <1>5 DEF Sessions
<1>7. \A s \in Sessions : session[s].state = "absent" <=> s > n
  BY <1>0, <1>1, <1>2, SessionIs DEF Sessions
<1>8. /\ n + 1 \in Sessions /\ session[n + 1].state = "absent"
      /\ \A t \in Sessions : session[t].state = "absent" => n + 1 <= t
  BY <1>2, <1>6, <1>7, Facts DEF Sessions
<1>9. \A s \in Sessions :
        (/\ session[s].state = "absent"
         /\ \A t \in Sessions : session[t].state = "absent" => s <= t) => s = n + 1
  BY <1>2, <1>6, <1>7, <1>8, Facts DEF Sessions
<1>10. NewId = n + 1
  BY <1>8, <1>9 DEF NewId
<1>. QED BY <1>1, <1>2, <1>6, <1>10

\* What the insert makes of the rows.
Inserted(on, t) ==
  /\ t \in Sessions /\ t \notin Existing /\ on \in Live \cup {None}
  /\ session' \in [Sessions -> Rows]
  /\ Existing' = Existing \cup {t} /\ Live' = (Live \ {on}) \cup {t}
  /\ session'[t].next = None
  /\ session'[t].family = IF on = None THEN t ELSE session[on].family
  /\ on # None => /\ session'[on].next = t /\ session'[on].state = "revoked"
                  /\ session'[on].family = session[on].family
                  /\ session'[on].verified = session[on].verified
                  /\ session'[t].verified = session[on].verified
  /\ \A s \in Sessions \ {on, t} : session'[s] = session[s]

LEMMA InsertRows ==
    ASSUME IInv, NEW p \in Procs, Insert(p)
    PROVE  Inserted(job[p].on, NewId) /\ session'[NewId].verified = job[p].verified
<1>. DEFINE j == job[p]
            t == NewId
<1>0. /\ TypeOK /\ JobOK(p) /\ j.at = "insert" /\ j \in Jobs
      /\ session' = [s \in Sessions |->
            IF s = t THEN NewRow(j, t)
            ELSE IF s = j.on THEN Rotated(session[s], t) ELSE session[s]]
  BY JobIs DEF IInv, Requests, Insert
<1>1. t \in Sessions /\ t \notin Existing
  BY <1>0, NewIdIs
<1>. HIDE DEF t
<1>2. j.on \in Live \cup {None} /\ (j.on # None => session[j.on].verified = j.verified)
  BY <1>0 DEF JobOK
<1>3. j.on # None => /\ j.on \in Sessions /\ j.on # t /\ session[j.on].state = "live"
                     /\ session[j.on] \in Rows /\ session[j.on].family \in Sessions
  BY <1>0, <1>1, <1>2, SessionIs
<1>4. /\ NewRow(j, t) \in Rows /\ NewRow(j, t).state = "live" /\ NewRow(j, t).next = None
      /\ NewRow(j, t).verified = j.verified
      /\ NewRow(j, t).family = IF j.on = None THEN t ELSE session[j.on].family
  BY <1>0, <1>1, <1>3, NewRowIs
<1>5. j.on # None =>
        LET x == Rotated(session[j.on], t) IN
        /\ x \in Rows /\ x.family = session[j.on].family /\ x.next = t
        /\ x.verified = session[j.on].verified /\ x.state = "revoked"
  BY <1>1, <1>3, RotatedIs
<1>6. /\ session'[t] = NewRow(j, t)
      /\ j.on # None => session'[j.on] = Rotated(session[j.on], t)
      /\ \A s \in Sessions \ {j.on, t} : session'[s] = session[s]
  BY <1>0, <1>1, <1>3
<1>7. session' \in [Sessions -> Rows]
  <2>1. ASSUME NEW s \in Sessions PROVE session'[s] \in Rows
    <3>1. CASE s = t
      BY <1>4, <1>6, <3>1
    <3>2. CASE s # t /\ s = j.on
      BY <1>3, <1>5, <1>6, <3>2, Facts
    <3>3. CASE s # t /\ s # j.on
      BY <1>0, <1>6, <3>3, SessionIs
    <3>. QED BY <3>1, <3>2, <3>3
  <2>. QED BY <1>0, <2>1
<1>8. \A s \in Sessions : session'[s].state # "absent" <=> (session[s].state # "absent" \/ s = t)
  BY <1>3, <1>4, <1>5, <1>6, Facts
<1>9. \A s \in Sessions :
        session'[s].state = "live" <=> ((session[s].state = "live" /\ s # j.on) \/ s = t)
  BY <1>3, <1>4, <1>5, <1>6, Facts
<1>10. Existing' = Existing \cup {t}
  BY <1>1, <1>8 DEF Existing
<1>11. Live' = (Live \ {j.on}) \cup {t}
  BY <1>1, <1>9 DEF Live
<1>12. Inserted(j.on, t)
  BY <1>1, <1>2, <1>4, <1>5, <1>6, <1>7, <1>10, <1>11 DEF Inserted
<1>. QED BY <1>4, <1>6, <1>12 DEF t

LEMMA InsertedKeeps ==
    ASSUME TypeOK, NEW on, NEW t, Inserted(on, t)
    PROVE  /\ \A s \in Existing : /\ s \in Existing' /\ s # t /\ s \in Sessions
                                  /\ session'[s].family = session[s].family
                                  /\ session'[s].verified = session[s].verified
                                  /\ s # on => session'[s] = session[s]
           /\ \A s \in Existing : session[s].next # None =>
                session'[s].next = session[s].next /\ session'[s].state = "revoked" /\ s # on
           /\ \A s \in Existing' : s \in Existing \/ s = t
           /\ \A s \in Live' : s = t \/ (s \in Live /\ s # on)
           /\ Live \subseteq Existing /\ t # None /\ (on # None => on \in Live)
<1>1. /\ Live \subseteq Existing /\ Existing \subseteq Sessions /\ t # None
      /\ \A s \in Sessions : session[s].next # None =>
           s \in Existing \ Live /\ session[s].state = "revoked"
  BY SessionIs, RowIs, Facts DEF Inserted
<1>2. \A s \in Existing : s \in Existing' /\ s # t /\ s \in Sessions
  BY <1>1 DEF Inserted
<1>3. \A s \in Existing : s # on => session'[s] = session[s]
  BY <1>1, <1>2 DEF Inserted
<1>4. on # None => on \in Live
  BY DEF Inserted
<1>5. \A s \in Existing : /\ session'[s].family = session[s].family
                          /\ session'[s].verified = session[s].verified
  BY <1>1, <1>3, <1>4, Facts DEF Inserted
<1>6. \A s \in Existing : session[s].next # None =>
        session'[s].next = session[s].next /\ session'[s].state = "revoked" /\ s # on
  BY <1>1, <1>2, <1>3, <1>4, Facts
<1>7. \A s \in Existing' : s \in Existing \/ s = t
  BY DEF Inserted
<1>8. \A s \in Live' : s = t \/ (s \in Live /\ s # on)
  BY DEF Inserted
<1>. QED BY <1>1, <1>2, <1>3, <1>4, <1>5, <1>6, <1>7, <1>8

\* The new session is the one end in use of its family.
LEMMA InsertChains ==
    ASSUME TypeOK, TypeOK', Chained, NEW on, NEW t, Inserted(on, t),
           NEW n \in 0 .. MaxSessions, Existing = 1 .. n, t = n + 1
    PROVE  Chained'
<1>. USE InsertedKeeps
<1>0. /\ FamiliesExist /\ OneLiveEnd /\ RotationKeeps /\ MaxSessions \in Nat
      /\ t \in Existing' /\ t \in Sessions /\ t \notin Existing
      /\ session'[t].next = None
      /\ session'[t].family = IF on = None THEN t ELSE session[on].family
      /\ on # None => session'[on].next = t /\ session'[on].state = "revoked"
                      /\ session'[t].verified = session[on].verified
  BY Facts DEF Chained, Inserted
<1>1. Contiguous'
  <2>1. n + 1 \in 0 .. MaxSessions /\ Existing' = 1 .. (n + 1)
    BY <1>0 DEF Inserted, Sessions
  <2>. QED BY <2>1 DEF Contiguous
<1>2. FamiliesExist'
  <2>. SUFFICES ASSUME NEW s \in Existing' PROVE session'[s].family \in Existing'
    BY DEF FamiliesExist
  <2>1. CASE s \in Existing
    BY <1>0, <2>1 DEF FamiliesExist
  <2>2. CASE s = t
    BY <1>0, <2>2 DEF FamiliesExist
  <2>. QED BY <2>1, <2>2
<1>3. OneLiveEnd'
  <2>1. \A s \in Live : s # on => session'[s].family # session'[t].family
    <3>. TAKE s \in Live
    <3>. HAVE s # on
    <3>1. CASE on = None
      BY <1>0, <3>1 DEF FamiliesExist
    <3>2. CASE on # None
      BY <1>0, <3>2 DEF OneLiveEnd
    <3>. QED BY <3>1, <3>2
  <2>. SUFFICES ASSUME NEW s \in Live', NEW u \in Live',
                       session'[s].family = session'[u].family
                PROVE  s = u
    BY DEF OneLiveEnd
  <2>2. CASE s = t \/ u = t
    BY <2>1, <2>2
  <2>3. CASE s # t /\ u # t
    <3>1. s \in Live /\ u \in Live /\ session[s].family = session[u].family
      BY <2>3
    <3>. QED BY <1>0, <3>1 DEF OneLiveEnd
  <2>. QED BY <2>2, <2>3
<1>4. RotationKeeps'
  <2>. DEFINE Next1(s) == session'[s].next
  <2>0. \A s \in Existing : session[s].next # None => session[s].next \in Existing
    BY <1>0 DEF RotationKeeps, Family
  <2>. SUFFICES ASSUME NEW s \in Existing', Next1(s) # None
                PROVE  /\ Next1(s) \in Existing'
                       /\ session'[Next1(s)].family = session'[s].family
                       /\ Next1(s) > s /\ session'[s].state = "revoked"
                       /\ session'[s].verified => session'[Next1(s)].verified
                       /\ \A u \in Existing' : session'[u].next = Next1(s) => u = s
    BY DEF RotationKeeps, Family
  <2>1. s \in Existing
    <3>1. Existing' = Existing \cup {t} /\ session'[t].next = None
      BY <1>0 DEF Inserted
    <3>2. s # t
      BY <3>1
    <3>. QED BY <3>1, <3>2
  <2>2. CASE s = on
    <3>1. on \in Existing /\ on # None /\ session'[on].next = t /\ t > on
      BY <1>0, <2>1, <2>2, Facts
    <3>2. \A u \in Existing' : session'[u].next = t => u = on
      <4>. SUFFICES ASSUME NEW u \in Existing', session'[u].next = t, u # on PROVE FALSE
        OBVIOUS
      <4>1. u \in Existing /\ session[u].next = t
        BY <1>0
      <4>. QED BY <1>0, <2>0, <4>1
    <3>. QED BY <1>0, <2>2, <3>1, <3>2
  <2>3. CASE s # on
    <3>. DEFINE v == session[s].next
    <3>1. Next1(s) = v /\ v # None /\ v \in Existing /\ v # t
      BY <1>0, <2>0, <2>1, <2>3
    <3>2. /\ session[v].family = session[s].family /\ v > s
          /\ session[s].verified => session[v].verified
          /\ \A u \in Existing : session[u].next = v => u = s
      BY <1>0, <2>1, <3>1 DEF RotationKeeps, Family
    <3>3. \A u \in Existing' : session'[u].next = v => u = s
      <4>. SUFFICES ASSUME NEW u \in Existing', session'[u].next = v PROVE u = s
        OBVIOUS
      <4>1. u \in Existing /\ u # on
        BY <1>0, <3>1, Facts
      <4>. QED BY <3>2, <4>1
    <3>4. v \in Existing' /\ session'[s].state = "revoked"
      BY <2>1, <3>1
    <3>5. /\ session'[s].verified = session[s].verified /\ session'[s].family = session[s].family
          /\ session'[v].verified = session[v].verified /\ session'[v].family = session[v].family
      BY <2>1, <3>1
    <3>. HIDE DEF v
    <3>. QED BY <3>1, <3>2, <3>3, <3>4, <3>5
  <2>. QED BY <2>2, <2>3
<1>. QED BY <1>1, <1>2, <1>3, <1>4 DEF Chained

\* The insert of p takes the number that was kept for it.
LEMMA InsertRoom ==
    ASSUME IInv, TypeOK', NEW p \in Procs, job[p].at = "insert", job'[p].at = "idle",
           \A q \in Procs \ {p} : job'[q] = job[q],
           NEW t, Existing' = Existing \cup {t}, Live' \subseteq Live \cup {t}, t \notin Existing,
           \A q \in Procs \ {p} : job[q].at = "token" => job[q].on # t
    PROVE  RoomKept'
<1>0. TypeOK /\ RoomKept /\ p \in Rotating
  BY DEF IInv, Rotating
<1>1. Rotating' \subseteq Rotating \ {p}
  BY DEF Rotating
<1>2. IsFiniteSet(Rotating) /\ Cardinality(Rotating) \in Nat
  BY FS_Subset, FS_CardinalityType, Facts DEF Rotating
<1>3. IsFiniteSet(Rotating \ {p}) /\ Cardinality(Rotating \ {p}) = Cardinality(Rotating) - 1
  BY <1>0, <1>2, FS_RemoveElement
<1>4. Cardinality(Rotating') \in Nat /\ Cardinality(Rotating') <= Cardinality(Rotating) - 1
  BY <1>1, <1>3, FS_Subset, FS_CardinalityType
<1>5. IsFiniteSet(Existing) /\ Cardinality(Existing) \in Nat
  BY <1>0, SessionIs
<1>6. Cardinality(Existing \cup {t}) = Cardinality(Existing) + 1
  BY <1>5, FS_AddElement
<1>7. Cardinality(Existing)' = Cardinality(Existing \cup {t}) /\ Cardinality(Rotating)' = Cardinality(Rotating')
  OBVIOUS
<1>. QED BY <1>0, <1>2, <1>4, <1>5, <1>6, <1>7, Facts DEF RoomKept

\* An UPDATE that revokes a family is raced by the rotation of a row that it has
\* picked, and by no other.
LEMMA InsertRaces ==
    ASSUME TypeOK, Chained, NEW on, NEW t, Inserted(on, t), NEW q \in Procs,
           JobOK(q), Raced(q), job'[q] = job[q]
    PROVE  Raced(q)'
<1>. USE InsertedKeeps
<1>. DEFINE seen == job[q].left \cup job[q].kept
<1>. SUFFICES ASSUME job[q].why = "reuse_detected" PROVE Raced(q)'
  BY DEF Raced
<1>0. job[q].on \in Existing /\ seen \subseteq Existing
  BY DEF JobOK
<1>1. CASE \E u \in seen \ {job[q].on} : session[u].next \notin seen \cup {None}
  BY <1>0, <1>1 DEF Raced
<1>2. CASE \A s \in Live : session[s].family = session[job[q].on].family => s \in seen
  <2>1. t \notin Existing /\ FamiliesExist
    BY DEF Inserted, Chained
  <2>2. CASE on # None /\ on \in seen
    <3>1. session'[on].next = t /\ t \notin seen \cup {None}
      BY <1>0, <2>1, <2>2 DEF Inserted
    <3>2. on # job[q].on
      BY <2>2, SessionIs DEF JobOK, Inserted
    <3>. QED BY <2>2, <3>1, <3>2 DEF Raced
  <2>3. CASE on = None \/ on \notin seen
    <3>1. session'[t].family # session[job[q].on].family
      <4>1. CASE on = None
        BY <1>0, <2>1, <4>1 DEF Inserted, FamiliesExist
      <4>2. CASE on # None /\ on \notin seen
        BY <1>2, <4>2 DEF Inserted
      <4>. QED BY <2>3, <4>1, <4>2
    <3>2. session'[job[q].on].family = session[job[q].on].family
      BY <1>0
    <3>3. \A s \in Live' : session'[s].family = session'[job[q].on].family => s \in seen
      BY <1>2, <3>1, <3>2
    <3>. QED BY <3>3 DEF Raced
  <2>. QED BY <2>2, <2>3
<1>. QED BY <1>1, <1>2 DEF Raced

LEMMA InsertStep ==
    ASSUME IInv, NEW p \in Procs, Insert(p) PROVE IInv'
<1>. DEFINE j == job[p]
            t == NewId
<1>0. /\ TypeOK /\ Chained /\ RoomKept /\ Locking /\ EpochLeft /\ BornBefore
      /\ \A q \in Procs : JobOK(q) /\ Thorough(q) /\ Raced(q)
      /\ j.at = "insert" /\ End(p) /\ born' = [born EXCEPT ![t] = j.read]
      /\ membership' = membership /\ mfa' = mfa /\ epoch' = epoch
  BY DEF IInv, Requests, Insert
<1>1. Inserted(j.on, t) /\ t \in Sessions /\ t \notin Existing
  BY InsertRows DEF Inserted
<1>2. \E n \in 0 .. MaxSessions : Existing = 1 .. n /\ t = n + 1
  BY <1>0, NewIdIs
<1>. HIDE DEF t
<1>3. j.why = None /\ j.read \in 0 .. MaxDisables /\ j.read <= epoch
      /\ (membership = "disabled" => j.read < epoch)
  BY <1>0, JobIs DEF JobOK
<1>4. memberLock = None
  <2>1. memberLock # p
    BY <1>0, <1>3, Facts DEF Locking, Reasons
  <2>. QED BY <2>1 DEF Insert, MemberFree
<1>5. /\ lock' \in [Sessions -> Procs \cup {None}] /\ memberLock' \in Procs \cup {None}
      /\ \A s \in Sessions : lock'[s] # p
      /\ \A q \in Procs \ {p} : \A s \in Sessions : lock'[s] = q <=> lock[s] = q
      /\ memberLock' # p
      /\ \A q \in Procs \ {p} : memberLock' = q <=> memberLock = q
      /\ memberLock' = None
  BY <1>0, <1>4, Released DEF End
<1>6. job' \in [Procs -> Jobs] /\ job'[p] = Idle /\ \A q \in Procs \ {p} : job'[q] = job[q]
  BY <1>0, JobGoes, Facts DEF End
<1>7. TypeOK'
  BY <1>0, <1>1, <1>3, <1>5, <1>6 DEF TypeOK, Inserted
<1>8. Chained'
  BY <1>0, <1>1, <1>2, <1>7, InsertChains
<1>9. RoomKept'
  <2>1. \A q \in Procs \ {p} : job[q].at = "token" => job[q].on # t
    BY <1>0, <1>1 DEF JobOK
  <2>2. Existing' = Existing \cup {t} /\ Live' \subseteq Live \cup {t}
    BY <1>1 DEF Inserted
  <2>. QED BY <1>0, <1>1, <1>6, <1>7, <2>1, <2>2, InsertRoom, Facts
<1>10. Locking' /\ EpochLeft'
  <2>1. EpochLeft'
    BY <1>5 DEF EpochLeft
  <2>2. job'[p].why # "admin_disabled"
    BY <1>6, Facts DEF Reasons
  <2>. QED BY <1>0, <1>5, <1>6, <2>1, <2>2, LockingFrame
<1>11. BornBefore'
  <2>1. born'[t] = j.read /\ \A s \in Sessions \ {t} : born'[s] = born[s]
    BY <1>0, <1>1 DEF TypeOK
  <2>2. \A s \in Sessions : born'[s] <= epoch'
    BY <1>0, <1>3, <2>1 DEF BornBefore
  <2>3. DisabledOnlyInFlight'
    <3>. SUFFICES ASSUME membership' = "disabled", NEW s \in Live' PROVE born'[s] < epoch'
      BY DEF DisabledOnlyInFlight
    <3>1. s = t \/ (s \in Live /\ s \in Sessions /\ s # t)
      BY <1>0, <1>1, SessionIs DEF Inserted
    <3>. QED BY <1>0, <1>3, <2>1, <3>1 DEF BornBefore, DisabledOnlyInFlight
  <2>. QED BY <2>2, <2>3 DEF BornBefore
<1>12. \A q \in Procs \ {p} : JobOK(q)' /\ Thorough(q)' /\ Raced(q)'
  <2>. SUFFICES ASSUME NEW q \in Procs \ {p} PROVE JobOK(q)' /\ Thorough(q)' /\ Raced(q)'
    OBVIOUS
  <2>1. Sticks
    BY <1>0, <1>1, InsertedKeeps DEF Sticks
  <2>2. Untouched(q)
    <3>. SUFFICES ASSUME NEW s \in Existing, s \in Sessions, lock[s] = q
                  PROVE  lock'[s] = q /\ session'[s] = session[s]
      BY <1>6 DEF Untouched
    <3>1. s # j.on
      <4>1. j.on # None => lock[j.on] = p
        BY <1>0 DEF JobOK
      <4>. QED BY <4>1, Facts
    <3>. QED BY <1>0, <1>1, <1>5, <3>1, InsertedKeeps
  <2>3. EpochGoesOn
    BY <1>0, SameEpoch
  <2>4. JobOK(q)'
    BY <1>0, <1>7, <2>1, <2>2, <2>3, JobFrame DEF Chained
  <2>5. Thorough(q)'
    BY <1>0, <1>4, <1>6, Facts DEF Thorough, Locking
  <2>6. Raced(q)'
    BY <1>0, <1>1, <1>6, InsertRaces
  <2>. QED BY <2>4, <2>5, <2>6
<1>13. JobOK(p)' /\ Thorough(p)' /\ Raced(p)'
  <2>1. None # "admin_disabled" /\ None # "reuse_detected" /\ None # "membership_inactive"
    BY Facts DEF Reasons
  <2>2. JobOK(p)'
    BY <1>6, <2>1, Facts DEF JobOK
  <2>. QED BY <1>6, <2>1, <2>2, Facts DEF Thorough, Raced
<1>. QED BY <1>7, <1>8, <1>9, <1>10, <1>11, <1>12, <1>13 DEF IInv, Requests

-----------------------------------------------------------------------------
(* The invariant of the specification                                      *)

LEMMA Initially == Init => IInv
<1>. SUFFICES ASSUME Init PROVE IInv
  OBVIOUS
<1>0. /\ MaxSessions \in Nat /\ MaxDisables \in Nat
      /\ \A p \in Procs : job[p] = Idle
      /\ \A s \in Sessions : session[s] = Absent /\ lock[s] = None /\ born[s] = 0
      /\ memberLock = None /\ epoch = 0 /\ membership = "active"
  BY Facts DEF Init
<1>1. Absent \in Rows /\ Absent.state = "absent"
  BY DEF Absent, Rows
<1>2. TypeOK
  <2>1. /\ session \in [Sessions -> Rows] /\ lock \in [Sessions -> Procs \cup {None}]
        /\ job \in [Procs -> Jobs]
    BY <1>1, Facts DEF Init
  <2>2. epoch \in 0 .. MaxDisables /\ born \in [Sessions -> 0 .. MaxDisables]
    BY Facts DEF Init
  <2>. QED BY <1>0, <2>1, <2>2 DEF Init, TypeOK
<1>3. Existing = {} /\ Live = {}
  BY <1>0, <1>1 DEF Existing, Live
<1>4. Chained
  <2>1. Existing = 1 .. 0
    BY <1>3
  <2>2. Contiguous
    BY <1>0, <2>1 DEF Contiguous
  <2>. QED BY <1>3, <2>2 DEF Chained, FamiliesExist, OneLiveEnd, RotationKeeps
<1>5. RoomKept
  <2>1. Rotating = {}
    BY <1>0, <1>3, Facts DEF Rotating
  <2>. QED BY <1>0, <1>3, <2>1, FS_EmptySet DEF RoomKept
<1>6. Locking /\ EpochLeft
  BY <1>0, Facts DEF Locking, EpochLeft, Reasons
<1>7. BornBefore
  BY <1>0, <1>3 DEF BornBefore, DisabledOnlyInFlight
<1>8. \A p \in Procs : JobOK(p) /\ Thorough(p) /\ Raced(p)
  <2>. TAKE p \in Procs
  <2>1. None # "admin_disabled" /\ None # "reuse_detected" /\ None # "membership_inactive"
    BY Facts DEF Reasons
  <2>2. JobOK(p)
    BY <1>0, <2>1, Facts DEF JobOK
  <2>. QED BY <1>0, <2>1, <2>2, Facts DEF Thorough, Raced
<1>. QED BY <1>2, <1>4, <1>5, <1>6, <1>7, <1>8 DEF IInv, Requests

LEMMA Stutter == IInv /\ UNCHANGED vars => IInv'
<1>. SUFFICES ASSUME IInv, UNCHANGED vars PROVE IInv'
  OBVIOUS
<1>1. UNCHANGED <<session, membership, mfa, lock, memberLock, job, epoch, born>>
  BY DEF vars, rows, locks, history
<1>2. TypeOK' /\ Fades
  BY <1>1, Still DEF IInv, TypeOK
<1>3. EpochGoesOn
  BY <1>1, SameEpoch DEF IInv
<1>. QED BY <1>1, <1>2, <1>3, OnlyFades

\* One step per action.
LEMMA Stepwise == IInv /\ [Next]_vars => IInv'
<1>. SUFFICES ASSUME IInv, Next PROVE IInv'
  BY Stutter
<1>1. ASSUME NEW p \in Procs, Advance(p) PROVE IInv'
  <2>1. CASE ReadToken(p)
    BY <2>1, ReadTokenStep
  <2>2. CASE ReadReplacement(p)
    BY <2>2, ReadReplacementStep
  <2>3. CASE AnswerReplacement(p) \/ BreakDeadlock(p)
    BY <2>3, EndStep DEF AnswerReplacement, BreakDeadlock
  <2>4. CASE Insert(p)
    BY <2>4, InsertStep
  <2>5. CASE SweepCommit(p)
    BY <2>5, SweepCommitStep
  <2>6. CASE \E s \in Sessions : SweepRow(p, s)
    BY <2>6, SweepRowStep
  <2>. QED BY <1>1, <2>1, <2>2, <2>3, <2>4, <2>5, <2>6 DEF Advance
<1>2. ASSUME NEW p \in Procs, Request(p) PROVE IInv'
  <2>1. CASE BeginLogin(p)
    BY <2>1, BeginLoginStep
  <2>2. CASE BeginReset(p)
    BY <2>2, BeginResetStep
  <2>3. CASE BeginDisable(p)
    BY <2>3, BeginDisableStep
  <2>4. CASE \E s \in Sessions : BeginRefresh(p, s)
    BY <2>4, BeginRefreshStep
  <2>5. CASE \E s \in Sessions : Logout(p, s)
    BY <2>5, LogoutStep
  <2>. QED BY <1>2, <2>1, <2>2, <2>3, <2>4, <2>5 DEF Request
<1>3. ASSUME Environment PROVE IInv'
  <2>1. CASE Enable \/ SetMfa
    BY <2>1, EnableOrSetMfaStep
  <2>2. CASE \E s \in Sessions : ConfirmTotp(s)
    BY <2>2, ConfirmTotpStep
  <2>3. CASE \E s \in Sessions : GraceEnds(s) \/ Expires(s)
    BY <2>3, LateStep
  <2>. QED BY <1>3, <2>1, <2>2, <2>3 DEF Environment
<1>. QED BY <1>1, <1>2, <1>3 DEF Next

LEMMA Invariance == Spec => []IInv
BY Initially, Stepwise, PTL DEF Spec

-----------------------------------------------------------------------------
(* What follows                                                            *)

\* Rows, locks and jobs are of their types, whatever the requests do.
THEOREM Typing == Spec => []TypeOK
<1>1. IInv => TypeOK
  BY DEF IInv
<1>. QED BY <1>1, Invariance, PTL

\* refresh: the sessions of one login are one chain, with at most one end that
\* can be refreshed, and no rotation loses the second factor.
THEOREM ChainHolds == Spec => []FamilyIsOneChain
<1>1. IInv => FamilyIsOneChain
  BY DEF IInv, Chained, FamilyIsOneChain
<1>. QED BY <1>1, Invariance, PTL

\* Nobody signs in past a disable but who had read the membership before, and
\* the answer inside the grace window is a live session of the same family.
THEOREM SignInsHold == Spec => []SignedInRightly
<1>1. IInv => SignedInRightly
  <2>. SUFFICES ASSUME IInv PROVE SignedInRightly
    OBVIOUS
  <2>1. GraceAnswersAreGood
    <3>. SUFFICES ASSUME NEW p \in Procs, job[p].at = "grace"
                  PROVE  LET t == session[job[p].on].next IN
                         session[t].state = "live" /\ t \in Family(job[p].on)
      BY DEF GraceAnswersAreGood
    <3>1. JobOK(p) /\ RotationKeeps
      BY DEF IInv, Requests, Chained
    <3>. QED BY <3>1 DEF JobOK, RotationKeeps
  <2>. QED BY <2>1 DEF IInv, BornBefore, SignedInRightly
<1>. QED BY <1>1, Invariance, PTL

-----------------------------------------------------------------------------
(* What a step does to the rows                                            *)

\* The sessions of S are revoked, and no row changes otherwise.
Revokes(S) ==
  /\ S \subseteq Live
  /\ \A s \in Sessions :
       /\ session'[s].family = session[s].family /\ session'[s].next = session[s].next
       /\ session'[s].verified = session[s].verified
       /\ session'[s].state = IF s \in S THEN "revoked" ELSE session[s].state

LEMMA RevokesNone ==
    ASSUME session' = session PROVE Revokes({})
BY DEF Revokes

\* A step rotates or opens a session, confirms a factor, or revokes.
LEMMA Moves ==
    ASSUME IInv, Next
    PROVE  \/ \E p \in Procs : Insert(p)
           \/ \E s \in Sessions : ConfirmTotp(s)
           \/ \E S \in SUBSET Sessions : Revokes(S)
<1>0. TypeOK /\ Live \subseteq Sessions /\ \A s \in Sessions : session[s] \in Rows
  BY SessionIs DEF IInv
<1>1. ASSUME session' = session PROVE \E S \in SUBSET Sessions : Revokes(S)
  BY <1>1, RevokesNone
<1>2. ASSUME NEW p \in Procs, SweepCommit(p) PROVE \E S \in SUBSET Sessions : Revokes(S)
  <2>1. /\ session' = [s \in Sessions |-> IF s \in job[p].kept THEN Revoked(session[s]) ELSE session[s]]
        /\ \A s \in Sessions : Revoked(session[s]).state =
                 IF session[s].state = "live" THEN "revoked" ELSE session[s].state
    BY <1>0, <1>2, RevokedIs DEF SweepCommit
  <2>2. Revokes(job[p].kept \cap Live)
    BY <1>0, <2>1, RevokedIs DEF Revokes, Live
  <2>. QED BY <1>0, <2>2
<1>3. ASSUME NEW p \in Procs, NEW s \in Sessions, Logout(p, s)
      PROVE  \E S \in SUBSET Sessions : Revokes(S)
  <2>1. session' = [session EXCEPT ![s] = Revoked(session[s])]
    BY <1>3 DEF Logout
  <2>2. Revoked(session[s]).state = IF s \in Live THEN "revoked" ELSE session[s].state
    BY <1>0, RevokedIs DEF Live
  <2>3. session'[s] = Revoked(session[s]) /\ \A u \in Sessions \ {s} : session'[u] = session[u]
    BY <1>0, <2>1 DEF TypeOK
  <2>4. Revokes({s} \cap Live)
    BY <1>0, <2>2, <2>3, RevokedIs DEF Revokes
  <2>. QED BY <1>0, <2>4
<1>4. ASSUME NEW s \in Sessions, GraceEnds(s) \/ Expires(s)
      PROVE  \E S \in SUBSET Sessions : Revokes(S)
  <2>. DEFINE x == [session[s] EXCEPT !.late = TRUE]
  <2>1. session' = [session EXCEPT ![s] = x]
    BY <1>4 DEF GraceEnds, Expires
  <2>2. /\ x.state = session[s].state /\ x.family = session[s].family
        /\ x.next = session[s].next /\ x.verified = session[s].verified
    BY <1>0, Later
  <2>. HIDE DEF x
  <2>3. session'[s] = x /\ \A u \in Sessions \ {s} : session'[u] = session[u]
    BY <1>0, <2>1 DEF TypeOK
  <2>4. Revokes({})
    BY <2>2, <2>3 DEF Revokes
  <2>. QED BY <2>4
<1>5. ASSUME NEW p \in Procs, Advance(p)
      PROVE  Insert(p) \/ \E S \in SUBSET Sessions : Revokes(S)
  <2>1. CASE \/ ReadToken(p) \/ ReadReplacement(p) \/ AnswerReplacement(p) \/ BreakDeadlock(p)
             \/ \E s \in Sessions : SweepRow(p, s)
    <3>1. session' = session
      BY <2>1 DEF ReadToken, ReadReplacement, AnswerReplacement, BreakDeadlock, SweepRow, rows
    <3>. QED BY <1>1, <3>1
  <2>2. CASE SweepCommit(p)
    BY <1>2, <2>2
  <2>. QED BY <1>5, <2>1, <2>2 DEF Advance
<1>6. ASSUME NEW p \in Procs, Request(p) PROVE \E S \in SUBSET Sessions : Revokes(S)
  <2>1. CASE \E s \in Sessions : Logout(p, s)
    BY <1>3, <2>1
  <2>2. CASE \/ BeginLogin(p) \/ BeginReset(p) \/ BeginDisable(p)
             \/ \E s \in Sessions : BeginRefresh(p, s)
    <3>1. session' = session
      BY <2>2 DEF BeginLogin, BeginReset, BeginDisable, BeginRefresh, Begin, rows
    <3>. QED BY <1>1, <3>1
  <2>. QED BY <1>6, <2>1, <2>2 DEF Request
<1>7. ASSUME Environment
      PROVE  \/ \E s \in Sessions : ConfirmTotp(s)
             \/ \E S \in SUBSET Sessions : Revokes(S)
  <2>1. CASE Enable \/ SetMfa
    BY <1>1, <2>1 DEF Enable, SetMfa
  <2>2. CASE \E s \in Sessions : GraceEnds(s) \/ Expires(s)
    BY <1>4, <2>2
  <2>. QED BY <1>7, <2>1, <2>2 DEF Environment
<1>. QED BY <1>5, <1>6, <1>7 DEF Next

LEMMA StaysRevoked ==
    ASSUME IInv, [Next]_vars, NEW s \in Sessions, session[s].state = "revoked"
    PROVE  session'[s].state = "revoked" /\ session'[s].next = session[s].next
<1>0. TypeOK /\ s \in Existing /\ s \notin Live
  BY DEF IInv, Existing, Live
<1>1. ASSUME NEW p \in Procs, Insert(p)
      PROVE  session'[s].state = "revoked" /\ session'[s].next = session[s].next
  <2>1. Inserted(job[p].on, NewId)
    BY <1>1, InsertRows
  <2>2. s # NewId /\ s # job[p].on
    BY <1>0, <2>1, Facts DEF Inserted
  <2>. QED BY <2>1, <2>2 DEF Inserted
<1>2. ASSUME NEW u \in Sessions, ConfirmTotp(u)
      PROVE  session'[s].state = "revoked" /\ session'[s].next = session[s].next
  BY <1>0, <1>2 DEF ConfirmTotp, TypeOK
<1>3. ASSUME NEW S \in SUBSET Sessions, Revokes(S)
      PROVE  session'[s].state = "revoked" /\ session'[s].next = session[s].next
  BY <1>3 DEF Revokes
<1>4. CASE UNCHANGED vars
  BY <1>4 DEF vars, rows
<1>5. ASSUME Next PROVE session'[s].state = "revoked" /\ session'[s].next = session[s].next
  BY <1>1, <1>2, <1>3, <1>5, Moves
<1>. QED BY <1>4, <1>5

\* What is revoked stays so, whichever UPDATE comes late.
THEOREM RevocationIsFinal == Spec => RevocationSticks
<1>1. IInv /\ [Next]_vars =>
        [\A s \in Sessions : session[s].state = "revoked" =>
           /\ session'[s].state = "revoked"
           /\ session'[s].next = session[s].next]_vars
  BY StaysRevoked
<1>. QED BY <1>1, Invariance, PTL DEF Spec, RevocationSticks

\* Only the commit of a disable disables, and it takes every live session with it.
LEMMA DisableTakesAll ==
    ASSUME IInv, [Next]_vars, membership = "active", membership' = "disabled",
           NEW s \in Sessions
    PROVE  session'[s].state # "live"
<1>0. TypeOK /\ membership' # membership
  BY DEF IInv
<1>1. PICK p \in Procs : SweepCommit(p) /\ job[p].why = "admin_disabled"
  <2>1. \A p \in Procs : Request(p) => membership' = membership
    BY DEF Request, BeginLogin, BeginReset, BeginDisable, BeginRefresh, Logout, Begin, rows
  <2>2. Environment => membership' = membership \/ membership' = "active"
    BY DEF Environment, Enable, SetMfa, ConfirmTotp, GraceEnds, Expires
  <2>3. \A p \in Procs : Advance(p) =>
          membership' = membership \/ (SweepCommit(p) /\ job[p].why = "admin_disabled")
    BY DEF Advance, ReadToken, ReadReplacement, AnswerReplacement, BreakDeadlock, Insert,
           SweepRow, SweepCommit, rows
  <2>4. vars' = vars => membership' = membership
    BY DEF vars, rows
  <2>. QED BY <1>0, <2>1, <2>2, <2>3, <2>4 DEF Next
<1>2. Live \subseteq job[p].kept
  BY <1>1 DEF IInv, Requests, Thorough, SweepCommit
<1>3. session'[s] = IF s \in job[p].kept THEN Revoked(session[s]) ELSE session[s]
  BY <1>1 DEF SweepCommit
<1>4. CASE s \in Live
  BY <1>0, <1>2, <1>3, <1>4, SessionIs, RevokedIs DEF Live
<1>5. CASE s \notin Live
  BY <1>0, <1>3, <1>5, SessionIs, RevokedIs DEF Live
<1>. QED BY <1>4, <1>5

\* Whoever disables a member leaves no session, though logins and refreshes are
\* under way: their inserts wait for the lock of the membership.
THEOREM DisablingIsThorough == Spec => DisableIsThorough
<1>1. IInv /\ [Next]_vars =>
        [\A p \in Procs : membership = "active" /\ membership' = "disabled" =>
           \A s \in Sessions : session'[s].state # "live"]_vars
  BY DisableTakesAll
<1>. QED BY <1>1, Invariance, PTL DEF Spec, DisableIsThorough

LEMMA SurvivorsAreRaced ==
    ASSUME IInv, NEW p \in Procs, job[p].why = "reuse_detected", SweepCommit(p),
           NEW s \in Family(job[p].on), session'[s].state = "live"
    PROVE  \E u \in job[p].kept \ {job[p].on} : session[u].next \notin job[p].kept \cup {None}
<1>0. /\ TypeOK /\ Raced(p) /\ job[p].left = {} /\ s \in Sessions
      /\ session[s].family = session[job[p].on].family
      /\ session' = [u \in Sessions |-> IF u \in job[p].kept THEN Revoked(session[u]) ELSE session[u]]
  BY SessionIs DEF IInv, Requests, SweepCommit, Family
<1>1. s \in Live /\ s \notin job[p].kept
  BY <1>0, SessionIs, RevokedIs DEF Live
<1>. QED BY <1>0, <1>1 DEF Raced

\* A replayed token takes its family with it, but for what comes of a rotation
\* that held the row when the UPDATE reached it.
THEOREM ReuseIsRacedAtMost == Spec => ReuseLeavesOnlyARacedRotation
<1>1. IInv /\ [Next]_vars =>
        [\A p \in Procs : job[p].why = "reuse_detected" /\ SweepCommit(p) =>
           \A s \in Family(job[p].on) : session'[s].state = "live" =>
             \E u \in job[p].kept \ {job[p].on} :
               session[u].next \notin job[p].kept \cup {None}]_vars
  BY SurvivorsAreRaced
<1>. QED BY <1>1, Invariance, PTL DEF Spec, ReuseLeavesOnlyARacedRotation

\* The three ways a session is taken away hold for any number of requests.
THEOREM RevocationsHold == Spec => RevocationHolds
BY RevocationIsFinal, DisablingIsThorough, ReuseIsRacedAtMost DEF RevocationHolds

-----------------------------------------------------------------------------
(* The rows implement SessionChain                                         *)

Successors == [s \in Sessions |-> session[s].next]
Families == [s \in Sessions |-> session[s].family]
Factors == {s \in Existing : session[s].verified}

LEMMA ChainInsert ==
    ASSUME TypeOK, NEW on, NEW t, Inserted(on, t) PROVE Chain!Next
<1>1. /\ t \in Sessions /\ t \notin Existing /\ Existing' = Existing \cup {t}
      /\ on \in Live \cup {None} /\ Live' = (Live \ {on}) \cup {t}
      /\ Existing \subseteq Sessions /\ Live \subseteq Existing /\ None \notin Sessions
  BY SessionIs, Facts DEF Inserted
<1>2. \A s \in Existing : session'[s].verified = session[s].verified
  BY InsertedKeeps
<1>3. Factors' = IF session'[t].verified THEN Factors \cup {t} ELSE Factors
  BY <1>1, <1>2 DEF Factors
<1>4. session[t].next = None /\ session'[t].next = None
  BY <1>1, SessionIs DEF Inserted
<1>5. CASE on = None
  <2>1. Live' = Live \cup {t}
    BY <1>1, <1>5
  <2>2. \A s \in Sessions : session'[s].next = session[s].next
    <3>. TAKE s \in Sessions
    <3>1. s # t => session'[s] = session[s]
      BY <1>1, <1>5 DEF Inserted
    <3>. QED BY <1>4, <3>1
  <2>3. Successors' = Successors
    BY <2>2 DEF Successors
  <2>4. Factors' \in {Factors, Factors \cup {t}}
    BY <1>3
  <2>6. \A s \in Sessions : session'[s].family = IF s = t THEN t ELSE session[s].family
    BY <1>1, <1>5 DEF Inserted
  <2>7. Families' = [Families EXCEPT ![t] = t]
    BY <1>1, <2>6 DEF Families
  <2>5. Chain!Open(t)
    BY <1>1, <2>1, <2>3, <2>4, <2>7 DEF Chain!Open, Successors, Families, Factors
  <2>. QED BY <1>1, <2>5 DEF Chain!Next
<1>6. CASE on # None
  <2>1. on \in Live /\ on \in Sessions /\ on \in Existing
    BY <1>1, <1>6
  <2>2. \A s \in Sessions : session'[s].next = IF s = on THEN t ELSE session[s].next
    <3>. TAKE s \in Sessions
    <3>1. (s # t /\ s # on) => session'[s] = session[s]
      BY DEF Inserted
    <3>2. session'[on].next = t /\ on # t
      BY <1>1, <1>6, <2>1 DEF Inserted
    <3>. QED BY <1>4, <3>1, <3>2
  <2>3. Successors' = [Successors EXCEPT ![on] = t]
    BY <2>1, <2>2 DEF Successors
  <2>4. session'[t].verified = session[on].verified
    BY <1>6 DEF Inserted
  <2>5. Factors' = IF on \in Factors THEN Factors \cup {t} ELSE Factors
    BY <1>3, <2>1, <2>4 DEF Factors
  <2>7. \A s \in Sessions : session'[s].family = IF s = t THEN session[on].family ELSE session[s].family
    <3>. TAKE s \in Sessions
    <3>1. (s # t /\ s # on) => session'[s] = session[s]
      BY DEF Inserted
    <3>2. session'[t].family = session[on].family /\ session'[on].family = session[on].family
      BY <1>6 DEF Inserted
    <3>. QED BY <3>1, <3>2
  <2>8. Families' = [Families EXCEPT ![t] = Families[on]]
    BY <1>1, <2>1, <2>7 DEF Families
  <2>6. Chain!Rotate(on, t)
    BY <1>1, <2>1, <2>3, <2>5, <2>8 DEF Chain!Rotate, Successors, Families, Factors
  <2>. QED BY <1>1, <2>1, <2>6 DEF Chain!Next
<1>. QED BY <1>5, <1>6

LEMMA ChainRevokes ==
    ASSUME TypeOK, NEW S \in SUBSET Sessions, Revokes(S) PROVE Chain!Next
<1>0. /\ S \subseteq Live
      /\ \A s \in Sessions : /\ session'[s].next = session[s].next
                              /\ session'[s].family = session[s].family
                              /\ session'[s].verified = session[s].verified
                              /\ session'[s].state = IF s \in S THEN "revoked" ELSE session[s].state
  BY DEF Revokes
<1>1. Existing' = Existing /\ Live' = Live \ S
  BY <1>0 DEF Existing, Live
<1>2. Successors' = Successors
  BY <1>0 DEF Successors
<1>3. Factors' = Factors
  BY <1>0, <1>1, SessionIs DEF Factors
<1>5. Families' = Families
  BY <1>0 DEF Families
<1>4. Chain!Revoke(S)
  BY <1>0, <1>1, <1>2, <1>3, <1>5 DEF Chain!Revoke, Successors, Families, Factors
<1>. QED BY <1>4 DEF Chain!Next

LEMMA ChainConfirms ==
    ASSUME TypeOK, NEW s \in Sessions, ConfirmTotp(s) PROVE Chain!Next
<1>. DEFINE x == [session[s] EXCEPT !.verified = TRUE]
<1>0. s \in Live /\ s \in Existing /\ session' = [session EXCEPT ![s] = x] /\ session[s] \in Rows
  BY SessionIs DEF ConfirmTotp
<1>1. /\ x.state = session[s].state /\ x.next = session[s].next /\ x.verified
      /\ x.family = session[s].family
  BY <1>0, Verified
<1>. HIDE DEF x
<1>2. session'[s] = x /\ \A u \in Sessions \ {s} : session'[u] = session[u]
  BY <1>0 DEF TypeOK
<1>3. Existing' = Existing /\ Live' = Live /\ Existing \subseteq Sessions
  BY <1>1, <1>2, SessionIs DEF Existing, Live
<1>4. Successors' = Successors
  BY <1>1, <1>2 DEF Successors
<1>5. Factors' = Factors \cup {s}
  BY <1>0, <1>1, <1>2, <1>3 DEF Factors
<1>7. Families' = Families
  BY <1>1, <1>2 DEF Families
<1>6. Chain!Confirm(s)
  BY <1>0, <1>3, <1>4, <1>5, <1>7 DEF Chain!Confirm, Successors, Families, Factors
<1>. QED BY <1>6 DEF Chain!Next

LEMMA ChainStep ==
    ASSUME IInv, [Next]_vars PROVE [Chain!Next]_<<Live, Existing, Successors, Families, Factors>>
<1>0. TypeOK
  BY DEF IInv
<1>1. CASE Next
  <2>1. ASSUME NEW p \in Procs, Insert(p) PROVE Chain!Next
    BY <1>0, <2>1, InsertRows, ChainInsert
  <2>. QED BY <1>0, <1>1, <2>1, Moves, ChainConfirms, ChainRevokes
<1>2. CASE UNCHANGED vars
  <2>1. session' = session
    BY <1>2 DEF vars, rows
  <2>. QED BY <2>1 DEF Live, Existing, Successors, Families, Factors
<1>. QED BY <1>1, <1>2

\* Whoever holds refresh tokens of the member sees sessions that are opened,
\* rotated once each and revoked, whatever transactions run underneath.
THEOREM SessionsKeepChain == Spec => KeepsChain
<1>1. Init => Chain!Init
  <2>. SUFFICES ASSUME Init PROVE Chain!Init
    OBVIOUS
  <2>1. \A s \in Sessions : session[s] = Absent
    BY DEF Init
  <2>2. Absent.state = "absent" /\ Absent.next = None /\ Absent.family = None
    BY DEF Absent
  <2>3. Existing = {} /\ Live = {}
    BY <2>1, <2>2 DEF Existing, Live
  <2>4. [s \in Sessions |-> session[s].next] = [s \in Sessions |-> None]
    BY <2>1, <2>2
  <2>5. [s \in Sessions |-> session[s].family] = [s \in Sessions |-> None]
    BY <2>1, <2>2
  <2>. QED BY <2>3, <2>4, <2>5 DEF Chain!Init
<1>2. IInv /\ [Next]_vars => [Chain!Next]_(Chain!vars)
  BY ChainStep DEF Successors, Families, Factors, Chain!vars
<1>. QED BY <1>1, <1>2, Invariance, PTL DEF Spec, KeepsChain, Chain!Spec

-----------------------------------------------------------------------------
(* The pages of one browser (WebClient)                                    *)

IsLive(s) == status[s] = "live"
Carries(p) == refresh[p].st = "granted" /\ refresh[p].cookie
Asks(p, s) == refresh[p].st = "sent" /\ refresh[p].with = s
Orderly == odds \cap {"lost", "ended", "login"} = {}

\* A page that shows the login form has nothing under way.
LoginRests ==
  \A p \in Pages : at[p] = "login" =>
    socket[p] = Off /\ \A c \in Calls : call[p][c] = Resting

\* recovering is set exactly while a refresh of this connection is burned.
WebLatch ==
  \A p \in Pages :
    burned[p] = IF socket[p].st \in {"waiting", "second"} THEN 1 ELSE 0

\* As long as no answer was lost and nobody left: one family, one live
\* session, and its cookie is in the jar or in one answer, never in both.
OneHolder ==
  \A s \in WebSessions : IsLive(s) =>
    /\ jar = s \/ \E p \in Pages : Carries(p) /\ refresh[p].for = s
    /\ \A p \in Pages : Carries(p) => refresh[p].for = s /\ jar # s
    /\ \A p, q \in Pages : Carries(p) => ~ Asks(q, s)
    /\ \A p, q \in Pages : Carries(p) /\ Carries(q) => p = q
    /\ \A p \in Pages : ~ (refresh[p].st = "refused" /\ refresh[p].clear)

NamesExist ==
  /\ jar # 0 => status[jar] # "absent"
  /\ \A p \in Pages : refresh[p].st = "sent" /\ refresh[p].with # 0
                        => status[refresh[p].with] # "absent"
  /\ \A p \in Pages : refresh[p].st = "granted" => status[refresh[p].for] # "absent"

OneFamily ==
  /\ \A s \in WebSessions : family[s] = 1
  /\ \A s, t \in WebSessions : IsLive(s) /\ IsLive(t) => s = t

InOrder ==
  Orderly =>
    /\ orphans = {}
    /\ \A p \in Pages : at[p] # "leaving"
    /\ OneFamily
    /\ NamesExist
    /\ OneHolder

\* While nothing odd has happened, refreshes take turns and each presents
\* the live session.
Quiet ==
  odds = {} =>
    /\ \E s \in WebSessions : IsLive(s)
    /\ \A p, q \in Pages : refresh[p].st # "none" /\ refresh[q].st # "none" => p = q
    /\ \A p \in Pages : refresh[p].st = "sent" =>
         refresh[p].with # 0 /\ status[refresh[p].with] = "live"
    /\ \A p \in Pages : refresh[p].st # "refused" /\ at[p] # "login"

\* A token brought by a refresh is good for the request that waited for it.
Steady ==
  "asleep" \notin odds =>
    \A p \in Pages :
      /\ socket[p].st = "second" => socket[p].with = "good"
      /\ \A c \in Calls : call[p][c].st = "second" => call[p][c].with = "good"

WebInv == WebTypeOK /\ LoginRests /\ WebLatch /\ InOrder /\ Quiet /\ Steady

LEMMA WebLeast ==
    ASSUME NEW S \in SUBSET Nat, S # {}
    PROVE  \E m \in S : \A k \in S : m <= k
<1>. DEFINE R == OpToRel(<, Nat)
<1>1. IsWellFoundedOn(R, Nat)
  BY NatLessThanWellFounded
<1>. HIDE DEF R
<1>2. PICK m \in S : \A k \in S : ~ (<<k, m>> \in R)
  BY <1>1, WFMin
<1>3. \A k \in S : k < m => <<k, m>> \in R
  BY DEF R, OpToRel
<1>4. ASSUME NEW k \in S PROVE m <= k
  <2>1. ~ (k < m) /\ k \in Nat /\ m \in Nat
    BY <1>2, <1>3
  <2>. QED BY <2>1
<1>. QED BY <1>4

LEMMA FreshIs ==
    ASSUME Unused # {}
    PROVE  Fresh \in WebSessions /\ status[Fresh] = "absent"
<1>1. Unused \in SUBSET Nat
  BY WebBounds DEF Unused, WebSessions
<1>2. \E m \in Unused : \A k \in Unused : m <= k
  BY <1>1, WebLeast
<1>3. Fresh \in Unused
  BY <1>2 DEF Fresh
<1>. QED BY <1>3 DEF Unused

LEMMA RefreshIs ==
    ASSUME NEW r \in Refreshes
    PROVE  /\ r.st \in {"none", "sent", "granted", "refused"}
           /\ r.st = "none" <=> r = NoRefresh
           /\ r.st = "sent" => r.with \in 0 .. MaxWebSessions /\ r = Sent(r.with)
           /\ r.st = "granted" => /\ r.for \in WebSessions /\ r.cookie \in BOOLEAN
                                  /\ r = Granted(r.for, r.cookie)
           /\ r.st = "refused" => r.clear \in BOOLEAN /\ r = Refused(r.clear)
<1>1. CASE r = NoRefresh
  BY <1>1 DEF NoRefresh
<1>2. ASSUME NEW s \in 0 .. MaxWebSessions, r = Sent(s) PROVE r.st = "sent" /\ r.with = s
  BY <1>2 DEF Sent
<1>3. ASSUME NEW s \in WebSessions, NEW b \in BOOLEAN, r = Granted(s, b)
      PROVE  r.st = "granted" /\ r.for = s /\ r.cookie = b
  BY <1>3 DEF Granted
<1>4. ASSUME NEW b \in BOOLEAN, r = Refused(b) PROVE r.st = "refused" /\ r.clear = b
  BY <1>4 DEF Refused
<1>5. \/ r = NoRefresh
      \/ \E s \in 0 .. MaxWebSessions : r = Sent(s)
      \/ \E s \in WebSessions, b \in BOOLEAN : r = Granted(s, b)
      \/ \E b \in BOOLEAN : r = Refused(b)
  BY DEF Refreshes
<1>6. NoRefresh.st = "none"
  BY DEF NoRefresh
<1>. QED BY <1>2, <1>3, <1>4, <1>5, <1>6

\* The states of a request and of a socket.
LEMMA FetchIs ==
    ASSUME NEW f \in Fetches \cup Links
    PROVE  /\ f.st \in {"idle", "off", "up", "waiting", "first", "second"}
           /\ f.st = "waiting" <=> f = Hanging
           /\ f.st = "idle" <=> f = Resting
           /\ f.st = "off" <=> f = Off
           /\ f.st = "up" <=> f = Up
           /\ f.st = "first" => f.with \in Tokens /\ f = First(f.with)
           /\ f.st = "second" => f.with \in Tokens /\ f = Second(f.with)
<1>1. \/ f \in {Resting, Hanging, Off, Up}
      \/ \E t \in Tokens : f = First(t)
      \/ \E t \in Tokens : f = Second(t)
  BY DEF Fetches, Links
<1>2. ASSUME NEW t \in Tokens, f = First(t) PROVE f.st = "first" /\ f.with = t
  BY <1>2 DEF First
<1>3. ASSUME NEW t \in Tokens, f = Second(t) PROVE f.st = "second" /\ f.with = t
  BY <1>3 DEF Second
<1>4. /\ Resting.st = "idle" /\ Hanging.st = "waiting" /\ Off.st = "off" /\ Up.st = "up"
  BY DEF Resting, Hanging, Off, Up
<1>. QED BY <1>1, <1>2, <1>3, <1>4

\* Growing older changes what a request carries, never where it stands.
LEMMA AgedIs ==
    ASSUME NEW f \in Fetches \cup Links
    PROVE  /\ f \in Fetches => Aged(f) \in Fetches
           /\ f \in Links => Aged(f) \in Links
           /\ Aged(f).st = f.st
           /\ f # Second("good") => (f.st = "second" => Aged(f).with = f.with)
<1>1. First("stale") \in Fetches \cap Links /\ Second("stale") \in Fetches \cap Links
  BY DEF Fetches, Links, Tokens
<1>2. /\ First("good").st = "first" /\ First("stale").st = "first"
      /\ Second("good").st = "second" /\ Second("stale").st = "second"
  BY DEF First, Second
<1>. QED BY <1>1, <1>2 DEF Aged

\* What the steps of a page are made of.
LEMMA ToLoginIs ==
    ASSUME WebTypeOK, LoginRests, NEW p \in Pages, ToLogin(p)
    PROVE  /\ at' \in [Pages -> Places] /\ token' \in [Pages -> Tokens]
           /\ call' \in [Pages -> [Calls -> Fetches]] /\ socket' \in [Pages -> Links]
           /\ burned' \in [Pages -> Nat]
           /\ LoginRests'
           /\ ~ Awaiting(p)'
           /\ \A q \in Pages : q # p => (Awaiting(q)' <=> Awaiting(q))
<1>1. Resting \in Fetches /\ Off \in Links /\ Resting # Hanging /\ Off # Hanging
  BY DEF Fetches, Links, Resting, Off, Hanging
<1>2. /\ at' \in [Pages -> Places] /\ token' \in [Pages -> Tokens]
      /\ call' \in [Pages -> [Calls -> Fetches]] /\ socket' \in [Pages -> Links]
      /\ burned' \in [Pages -> Nat]
  BY <1>1 DEF WebTypeOK, ToLogin, Places, Tokens
<1>3. /\ at'[p] = "login" /\ socket'[p] = Off /\ \A c \in Calls : call'[p][c] = Resting
      /\ call'[p] = [c \in Calls |-> Resting]
  BY DEF WebTypeOK, ToLogin
<1>4. \A q \in Pages : q # p =>
        at'[q] = at[q] /\ socket'[q] = socket[q] /\ call'[q] = call[q]
  BY DEF WebTypeOK, ToLogin
<1>5. LoginRests'
  BY <1>3, <1>4 DEF LoginRests
<1>6. ~ Awaiting(p)'
  BY <1>1, <1>3 DEF Awaiting
<1>7. \A q \in Pages : q # p => (Awaiting(q)' <=> Awaiting(q))
  BY <1>4 DEF Awaiting
<1>. QED BY <1>2, <1>5, <1>6, <1>7

LEMMA AskRefreshIs ==
    ASSUME WebTypeOK, NEW p \in Pages, AskRefresh(p)
    PROVE  /\ refresh' \in [Pages -> Refreshes] /\ odds' \in SUBSET Odds
           /\ refresh'[p] # NoRefresh
           /\ \A q \in Pages : refresh[q] # NoRefresh => refresh'[q] # NoRefresh
<1>1. Sent(jar) \in Refreshes /\ Sent(jar) # NoRefresh
  BY DEF WebTypeOK, Refreshes, Sent, NoRefresh
<1>. QED BY <1>1 DEF WebTypeOK, AskRefresh, Odds

\* Whoever waits for the refresh is on the page.
LEMMA AwaitedIs ==
    ASSUME NEW p \in Pages
    PROVE  Awaited(p) <=> Awaiting(p)
BY DEF Awaited, Awaiting

\* A step that leaves the state of every page as it is.
LEMMA PagesRest ==
    ASSUME LoginRests, WebTypeOK, UNCHANGED page,
           refresh' \in [Pages -> Refreshes],
           \A p \in Pages : Awaiting(p) => refresh'[p] # NoRefresh
    PROVE  /\ LoginRests'
           /\ at' \in [Pages -> Places] /\ token' \in [Pages -> Tokens]
           /\ call' \in [Pages -> [Calls -> Fetches]] /\ socket' \in [Pages -> Links]
           /\ burned' \in [Pages -> Nat]
           /\ \A p \in Pages : Awaiting(p)' => refresh'[p] # NoRefresh
BY DEF LoginRests, WebTypeOK, page, Awaiting

\* The server keeps its rows in shape.
LEMMA ServeIs ==
    ASSUME WebTypeOK, NEW s \in 0 .. MaxWebSessions, NEW answer \in Refreshes,
           Serve(s, answer)
    PROVE  /\ status' \in [WebSessions -> Statuses]
           /\ succ' \in [WebSessions -> 0 .. MaxWebSessions]
           /\ family' \in [WebSessions -> WebSessions]
           /\ answer.st \in {"granted", "refused"}
<1>1. CASE s = 0 /\ answer = Refused(FALSE) /\ UNCHANGED server
  BY <1>1 DEF WebTypeOK, server, Refused
<1>2. CASE s # 0 /\ Rotation(s, answer)
  <2>1. Fresh \in WebSessions /\ s \in WebSessions
    BY <1>2, FreshIs, WebBounds DEF Rotation, WebSessions
  <2>2. Fresh \in 0 .. MaxWebSessions
    BY <2>1, WebBounds DEF WebSessions
  <2>3. answer.st = "granted"
    BY <1>2 DEF Rotation, Granted
  <2>. HIDE DEF WebSessions
  <2>. QED BY <1>2, <2>1, <2>2, <2>3 DEF WebTypeOK, Rotation, Statuses
<1>3. CASE s # 0 /\ GraceAnswer(s, answer)
  BY <1>3 DEF WebTypeOK, GraceAnswer, server, Granted
<1>4. CASE s # 0 /\ Reuse(s, answer)
  <2>1. answer.st = "refused"
    BY <1>4 DEF Reuse, Refused
  <2>2. \A t \in WebSessions :
          (IF status[t] = "live" /\ family[t] = family[s] THEN "revoked" ELSE status[t]) \in Statuses
    BY DEF WebTypeOK, Statuses
  <2>. QED BY <1>4, <2>1, <2>2 DEF WebTypeOK, Reuse, RevokeFamily
<1>. QED BY <1>1, <1>2, <1>3, <1>4 DEF Serve

LEMMA WebTypeInit == WebInit => WebTypeOK /\ LoginRests
<1>. SUFFICES ASSUME WebInit PROVE WebTypeOK /\ LoginRests
  OBVIOUS
<1>1. 1 \in WebSessions /\ 1 \in 0 .. MaxWebSessions /\ 0 \in 0 .. MaxEvents
      /\ 0 \in 0 .. MaxWebSessions
  BY WebBounds DEF WebSessions
<1>2. NoRefresh \in Refreshes /\ Resting \in Fetches /\ Off \in Links
      /\ Resting # Hanging /\ Off # Hanging
  BY DEF Refreshes, Fetches, Links, Resting, Off, Hanging
<1>3. \A p \in Pages : ~ Awaiting(p)
  BY <1>2 DEF WebInit, Awaiting
<1>. HIDE DEF WebSessions
<1>4. WebTypeOK
  BY <1>1, <1>2, <1>3 DEF WebInit, WebTypeOK, Statuses, Places, Tokens
<1>5. LoginRests
  BY DEF WebInit, LoginRests
<1>. QED BY <1>4, <1>5

LEMMA WebTypeStep ==
    ASSUME WebTypeOK, LoginRests, [WebNext]_webVars
    PROVE  WebTypeOK' /\ LoginRests'
<1>0. CASE UNCHANGED webVars
  BY <1>0 DEF webVars, server, page, WebTypeOK, LoginRests, Awaiting
<1>1. ASSUME NEW p \in Pages, ServeRefresh(p) PROVE WebTypeOK' /\ LoginRests'
  <2>1. PICK answer \in Refreshes : /\ Serve(refresh[p].with, answer)
                                    /\ refresh' = [refresh EXCEPT ![p] = answer]
    BY <1>1 DEF ServeRefresh
  <2>2. refresh[p].with \in 0 .. MaxWebSessions
    BY <1>1, RefreshIs DEF ServeRefresh, WebTypeOK
  <2>3. /\ status' \in [WebSessions -> Statuses] /\ succ' \in [WebSessions -> 0 .. MaxWebSessions]
        /\ family' \in [WebSessions -> WebSessions] /\ answer.st \in {"granted", "refused"}
    BY <2>1, <2>2, ServeIs
  <2>4. answer # NoRefresh
    BY <2>3 DEF NoRefresh
  <2>5. refresh' \in [Pages -> Refreshes] /\ \A q \in Pages : Awaiting(q) => refresh'[q] # NoRefresh
    BY <2>1, <2>4 DEF WebTypeOK
  <2>6. UNCHANGED page
    BY <1>1 DEF ServeRefresh
  <2>7. UNCHANGED <<jar, orphans, odds, events>>
    BY <1>1 DEF ServeRefresh
  <2>. QED BY <2>3, <2>5, <2>6, <2>7, PagesRest DEF WebTypeOK
<1>2. ASSUME NEW p \in Pages, RefreshGranted(p) PROVE WebTypeOK' /\ LoginRests'
  <2>1. jar' \in 0 .. MaxWebSessions
    BY <1>2, RefreshIs DEF RefreshGranted, WebTypeOK, WebSessions
  <2>2. refresh' \in [Pages -> Refreshes] /\ refresh' = [refresh EXCEPT ![p] = NoRefresh]
    BY <1>2 DEF RefreshGranted, WebTypeOK, Refreshes
  <2>3. UNCHANGED <<status, succ, family, orphans, odds, events>>
    BY <1>2 DEF RefreshGranted, server
  <2>4. CASE at[p] = "login"
    <3>1. UNCHANGED page
      BY <1>2, <2>4 DEF RefreshGranted
    <3>2. Resting # Hanging /\ Off # Hanging
      BY DEF Resting, Off, Hanging
    <3>3. ~ Awaiting(p)
      BY <2>4, <3>2 DEF LoginRests, Awaiting
    <3>4. \A q \in Pages : Awaiting(q) => refresh'[q] # NoRefresh
      BY <2>2, <3>3 DEF WebTypeOK
    <3>. QED BY <2>1, <2>2, <2>3, <3>1, <3>4, PagesRest DEF WebTypeOK
  <2>5. CASE at[p] # "login"
    <3>1. /\ token' = [token EXCEPT ![p] = "good"]
          /\ call' = [call EXCEPT ![p] = [c \in Calls |->
                        IF call[p][c] = Hanging THEN Second("good") ELSE call[p][c]]]
          /\ socket' = [socket EXCEPT ![p] = IF @ = Hanging THEN Second("good") ELSE @]
          /\ at' = [at EXCEPT ![p] = IF @ = "booting" THEN "working" ELSE @]
          /\ UNCHANGED burned
      BY <1>2, <2>5 DEF RefreshGranted, RetryToken, DialAgain
    <3>2. Second("good") \in Fetches \cap Links /\ Second("good") # Hanging
      BY DEF Fetches, Links, Tokens, Second, Hanging
    <3>3. /\ at' \in [Pages -> Places] /\ token' \in [Pages -> Tokens]
          /\ call' \in [Pages -> [Calls -> Fetches]] /\ socket' \in [Pages -> Links]
          /\ burned' \in [Pages -> Nat]
      BY <3>1, <3>2 DEF WebTypeOK, Places, Tokens
    <3>4. ~ Awaiting(p)'
      BY <3>1, <3>2 DEF WebTypeOK, Awaiting, Places
    <3>5. \A q \in Pages : q # p =>
            at'[q] = at[q] /\ socket'[q] = socket[q] /\ call'[q] = call[q]
      BY <3>1 DEF WebTypeOK
    <3>6. \A q \in Pages : Awaiting(q)' => refresh'[q] # NoRefresh
      BY <2>2, <3>4, <3>5 DEF WebTypeOK, Awaiting
    <3>7. LoginRests'
      BY <2>5, <3>1, <3>5 DEF LoginRests, WebTypeOK, Places
    <3>. QED BY <2>1, <2>2, <2>3, <3>3, <3>6, <3>7 DEF WebTypeOK
  <2>. QED BY <2>4, <2>5
<1>3. ASSUME NEW p \in Pages, RefreshRefused(p) \/ RefreshLost(p) PROVE WebTypeOK' /\ LoginRests'
  <2>1. jar' \in 0 .. MaxWebSessions
    BY <1>3, WebBounds DEF RefreshRefused, RefreshLost, WebTypeOK
  <2>2. refresh' \in [Pages -> Refreshes] /\ refresh' = [refresh EXCEPT ![p] = NoRefresh]
    BY <1>3 DEF RefreshRefused, RefreshLost, WebTypeOK, Refreshes
  <2>3. refresh[p].st = "sent" => {refresh[p].with} \ {0} \subseteq WebSessions
    BY RefreshIs DEF WebTypeOK, WebSessions
  <2>4. orphans' \in SUBSET WebSessions
    <3>1. CASE RefreshRefused(p)
      BY <3>1 DEF RefreshRefused, WebTypeOK
    <3>2. CASE RefreshLost(p) /\ refresh[p].st = "sent"
      BY <2>3, <3>2 DEF RefreshLost, WebTypeOK
    <3>3. CASE RefreshLost(p) /\ refresh[p].st # "sent"
      BY <3>3 DEF RefreshLost, WebTypeOK
    <3>. QED BY <1>3, <3>1, <3>2, <3>3
  <2>5. odds' \in SUBSET Odds /\ events' \in 0 .. MaxEvents
    <3>1. UNCHANGED <<odds, events>> \/ (odds' = odds \cup {"lost"} /\ Event)
      BY <1>3 DEF RefreshRefused, RefreshLost
    <3>2. odds' \in SUBSET Odds
      BY <3>1 DEF WebTypeOK, Odds
    <3>3. events' \in 0 .. MaxEvents
      BY <3>1, WebBounds DEF WebTypeOK, Event
    <3>. QED BY <3>2, <3>3
  <2>6. UNCHANGED <<status, succ, family>>
    BY <1>3 DEF RefreshRefused, RefreshLost, server
  <2>7. CASE Awaited(p)
    <3>1. ToLogin(p)
      BY <1>3, <2>7 DEF RefreshRefused, RefreshLost
    <3>2. \A q \in Pages : Awaiting(q)' => refresh'[q] # NoRefresh
      BY <2>2, <3>1, ToLoginIs DEF WebTypeOK
    <3>. QED BY <2>1, <2>2, <2>4, <2>5, <2>6, <3>1, <3>2, ToLoginIs DEF WebTypeOK
  <2>8. CASE ~ Awaited(p)
    <3>1. UNCHANGED page
      BY <1>3, <2>8 DEF RefreshRefused, RefreshLost
    <3>2. \A q \in Pages : Awaiting(q) => refresh'[q] # NoRefresh
      BY <2>2, <2>8, AwaitedIs DEF WebTypeOK
    <3>. QED BY <2>1, <2>2, <2>4, <2>5, <2>6, <3>1, <3>2, PagesRest DEF WebTypeOK
  <2>. QED BY <2>7, <2>8
<1>4. ASSUME NEW p \in Pages, AnswerLogout(p) \/ LogoutFails(p) PROVE WebTypeOK' /\ LoginRests'
  <2>1. ToLogin(p) /\ UNCHANGED <<succ, family, refresh, orphans, odds>>
    BY <1>4 DEF AnswerLogout, LogoutFails, server
  <2>2. status' \in [WebSessions -> Statuses]
    BY <1>4 DEF AnswerLogout, LogoutFails, server, WebTypeOK, Statuses
  <2>3. jar' \in 0 .. MaxWebSessions /\ events' \in 0 .. MaxEvents
    BY <1>4, WebBounds DEF AnswerLogout, LogoutFails, Event, WebTypeOK
  <2>4. \A q \in Pages : Awaiting(q)' => refresh'[q] # NoRefresh
    BY <2>1, ToLoginIs DEF WebTypeOK
  <2>. QED BY <2>1, <2>2, <2>3, <2>4, ToLoginIs DEF WebTypeOK
<1>5. ASSUME NEW p \in Pages, NEW c \in Calls, SecondRefused(p, c)
      PROVE WebTypeOK' /\ LoginRests'
  <2>1. ToLogin(p) /\ UNCHANGED <<status, succ, family, jar, refresh, orphans, odds, events>>
    BY <1>5 DEF SecondRefused, server
  <2>2. \A q \in Pages : Awaiting(q)' => refresh'[q] # NoRefresh
    BY <2>1, ToLoginIs DEF WebTypeOK
  <2>. QED BY <2>1, <2>2, ToLoginIs DEF WebTypeOK
<1>6. ASSUME NEW p \in Pages, SecondHandshakeRefused(p) PROVE WebTypeOK' /\ LoginRests'
  <2>1. ToLogin(p) /\ UNCHANGED <<status, succ, family, jar, refresh, orphans, odds, events>>
    BY <1>6 DEF SecondHandshakeRefused, server
  <2>2. \A q \in Pages : Awaiting(q)' => refresh'[q] # NoRefresh
    BY <2>1, ToLoginIs DEF WebTypeOK
  <2>. QED BY <2>1, <2>2, ToLoginIs DEF WebTypeOK
<1>7. ASSUME NEW p \in Pages, NEW c \in Calls,
             CallEnds(p, c) \/ StartCall(p, c) \/ CallRefused(p, c)
      PROVE  WebTypeOK' /\ LoginRests'
  <2>1. PICK f \in Fetches : call' = [call EXCEPT ![p][c] = f] /\ (f = Hanging => AskRefresh(p))
    <3>1. Resting \in Fetches /\ First(token[p]) \in Fetches /\ Hanging \in Fetches
          /\ Resting # Hanging /\ First(token[p]) # Hanging
      BY DEF WebTypeOK, Fetches, Resting, Hanging, First
    <3>. QED BY <1>7, <3>1 DEF CallEnds, StartCall, CallRefused
  <2>2. /\ UNCHANGED <<status, succ, family, jar, at, token, socket, burned, orphans, events>>
        /\ at[p] \in {"working", "leaving"}
    BY <1>7 DEF CallEnds, StartCall, CallRefused, server, Running, Working
  <2>3. (UNCHANGED <<refresh, odds>> /\ f # Hanging) \/ AskRefresh(p)
    BY <1>7, <2>1 DEF CallEnds, StartCall, CallRefused
  <2>4. refresh' \in [Pages -> Refreshes] /\ odds' \in SUBSET Odds
        /\ \A q \in Pages : refresh[q] # NoRefresh => refresh'[q] # NoRefresh
    BY <2>3, AskRefreshIs DEF WebTypeOK
  <2>5. call' \in [Pages -> [Calls -> Fetches]]
    BY <2>1 DEF WebTypeOK
  <2>6. \A q \in Pages, d \in Calls : call'[q][d] = IF q = p /\ d = c THEN f ELSE call[q][d]
    BY <2>1 DEF WebTypeOK
  <2>7. f = Hanging => refresh'[p] # NoRefresh
    BY <2>1, AskRefreshIs
  <2>8. \A q \in Pages : Awaiting(q)' => refresh'[q] # NoRefresh
    BY <2>2, <2>4, <2>6, <2>7 DEF WebTypeOK, Awaiting
  <2>9. LoginRests'
    BY <2>2, <2>6 DEF LoginRests
  <2>. QED BY <2>2, <2>4, <2>5, <2>8, <2>9 DEF WebTypeOK
<1>8. ASSUME NEW p \in Pages, Connected(p) \/ Dial(p) \/ HandshakeRefused(p)
      PROVE  WebTypeOK' /\ LoginRests'
  <2>1. PICK f \in Links : socket' = [socket EXCEPT ![p] = f] /\ (f = Hanging => AskRefresh(p))
    <3>1. Up \in Links /\ First(token[p]) \in Links /\ Hanging \in Links
          /\ Up # Hanging /\ First(token[p]) # Hanging
      BY DEF WebTypeOK, Links, Up, Hanging, First
    <3>. QED BY <1>8, <3>1 DEF Connected, Dial, HandshakeRefused
  <2>2. /\ UNCHANGED <<status, succ, family, jar, at, token, call, orphans, events>>
        /\ at[p] \in {"working", "leaving"}
    BY <1>8 DEF Connected, Dial, HandshakeRefused, server, Running, Working
  <2>3. (UNCHANGED <<refresh, odds>> /\ f # Hanging) \/ AskRefresh(p)
    BY <1>8, <2>1 DEF Connected, Dial, HandshakeRefused
  <2>4. refresh' \in [Pages -> Refreshes] /\ odds' \in SUBSET Odds
        /\ \A q \in Pages : refresh[q] # NoRefresh => refresh'[q] # NoRefresh
    BY <2>3, AskRefreshIs DEF WebTypeOK
  <2>5. socket' \in [Pages -> Links]
    BY <2>1 DEF WebTypeOK
  <2>6. \A q \in Pages : socket'[q] = IF q = p THEN f ELSE socket[q]
    BY <2>1 DEF WebTypeOK
  <2>7. f = Hanging => refresh'[p] # NoRefresh
    BY <2>1, AskRefreshIs
  <2>8. \A q \in Pages : Awaiting(q)' => refresh'[q] # NoRefresh
    BY <2>2, <2>4, <2>6, <2>7 DEF WebTypeOK, Awaiting
  <2>9. LoginRests'
    BY <2>2, <2>6 DEF LoginRests
  <2>10. burned' \in [Pages -> Nat]
    BY <1>8 DEF Connected, Dial, HandshakeRefused, WebTypeOK
  <2>. QED BY <2>2, <2>4, <2>5, <2>8, <2>9, <2>10 DEF WebTypeOK
<1>9. ASSUME NEW p \in Pages, Expire(p) PROVE WebTypeOK' /\ LoginRests'
  <2>1. /\ token' = [token EXCEPT ![p] = "stale"]
        /\ call' = [call EXCEPT ![p] = [c \in Calls |-> Aged(call[p][c])]]
        /\ socket' = [socket EXCEPT ![p] = Aged(@)]
        /\ UNCHANGED <<status, succ, family, jar, at, burned, refresh, orphans>>
    BY <1>9 DEF Expire, server
  <2>2. odds' \in SUBSET Odds /\ events' \in 0 .. MaxEvents
    BY <1>9, WebBounds DEF Expire, Event, WebTypeOK, Odds
  <2>3. \A c \in Calls : /\ Aged(call[p][c]) \in Fetches
                         /\ Aged(call[p][c]) = Hanging <=> call[p][c] = Hanging
                         /\ Aged(call[p][c]) = Resting <=> call[p][c] = Resting
    <3>1. \A c \in Calls : /\ call[p][c] \in Fetches /\ Aged(call[p][c]) \in Fetches
                           /\ Aged(call[p][c]).st = call[p][c].st
      BY AgedIs DEF WebTypeOK
    <3>. QED BY <3>1, FetchIs
  <2>4. /\ Aged(socket[p]) \in Links
        /\ Aged(socket[p]) = Hanging <=> socket[p] = Hanging
        /\ Aged(socket[p]) = Off <=> socket[p] = Off
    <3>1. /\ socket[p] \in Links /\ Aged(socket[p]) \in Links
          /\ Aged(socket[p]).st = socket[p].st
      BY AgedIs DEF WebTypeOK
    <3>. QED BY <3>1, FetchIs
  <2>5. /\ token' \in [Pages -> Tokens] /\ call' \in [Pages -> [Calls -> Fetches]]
        /\ socket' \in [Pages -> Links]
    BY <2>1, <2>3, <2>4 DEF WebTypeOK, Tokens
  <2>6. \A q \in Pages : /\ socket'[q] = Hanging <=> socket[q] = Hanging
                         /\ socket'[q] = Off <=> socket[q] = Off
    BY <2>1, <2>4 DEF WebTypeOK
  <2>7. \A q \in Pages, c \in Calls : /\ call'[q][c] = Hanging <=> call[q][c] = Hanging
                                      /\ call'[q][c] = Resting <=> call[q][c] = Resting
    BY <2>1, <2>3 DEF WebTypeOK
  <2>8. \A q \in Pages : Awaiting(q)' <=> Awaiting(q)
    BY <2>1, <2>6, <2>7 DEF Awaiting
  <2>9. LoginRests'
    BY <2>1, <2>6, <2>7 DEF LoginRests
  <2>. QED BY <2>1, <2>2, <2>5, <2>8, <2>9 DEF WebTypeOK
<1>10. ASSUME NEW p \in Pages, OpenPage(p) PROVE WebTypeOK' /\ LoginRests'
  <2>1. PICK kept \in {jar} \cup (IF refresh[p].st = "granted" /\ refresh[p].cookie
                                  THEN {refresh[p].for} ELSE {}) :
          /\ jar' = kept
          /\ refresh' = [refresh EXCEPT ![p] = Sent(kept)]
          /\ odds' = odds
                \cup (IF refresh[p] # NoRefresh /\ kept = jar THEN {"lost"} ELSE {})
                \cup (IF Overlapping(p) THEN {"overlap"} ELSE {})
    BY <1>10 DEF OpenPage
  <2>2. kept \in 0 .. MaxWebSessions
    BY RefreshIs DEF WebTypeOK, WebSessions
  <2>3. Sent(kept) \in Refreshes /\ Sent(kept) # NoRefresh
    BY <2>2 DEF Refreshes, Sent, NoRefresh
  <2>4. refresh' \in [Pages -> Refreshes] /\ refresh'[p] # NoRefresh
        /\ \A q \in Pages : q # p => refresh'[q] = refresh[q]
    BY <2>1, <2>3 DEF WebTypeOK
  <2>5. refresh[p].st = "sent" => {refresh[p].with} \ {0} \subseteq WebSessions
    BY RefreshIs DEF WebTypeOK, WebSessions
  <2>6. orphans' \in SUBSET WebSessions
    <3>1. CASE refresh[p].st = "sent"
      BY <1>10, <2>5, <3>1 DEF OpenPage, WebTypeOK
    <3>2. CASE refresh[p].st # "sent"
      BY <1>10, <3>2 DEF OpenPage, WebTypeOK
    <3>. QED BY <3>1, <3>2
  <2>7. odds' \in SUBSET Odds /\ events' \in 0 .. MaxEvents
    BY <1>10, <2>1, WebBounds DEF OpenPage, WebTypeOK, Odds, Event
  <2>8. /\ UNCHANGED <<status, succ, family>>
        /\ at' = [at EXCEPT ![p] = "booting"] /\ token' = [token EXCEPT ![p] = "none"]
        /\ call' = [call EXCEPT ![p] = [c \in Calls |-> Resting]]
        /\ socket' = [socket EXCEPT ![p] = Off] /\ burned' = [burned EXCEPT ![p] = 0]
    BY <1>10 DEF OpenPage, server
  <2>9. Resting \in Fetches /\ Off \in Links
    BY DEF Fetches, Links
  <2>10. /\ at' \in [Pages -> Places] /\ token' \in [Pages -> Tokens]
         /\ call' \in [Pages -> [Calls -> Fetches]] /\ socket' \in [Pages -> Links]
         /\ burned' \in [Pages -> Nat]
    BY <2>8, <2>9 DEF WebTypeOK, Places, Tokens
  <2>11. \A q \in Pages : q # p =>
           at'[q] = at[q] /\ socket'[q] = socket[q] /\ call'[q] = call[q]
    BY <2>8 DEF WebTypeOK
  <2>12. \A q \in Pages : Awaiting(q)' => refresh'[q] # NoRefresh
    BY <2>4, <2>11 DEF WebTypeOK, Awaiting
  <2>13. at'[p] = "booting"
    BY <2>8 DEF WebTypeOK
  <2>14. LoginRests'
    BY <2>11, <2>13 DEF LoginRests
  <2>. QED BY <2>1, <2>2, <2>4, <2>6, <2>7, <2>8, <2>10, <2>12, <2>14 DEF WebTypeOK
<1>11. ASSUME NEW p \in Pages, Login(p) PROVE WebTypeOK' /\ LoginRests'
  <2>1. Fresh \in WebSessions /\ Fresh \in 0 .. MaxWebSessions
    BY <1>11, FreshIs, WebBounds DEF Login, WebSessions
  <2>2. /\ at[p] = "login"
        /\ at' = [at EXCEPT ![p] = "working"] /\ token' = [token EXCEPT ![p] = "good"]
        /\ UNCHANGED <<succ, call, socket, burned, refresh, orphans>>
    BY <1>11 DEF Login
  <2>3. /\ status' \in [WebSessions -> Statuses] /\ family' \in [WebSessions -> WebSessions]
        /\ jar' \in 0 .. MaxWebSessions /\ odds' \in SUBSET Odds /\ events' \in 0 .. MaxEvents
    <3>. HIDE DEF WebSessions
    <3>. QED BY <1>11, <2>1, WebBounds DEF Login, WebTypeOK, Statuses, Odds, Event
  <2>4. at' \in [Pages -> Places] /\ token' \in [Pages -> Tokens]
    BY <2>2 DEF WebTypeOK, Places, Tokens
  <2>5. \A q \in Pages : Awaiting(q)' => Awaiting(q)
    BY <2>2 DEF Awaiting, WebTypeOK
  <2>6. LoginRests'
    BY <2>2 DEF LoginRests, WebTypeOK
  <2>. QED BY <2>2, <2>3, <2>4, <2>5, <2>6 DEF WebTypeOK
<1>12. ASSUME NEW p \in Pages, AskLogout(p) PROVE WebTypeOK' /\ LoginRests'
  <2>1. /\ odds' = odds \cup {"ended"} /\ at' = [at EXCEPT ![p] = "leaving"]
        /\ UNCHANGED <<status, succ, family, jar, token, call, socket, burned, refresh, orphans, events>>
    BY <1>12 DEF AskLogout, server
  <2>2. odds' \in SUBSET Odds /\ at' \in [Pages -> Places]
    BY <2>1 DEF WebTypeOK, Odds, Places
  <2>3. \A q \in Pages : Awaiting(q)' => Awaiting(q)
    BY <2>1 DEF Awaiting, WebTypeOK
  <2>4. LoginRests'
    BY <2>1 DEF LoginRests, WebTypeOK
  <2>. QED BY <2>1, <2>2, <2>3, <2>4 DEF WebTypeOK
<1>13. ASSUME NEW s \in WebSessions, ServeOrphan(s) \/ DropOrphan(s) \/ GracePasses(s) \/ EndSession(s)
       PROVE  WebTypeOK' /\ LoginRests'
  <2>1. UNCHANGED <<jar, refresh, events>> /\ UNCHANGED page
    BY <1>13 DEF ServeOrphan, DropOrphan, GracePasses, EndSession
  <2>2. orphans' \in SUBSET WebSessions /\ odds' \in SUBSET Odds
    BY <1>13 DEF ServeOrphan, DropOrphan, GracePasses, EndSession, WebTypeOK, Odds
  <2>3. /\ status' \in [WebSessions -> Statuses] /\ succ' \in [WebSessions -> 0 .. MaxWebSessions]
        /\ family' \in [WebSessions -> WebSessions]
    <3>1. CASE ServeOrphan(s)
      <4>1. PICK answer \in Refreshes : Serve(s, answer)
        BY <3>1 DEF ServeOrphan
      <4>2. s \in 0 .. MaxWebSessions
        BY DEF WebSessions
      <4>. QED BY <4>1, <4>2, ServeIs
    <3>2. CASE DropOrphan(s)
      BY <3>2 DEF DropOrphan, server, WebTypeOK
    <3>3. CASE GracePasses(s) \/ EndSession(s)
      BY <3>3 DEF GracePasses, EndSession, WebTypeOK, Statuses
    <3>. QED BY <1>13, <3>1, <3>2, <3>3
  <2>. QED BY <2>1, <2>2, <2>3, PagesRest DEF WebTypeOK
<1>. QED
  BY <1>0, <1>1, <1>2, <1>3, <1>4, <1>5, <1>6, <1>7, <1>8, <1>9, <1>10, <1>11, <1>12, <1>13
  DEF WebNext, Answered, User

\* Where a page stands after a step that does not concern its socket.
LEMMA LatchKept ==
    ASSUME WebLatch, \A q \in Pages : burned'[q] = burned[q] /\ socket'[q].st = socket[q].st
    PROVE  WebLatch'
BY DEF WebLatch

LEMMA LatchMoves ==
    ASSUME WebTypeOK, WebLatch, NEW p \in Pages,
           burned' = [burned EXCEPT ![p] = burned'[p]],
           socket' = [socket EXCEPT ![p] = socket'[p]],
           burned'[p] = IF socket'[p].st \in {"waiting", "second"} THEN 1 ELSE 0
    PROVE  WebLatch'
<1>1. \A q \in Pages : q # p => burned'[q] = burned[q] /\ socket'[q] = socket[q]
  BY DEF WebTypeOK
<1>. QED BY <1>1 DEF WebLatch

LEMMA WebLatchStep ==
    ASSUME WebTypeOK, WebLatch, [WebNext]_webVars
    PROVE  WebLatch'
<1>0. CASE UNCHANGED <<burned, socket>>
  BY <1>0, LatchKept
<1>1. \A p \in Pages : ToLogin(p) => WebLatch'
  <2>1. SUFFICES ASSUME NEW p \in Pages, ToLogin(p) PROVE WebLatch'
    OBVIOUS
  <2>2. socket'[p] = Off /\ burned'[p] = 0
    BY <2>1 DEF ToLogin, WebTypeOK
  <2>3. Off.st = "off"
    BY DEF Off
  <2>. QED BY <2>1, <2>2, <2>3, LatchMoves DEF ToLogin
<1>2. ASSUME NEW p \in Pages, RefreshGranted(p) PROVE WebLatch'
  <2>1. CASE at[p] = "login"
    BY <1>0, <1>2, <2>1 DEF RefreshGranted, page
  <2>2. CASE at[p] # "login"
    <3>1. /\ socket' = [socket EXCEPT ![p] = IF @ = Hanging THEN Second("good") ELSE @]
          /\ UNCHANGED burned
      BY <1>2, <2>2 DEF RefreshGranted, DialAgain
    <3>2. Hanging.st = "waiting" /\ Second("good").st = "second"
      BY DEF Hanging, Second
    <3>3. socket'[p] = IF socket[p] = Hanging THEN Second("good") ELSE socket[p]
      BY <3>1 DEF WebTypeOK
    <3>4. burned'[p] = IF socket'[p].st \in {"waiting", "second"} THEN 1 ELSE 0
      BY <3>1, <3>2, <3>3 DEF WebLatch
    <3>5. burned' = [burned EXCEPT ![p] = burned'[p]] /\ socket' = [socket EXCEPT ![p] = socket'[p]]
      BY <3>1, <3>3 DEF WebTypeOK
    <3>. QED BY <3>4, <3>5, LatchMoves
  <2>. QED BY <2>1, <2>2
<1>3. ASSUME NEW p \in Pages, Connected(p) \/ Dial(p) \/ HandshakeRefused(p) PROVE WebLatch'
  <2>1. First(token[p]).st = "first" /\ Up.st = "up" /\ Off.st = "off" /\ Hanging.st = "waiting"
    BY DEF First, Up, Off, Hanging
  <2>2. burned[p] = (IF socket[p].st \in {"waiting", "second"} THEN 1 ELSE 0)
    BY DEF WebLatch
  <2>3. CASE Connected(p)
    <3>1. socket' = [socket EXCEPT ![p] = Up] /\ burned' = [burned EXCEPT ![p] = 0]
      BY <2>3 DEF Connected
    <3>2. socket'[p] = Up /\ burned'[p] = 0
      BY <3>1 DEF WebTypeOK
    <3>. QED BY <2>1, <3>1, <3>2, LatchMoves
  <2>4. CASE Dial(p)
    <3>1. socket' = [socket EXCEPT ![p] = First(token[p])] /\ burned' = burned
          /\ socket[p] \in {Off, Up}
      BY <2>4 DEF Dial
    <3>2. socket'[p] = First(token[p]) /\ burned'[p] = 0
      BY <2>1, <2>2, <3>1 DEF WebTypeOK
    <3>3. burned' = [burned EXCEPT ![p] = burned'[p]]
      BY <3>1 DEF WebTypeOK
    <3>. QED BY <2>1, <3>1, <3>2, <3>3, LatchMoves
  <2>5. CASE HandshakeRefused(p)
    <3>1. socket' = [socket EXCEPT ![p] = Hanging] /\ burned' = [burned EXCEPT ![p] = @ + 1]
          /\ socket[p].st = "first"
      BY <2>5 DEF HandshakeRefused
    <3>2. socket'[p] = Hanging /\ burned'[p] = 1
      BY <2>2, <3>1 DEF WebTypeOK
    <3>. QED BY <2>1, <3>1, <3>2, LatchMoves
  <2>. QED BY <1>3, <2>3, <2>4, <2>5
<1>4. ASSUME NEW p \in Pages, Expire(p) PROVE WebLatch'
  <2>1. socket' = [socket EXCEPT ![p] = Aged(@)] /\ UNCHANGED burned
    BY <1>4 DEF Expire
  <2>2. Aged(socket[p]).st = socket[p].st
    BY AgedIs DEF WebTypeOK
  <2>. QED BY <2>1, <2>2, LatchKept DEF WebTypeOK
<1>5. ASSUME NEW p \in Pages, OpenPage(p) PROVE WebLatch'
  <2>1. socket' = [socket EXCEPT ![p] = Off] /\ burned' = [burned EXCEPT ![p] = 0]
    BY <1>5 DEF OpenPage
  <2>2. socket'[p] = Off /\ burned'[p] = 0 /\ Off.st = "off"
    BY <2>1 DEF WebTypeOK, Off
  <2>. QED BY <2>1, <2>2, LatchMoves
<1>6. ASSUME NEW p \in Pages, RefreshRefused(p) \/ RefreshLost(p) PROVE WebLatch'
  <2>1. ToLogin(p) \/ UNCHANGED page
    BY <1>6 DEF RefreshRefused, RefreshLost
  <2>. QED BY <1>0, <1>1, <2>1 DEF page
<1>7. ASSUME NEW p \in Pages,
             \/ ServeRefresh(p) \/ AnswerLogout(p) \/ LogoutFails(p) \/ SecondHandshakeRefused(p)
             \/ Login(p) \/ AskLogout(p)
             \/ \E c \in Calls : CallEnds(p, c) \/ CallRefused(p, c) \/ SecondRefused(p, c)
                                   \/ StartCall(p, c)
      PROVE  WebLatch'
  <2>1. ToLogin(p) \/ UNCHANGED <<burned, socket>>
    BY <1>7 DEF ServeRefresh, AnswerLogout, LogoutFails, SecondHandshakeRefused, Login, AskLogout,
                CallEnds, CallRefused, SecondRefused, StartCall, page
  <2>. QED BY <1>0, <1>1, <2>1
<1>8. ASSUME NEW s \in WebSessions, ServeOrphan(s) \/ DropOrphan(s) \/ GracePasses(s) \/ EndSession(s)
      PROVE  WebLatch'
  <2>1. UNCHANGED <<burned, socket>>
    BY <1>8 DEF ServeOrphan, DropOrphan, GracePasses, EndSession, page
  <2>. QED BY <1>0, <2>1
<1>9. CASE UNCHANGED webVars
  BY <1>0, <1>9 DEF webVars, page
<1>. QED
  BY <1>2, <1>3, <1>4, <1>5, <1>6, <1>7, <1>8, <1>9 DEF WebNext, Answered, User

LEMMA SteadyKept ==
    ASSUME Steady, UNCHANGED <<call, socket>>, odds \subseteq odds'
    PROVE  Steady'
BY DEF Steady

\* Every step but the growing older of a token: what is sent a second time
\* was there before, or carries the token of the refresh.
LEMMA SteadyMoves ==
    ASSUME WebTypeOK, Steady, NEW p \in Pages, odds \subseteq odds',
           \A q \in Pages : q # p => socket'[q] = socket[q] /\ call'[q] = call[q],
           socket'[p].st = "second" => socket'[p] = socket[p] \/ socket'[p].with = "good",
           \A c \in Calls : call'[p][c].st = "second" =>
             call'[p][c] = call[p][c] \/ call'[p][c].with = "good"
    PROVE  Steady'
<1>1. SUFFICES ASSUME "asleep" \notin odds', NEW q \in Pages
               PROVE  /\ socket'[q].st = "second" => socket'[q].with = "good"
                      /\ \A c \in Calls : call'[q][c].st = "second" => call'[q][c].with = "good"
  BY DEF Steady
<1>2. "asleep" \notin odds
  BY <1>1
<1>3. CASE q = p
  BY <1>2, <1>3 DEF Steady
<1>4. CASE q # p
  BY <1>2, <1>4 DEF Steady
<1>. QED BY <1>3, <1>4

LEMMA OddsGrow ==
    ASSUME [WebNext]_webVars
    PROVE  odds \subseteq odds'
<1>1. \A p \in Pages : AskRefresh(p) => odds \subseteq odds'
  BY DEF AskRefresh
<1>2. ASSUME NEW p \in Pages, Answered(p) PROVE odds \subseteq odds'
  BY <1>1, <1>2 DEF Answered, ServeRefresh, RefreshGranted, RefreshRefused, AnswerLogout,
     CallEnds, CallRefused, SecondRefused, Connected, HandshakeRefused, SecondHandshakeRefused
<1>3. ASSUME NEW p \in Pages, User(p) \/ RefreshLost(p) \/ LogoutFails(p) PROVE odds \subseteq odds'
  <2>1. CASE OpenPage(p)
    BY <2>1 DEF OpenPage
  <2>2. CASE Expire(p)
    BY <2>2 DEF Expire
  <2>3. CASE Login(p) \/ AskLogout(p) \/ RefreshLost(p)
    BY <2>3 DEF Login, AskLogout, RefreshLost
  <2>4. CASE (\E c \in Calls : StartCall(p, c)) \/ Dial(p) \/ LogoutFails(p)
    BY <2>4 DEF StartCall, Dial, LogoutFails
  <2>. QED BY <1>3, <2>1, <2>2, <2>3, <2>4 DEF User
<1>4. ASSUME NEW s \in WebSessions, ServeOrphan(s) \/ DropOrphan(s) \/ GracePasses(s) \/ EndSession(s)
      PROVE  odds \subseteq odds'
  BY <1>4 DEF ServeOrphan, DropOrphan, GracePasses, EndSession
<1>5. CASE UNCHANGED webVars
  BY <1>5 DEF webVars
<1>. QED BY <1>2, <1>3, <1>4, <1>5 DEF WebNext

LEMMA SteadyStep ==
    ASSUME WebTypeOK, Steady, [WebNext]_webVars
    PROVE  Steady'
<1>0. odds \subseteq odds'
  BY OddsGrow
<1>1. CASE UNCHANGED <<call, socket>>
  BY <1>0, <1>1, SteadyKept
<1>2. /\ \A t \in Tokens : First(t).st = "first"
      /\ Second("good").st = "second" /\ Second("good").with = "good"
      /\ Hanging.st = "waiting" /\ Resting.st = "idle" /\ Off.st = "off" /\ Up.st = "up"
  BY DEF First, Second, Hanging, Resting, Off, Up
<1>3. \A p \in Pages : ToLogin(p) => Steady'
  <2>1. SUFFICES ASSUME NEW p \in Pages, ToLogin(p) PROVE Steady'
    OBVIOUS
  <2>2. /\ \A q \in Pages : q # p => socket'[q] = socket[q] /\ call'[q] = call[q]
        /\ socket'[p] = Off /\ \A c \in Calls : call'[p][c] = Resting
    BY <2>1 DEF ToLogin, WebTypeOK
  <2>. QED BY <1>0, <1>2, <2>2, SteadyMoves
<1>4. ASSUME NEW p \in Pages, RefreshGranted(p) PROVE Steady'
  <2>1. CASE at[p] = "login"
    BY <1>1, <1>4, <2>1 DEF RefreshGranted, page
  <2>2. CASE at[p] # "login"
    <3>1. /\ call' = [call EXCEPT ![p] = [c \in Calls |->
                        IF call[p][c] = Hanging THEN Second("good") ELSE call[p][c]]]
          /\ socket' = [socket EXCEPT ![p] = IF @ = Hanging THEN Second("good") ELSE @]
      BY <1>4, <2>2 DEF RefreshGranted, DialAgain, RetryToken
    <3>2. /\ \A q \in Pages : q # p => socket'[q] = socket[q] /\ call'[q] = call[q]
          /\ socket'[p] \in {socket[p], Second("good")}
          /\ \A c \in Calls : call'[p][c] \in {call[p][c], Second("good")}
      BY <3>1 DEF WebTypeOK
    <3>. QED BY <1>0, <1>2, <3>2, SteadyMoves
  <2>. QED BY <2>1, <2>2
<1>5. ASSUME NEW p \in Pages, NEW c \in Calls,
             CallEnds(p, c) \/ StartCall(p, c) \/ CallRefused(p, c)
      PROVE  Steady'
  <2>1. PICK f \in {Resting, Hanging, First(token[p])} : call' = [call EXCEPT ![p][c] = f]
    BY <1>5 DEF CallEnds, StartCall, CallRefused
  <2>2. UNCHANGED socket /\ token[p] \in Tokens
    BY <1>5 DEF CallEnds, StartCall, CallRefused, WebTypeOK
  <2>3. /\ \A q \in Pages : q # p => call'[q] = call[q]
        /\ \A d \in Calls : call'[p][d] \in {call[p][d], f}
    BY <2>1 DEF WebTypeOK
  <2>4. f.st # "second"
    BY <1>2, <2>2
  <2>5. \A d \in Calls : call'[p][d].st = "second" => call'[p][d] = call[p][d]
    BY <2>3, <2>4
  <2>. QED BY <1>0, <2>2, <2>3, <2>5, SteadyMoves
<1>6. ASSUME NEW p \in Pages, Connected(p) \/ Dial(p) \/ HandshakeRefused(p) PROVE Steady'
  <2>1. PICK f \in {Up, Hanging, First(token[p])} : socket' = [socket EXCEPT ![p] = f]
    BY <1>6 DEF Connected, Dial, HandshakeRefused
  <2>2. UNCHANGED call /\ token[p] \in Tokens
    BY <1>6 DEF Connected, Dial, HandshakeRefused, WebTypeOK
  <2>3. (\A q \in Pages : q # p => socket'[q] = socket[q]) /\ socket'[p] = f
    BY <2>1 DEF WebTypeOK
  <2>4. f.st # "second"
    BY <1>2, <2>2
  <2>. QED BY <1>0, <2>2, <2>3, <2>4, SteadyMoves
<1>7. ASSUME NEW p \in Pages, Expire(p) PROVE Steady'
  <2>1. /\ call' = [call EXCEPT ![p] = [c \in Calls |-> Aged(call[p][c])]]
        /\ socket' = [socket EXCEPT ![p] = Aged(@)]
        /\ Second("good") \in {call[p][c] : c \in Calls} \cup {socket[p]} => "asleep" \in odds'
    BY <1>7 DEF Expire
  <2>2. CASE "asleep" \in odds'
    BY <2>2 DEF Steady
  <2>3. CASE "asleep" \notin odds'
    <3>1. "asleep" \notin odds /\ socket[p] # Second("good")
          /\ \A c \in Calls : call[p][c] # Second("good")
      BY <1>0, <2>1, <2>3
    <3>2. socket[p].st # "second" /\ \A c \in Calls : call[p][c].st # "second"
      <4>1. socket[p] \in Links /\ \A c \in Calls : call[p][c] \in Fetches
        BY DEF WebTypeOK
      <4>2. socket[p].st # "second"
        BY <3>1, <4>1, FetchIs DEF Steady
      <4>3. ASSUME NEW c \in Calls PROVE call[p][c].st # "second"
        BY <3>1, <4>1, FetchIs DEF Steady
      <4>. QED BY <4>2, <4>3
    <3>3. /\ socket'[p] = Aged(socket[p]) /\ \A c \in Calls : call'[p][c] = Aged(call[p][c])
          /\ \A q \in Pages : q # p => socket'[q] = socket[q] /\ call'[q] = call[q]
      BY <2>1 DEF WebTypeOK
    <3>4. socket'[p].st # "second" /\ \A c \in Calls : call'[p][c].st # "second"
      <4>1. socket[p] \in Links /\ \A c \in Calls : call[p][c] \in Fetches
        BY DEF WebTypeOK
      <4>. QED BY <3>2, <3>3, <4>1, AgedIs
    <3>. QED BY <1>0, <3>3, <3>4, SteadyMoves
  <2>. QED BY <2>2, <2>3
<1>8. ASSUME NEW p \in Pages, OpenPage(p) PROVE Steady'
  <2>1. /\ call' = [call EXCEPT ![p] = [c \in Calls |-> Resting]]
        /\ socket' = [socket EXCEPT ![p] = Off]
    BY <1>8 DEF OpenPage
  <2>2. /\ \A q \in Pages : q # p => socket'[q] = socket[q] /\ call'[q] = call[q]
        /\ socket'[p] = Off /\ \A c \in Calls : call'[p][c] = Resting
    BY <2>1 DEF WebTypeOK
  <2>. QED BY <1>0, <1>2, <2>2, SteadyMoves
<1>9. ASSUME NEW p \in Pages,
             \/ ServeRefresh(p) \/ AnswerLogout(p) \/ LogoutFails(p) \/ SecondHandshakeRefused(p)
             \/ Login(p) \/ AskLogout(p) \/ RefreshRefused(p) \/ RefreshLost(p)
             \/ \E c \in Calls : SecondRefused(p, c)
      PROVE  Steady'
  <2>1. ToLogin(p) \/ UNCHANGED <<call, socket>>
    BY <1>9 DEF ServeRefresh, AnswerLogout, LogoutFails, SecondHandshakeRefused, Login, AskLogout,
                SecondRefused, RefreshRefused, RefreshLost, page
  <2>. QED BY <1>1, <1>3, <2>1
<1>10. ASSUME NEW s \in WebSessions, ServeOrphan(s) \/ DropOrphan(s) \/ GracePasses(s) \/ EndSession(s)
      PROVE  Steady'
  <2>1. UNCHANGED <<call, socket>>
    BY <1>10 DEF ServeOrphan, DropOrphan, GracePasses, EndSession, page
  <2>. QED BY <1>1, <2>1
<1>11. CASE UNCHANGED webVars
  BY <1>1, <1>11 DEF webVars, page
<1>. QED
  BY <1>4, <1>5, <1>6, <1>7, <1>8, <1>9, <1>10, <1>11 DEF WebNext, Answered, User

\* A step that leaves the sessions, the jar and the refreshes alone.
LEMMA InOrderKept ==
    ASSUME InOrder, odds \subseteq odds', UNCHANGED <<status, family, jar, refresh, orphans>>,
           Orderly' => \A p \in Pages : at'[p] = "leaving" => at[p] = "leaving"
    PROVE  InOrder'
BY DEF InOrder, Orderly, OneFamily, NamesExist, OneHolder, IsLive, Carries, Asks

\* The request leaves with the cookie of the jar.
LEMMA InOrderAsk ==
    ASSUME WebTypeOK, InOrder, odds \subseteq odds', NEW p \in Pages,
           UNCHANGED <<status, family, jar, orphans>>,
           refresh[p] = NoRefresh, refresh' = [refresh EXCEPT ![p] = Sent(jar)],
           \A q \in Pages : at'[q] = "leaving" => at[q] = "leaving"
    PROVE  InOrder'
<1>1. SUFFICES ASSUME Orderly' PROVE InOrder'
  BY DEF InOrder
<1>2. Orderly
  BY <1>1 DEF Orderly
<1>3. /\ refresh[p].st = "none"
      /\ refresh'[p].st = "sent" /\ refresh'[p].with = jar
      /\ \A q \in Pages : q # p => refresh'[q] = refresh[q]
  BY DEF NoRefresh, Sent, WebTypeOK
<1>4. NamesExist'
  BY <1>2, <1>3 DEF InOrder, NamesExist
<1>5. /\ \A q \in Pages : Carries(q)' <=> Carries(q)
      /\ \A q \in Pages : Carries(q) => refresh'[q] = refresh[q]
      /\ \A q \in Pages, s \in WebSessions : Asks(q, s)' => Asks(q, s) \/ s = jar
      /\ \A q \in Pages : refresh'[q].st = "refused" => refresh'[q] = refresh[q]
  BY <1>3 DEF Carries, Asks
<1>6. OneHolder'
  <2>1. SUFFICES ASSUME NEW s \in WebSessions, IsLive(s)
                 PROVE /\ jar = s \/ \E q \in Pages : Carries(q)' /\ refresh'[q].for = s
                       /\ \A q \in Pages : Carries(q)' => refresh'[q].for = s /\ jar # s
                       /\ \A q, r \in Pages : Carries(q)' => ~ Asks(r, s)'
                       /\ \A q, r \in Pages : Carries(q)' /\ Carries(r)' => q = r
                       /\ \A q \in Pages : ~ (refresh'[q].st = "refused" /\ refresh'[q].clear)
    BY DEF OneHolder, IsLive
  <2>2. /\ jar = s \/ \E q \in Pages : Carries(q) /\ refresh[q].for = s
        /\ \A q \in Pages : Carries(q) => refresh[q].for = s /\ jar # s
        /\ \A q, r \in Pages : Carries(q) => ~ Asks(r, s)
        /\ \A q, r \in Pages : Carries(q) /\ Carries(r) => q = r
        /\ \A q \in Pages : ~ (refresh[q].st = "refused" /\ refresh[q].clear)
    BY <1>2, <2>1 DEF InOrder, OneHolder
  <2>. QED BY <1>5, <2>2
<1>. QED BY <1>2, <1>4, <1>6 DEF InOrder, OneFamily, IsLive

LEMMA InOrderAskRefresh ==
    ASSUME WebTypeOK, InOrder, odds \subseteq odds', NEW p \in Pages, AskRefresh(p),
           UNCHANGED <<status, family, jar, orphans, at>>
    PROVE  InOrder'
<1>1. CASE refresh[p] = NoRefresh
  BY <1>1, InOrderAsk DEF AskRefresh
<1>2. CASE refresh[p] # NoRefresh
  BY <1>2, InOrderKept DEF AskRefresh
<1>. QED BY <1>1, <1>2

\* The server answers a refresh.
LEMMA InOrderServe ==
    ASSUME WebTypeOK, InOrder, NEW p \in Pages, ServeRefresh(p)
    PROVE  InOrder'
<1>1. UNCHANGED <<jar, at, orphans, odds>>
  BY DEF ServeRefresh, page
<1>2. SUFFICES ASSUME Orderly PROVE InOrder'
  BY <1>1 DEF InOrder, Orderly
<1>3. orphans = {} /\ (\A q \in Pages : at[q] # "leaving") /\ OneFamily /\ NamesExist /\ OneHolder
  BY <1>2 DEF InOrder
<1>4. PICK answer \in Refreshes : /\ Serve(refresh[p].with, answer)
                                  /\ refresh' = [refresh EXCEPT ![p] = answer]
  BY DEF ServeRefresh
<1>5. refresh[p].st = "sent" /\ refresh[p].with \in 0 .. MaxWebSessions
  BY RefreshIs DEF ServeRefresh, WebTypeOK
<1>6. PICK x \in 0 .. MaxWebSessions : x = refresh[p].with
  BY <1>5
<1>7. refresh'[p] = answer /\ \A q \in Pages : q # p => refresh'[q] = refresh[q]
  BY <1>4 DEF WebTypeOK
<1>8. SUFFICES OneFamily' /\ NamesExist' /\ OneHolder'
  BY <1>1, <1>3 DEF InOrder
<1>9. jar \in 0 .. MaxWebSessions /\ 0 \notin WebSessions
  BY DEF WebTypeOK, WebSessions
<1>10. x # 0 => x \in WebSessions
  BY DEF WebSessions
<1>11. CASE x = 0 /\ answer = Refused(FALSE) /\ UNCHANGED server
  <2>1. answer.st = "refused" /\ answer.clear = FALSE
    BY <1>11 DEF Refused
  <2>2. OneFamily'
    BY <1>3, <1>11 DEF OneFamily, IsLive, server
  <2>3. NamesExist'
    BY <1>1, <1>3, <1>7, <1>11, <2>1 DEF NamesExist, server
  <2>4. OneHolder'
    <3>1. /\ \A q \in Pages : Carries(q)' <=> Carries(q)
          /\ \A q \in Pages : Carries(q) => refresh'[q] = refresh[q]
          /\ \A q \in Pages, s \in WebSessions : Asks(q, s)' => Asks(q, s)
          /\ \A q \in Pages : refresh'[q].st = "refused" /\ refresh'[q].clear
                                => refresh'[q] = refresh[q]
      BY <1>5, <1>7, <2>1 DEF Carries, Asks
    <3>2. UNCHANGED <<status, jar>>
      BY <1>1, <1>11 DEF server
    <3>. QED BY <1>3, <3>1, <3>2 DEF OneHolder, IsLive
  <2>. QED BY <2>2, <2>3, <2>4
<1>12. CASE x # 0 /\ Rotation(x, answer)
  <2>1. PICK n \in WebSessions : n = Fresh /\ status[n] = "absent"
    BY <1>12, FreshIs DEF Rotation
  <2>2. /\ status[x] = "live" /\ x # n
        /\ status' = [status EXCEPT ![x] = "graced", ![n] = "live"]
        /\ family' = [family EXCEPT ![n] = family[x]]
        /\ answer.st = "granted" /\ answer.for = n /\ answer.cookie
    BY <1>12, <2>1 DEF Rotation, Granted
  <2>3. status'[n] = "live" /\ status'[x] = "graced"
        /\ \A s \in WebSessions : s # n /\ s # x => status'[s] = status[s]
    BY <1>10, <1>12, <2>2 DEF WebTypeOK
  <2>4. \A s \in WebSessions : IsLive(s)' <=> s = n
    BY <1>3, <1>10, <1>12, <2>2, <2>3 DEF OneFamily, IsLive
  <2>5. family'[n] = 1 /\ \A s \in WebSessions : s # n => family'[s] = family[s]
    BY <1>3, <1>10, <1>12, <2>2 DEF OneFamily, WebTypeOK
  <2>6. OneFamily'
    BY <1>3, <2>4, <2>5 DEF OneFamily
  <2>7. \A s \in WebSessions : status'[s] = "absent" => status[s] = "absent"
    BY <2>3
  <2>8. \A q \in Pages : /\ refresh[q].st = "sent" => refresh[q].with \in 0 .. MaxWebSessions
                         /\ refresh[q].st = "granted" => refresh[q].for \in WebSessions
    BY RefreshIs DEF WebTypeOK
  <2>9. \A y \in 0 .. MaxWebSessions : y # 0 => y \in WebSessions
    BY DEF WebSessions
  <2>10. NamesExist'
    <3>1. jar # 0 => status'[jar] # "absent"
      BY <1>3, <1>9, <2>7, <2>9 DEF NamesExist
    <3>2. ASSUME NEW q \in Pages, refresh'[q].st = "sent", refresh'[q].with # 0
          PROVE  status'[refresh'[q].with] # "absent"
      <4>1. q # p /\ refresh'[q] = refresh[q]
        BY <1>7, <2>2, <3>2
      <4>. QED BY <1>3, <2>7, <2>8, <2>9, <3>2, <4>1 DEF NamesExist
    <3>3. ASSUME NEW q \in Pages, refresh'[q].st = "granted"
          PROVE  status'[refresh'[q].for] # "absent"
      <4>1. CASE q = p
        BY <1>7, <2>2, <2>3, <4>1
      <4>2. CASE q # p
        BY <1>3, <1>7, <2>7, <2>8, <3>3, <4>2 DEF NamesExist
      <4>. QED BY <4>1, <4>2
    <3>. QED BY <1>1, <3>1, <3>2, <3>3 DEF NamesExist
  <2>11. OneHolder'
    <3>1. \A q \in Pages : /\ ~ Carries(q)
                           /\ ~ (refresh[q].st = "refused" /\ refresh[q].clear)
      BY <1>3, <1>5, <1>6, <1>10, <1>12, <2>2 DEF OneHolder, IsLive, Asks
    <3>2. Carries(p)' /\ refresh'[p].for = n /\ \A q \in Pages : Carries(q)' => q = p
      BY <1>7, <2>2, <3>1 DEF Carries
    <3>3. jar # n
      BY <1>3, <1>9, <2>1 DEF NamesExist
    <3>4. \A q \in Pages : ~ Asks(q, n)'
      BY <1>3, <1>7, <1>9, <2>1, <2>2 DEF NamesExist, Asks
    <3>5. \A q \in Pages : ~ (refresh'[q].st = "refused" /\ refresh'[q].clear)
      BY <1>7, <2>2, <3>1
    <3>. QED BY <1>1, <2>4, <3>2, <3>3, <3>4, <3>5 DEF OneHolder
  <2>. QED BY <2>6, <2>10, <2>11
<1>13. CASE x # 0 /\ GraceAnswer(x, answer)
  <2>1. /\ answer.st = "granted" /\ answer.for = succ[x] /\ ~ answer.cookie
        /\ status[succ[x]] = "live" /\ UNCHANGED <<status, family>>
    BY <1>13 DEF GraceAnswer, InGrace, Granted, server
  <2>2. OneFamily'
    BY <1>3, <2>1 DEF OneFamily, IsLive
  <2>3. NamesExist'
    BY <1>1, <1>3, <1>7, <2>1 DEF NamesExist
  <2>4. OneHolder'
    BY <1>1, <1>3, <1>5, <1>7, <2>1 DEF OneHolder, IsLive, Carries, Asks
  <2>. QED BY <2>2, <2>3, <2>4
<1>14. CASE x # 0 /\ Reuse(x, answer)
  <2>1. /\ answer.st = "refused"
        /\ UNCHANGED family
        /\ status' = [s \in WebSessions |-> IF status[s] = "live" /\ family[s] = family[x]
                                            THEN "revoked" ELSE status[s]]
    BY <1>14 DEF Reuse, Refused, RevokeFamily
  <2>2. \A s \in WebSessions : ~ IsLive(s)'
    BY <1>3, <1>10, <1>14, <2>1 DEF OneFamily, IsLive
  <2>3. \A s \in WebSessions : status'[s] = "absent" => status[s] = "absent"
    BY <2>1
  <2>4. OneFamily' /\ OneHolder'
    BY <1>3, <2>1, <2>2 DEF OneFamily, OneHolder
  <2>5. \A q \in Pages : /\ refresh[q].st = "sent" => refresh[q].with \in 0 .. MaxWebSessions
                         /\ refresh[q].st = "granted" => refresh[q].for \in WebSessions
    BY RefreshIs DEF WebTypeOK
  <2>6. \A y \in 0 .. MaxWebSessions : y # 0 => y \in WebSessions
    BY DEF WebSessions
  <2>7. \A q \in Pages : refresh'[q].st \in {"sent", "granted"} => refresh'[q] = refresh[q]
    BY <1>7, <2>1
  <2>8. NamesExist'
    BY <1>1, <1>3, <1>9, <2>3, <2>5, <2>6, <2>7 DEF NamesExist
  <2>. QED BY <2>4, <2>8
<1>. QED BY <1>4, <1>6, <1>11, <1>12, <1>13, <1>14 DEF Serve

\* The answer reaches the page.
LEMMA InOrderAnswered ==
    ASSUME WebTypeOK, InOrder, NEW p \in Pages, RefreshGranted(p) \/ RefreshRefused(p)
    PROVE  InOrder'
<1>1. UNCHANGED <<status, family, orphans, odds>>
  BY DEF RefreshGranted, RefreshRefused, server
<1>2. SUFFICES ASSUME Orderly PROVE InOrder'
  BY <1>1 DEF InOrder, Orderly
<1>3. orphans = {} /\ (\A q \in Pages : at[q] # "leaving") /\ OneFamily /\ NamesExist /\ OneHolder
  BY <1>2 DEF InOrder
<1>4. \A q \in Pages : at'[q] # "leaving"
  BY <1>3 DEF RefreshGranted, RefreshRefused, ToLogin, page, WebTypeOK
<1>5. /\ refresh'[p].st = "none" /\ \A q \in Pages : q # p => refresh'[q] = refresh[q]
  BY DEF RefreshGranted, RefreshRefused, WebTypeOK, NoRefresh
<1>6. refresh[p].st = "granted" \/ refresh[p].st = "refused"
  BY DEF RefreshGranted, RefreshRefused
<1>7. OneFamily'
  BY <1>1, <1>3 DEF OneFamily, IsLive
<1>8. jar' = IF Carries(p) THEN refresh[p].for
             ELSE IF refresh[p].st = "refused" /\ refresh[p].clear THEN 0 ELSE jar
  <2>1. CASE RefreshGranted(p)
    BY <2>1 DEF RefreshGranted, Carries
  <2>2. CASE RefreshRefused(p)
    BY <2>2 DEF RefreshRefused, Carries
  <2>. QED BY <2>1, <2>2
<1>9. NamesExist'
  <2>1. jar' # 0 => status'[jar'] # "absent"
    BY <1>1, <1>3, <1>8 DEF NamesExist, Carries
  <2>. QED BY <1>1, <1>3, <1>5, <2>1 DEF NamesExist
<1>10. OneHolder'
  <2>1. /\ \A q \in Pages : Carries(q)' <=> Carries(q) /\ q # p
        /\ \A q \in Pages : q # p => refresh'[q] = refresh[q]
        /\ \A q \in Pages, s \in WebSessions : Asks(q, s)' => Asks(q, s)
        /\ \A q \in Pages : refresh'[q].st = "refused" => refresh'[q] = refresh[q]
    BY <1>5 DEF Carries, Asks
  <2>2. SUFFICES ASSUME NEW s \in WebSessions, IsLive(s)
                 PROVE /\ jar' = s \/ \E q \in Pages : Carries(q)' /\ refresh'[q].for = s
                       /\ \A q \in Pages : Carries(q)' => refresh'[q].for = s /\ jar' # s
                       /\ \A q, r \in Pages : Carries(q)' => ~ Asks(r, s)'
                       /\ \A q, r \in Pages : Carries(q)' /\ Carries(r)' => q = r
                       /\ \A q \in Pages : ~ (refresh'[q].st = "refused" /\ refresh'[q].clear)
    BY <1>1 DEF OneHolder, IsLive
  <2>3. /\ jar = s \/ \E q \in Pages : Carries(q) /\ refresh[q].for = s
        /\ \A q \in Pages : Carries(q) => refresh[q].for = s /\ jar # s
        /\ \A q, r \in Pages : Carries(q) => ~ Asks(r, s)
        /\ \A q, r \in Pages : Carries(q) /\ Carries(r) => q = r
        /\ \A q \in Pages : ~ (refresh[q].st = "refused" /\ refresh[q].clear)
    BY <1>3, <2>2 DEF OneHolder
  <2>. HIDE DEF Carries, Asks
  <2>4. CASE Carries(p)
    BY <1>8, <2>1, <2>3, <2>4
  <2>5. CASE ~ Carries(p)
    BY <1>8, <2>1, <2>3, <2>5
  <2>. QED BY <2>4, <2>5
<1>. QED BY <1>1, <1>3, <1>4, <1>7, <1>9, <1>10 DEF InOrder

\* A page is opened: only a cookie that arrived with the page may be kept.
LEMMA InOrderOpen ==
    ASSUME WebTypeOK, InOrder, NEW p \in Pages, OpenPage(p)
    PROVE  InOrder'
<1>1. UNCHANGED <<status, family>>
  BY DEF OpenPage, server
<1>2. PICK kept \in {jar} \cup (IF refresh[p].st = "granted" /\ refresh[p].cookie
                                THEN {refresh[p].for} ELSE {}) :
        /\ jar' = kept
        /\ refresh' = [refresh EXCEPT ![p] = Sent(kept)]
        /\ odds' = odds
              \cup (IF refresh[p] # NoRefresh /\ kept = jar THEN {"lost"} ELSE {})
              \cup (IF Overlapping(p) THEN {"overlap"} ELSE {})
  BY DEF OpenPage
<1>3. odds \subseteq odds'
  BY <1>2
<1>4. \A q \in Pages : at'[q] = "leaving" => at[q] = "leaving"
  BY DEF OpenPage, WebTypeOK
<1>5. SUFFICES ASSUME Orderly' PROVE InOrder'
  BY DEF InOrder
<1>6. Orderly /\ "lost" \notin odds'
  BY <1>3, <1>5 DEF Orderly
<1>7. refresh[p] = NoRefresh \/ kept # jar
  BY <1>2, <1>6
<1>8. orphans' = IF refresh[p].st = "sent" THEN orphans \cup ({refresh[p].with} \ {0}) ELSE orphans
  BY DEF OpenPage
<1>9. CASE refresh[p] = NoRefresh
  <2>1. refresh[p].st = "none"
    BY <1>9 DEF NoRefresh
  <2>2. kept = jar /\ orphans' = orphans
    BY <1>2, <1>8, <2>1
  <2>. QED BY <1>1, <1>2, <1>3, <1>4, <1>9, <2>2, InOrderAsk
<1>10. CASE kept # jar
  <2>1. Carries(p) /\ kept = refresh[p].for /\ orphans' = orphans
    BY <1>2, <1>8, <1>10 DEF Carries
  <2>2. (\A q \in Pages : at[q] # "leaving") /\ OneFamily /\ NamesExist /\ OneHolder
        /\ orphans = {}
    BY <1>6 DEF InOrder
  <2>3. /\ refresh'[p].st = "sent" /\ refresh'[p].with = kept
        /\ \A q \in Pages : q # p => refresh'[q] = refresh[q]
    BY <1>2 DEF Sent, WebTypeOK
  <2>4. status[kept] # "absent"
    BY <2>1, <2>2 DEF NamesExist, Carries
  <2>5. NamesExist'
    BY <1>1, <1>2, <2>2, <2>3, <2>4 DEF NamesExist
  <2>6. OneHolder'
    <3>1. /\ \A q \in Pages : Carries(q)' <=> Carries(q) /\ q # p
          /\ \A q \in Pages : refresh'[q].st = "refused" => refresh'[q] = refresh[q]
      BY <2>3 DEF Carries
    <3>2. SUFFICES ASSUME NEW s \in WebSessions, IsLive(s)
                   PROVE /\ jar' = s \/ \E q \in Pages : Carries(q)' /\ refresh'[q].for = s
                         /\ \A q \in Pages : Carries(q)' => refresh'[q].for = s /\ jar' # s
                         /\ \A q, r \in Pages : Carries(q)' => ~ Asks(r, s)'
                         /\ \A q, r \in Pages : Carries(q)' /\ Carries(r)' => q = r
                         /\ \A q \in Pages : ~ (refresh'[q].st = "refused" /\ refresh'[q].clear)
      BY <1>1 DEF OneHolder, IsLive
    <3>3. /\ \A q \in Pages : Carries(q) => refresh[q].for = s /\ jar # s
          /\ \A q, r \in Pages : Carries(q) /\ Carries(r) => q = r
          /\ \A q \in Pages : ~ (refresh[q].st = "refused" /\ refresh[q].clear)
      BY <2>2, <3>2 DEF OneHolder
    <3>4. jar' = s /\ \A q \in Pages : ~ Carries(q)'
      BY <1>2, <2>1, <3>1, <3>3
    <3>. QED BY <3>1, <3>3, <3>4
  <2>7. OneFamily'
    BY <1>1, <2>2 DEF OneFamily, IsLive
  <2>. QED BY <1>4, <2>1, <2>2, <2>5, <2>6, <2>7 DEF InOrder
<1>. QED BY <1>7, <1>9, <1>10

LEMMA InOrderStep ==
    ASSUME WebTypeOK, InOrder, [WebNext]_webVars
    PROVE  InOrder'
<1>0. odds \subseteq odds'
  BY OddsGrow
<1>1. \A p \in Pages : ToLogin(p) => \A q \in Pages : at'[q] = "leaving" => at[q] = "leaving"
  BY DEF ToLogin, WebTypeOK
<1>2. ASSUME NEW p \in Pages,
             \/ SecondHandshakeRefused(p) \/ Connected(p) \/ Dial(p) \/ Expire(p)
             \/ \E c \in Calls : CallEnds(p, c) \/ SecondRefused(p, c) \/ StartCall(p, c)
      PROVE  InOrder'
  <2>1. UNCHANGED <<status, family, jar, refresh, orphans>> /\ (UNCHANGED at \/ ToLogin(p))
    BY <1>2 DEF SecondHandshakeRefused, Connected, Dial, Expire, CallEnds, SecondRefused,
                StartCall, server
  <2>. QED BY <1>0, <1>1, <2>1, InOrderKept
<1>3. ASSUME NEW p \in Pages, HandshakeRefused(p) \/ \E c \in Calls : CallRefused(p, c)
      PROVE  InOrder'
  <2>1. UNCHANGED <<status, family, jar, orphans, at>> /\ AskRefresh(p)
    BY <1>3 DEF HandshakeRefused, CallRefused, server
  <2>. QED BY <1>0, <2>1, InOrderAskRefresh
<1>4. ASSUME NEW p \in Pages, RefreshLost(p) \/ Login(p) \/ AskLogout(p) PROVE InOrder'
  <2>1. "lost" \in odds' \/ "login" \in odds' \/ "ended" \in odds'
    BY <1>4 DEF RefreshLost, Login, AskLogout
  <2>. QED BY <2>1 DEF InOrder, Orderly
<1>5. ASSUME NEW p \in Pages, AnswerLogout(p) \/ LogoutFails(p) PROVE InOrder'
  <2>1. at[p] = "leaving" /\ UNCHANGED odds
    BY <1>5 DEF AnswerLogout, LogoutFails
  <2>. QED BY <2>1 DEF InOrder, Orderly
<1>6. ASSUME NEW s \in WebSessions, ServeOrphan(s) \/ DropOrphan(s) PROVE InOrder'
  <2>1. orphans # {} /\ UNCHANGED odds
    BY <1>6 DEF ServeOrphan, DropOrphan
  <2>. QED BY <2>1 DEF InOrder, Orderly
<1>7. ASSUME NEW s \in WebSessions, EndSession(s) PROVE InOrder'
  BY <1>7 DEF EndSession, InOrder, Orderly
<1>8. ASSUME NEW s \in WebSessions, GracePasses(s) PROVE InOrder'
  <2>1. UNCHANGED <<family, jar, refresh, orphans, odds, at>>
    BY <1>8 DEF GracePasses, page
  <2>2. \A t \in WebSessions : /\ IsLive(t)' <=> IsLive(t)
                               /\ status'[t] = "absent" <=> status[t] = "absent"
    BY <1>8 DEF GracePasses, IsLive, WebTypeOK
  <2>3. /\ jar # 0 => jar \in WebSessions
        /\ \A q \in Pages : /\ refresh[q].st = "sent" /\ refresh[q].with # 0
                                => refresh[q].with \in WebSessions
                            /\ refresh[q].st = "granted" => refresh[q].for \in WebSessions
    BY RefreshIs DEF WebTypeOK, WebSessions
  <2>4. OneFamily => OneFamily'
    BY <2>1, <2>2 DEF OneFamily
  <2>5. NamesExist => NamesExist'
    BY <2>1, <2>2, <2>3 DEF NamesExist
  <2>6. OneHolder => OneHolder'
    BY <2>1, <2>2 DEF OneHolder, Carries, Asks
  <2>. QED BY <2>1, <2>4, <2>5, <2>6 DEF InOrder, Orderly
<1>9. CASE UNCHANGED webVars
  BY <1>0, <1>9, InOrderKept DEF webVars, server, page
<1>. QED
  BY <1>2, <1>3, <1>4, <1>5, <1>6, <1>7, <1>8, <1>9, InOrderServe, InOrderAnswered, InOrderOpen
  DEF WebNext, Answered, User

LEMMA QuietKept ==
    ASSUME Quiet, odds \subseteq odds', UNCHANGED <<status, refresh>>,
           odds' = {} => \A p \in Pages : at'[p] = "login" => at[p] = "login"
    PROVE  Quiet'
<1>1. SUFFICES ASSUME odds' = {} PROVE Quiet'
  BY DEF Quiet
<1>2. odds = {}
  BY <1>1
<1>. QED BY <1>1, <1>2 DEF Quiet, IsLive

\* A refresh is asked for while no other is under way: the cookie in the jar
\* is the one of the live session.
LEMMA QuietAsk ==
    ASSUME WebTypeOK, InOrder, Quiet, NEW p \in Pages, NEW kept \in 0 .. MaxWebSessions,
           odds = {}, UNCHANGED status, \A q \in Pages : at'[q] = "login" => at[q] = "login",
           refresh' = [refresh EXCEPT ![p] = Sent(kept)],
           \A q \in OtherPages(p) : refresh[q] = NoRefresh,
           (refresh[p] = NoRefresh /\ kept = jar) \/ (Carries(p) /\ kept = refresh[p].for)
    PROVE  Quiet'
<1>1. OneHolder
  BY DEF InOrder, Orderly
<1>2. PICK s \in WebSessions : IsLive(s)
  BY DEF Quiet
<1>3. \A q \in Pages : q # p => refresh[q].st = "none"
  BY DEF OtherPages, NoRefresh
<1>4. kept = s
  <2>1. refresh[p] = NoRefresh => refresh[p].st = "none"
    BY DEF NoRefresh
  <2>. QED BY <1>1, <1>2, <1>3, <2>1 DEF OneHolder, Carries
<1>5. /\ refresh'[p].st = "sent" /\ refresh'[p].with = s
      /\ \A q \in Pages : q # p => refresh'[q].st = "none"
  BY <1>3, <1>4 DEF Sent, WebTypeOK
<1>6. s # 0 /\ status'[s] = "live"
  BY <1>2 DEF IsLive, WebSessions
<1>7. \A q \in Pages : at'[q] # "login"
  BY DEF Quiet
<1>. QED BY <1>2, <1>5, <1>6, <1>7 DEF Quiet, IsLive

LEMMA QuietStep ==
    ASSUME WebTypeOK, InOrder, Quiet, Steady, [WebNext]_webVars
    PROVE  Quiet'
<1>0. odds \subseteq odds'
  BY OddsGrow
<1>1. SUFFICES ASSUME odds' = {} PROVE Quiet'
  BY DEF Quiet
<1>2. odds = {}
  BY <1>0, <1>1
<1>3. /\ \A p, q \in Pages : refresh[p].st # "none" /\ refresh[q].st # "none" => p = q
      /\ \A p \in Pages : refresh[p].st = "sent" =>
           refresh[p].with # 0 /\ status[refresh[p].with] = "live"
      /\ \A p \in Pages : refresh[p].st # "refused" /\ at[p] # "login"
  BY <1>2 DEF Quiet
<1>4. PICK s \in WebSessions : status[s] = "live"
  BY <1>2 DEF Quiet, IsLive
<1>5. \A p \in Pages : at[p] # "leaving"
  BY <1>2 DEF InOrder, Orderly
<1>6. /\ \A p \in Pages : socket[p].st = "second" => socket[p].with = "good"
      /\ \A p \in Pages, c \in Calls : call[p][c].st = "second" => call[p][c].with = "good"
  BY <1>2 DEF Steady
<1>7. ASSUME NEW p \in Pages, SecondHandshakeRefused(p) \/ \E c \in Calls : SecondRefused(p, c)
      PROVE  FALSE
  BY <1>6, <1>7 DEF SecondHandshakeRefused, SecondRefused
<1>8. ASSUME NEW p \in Pages, RefreshRefused(p) \/ AnswerLogout(p) \/ LogoutFails(p) \/ Login(p)
                              \/ AskLogout(p) \/ RefreshLost(p)
      PROVE  FALSE
  BY <1>1, <1>3, <1>5, <1>8
  DEF RefreshRefused, AnswerLogout, LogoutFails, Login, AskLogout, RefreshLost
<1>9. ASSUME NEW p \in Pages,
             Connected(p) \/ Dial(p) \/ Expire(p)
             \/ \E c \in Calls : CallEnds(p, c) \/ StartCall(p, c)
      PROVE  Quiet'
  <2>1. UNCHANGED <<status, refresh, at>>
    BY <1>9 DEF Connected, Dial, Expire, CallEnds, StartCall, server
  <2>. QED BY <1>0, <2>1, QuietKept
<1>10. ASSUME NEW p \in Pages, HandshakeRefused(p) \/ \E c \in Calls : CallRefused(p, c)
       PROVE  Quiet'
  <2>1. UNCHANGED <<status, at>> /\ AskRefresh(p)
    BY <1>10 DEF HandshakeRefused, CallRefused, server
  <2>2. CASE refresh[p] = NoRefresh
    <3>1. refresh' = [refresh EXCEPT ![p] = Sent(jar)] /\ ~ Overlapping(p)
      BY <1>1, <2>1, <2>2 DEF AskRefresh
    <3>2. \A q \in OtherPages(p) : refresh[q] = NoRefresh
      BY <3>1 DEF Overlapping
    <3>3. jar \in 0 .. MaxWebSessions
      BY DEF WebTypeOK
    <3>4. PICK kept \in 0 .. MaxWebSessions : kept = jar
      BY <3>3
    <3>5. UNCHANGED status /\ \A q \in Pages : at'[q] = "login" => at[q] = "login"
      BY <2>1
    <3>6. refresh' = [refresh EXCEPT ![p] = Sent(kept)]
      BY <3>1, <3>4
    <3>. QED BY <1>2, <2>2, <3>2, <3>4, <3>5, <3>6, QuietAsk
  <2>3. CASE refresh[p] # NoRefresh
    <3>1. UNCHANGED refresh
      BY <2>1, <2>3 DEF AskRefresh
    <3>. QED BY <1>0, <2>1, <3>1, QuietKept
  <2>. QED BY <2>2, <2>3
<1>11. ASSUME NEW p \in Pages, OpenPage(p) PROVE Quiet'
  <2>1. PICK kept \in {jar} \cup (IF refresh[p].st = "granted" /\ refresh[p].cookie
                                  THEN {refresh[p].for} ELSE {}) :
          /\ jar' = kept
          /\ refresh' = [refresh EXCEPT ![p] = Sent(kept)]
          /\ odds' = odds
                \cup (IF refresh[p] # NoRefresh /\ kept = jar THEN {"lost"} ELSE {})
                \cup (IF Overlapping(p) THEN {"overlap"} ELSE {})
    BY <1>11 DEF OpenPage
  <2>2. ~ Overlapping(p) /\ (refresh[p] = NoRefresh \/ kept # jar)
    BY <1>1, <2>1
  <2>3. \A q \in OtherPages(p) : refresh[q] = NoRefresh
    BY <2>2 DEF Overlapping
  <2>4. kept \in 0 .. MaxWebSessions
    BY RefreshIs DEF WebTypeOK, WebSessions
  <2>5. (refresh[p] = NoRefresh /\ kept = jar) \/ (Carries(p) /\ kept = refresh[p].for)
    <3>1. CASE refresh[p].st = "granted" /\ refresh[p].cookie
      <4>1. refresh[p] # NoRefresh
        BY <3>1 DEF NoRefresh
      <4>. QED BY <2>1, <2>2, <3>1, <4>1 DEF Carries
    <3>2. CASE ~ (refresh[p].st = "granted" /\ refresh[p].cookie)
      BY <2>1, <2>2, <3>2
    <3>. QED BY <3>1, <3>2
  <2>6. UNCHANGED status /\ \A q \in Pages : at'[q] = "login" => at[q] = "login"
    BY <1>11 DEF OpenPage, server, WebTypeOK
  <2>. QED BY <1>2, <2>1, <2>3, <2>4, <2>5, <2>6, QuietAsk
<1>12. ASSUME NEW p \in Pages, ServeRefresh(p) PROVE Quiet'
  <2>1. PICK answer \in Refreshes : /\ Serve(refresh[p].with, answer)
                                    /\ refresh' = [refresh EXCEPT ![p] = answer]
    BY <1>12 DEF ServeRefresh
  <2>2. refresh[p].st = "sent" /\ UNCHANGED at
    BY <1>12 DEF ServeRefresh, page
  <2>3. refresh[p].with # 0 /\ status[refresh[p].with] = "live"
    BY <1>3, <2>2
  <2>4. Rotation(refresh[p].with, answer)
    BY <2>1, <2>3 DEF Serve, GraceAnswer, InGrace, Reuse
  <2>5. Fresh \in WebSessions /\ status'[Fresh] = "live"
    BY <2>4, FreshIs DEF Rotation, WebTypeOK
  <2>6. answer.st = "granted"
    BY <2>4 DEF Rotation, Granted
  <2>7. /\ refresh'[p].st = "granted" /\ \A q \in Pages : q # p => refresh'[q].st = "none"
    BY <1>3, <2>1, <2>2, <2>6, RefreshIs DEF WebTypeOK
  <2>8. \E t \in WebSessions : status'[t] = "live"
    BY <2>5
  <2>. QED BY <1>3, <2>2, <2>7, <2>8 DEF Quiet, IsLive
<1>13. ASSUME NEW p \in Pages, RefreshGranted(p) PROVE Quiet'
  <2>1. UNCHANGED status /\ \A q \in Pages : at'[q] = "login" => at[q] = "login"
    BY <1>13 DEF RefreshGranted, server, page, WebTypeOK
  <2>2. refresh'[p].st = "none" /\ \A q \in Pages : q # p => refresh'[q] = refresh[q]
    BY <1>13 DEF RefreshGranted, NoRefresh, WebTypeOK
  <2>. QED BY <1>3, <1>4, <2>1, <2>2 DEF Quiet, IsLive
<1>14. ASSUME NEW t \in WebSessions, ServeOrphan(t) \/ DropOrphan(t) \/ EndSession(t) PROVE FALSE
  BY <1>1, <1>2, <1>14 DEF ServeOrphan, DropOrphan, EndSession, InOrder, Orderly
<1>15. ASSUME NEW t \in WebSessions, GracePasses(t) PROVE Quiet'
  <2>1. UNCHANGED <<refresh, at>>
    BY <1>15 DEF GracePasses, page
  <2>2. \A u \in WebSessions : status[u] = "live" => status'[u] = "live"
    BY <1>15 DEF GracePasses, WebTypeOK
  <2>3. \A q \in Pages : refresh[q].st = "sent" /\ refresh[q].with # 0
                           => refresh[q].with \in WebSessions
    BY RefreshIs DEF WebTypeOK, WebSessions
  <2>. QED BY <1>3, <1>4, <2>1, <2>2, <2>3 DEF Quiet, IsLive
<1>16. CASE UNCHANGED webVars
  BY <1>0, <1>16, QuietKept DEF webVars, server, page
<1>. QED
  BY <1>7, <1>8, <1>9, <1>10, <1>11, <1>12, <1>13, <1>14, <1>15, <1>16
  DEF WebNext, Answered, User

LEMMA WebInvInit == WebInit => WebInv
<1>. SUFFICES ASSUME WebInit PROVE WebInv
  OBVIOUS
<1>1. NoRefresh.st = "none" /\ Off.st = "off" /\ Resting.st = "idle"
  BY DEF NoRefresh, Off, Resting
<1>2. 1 \in WebSessions /\ \A s \in WebSessions : status[s] = "live" <=> s = 1
  BY WebBounds DEF WebInit, WebSessions
<1>3. OneFamily /\ NamesExist /\ OneHolder
  BY <1>1, <1>2 DEF WebInit, OneFamily, NamesExist, OneHolder, IsLive, Carries, Asks
<1>4. InOrder
  BY <1>3 DEF WebInit, InOrder
<1>5. Quiet
  BY <1>1, <1>2 DEF WebInit, Quiet, IsLive
<1>6. Steady /\ WebLatch
  BY <1>1 DEF WebInit, Steady, WebLatch
<1>. QED BY <1>4, <1>5, <1>6, WebTypeInit DEF WebInv

\* What the browser's pages and the server keep together, whatever the order
\* of requests, answers and expiries.
THEOREM WebInvariant == WebSpec => []WebInv
<1>1. WebInv /\ [WebNext]_webVars => WebInv'
  BY WebTypeStep, WebLatchStep, InOrderStep, QuietStep, SteadyStep DEF WebInv
<1>. QED BY <1>1, WebInvInit, PTL DEF WebSpec

\* Every variable of the browser and the server has its type, and whoever
\* waits on a page has a refresh under way to wait for: the waiters of
\* refreshAccessToken are never left behind a promise that is gone.
THEOREM WebTyping == WebSpec => []WebTypeOK
<1>1. WebInv => WebTypeOK
  BY DEF WebInv
<1>. QED BY <1>1, WebInvariant, PTL

\* For any number of pages and requests: unless an answer is lost or the user
\* leaves, the cookie of the live session is in the jar or on its way there;
\* pages that do not overlap never send the user to the login page; and a
\* socket asks for one refresh between two connections.
THEOREM SignedInStays == WebSpec => []StaysSignedIn
<1>1. WebInv => LiveSessionInReach
  <2>1. SUFFICES ASSUME WebInv, odds \cap {"lost", "ended", "login"} = {},
                        NEW s \in WebSessions, status[s] = "live"
                 PROVE  OnItsWay(s)
    BY DEF LiveSessionInReach
  <2>2. jar = s \/ \E p \in Pages : Carries(p) /\ refresh[p].for = s
    BY <2>1 DEF WebInv, InOrder, Orderly, OneHolder, IsLive
  <2>3. ASSUME NEW p \in Pages, Carries(p), refresh[p].for = s PROVE refresh[p] = Granted(s, TRUE)
    BY <2>1, <2>3, RefreshIs DEF WebInv, WebTypeOK, Carries
  <2>. QED BY <2>2, <2>3 DEF OnItsWay
<1>2. WebInv => BouncedForAReason
  BY DEF WebInv, Quiet, BouncedForAReason
<1>3. WebInv => SocketAsksOnce
  BY DEF WebInv, WebLatch, SocketAsksOnce
<1>. QED BY <1>1, <1>2, <1>3, WebInvariant, PTL DEF StaysSignedIn

-----------------------------------------------------------------------------
(* The server of the pages implements SessionChain                         *)

WebLive == {s \in WebSessions : status[s] = "live"}
WebUsed == {s \in WebSessions : status[s] # "absent"}
WebFamilies == [s \in WebSessions |-> IF status[s] = "absent" THEN 0 ELSE family[s]]

\* The families of the sessions in use are named by sessions in use.
WebFamiliesExist == \A s \in WebUsed : family[s] \in WebUsed

\* Sessions end, and nothing else happens to them.
LEMMA WebRevokes ==
    ASSUME WebTypeOK, NEW S \in SUBSET WebLive, UNCHANGED <<succ, family>>,
           \A s \in WebSessions : status'[s] = "live" <=> s \in WebLive \ S,
           \A s \in WebSessions : status'[s] = "absent" <=> status[s] = "absent"
    PROVE  WebChain!Next
<1>1. WebLive' = WebLive \ S /\ WebUsed' = WebUsed
  BY DEF WebLive, WebUsed
<1>2. WebFamilies' = WebFamilies
  BY DEF WebFamilies
<1>3. S \in SUBSET WebSessions
  BY DEF WebLive
<1>4. WebChain!Revoke(S)
  BY <1>1, <1>2 DEF WebChain!Revoke, WebLive, WebUsed, WebFamilies
<1>. QED BY <1>3, <1>4 DEF WebChain!Next

LEMMA WebRests ==
    ASSUME UNCHANGED server PROVE UNCHANGED WebChain!vars
BY DEF server, WebChain!vars

\* What the server does with a cookie.
LEMMA ServeChain ==
    ASSUME WebTypeOK, NEW s \in 0 .. MaxWebSessions, NEW answer, Serve(s, answer)
    PROVE  [WebChain!Next]_(WebChain!vars)
<1>0. /\ WebSessions = 1 .. MaxWebSessions /\ MaxWebSessions \in Nat
      /\ status \in [WebSessions -> Statuses] /\ succ \in [WebSessions -> 0 .. MaxWebSessions]
      /\ family \in [WebSessions -> WebSessions]
  BY WebBounds DEF WebTypeOK, WebSessions
<1>1. CASE UNCHANGED server
  BY <1>1, WebRests
<1>2. CASE s # 0 /\ Rotation(s, answer)
  <2>0. Unused # {} /\ status[s] = "live"
    BY <1>2 DEF Rotation
  <2>1. Fresh \in WebSessions /\ status[Fresh] = "absent" /\ s \in WebSessions /\ s # Fresh
    <3>1. Fresh \in WebSessions /\ status[Fresh] = "absent"
      BY <2>0, FreshIs
    <3>2. s \in WebSessions
      BY <1>0, <1>2
    <3>. QED BY <2>0, <3>1, <3>2
  <2>. PICK t \in WebSessions : t = Fresh
    BY <2>1
  <2>2. /\ status' = [status EXCEPT ![s] = "graced", ![t] = "live"]
        /\ succ' = [succ EXCEPT ![s] = t]
        /\ family' = [family EXCEPT ![t] = family[s]]
    BY <1>2 DEF Rotation
  <2>3. \A x \in WebSessions : status'[x] = IF x = t THEN "live" ELSE IF x = s THEN "graced" ELSE status[x]
    BY <1>0, <2>1, <2>2
  <2>4. WebLive' = (WebLive \ {s}) \cup {t} /\ WebUsed' = WebUsed \cup {t}
    BY <2>0, <2>1, <2>3 DEF WebLive, WebUsed
  <2>5. \A x \in WebSessions : family'[x] = IF x = t THEN family[s] ELSE family[x]
    BY <1>0, <2>1, <2>2
  <2>6. \A x \in WebSessions : WebFamilies'[x] = IF x = t THEN family[s] ELSE WebFamilies[x]
    BY <2>0, <2>1, <2>3, <2>5 DEF WebFamilies
  <2>7. WebFamilies' = [WebFamilies EXCEPT ![t] = WebFamilies[s]]
    BY <2>0, <2>1, <2>6 DEF WebFamilies
  <2>8. s \in WebLive /\ t \notin WebUsed
    BY <2>0, <2>1 DEF WebLive, WebUsed
  <2>9. WebChain!Rotate(s, t)
    BY <2>2, <2>4, <2>7, <2>8 DEF WebChain!Rotate, WebLive, WebUsed, WebFamilies
  <2>. QED BY <2>1, <2>9 DEF WebChain!Next
<1>3. CASE s # 0 /\ Reuse(s, answer)
  <2>. DEFINE S == {x \in WebLive : family[x] = family[s]}
  <2>1. \A x \in WebSessions : status'[x] = IF status[x] = "live" /\ family[x] = family[s]
                                          THEN "revoked" ELSE status[x]
    BY <1>3 DEF Reuse, RevokeFamily
  <2>2. S \in SUBSET WebLive /\ UNCHANGED <<succ, family>>
    BY <1>3 DEF Reuse
  <2>3. \A x \in WebSessions : status'[x] = "live" <=> x \in WebLive \ S
    BY <2>1 DEF WebLive
  <2>4. \A x \in WebSessions : status'[x] = "absent" <=> status[x] = "absent"
    BY <2>1
  <2>. HIDE DEF S
  <2>. QED BY <2>2, <2>3, <2>4, WebRevokes
<1>. QED BY <1>1, <1>2, <1>3 DEF Serve, GraceAnswer

\* One session ends, or none does.
LEMMA EndsOne ==
    ASSUME WebTypeOK, NEW s, UNCHANGED <<succ, family>>,
           \A x \in WebSessions : status'[x] = IF x = s /\ status[x] = "live" THEN "revoked" ELSE status[x]
    PROVE  WebChain!Next
<1>1. {s} \cap WebLive \in SUBSET WebLive
  OBVIOUS
<1>2. /\ \A x \in WebSessions : status'[x] = "live" <=> x \in WebLive \ ({s} \cap WebLive)
      /\ \A x \in WebSessions : status'[x] = "absent" <=> status[x] = "absent"
  BY DEF WebLive
<1>. QED BY <1>1, <1>2, WebRevokes

LEMMA LoginOpens ==
    ASSUME WebTypeOK, NEW p \in Pages, Login(p) PROVE WebChain!Next
<1>0. /\ status \in [WebSessions -> Statuses] /\ family \in [WebSessions -> WebSessions]
  BY DEF WebTypeOK
<1>1. Fresh \in WebSessions /\ status[Fresh] = "absent"
  BY FreshIs DEF Login
<1>. PICK t \in WebSessions : t = Fresh
  BY <1>1
<1>2. /\ status' = [status EXCEPT ![t] = "live"] /\ family' = [family EXCEPT ![t] = t] /\ succ' = succ
  BY DEF Login
<1>3. WebLive' = WebLive \cup {t} /\ WebUsed' = WebUsed \cup {t} /\ t \notin WebUsed
  BY <1>0, <1>1, <1>2 DEF WebLive, WebUsed
<1>4. \A x \in WebSessions : WebFamilies'[x] = IF x = t THEN t ELSE WebFamilies[x]
  BY <1>0, <1>1, <1>2 DEF WebFamilies
<1>5. WebFamilies' = [WebFamilies EXCEPT ![t] = t]
  BY <1>1, <1>4 DEF WebFamilies
<1>6. WebChain!Open(t)
  BY <1>2, <1>3, <1>5 DEF WebChain!Open, WebLive, WebUsed, WebFamilies
<1>. QED BY <1>6 DEF WebChain!Next

\* Every step of the pages and their server is one of SessionChain, or none.
LEMMA WebChainStep ==
    ASSUME WebTypeOK, [WebNext]_webVars PROVE [WebChain!Next]_(WebChain!vars)
<1>0. status \in [WebSessions -> Statuses] /\ \A p \in Pages : refresh[p] \in Refreshes
  BY DEF WebTypeOK
<1>1. CASE UNCHANGED server
  BY <1>1, WebRests
<1>2. ASSUME NEW p \in Pages, ServeRefresh(p) PROVE [WebChain!Next]_(WebChain!vars)
  <2>1. refresh[p].with \in 0 .. MaxWebSessions
    BY <1>0, <1>2, RefreshIs DEF ServeRefresh
  <2>2. \E answer : Serve(refresh[p].with, answer)
    BY <1>2 DEF ServeRefresh
  <2>. QED BY <2>1, <2>2, ServeChain
<1>3. ASSUME NEW s \in WebSessions, ServeOrphan(s) PROVE [WebChain!Next]_(WebChain!vars)
  <2>1. s \in 0 .. MaxWebSessions
    BY WebBounds DEF WebSessions
  <2>2. \E answer : Serve(s, answer)
    BY <1>3 DEF ServeOrphan
  <2>. QED BY <2>1, <2>2, ServeChain
<1>4. ASSUME NEW s \in WebSessions, GracePasses(s) PROVE [WebChain!Next]_(WebChain!vars)
  <2>1. UNCHANGED <<succ, family>> /\ {} \in SUBSET WebLive
    BY <1>4 DEF GracePasses
  <2>2. /\ \A x \in WebSessions : status'[x] = "live" <=> x \in WebLive \ {}
        /\ \A x \in WebSessions : status'[x] = "absent" <=> status[x] = "absent"
    BY <1>0, <1>4 DEF GracePasses, WebLive
  <2>. QED BY <2>1, <2>2, WebRevokes
<1>5. ASSUME NEW s \in WebSessions, EndSession(s) PROVE [WebChain!Next]_(WebChain!vars)
  <2>1. \A x \in WebSessions : status'[x] = IF x = s /\ status[x] = "live" THEN "revoked" ELSE status[x]
    BY <1>0, <1>5 DEF EndSession
  <2>. QED BY <1>5, <2>1, EndsOne DEF EndSession
<1>6. ASSUME NEW p \in Pages, AnswerLogout(p) PROVE [WebChain!Next]_(WebChain!vars)
  BY <1>6, EndsOne DEF AnswerLogout
<1>7. ASSUME NEW p \in Pages, Login(p) PROVE [WebChain!Next]_(WebChain!vars)
  BY <1>7, LoginOpens
<1>8. CASE UNCHANGED webVars
  BY <1>1, <1>8 DEF webVars
<1>9. ASSUME NEW p \in Pages, Answered(p) \/ User(p) \/ RefreshLost(p) \/ LogoutFails(p),
             ~ ServeRefresh(p), ~ AnswerLogout(p), ~ Login(p)
      PROVE  UNCHANGED server
  BY <1>9 DEF Answered, User, RefreshGranted, RefreshRefused, CallEnds, CallRefused, SecondRefused,
              Connected, HandshakeRefused, SecondHandshakeRefused, StartCall, Dial, Expire, OpenPage,
              AskLogout, RefreshLost, LogoutFails
<1>10. ASSUME NEW s \in WebSessions, DropOrphan(s) PROVE UNCHANGED server
  BY <1>10 DEF DropOrphan
<1>. QED BY <1>1, <1>2, <1>3, <1>4, <1>5, <1>6, <1>7, <1>8, <1>9, <1>10 DEF WebNext

\* What SessionChain allows leaves every family with one end.
LEMMA OneEndStep ==
    ASSUME WebTypeOK, WebTypeOK', OneEndEach, WebFamiliesExist, [WebChain!Next]_(WebChain!vars)
    PROVE  OneEndEach' /\ WebFamiliesExist'
<1>0. /\ 0 \notin WebSessions /\ WebLive \subseteq WebUsed /\ WebUsed \subseteq WebSessions
      /\ (WebLive \subseteq WebUsed)' /\ (WebUsed \subseteq WebSessions)'
  BY WebBounds DEF WebSessions, WebLive, WebUsed
<1>1. /\ \A s \in WebSessions : WebFamilies[s] = IF s \in WebUsed THEN family[s] ELSE 0
      /\ \A s \in WebSessions : WebFamilies'[s] = IF s \in WebUsed' THEN family'[s] ELSE 0
  BY DEF WebFamilies, WebUsed
<1>2. /\ OneEndEach <=> \A s, t \in WebLive : WebFamilies[s] = WebFamilies[t] => s = t
      /\ OneEndEach' <=> \A s, t \in WebLive' : WebFamilies'[s] = WebFamilies'[t] => s = t
  BY <1>0, <1>1 DEF OneEndEach, WebLive
<1>3. /\ WebFamiliesExist <=> \A s \in WebUsed : WebFamilies[s] \in WebUsed
      /\ WebFamiliesExist' <=> \A s \in WebUsed' : WebFamilies'[s] \in WebUsed'
  BY <1>0, <1>1 DEF WebFamiliesExist
<1>4. DOMAIN WebFamilies = WebSessions
  BY DEF WebFamilies
<1>5. CASE UNCHANGED WebChain!vars
  <2>1. UNCHANGED <<WebLive, WebUsed, WebFamilies>>
    BY <1>5 DEF WebChain!vars, WebLive, WebUsed, WebFamilies
  <2>. QED BY <1>2, <1>3, <2>1
<1>6. ASSUME NEW s \in WebSessions, WebChain!Open(s) PROVE OneEndEach' /\ WebFamiliesExist'
  <2>1. /\ s \notin WebUsed /\ WebUsed' = WebUsed \cup {s} /\ WebLive' = WebLive \cup {s}
        /\ WebFamilies' = [WebFamilies EXCEPT ![s] = s]
    BY <1>6 DEF WebChain!Open, WebLive, WebUsed, WebFamilies
  <2>2. \A x \in WebSessions : WebFamilies'[x] = IF x = s THEN s ELSE WebFamilies[x]
    BY <1>4, <2>1
  <2>. QED BY <1>0, <1>2, <1>3, <2>1, <2>2
<1>7. ASSUME NEW s \in WebSessions, NEW t \in WebSessions, WebChain!Rotate(s, t)
      PROVE  OneEndEach' /\ WebFamiliesExist'
  <2>1. /\ s \in WebLive /\ t \notin WebUsed
        /\ WebUsed' = WebUsed \cup {t} /\ WebLive' = (WebLive \ {s}) \cup {t}
        /\ WebFamilies' = [WebFamilies EXCEPT ![t] = WebFamilies[s]]
    BY <1>7 DEF WebChain!Rotate, WebLive, WebUsed, WebFamilies
  <2>2. \A x \in WebSessions : WebFamilies'[x] = IF x = t THEN WebFamilies[s] ELSE WebFamilies[x]
    BY <1>4, <2>1
  <2>3. OneEndEach'
    BY <1>0, <1>2, <2>1, <2>2
  <2>4. WebFamiliesExist'
    BY <1>0, <1>3, <2>1, <2>2
  <2>. QED BY <2>3, <2>4
<1>8. ASSUME NEW S \in SUBSET WebSessions, WebChain!Revoke(S) PROVE OneEndEach' /\ WebFamiliesExist'
  <2>1. WebUsed' = WebUsed /\ WebLive' = WebLive \ S /\ WebFamilies' = WebFamilies
    BY <1>8 DEF WebChain!Revoke, WebLive, WebUsed, WebFamilies
  <2>. QED BY <1>2, <1>3, <2>1
<1>9. ASSUME NEW s \in WebSessions, WebChain!Confirm(s) PROVE OneEndEach' /\ WebFamiliesExist'
  <2>1. WebUsed' = WebUsed /\ WebLive' = WebLive /\ WebFamilies' = WebFamilies
    BY <1>9 DEF WebChain!Confirm, WebLive, WebUsed, WebFamilies
  <2>. QED BY <1>2, <1>3, <2>1
<1>. QED BY <1>5, <1>6, <1>7, <1>8, <1>9 DEF WebChain!Next

\* The server the pages talk to is the abstract one of AuthSessions: its
\* sessions are opened, rotated once each inside their family, and revoked,
\* and a family never has two sessions that can be refreshed.
THEOREM PagesKeepChain == WebSpec => ServerKeepsChain /\ []OneEndEach
<1>1. WebInit => OneEndEach /\ WebFamiliesExist
  BY WebBounds DEF WebInit, OneEndEach, WebFamiliesExist, WebUsed, WebSessions
<1>2. WebTypeOK /\ WebTypeOK' /\ OneEndEach /\ WebFamiliesExist /\ [WebNext]_webVars => OneEndEach' /\ WebFamiliesExist'
  BY WebChainStep, OneEndStep
<1>3. WebTypeOK /\ [WebNext]_webVars => [WebChain!Next]_(WebChain!vars)
  BY WebChainStep
<1>. QED BY <1>1, <1>2, <1>3, WebTyping, PTL DEF WebSpec, ServerKeepsChain

=============================================================================
