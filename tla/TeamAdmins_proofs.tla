--------------------------- MODULE TeamAdmins_proofs ---------------------------
(***************************************************************************)
(* Proofs about TeamAdmins, for any number of members, teams and requests. *)
(* The inductive invariant says what the locks of a running patch protect: *)
(* the admins it counted and the target it read are still as it saw them.  *)
(***************************************************************************)
EXTENDS TeamAdmins, FiniteSetTheorems, TLAPS

(***************************************************************************)
(* Types                                                                   *)
(***************************************************************************)

Patching == {"admins", "target", "teams"}

\* An order of a finite set is a sequence of its elements.
LEMMA OrdersAreSequences ==
  ASSUME NEW T, IsFiniteSet(T), NEW S \in SUBSET T, NEW q \in Orders(S)
  PROVE  /\ q \in Seq(S) /\ q \in Seq(T)
         /\ DOMAIN q = 1..Len(q)
         /\ \A x \in S : \E i \in DOMAIN q : q[i] = x
         /\ \A i \in DOMAIN q : q[i] \in S
<1>1. Cardinality(S) \in Nat
  BY FS_Subset, FS_CardinalityType
<1>2. q \in [1..Cardinality(S) -> S] /\ \A x \in S : \E i \in DOMAIN q : q[i] = x
  BY DEF Orders
<1>3. q \in Seq(S)
  BY <1>1, <1>2
<1>4. q \in Seq(T)
  BY <1>1, <1>2
<1> QED
  BY <1>2, <1>3, <1>4

\* A patched row is a row.
LEMMA PatchedType ==
  ASSUME NEW r \in Rows, NEW patch \in Patches
  PROVE  Patched(r, patch) \in Rows
<1>1. patch.role \in Roles \cup {Keep} /\ patch.status \in {"active", "disabled", Keep}
  BY PatchesAssumption
<1> QED
  BY <1>1 DEF Patched, Rows, Statuses

\* What the audit of a patch leaves in the trail is a row.
LEMMA AuditedType ==
  ASSUME NEW r \in Rows, NEW seen, NEW patch \in Patches
  PROVE  Audited(r, seen, patch) \in Rows
<1>1. patch.role \in Roles \cup {Keep} /\ patch.status \in {"active", "disabled", Keep}
  BY PatchesAssumption
<1> QED
  BY <1>1 DEF Audited, Rows, Statuses

\* The audit of a patch whose target was read as it is describes the patch.
LEMMA AuditIsExact ==
  ASSUME NEW r \in Rows, NEW patch \in Patches
  PROVE  Audited(r, r, patch) = Patched(r, patch)
  BY DEF Audited, Patched, Rows

\* COMMIT and ROLLBACK keep the types of the locks and of the requests.
LEMMA ReleaseType ==
  ASSUME TypeOK, NEW p \in Procs, Release(p)
  PROVE  /\ memberLock' \in [Members -> Procs \cup {None}]
         /\ teamLock' \in [Teams -> Procs \cup {None}]
         /\ pc' \in [Procs -> Steps]
         /\ admins' \in [Procs -> SUBSET Members]
         /\ pc'[p] = "idle"
<1>1. memberLock' \in [Members -> Procs \cup {None}] /\ teamLock' \in [Teams -> Procs \cup {None}]
  BY DEF TypeOK, Release
<1> QED
  BY <1>1 DEF TypeOK, Release, Steps

\* The request of another process is not touched by a step of p.
Aside(p) == \A q \in Procs \ {p} :
  pc'[q] = pc[q] /\ job'[q] = job[q] /\ queue'[q] = queue[q] /\ admins'[q] = admins[q]

LEMMA RequestsOfOthers ==
  ASSUME NEW p \in Procs, Aside(p), \A q \in Procs : RequestOK(q), RequestOK(p)'
  PROVE  \A q \in Procs : RequestOK(q)'
  BY DEF Aside, RequestOK

LEMMA AsideRelease ==
  ASSUME TypeOK, NEW p \in Procs, Release(p)
  PROVE  Aside(p)
  BY DEF TypeOK, Release, Aside

\* A rollback, and any commit that keeps the types of what it writes.
LEMMA TypeOfRelease ==
  ASSUME TypeOK, NEW p \in Procs, Release(p),
         row' \in [Members -> Rows], trail' \in [Members -> Rows],
         teamOf' \in [Members -> Teams \cup {None}],
         manager' \in [Teams -> Members \cup {None, Gone}]
  PROVE  TypeOK'
<1>1. \A q \in Procs : RequestOK(q)'
  <2>1. RequestOK(p)'
    BY ReleaseType DEF RequestOK
  <2> QED
    BY <2>1, AsideRelease, RequestsOfOthers DEF TypeOK
<1>2. job' \in [Procs -> PatchJobs \cup AssignJobs \cup DeleteJobs \cup {None}]
  BY DEF TypeOK, Release
<1>3. <<>> \in Seq(Members)
  OBVIOUS
<1>4. queue' \in [Procs -> Seq(Members) \cup Seq(Teams)]
  BY <1>3 DEF TypeOK, Release
<1> QED
  BY <1>1, <1>2, <1>4, ReleaseType DEF TypeOK

\* A statement of p that moves to the step next with the input and the rows
\* to lock given, and keeps the types of the locks.
LEMMA TypeOfStatement ==
  ASSUME TypeOK, NEW p \in Procs, NEW next \in Steps, NEW input, NEW rows, NEW found,
         pc' = [pc EXCEPT ![p] = next],
         job' = [job EXCEPT ![p] = input],
         queue' = [queue EXCEPT ![p] = rows],
         admins' = [admins EXCEPT ![p] = found],
         found \in SUBSET Members,
         UNCHANGED <<row, trail, teamOf, manager>>,
         memberLock' \in [Members -> Procs \cup {None}],
         teamLock' \in [Teams -> Procs \cup {None}],
         rows \in Seq(Members) \cup Seq(Teams),
         next \in {"admins", "clear"} => rows \in Seq(Members),
         next = "teams" => rows \in Seq(Teams),
         input \in PatchJobs \cup AssignJobs \cup DeleteJobs,
         next \in Patching => input \in PatchJobs,
         next \in {"assign", "create"} => input \in AssignJobs,
         next = "clear" => input \in DeleteJobs
  PROVE  TypeOK'
<1>1. pc'[p] = next /\ job'[p] = input /\ queue'[p] = rows
  BY DEF TypeOK
<1>2. RequestOK(p)'
  BY <1>1 DEF RequestOK, Patching
<1>3. Aside(p)
  BY DEF TypeOK, Aside
<1>4. \A q \in Procs : RequestOK(q)'
  BY <1>2, <1>3, RequestsOfOthers DEF TypeOK
<1>5. job' \in [Procs -> PatchJobs \cup AssignJobs \cup DeleteJobs \cup {None}]
  BY DEF TypeOK
<1>6. queue' \in [Procs -> Seq(Members) \cup Seq(Teams)]
  BY DEF TypeOK
<1>7. pc' \in [Procs -> Steps] /\ admins' \in [Procs -> SUBSET Members]
  BY DEF TypeOK
<1> QED
  BY <1>4, <1>5, <1>6, <1>7 DEF TypeOK

\* A variable a statement leaves alone, in the form TypeOfStatement asks for.
LEMMA Kept ==
  ASSUME TypeOK, NEW p \in Procs
  PROVE  /\ pc = [pc EXCEPT ![p] = pc[p]]
         /\ job = [job EXCEPT ![p] = job[p]]
         /\ queue = [queue EXCEPT ![p] = queue[p]]
         /\ admins = [admins EXCEPT ![p] = admins[p]]
  BY DEF TypeOK

\* Head and tail of the rows a statement has still to lock.
LEMMA QueueHead ==
  ASSUME NEW T, NEW q \in Seq(T), q # <<>>
  PROVE  /\ Head(q) \in T /\ Tail(q) \in Seq(T)
         /\ Head(q) = q[1] /\ 1 \in DOMAIN q
         /\ DOMAIN q = 1..Len(q) /\ DOMAIN Tail(q) = 1..(Len(q) - 1) /\ Len(q) \in Nat
         /\ \A i \in 1..(Len(q) - 1) : Tail(q)[i] = q[i + 1]
  OBVIOUS

LEMMA TypeBeginPatch ==
  ASSUME TypeOK, NEW p \in Procs, BeginPatch(p)
  PROVE  TypeOK'
<1>1. PICK m \in Members, patch \in Patches, q \in Orders(ActiveAdmins) :
        Begin(p, "admins",
              [member |-> m, patch |-> patch, scan |-> ActiveAdmins, seen |-> None], q)
  BY DEF BeginPatch
<1>2. q \in Seq(Members)
  BY OrdersAreSequences, MembersAssumption DEF ActiveAdmins
<1>3. [member |-> m, patch |-> patch, scan |-> ActiveAdmins, seen |-> None] \in PatchJobs
  BY DEF PatchJobs, ActiveAdmins
<1>4. UNCHANGED <<row, trail, teamOf, manager, memberLock, teamLock, admins>>
  BY <1>1 DEF Begin
<1>5. memberLock' \in [Members -> Procs \cup {None}] /\ teamLock' \in [Teams -> Procs \cup {None}]
  BY <1>4 DEF TypeOK
<1>6. admins[p] \in SUBSET Members
  BY DEF TypeOK
<1>7. admins' = [admins EXCEPT ![p] = admins[p]]
  BY <1>4, Kept
<1>8. "admins" \in Steps
  BY DEF Steps
<1> HIDE DEF PatchJobs
<1> QED
  BY <1>1, <1>2, <1>3, <1>4, <1>5, <1>6, <1>7, <1>8, TypeOfStatement DEF Begin

LEMMA TypeBeginAssign ==
  ASSUME TypeOK, NEW p \in Procs, BeginAssign(p)
  PROVE  TypeOK'
<1>1. PICK m \in Members, t \in Teams, next \in {"assign", "create"} :
        Begin(p, next, [member |-> m, team |-> t], <<>>)
  BY DEF BeginAssign
<1>2. <<>> \in Seq(Members) /\ <<>> \in Seq(Teams)
  OBVIOUS
<1>3. [member |-> m, team |-> t] \in AssignJobs
  BY DEF AssignJobs
<1>4. UNCHANGED <<row, trail, teamOf, manager, memberLock, teamLock, admins>>
  BY <1>1 DEF Begin
<1>5. memberLock' \in [Members -> Procs \cup {None}] /\ teamLock' \in [Teams -> Procs \cup {None}]
  BY <1>4 DEF TypeOK
<1>6. admins[p] \in SUBSET Members
  BY DEF TypeOK
<1>7. admins' = [admins EXCEPT ![p] = admins[p]]
  BY <1>4, Kept
<1>8. next \in Steps /\ next \notin Patching /\ next # "clear"
  BY DEF Steps, Patching
<1> QED
  BY <1>1, <1>2, <1>3, <1>4, <1>5, <1>6, <1>7, <1>8, TypeOfStatement DEF Begin

LEMMA TypeBeginDelete ==
  ASSUME TypeOK, NEW p \in Procs, BeginDelete(p)
  PROVE  TypeOK'
<1>1. PICK t \in Teams : \E q \in Orders({m \in Members : teamOf[m] = t}) :
        Begin(p, "clear", [team |-> t], q)
  BY DEF BeginDelete
<1>2. PICK q \in Orders({m \in Members : teamOf[m] = t}) : Begin(p, "clear", [team |-> t], q)
  BY <1>1
<1>3. q \in Seq(Members)
  <2> DEFINE S == {m \in Members : teamOf[m] = t}
  <2>1. S \in SUBSET Members /\ q \in Orders(S)
    BY <1>2
  <2> HIDE DEF S
  <2> QED
    BY <2>1, OrdersAreSequences, MembersAssumption
<1>4. [team |-> t] \in DeleteJobs
  BY DEF DeleteJobs
<1>5. UNCHANGED <<row, trail, teamOf, manager, memberLock, teamLock, admins>>
  BY <1>2 DEF Begin
<1>6. memberLock' \in [Members -> Procs \cup {None}] /\ teamLock' \in [Teams -> Procs \cup {None}]
  BY <1>5 DEF TypeOK
<1>7. admins[p] \in SUBSET Members
  BY DEF TypeOK
<1>8. admins' = [admins EXCEPT ![p] = admins[p]]
  BY <1>5, Kept
<1>9. "clear" \in Steps /\ "clear" \notin Patching
  BY DEF Steps, Patching
<1> QED
  BY <1>2, <1>3, <1>4, <1>5, <1>6, <1>7, <1>8, <1>9, TypeOfStatement DEF Begin

LEMMA TypeLockAdmin ==
  ASSUME TypeOK, NEW p \in Procs, LockAdmin(p)
  PROVE  TypeOK'
<1> DEFINE found == admins'[p]
<1>1. pc[p] = "admins" /\ queue[p] # <<>>
  BY DEF LockAdmin
<1>2. queue[p] \in Seq(Members) /\ job[p] \in PatchJobs
  BY <1>1 DEF TypeOK, RequestOK
<1>3. Head(queue[p]) \in Members /\ Tail(queue[p]) \in Seq(Members)
  BY <1>1, <1>2, QueueHead
<1>4. found \in SUBSET Members /\ admins' = [admins EXCEPT ![p] = found]
  BY <1>3 DEF LockAdmin, TypeOK
<1>5. memberLock' \in [Members -> Procs \cup {None}] /\ teamLock' \in [Teams -> Procs \cup {None}]
  BY DEF LockAdmin, TypeOK
<1>6. pc' = [pc EXCEPT ![p] = "admins"] /\ job' = [job EXCEPT ![p] = job[p]]
  BY <1>1, Kept DEF LockAdmin
<1>7. queue' = [queue EXCEPT ![p] = Tail(queue[p])] /\ UNCHANGED <<row, trail, teamOf, manager>>
  BY DEF LockAdmin
<1>8. "admins" \in Steps
  BY DEF Steps
<1> HIDE DEF found
<1> QED
  BY <1>2, <1>3, <1>4, <1>5, <1>6, <1>7, <1>8, TypeOfStatement

LEMMA TypeLockTarget ==
  ASSUME TypeOK, NEW p \in Procs, LockTarget(p)
  PROVE  TypeOK'
<1> DEFINE input == [job[p] EXCEPT !.seen = row[job[p].member]]
<1>1. pc[p] = "admins" /\ queue[p] = <<>>
  BY DEF LockTarget
<1>2. job[p] \in PatchJobs
  BY <1>1 DEF TypeOK, RequestOK
<1>3. job[p].member \in Members
  BY <1>2 DEF PatchJobs
<1>4. row[job[p].member] \in Rows
  BY <1>3 DEF TypeOK
<1>5. input \in PatchJobs
  BY <1>2, <1>4 DEF PatchJobs
<1>6. job' = [job EXCEPT ![p] = input]
  BY DEF LockTarget
<1>7. memberLock' \in [Members -> Procs \cup {None}] /\ teamLock' \in [Teams -> Procs \cup {None}]
  BY DEF LockTarget, TypeOK
<1>8. /\ pc' = [pc EXCEPT ![p] = "target"]
      /\ queue' = [queue EXCEPT ![p] = <<>>]
      /\ admins' = [admins EXCEPT ![p] = admins[p]]
      /\ UNCHANGED <<row, trail, teamOf, manager>>
  BY <1>1, Kept DEF LockTarget
<1>9. "target" \in Steps /\ <<>> \in Seq(Members) /\ admins[p] \in SUBSET Members
  BY DEF Steps, TypeOK
<1> HIDE DEF input
<1> QED
  BY <1>5, <1>6, <1>7, <1>8, <1>9, TypeOfStatement

LEMMA TypeFindTeams ==
  ASSUME TypeOK, NEW p \in Procs, FindTeams(p)
  PROVE  TypeOK'
<1> DEFINE S == {t \in Teams : BecameDisabled(p) /\ manager[t] = job[p].member}
<1>1. PICK q \in Orders(S) : queue' = [queue EXCEPT ![p] = q]
  BY DEF FindTeams
<1>2. S \in SUBSET Teams
  OBVIOUS
<1> HIDE DEF S
<1>3. q \in Seq(Teams)
  BY <1>1, <1>2, OrdersAreSequences, MembersAssumption
<1>4. job[p] \in PatchJobs
  BY DEF FindTeams, TypeOK, RequestOK
<1>5. memberLock' \in [Members -> Procs \cup {None}] /\ teamLock' \in [Teams -> Procs \cup {None}]
  BY DEF FindTeams, TypeOK
<1>6. /\ pc' = [pc EXCEPT ![p] = "teams"]
      /\ job' = [job EXCEPT ![p] = job[p]]
      /\ admins' = [admins EXCEPT ![p] = admins[p]]
      /\ UNCHANGED <<row, trail, teamOf, manager>>
  BY Kept DEF FindTeams
<1>7. "teams" \in Steps /\ admins[p] \in SUBSET Members
  BY DEF Steps, TypeOK
<1> QED
  BY <1>1, <1>3, <1>4, <1>5, <1>6, <1>7, TypeOfStatement

LEMMA TypeLockTeam ==
  ASSUME TypeOK, NEW p \in Procs, LockTeam(p)
  PROVE  TypeOK'
<1>1. pc[p] = "teams" /\ queue[p] # <<>>
  BY DEF LockTeam
<1>2. queue[p] \in Seq(Teams) /\ job[p] \in PatchJobs
  BY <1>1 DEF TypeOK, RequestOK
<1>3. Tail(queue[p]) \in Seq(Teams)
  BY <1>1, <1>2, QueueHead
<1>4. memberLock' \in [Members -> Procs \cup {None}] /\ teamLock' \in [Teams -> Procs \cup {None}]
  BY DEF LockTeam, TypeOK
<1>5. /\ pc' = [pc EXCEPT ![p] = "teams"]
      /\ job' = [job EXCEPT ![p] = job[p]]
      /\ admins' = [admins EXCEPT ![p] = admins[p]]
      /\ UNCHANGED <<row, trail, teamOf, manager>>
  BY <1>1, Kept DEF LockTeam
<1>6. queue' = [queue EXCEPT ![p] = Tail(queue[p])]
  BY DEF LockTeam
<1>7. "teams" \in Steps /\ admins[p] \in SUBSET Members
  BY DEF Steps, TypeOK
<1> QED
  BY <1>2, <1>3, <1>4, <1>5, <1>6, <1>7, TypeOfStatement

LEMMA TypeLockTeammate ==
  ASSUME TypeOK, NEW p \in Procs, LockTeammate(p)
  PROVE  TypeOK'
<1>1. pc[p] = "clear" /\ queue[p] # <<>>
  BY DEF LockTeammate
<1>2. queue[p] \in Seq(Members) /\ job[p] \in DeleteJobs
  BY <1>1 DEF TypeOK, RequestOK
<1>3. Tail(queue[p]) \in Seq(Members)
  BY <1>1, <1>2, QueueHead
<1>4. memberLock' \in [Members -> Procs \cup {None}] /\ teamLock' \in [Teams -> Procs \cup {None}]
  BY DEF LockTeammate, TypeOK
<1>5. /\ pc' = [pc EXCEPT ![p] = "clear"]
      /\ job' = [job EXCEPT ![p] = job[p]]
      /\ admins' = [admins EXCEPT ![p] = admins[p]]
      /\ UNCHANGED <<row, trail, teamOf, manager>>
  BY <1>1, Kept DEF LockTeammate
<1>6. queue' = [queue EXCEPT ![p] = Tail(queue[p])]
  BY DEF LockTeammate
<1>7. "clear" \in Steps /\ "clear" \notin Patching /\ admins[p] \in SUBSET Members
  BY DEF Steps, TypeOK, Patching
<1> QED
  BY <1>2, <1>3, <1>4, <1>5, <1>6, <1>7, TypeOfStatement

LEMMA TypeRollback ==
  ASSUME TypeOK, NEW p \in Procs, Rollback(p)
  PROVE  TypeOK'
<1>1. Release(p) /\ UNCHANGED <<row, teamOf, manager, trail>>
  BY DEF Rollback
<1>2. /\ row' \in [Members -> Rows] /\ trail' \in [Members -> Rows]
      /\ teamOf' \in [Members -> Teams \cup {None}]
      /\ manager' \in [Teams -> Members \cup {None, Gone}]
  BY <1>1 DEF TypeOK
<1> QED
  BY <1>1, <1>2, TypeOfRelease

LEMMA TypeCommits ==
  ASSUME TypeOK, NEW p \in Procs,
         CommitPatch(p) \/ AssignManager(p) \/ CreateTeam(p) \/ DeleteTeam(p)
  PROVE  TypeOK'
<1>1. CASE CommitPatch(p)
  <2>1. pc[p] = "teams"
    BY <1>1 DEF CommitPatch
  <2>2. job[p] \in PatchJobs
    BY <2>1 DEF TypeOK, RequestOK
  <2>3. job[p].member \in Members /\ job[p].patch \in Patches
    BY <2>2 DEF PatchJobs
  <2>4. row[job[p].member] \in Rows /\ trail[job[p].member] \in Rows
    BY <2>3 DEF TypeOK
  <2>5. /\ Patched(row[job[p].member], job[p].patch) \in Rows
        /\ Audited(trail[job[p].member], job[p].seen, job[p].patch) \in Rows
    BY <2>3, <2>4, PatchedType, AuditedType
  <2>6. row' \in [Members -> Rows] /\ trail' \in [Members -> Rows]
    BY <1>1, <2>5 DEF CommitPatch, TypeOK
  <2>7. manager' \in [Teams -> Members \cup {None, Gone}]
    BY <1>1 DEF CommitPatch, TypeOK
  <2>8. teamOf' \in [Members -> Teams \cup {None}] /\ Release(p)
    BY <1>1 DEF CommitPatch, TypeOK
  <2> QED
    BY <2>6, <2>7, <2>8, TypeOfRelease
<1>2. CASE AssignManager(p) \/ CreateTeam(p)
  <2>1. job[p] \in AssignJobs /\ Release(p)
    BY <1>2 DEF AssignManager, CreateTeam, TypeOK, RequestOK
  <2>2. job[p].member \in Members
    BY <2>1 DEF AssignJobs
  <2>3. manager' \in [Teams -> Members \cup {None, Gone}]
    BY <1>2, <2>2 DEF AssignManager, CreateTeam, TypeOK
  <2>4. /\ row' \in [Members -> Rows] /\ trail' \in [Members -> Rows]
        /\ teamOf' \in [Members -> Teams \cup {None}]
    BY <1>2 DEF AssignManager, CreateTeam, TypeOK
  <2> QED
    BY <2>1, <2>3, <2>4, TypeOfRelease
<1>3. CASE DeleteTeam(p)
  <2>1. /\ row' \in [Members -> Rows] /\ trail' \in [Members -> Rows]
        /\ teamOf' \in [Members -> Teams \cup {None}]
        /\ manager' \in [Teams -> Members \cup {None, Gone}]
        /\ Release(p)
    BY <1>3 DEF DeleteTeam, TypeOK
  <2> QED
    BY <2>1, TypeOfRelease
<1> QED
  BY <1>1, <1>2, <1>3

LEMMA TypeOthers ==
  ASSUME TypeOK, (\E t \in Teams : LeaveUnmanaged(t)) \/ (\E m \in Members : Join(m))
  PROVE  TypeOK'
<1>1. CASE \E t \in Teams : LeaveUnmanaged(t)
  BY <1>1 DEF LeaveUnmanaged, TypeOK, RequestOK
<1>2. CASE \E m \in Members : Join(m)
  <2>1. PICK m \in Members, r \in Roles, t \in Teams \cup {None} :
          /\ row' = [row EXCEPT ![m] = [role |-> r, status |-> "active"]]
          /\ trail' = [trail EXCEPT ![m] = [role |-> r, status |-> "active"]]
          /\ teamOf' = [teamOf EXCEPT ![m] = t]
    BY <1>2 DEF Join
  <2>2. [role |-> r, status |-> "active"] \in Rows
    BY DEF Rows, Statuses
  <2>3. UNCHANGED <<manager, memberLock, teamLock, pc, job, queue, admins>>
    BY <1>2 DEF Join
  <2> QED
    BY <2>1, <2>2, <2>3 DEF TypeOK, RequestOK
<1> QED
  BY <1>1, <1>2

\* The steps of a running request, told apart for the proofs below.
LEMMA Disjuncts ==
  ASSUME Next
  PROVE  \/ \E p \in Procs : BeginPatch(p)
         \/ \E p \in Procs : BeginAssign(p)
         \/ \E p \in Procs : BeginDelete(p)
         \/ \E p \in Procs : LockAdmin(p)
         \/ \E p \in Procs : LockTarget(p)
         \/ \E p \in Procs : FindTeams(p)
         \/ \E p \in Procs : LockTeam(p)
         \/ \E p \in Procs : LockTeammate(p)
         \/ \E p \in Procs : CommitPatch(p)
         \/ \E p \in Procs : AssignManager(p) \/ CreateTeam(p) \/ DeleteTeam(p)
         \/ \E p \in Procs : Rollback(p)
         \/ (\E t \in Teams : LeaveUnmanaged(t)) \/ (\E m \in Members : Join(m))
<1>1. CASE \E p \in Procs : Advance(p) \/ TxFails(p)
  <2>1. PICK p \in Procs : Advance(p) \/ TxFails(p)
    BY <1>1
  <2>2. TargetMissing(p) \/ RefuseLastAdmin(p) \/ DeleteRefused(p) \/ BreakDeadlock(p) \/ TxFails(p)
          => Rollback(p)
    BY DEF TargetMissing, RefuseLastAdmin, DeleteRefused, BreakDeadlock, TxFails
  <2> QED
    BY <2>1, <2>2 DEF Advance
<1> QED
  BY <1>1 DEF Next

LEMMA TypeStep == TypeOK /\ [Next]_vars => TypeOK'
<1> SUFFICES ASSUME TypeOK, [Next]_vars PROVE TypeOK'
  OBVIOUS
<1>1. CASE Next
  BY <1>1, Disjuncts, TypeBeginPatch, TypeBeginAssign, TypeBeginDelete, TypeLockAdmin,
     TypeLockTarget, TypeFindTeams, TypeLockTeam, TypeLockTeammate, TypeRollback,
     TypeCommits, TypeOthers
<1>2. CASE UNCHANGED vars
  BY <1>2 DEF vars, TypeOK, RequestOK
<1> QED
  BY <1>1, <1>2

LEMMA TypeInit == Init => TypeOK
<1> SUFFICES ASSUME Init PROVE TypeOK
  OBVIOUS
<1>1. row \in [Members -> Rows]
  BY RolesAssumption DEF Init, Rows, Statuses
<1>2. <<>> \in Seq(Members) \cup Seq(Teams)
  OBVIOUS
<1> QED
  BY <1>1, <1>2 DEF Init, TypeOK, RequestOK, Steps

\* Every variable keeps its type, and a running request has the input its
\* statement needs.
THEOREM Typing == Spec => []TypeOK
  BY TypeInit, TypeStep, PTL DEF Spec

(***************************************************************************)
(* What the locks of a running patch protect                               *)
(***************************************************************************)

\* A request that has counted no admins has none recorded.
Clean(p) == pc[p] \notin Patching => admins[p] = {}

\* The admins counted so far are locked, hence still active admins.
Counted(p) == \A m \in admins[p] : memberLock[m] = p /\ IsAdmin(row[m])

\* The target is locked, hence still the row that was read and checked.
Chosen(p) ==
  pc[p] \in {"target", "teams"} =>
    /\ memberLock[job[p].member] = p
    /\ row[job[p].member].status # "absent"
    /\ job[p].seen = row[job[p].member]
    /\ ~LastAdmin(p, row[job[p].member])

Protected(p) == Clean(p) /\ Counted(p) /\ Chosen(p)

IInv == TypeOK /\ (\A p \in Procs : Protected(p)) /\ AdminRemains /\ AuditTellsRows

\* A request that does not move keeps its protection while the rows it has
\* locked stay locked and unchanged.
LEMMA StillProtected ==
  ASSUME TypeOK, NEW q \in Procs, Protected(q),
         pc'[q] = pc[q], job'[q] = job[q], admins'[q] = admins[q],
         \A m \in Members : memberLock[m] = q /\ row[m].status # "absent"
                            => memberLock'[m] = q /\ row'[m] = row[m]
  PROVE  Protected(q)'
<1>1. Clean(q)'
  BY DEF Protected, Clean
<1>2. Counted(q)'
  <2>1. admins[q] \subseteq Members
    BY DEF TypeOK
  <2> QED
    BY <2>1 DEF Protected, Counted, IsAdmin
<1>3. Chosen(q)'
  <2> SUFFICES ASSUME pc[q] \in {"target", "teams"} PROVE Chosen(q)'
    BY DEF Chosen
  <2>1. /\ memberLock[job[q].member] = q
        /\ row[job[q].member].status # "absent"
        /\ job[q].seen = row[job[q].member]
        /\ ~LastAdmin(q, row[job[q].member])
    BY DEF Protected, Chosen
  <2>2. job[q].member \in Members
    BY DEF TypeOK, RequestOK, PatchJobs
  <2>3. memberLock'[job[q].member] = q /\ row'[job[q].member] = row[job[q].member]
    BY <2>1, <2>2
  <2>4. ~LastAdmin(q, row[job[q].member])'
    BY <2>1, <2>3 DEF LastAdmin
  <2> QED
    BY <2>1, <2>3, <2>4 DEF Chosen
<1> QED
  BY <1>1, <1>2, <1>3 DEF Protected

\* A statement that takes locks that were free and writes no row keeps the
\* protection of all requests but its own.
LEMMA StatementProtects ==
  ASSUME TypeOK, \A q \in Procs : Protected(q), NEW p \in Procs, Aside(p),
         \A m \in Members : memberLock'[m] = memberLock[m] \/ memberLock[m] \in {None, p},
         UNCHANGED row, Protected(p)'
  PROVE  \A q \in Procs : Protected(q)'
<1> SUFFICES ASSUME NEW q \in Procs, q # p PROVE Protected(q)'
  OBVIOUS
<1>1. q # None
  BY NoneAssumption
<1>2. pc'[q] = pc[q] /\ job'[q] = job[q] /\ admins'[q] = admins[q]
  BY DEF Aside
<1>3. \A m \in Members : memberLock[m] = q => memberLock'[m] = q /\ row'[m] = row[m]
  BY <1>1
<1> QED
  BY <1>2, <1>3, StillProtected

\* The end of a transaction keeps the protection of the others if it writes
\* only rows the transaction has locked.
LEMMA ReleaseProtects ==
  ASSUME TypeOK, \A q \in Procs : Protected(q), NEW p \in Procs, Release(p),
         \A m \in Members : row'[m] = row[m] \/ memberLock[m] = p
  PROVE  \A q \in Procs : Protected(q)'
<1>1. Protected(p)'
  <2>1. pc'[p] = "idle" /\ admins'[p] = {}
    BY DEF Release, TypeOK
  <2> QED
    BY <2>1 DEF Protected, Clean, Counted, Chosen
<1>2. ASSUME NEW q \in Procs, q # p PROVE Protected(q)'
  <2>1. pc'[q] = pc[q] /\ job'[q] = job[q] /\ admins'[q] = admins[q]
    BY <1>2, AsideRelease DEF Aside
  <2>2. \A m \in Members : memberLock[m] = q => memberLock'[m] = q /\ row'[m] = row[m]
    BY <1>2 DEF Release
  <2> QED
    BY <2>1, <2>2, StillProtected
<1> QED
  BY <1>1, <1>2

\* Requests that have not read their target yet, or never will.
LEMMA BeginProtects ==
  ASSUME TypeOK, \A q \in Procs : Protected(q), NEW p \in Procs, NEW next, NEW input, NEW rows,
         Begin(p, next, input, rows), next \notin {"target", "teams"}
  PROVE  \A q \in Procs : Protected(q)'
<1>1. pc'[p] = next /\ admins'[p] = {} /\ Aside(p)
  BY DEF Begin, TypeOK, Protected, Clean, Patching, Aside
<1>2. Protected(p)'
  BY <1>1 DEF Protected, Clean, Counted, Chosen
<1> QED
  BY <1>1, <1>2, StatementProtects DEF Begin

LEMMA LockAdminProtects ==
  ASSUME TypeOK, \A q \in Procs : Protected(q), NEW p \in Procs, LockAdmin(p)
  PROVE  \A q \in Procs : Protected(q)'
<1> DEFINE h == Head(queue[p])
<1>1. pc[p] = "admins" /\ pc'[p] = "admins" /\ queue[p] # <<>>
  BY DEF LockAdmin
<1>2. h \in Members
  BY <1>1, QueueHead DEF TypeOK, RequestOK
<1>3. /\ MemberFree(p, h)
      /\ memberLock' = [memberLock EXCEPT ![h] = p]
      /\ admins' = [admins EXCEPT ![p] = IF IsAdmin(row[h]) THEN @ \cup {h} ELSE @]
      /\ UNCHANGED <<row, pc, job>>
  BY DEF LockAdmin
<1>4. Aside(p)
  BY DEF LockAdmin, TypeOK, Aside
<1> HIDE DEF h
<1>5. admins[p] \subseteq Members /\ admins'[p] \subseteq admins[p] \cup {h}
  BY <1>3 DEF TypeOK
<1>6. h \in admins'[p] => IsAdmin(row[h])
  BY <1>3 DEF TypeOK, Protected, Counted
<1>7. Counted(p)'
  BY <1>2, <1>3, <1>5, <1>6 DEF Protected, Counted, TypeOK
<1>8. Protected(p)'
  BY <1>1, <1>7 DEF Protected, Clean, Chosen, Patching
<1>9. \A m \in Members : memberLock'[m] = memberLock[m] \/ memberLock[m] \in {None, p}
  BY <1>2, <1>3 DEF MemberFree, TypeOK
<1> QED
  BY <1>3, <1>4, <1>8, <1>9, StatementProtects

LEMMA LockTargetProtects ==
  ASSUME TypeOK, \A q \in Procs : Protected(q), NEW p \in Procs, LockTarget(p)
  PROVE  \A q \in Procs : Protected(q)'
<1>1. PICK m : m = job[p].member
  OBVIOUS
<1>2. pc[p] = "admins" /\ pc'[p] = "target"
  BY DEF LockTarget, TypeOK
<1>3. job[p] \in PatchJobs /\ m \in Members
  BY <1>1, <1>2 DEF TypeOK, RequestOK, PatchJobs
<1>4. /\ row[m].status # "absent" /\ MemberFree(p, m)
      /\ ~LastAdmin(p, row[m])
      /\ memberLock' = [memberLock EXCEPT ![m] = p]
      /\ job' = [job EXCEPT ![p].seen = row[m]]
      /\ UNCHANGED <<row, admins>>
  BY <1>1 DEF LockTarget
<1>5. Aside(p)
  BY DEF LockTarget, TypeOK, Aside
<1>6. job'[p] = [job[p] EXCEPT !.seen = row[m]]
  BY <1>4 DEF TypeOK
<1>7. job'[p].member = m /\ job'[p].seen = row[m] /\ job'[p].patch = job[p].patch
  BY <1>1, <1>3, <1>6 DEF PatchJobs
<1>8. ~LastAdmin(p, row[m])'
  BY <1>1, <1>4, <1>7 DEF LastAdmin
<1>9. Chosen(p)'
  BY <1>3, <1>4, <1>7, <1>8 DEF Chosen, TypeOK
<1>10. \A n \in Members : memberLock[n] = p => memberLock'[n] = p
  BY <1>3, <1>4 DEF TypeOK
<1>11. Counted(p)'
  <2>1. admins[p] \subseteq Members
    BY DEF TypeOK
  <2> QED
    BY <1>4, <1>10, <2>1 DEF Protected, Counted
<1>12. Protected(p)'
  BY <1>2, <1>9, <1>11 DEF Protected, Clean, Patching
<1>13. \A n \in Members : memberLock'[n] = memberLock[n] \/ memberLock[n] \in {None, p}
  BY <1>3, <1>4 DEF MemberFree, TypeOK
<1> QED
  BY <1>4, <1>5, <1>12, <1>13, StatementProtects

\* The statements after the target is locked touch teams only.
LEMMA TeamStatementsProtect ==
  ASSUME TypeOK, \A q \in Procs : Protected(q), NEW p \in Procs, FindTeams(p) \/ LockTeam(p)
  PROVE  \A q \in Procs : Protected(q)'
<1>1. Aside(p) /\ UNCHANGED <<row, memberLock, job, admins>>
  BY DEF FindTeams, LockTeam, TypeOK, Aside
<1>2. pc[p] \in {"target", "teams"} /\ pc'[p] = "teams"
  BY DEF FindTeams, LockTeam, TypeOK
<1>3. Protected(p)'
  BY <1>1, <1>2 DEF Protected, Clean, Counted, Chosen, Patching, LastAdmin
<1> QED
  BY <1>1, <1>3, StatementProtects

LEMMA LockTeammateProtects ==
  ASSUME TypeOK, \A q \in Procs : Protected(q), NEW p \in Procs, LockTeammate(p)
  PROVE  \A q \in Procs : Protected(q)'
<1>1. Aside(p) /\ UNCHANGED <<row, job, admins, pc>>
  BY DEF LockTeammate, TypeOK, Aside
<1>2. pc[p] = "clear" /\ queue[p] # <<>>
  BY DEF LockTeammate
<1>3. Protected(p)'
  BY <1>1, <1>2 DEF Protected, Clean, Counted, Chosen, Patching
<1>4. \A m \in Members : memberLock'[m] = memberLock[m] \/ memberLock[m] \in {None, p}
  BY DEF LockTeammate, MemberFree, TypeOK
<1> QED
  BY <1>1, <1>3, <1>4, StatementProtects

LEMMA CommitPatchWrites ==
  ASSUME TypeOK, NEW p \in Procs, Protected(p), CommitPatch(p)
  PROVE  /\ job[p].member \in Members /\ job[p].patch \in Patches
         /\ memberLock[job[p].member] = p
         /\ row' = [row EXCEPT ![job[p].member] = Patched(@, job[p].patch)]
         /\ trail' = [trail EXCEPT ![job[p].member]
                        = Audited(@, row[job[p].member], job[p].patch)]
         /\ Release(p)
         /\ ~LastAdmin(p, row[job[p].member])
<1>1. pc[p] = "teams"
  BY DEF CommitPatch
<1>2. job[p] \in PatchJobs
  BY <1>1 DEF TypeOK, RequestOK
<1> QED
  BY <1>1, <1>2 DEF CommitPatch, Protected, Chosen, PatchJobs

\* Locks protect what was read, whatever step is taken.
LEMMA ProtectedStep ==
  TypeOK /\ (\A q \in Procs : Protected(q)) /\ [Next]_vars => \A q \in Procs : Protected(q)'
<1> SUFFICES ASSUME TypeOK, \A q \in Procs : Protected(q), [Next]_vars
             PROVE  \A q \in Procs : Protected(q)'
  OBVIOUS
<1>1. ASSUME NEW p \in Procs, BeginPatch(p) \/ BeginAssign(p) \/ BeginDelete(p)
      PROVE  \A q \in Procs : Protected(q)'
  <2>1. PICK next \in {"admins", "assign", "create", "clear"} :
          \E input, rows : Begin(p, next, input, rows)
    BY <1>1 DEF BeginPatch, BeginAssign, BeginDelete
  <2>2. PICK input, rows : Begin(p, next, input, rows)
    BY <2>1
  <2> QED
    BY <2>1, <2>2, BeginProtects
<1>2. ASSUME NEW p \in Procs, CommitPatch(p)
      PROVE  \A q \in Procs : Protected(q)'
  <2>1. \A m \in Members : row'[m] = row[m] \/ memberLock[m] = p
    BY <1>2, CommitPatchWrites DEF TypeOK
  <2> QED
    BY <1>2, <2>1, CommitPatchWrites, ReleaseProtects
<1>3. ASSUME NEW p \in Procs,
             AssignManager(p) \/ CreateTeam(p) \/ DeleteTeam(p) \/ Rollback(p)
      PROVE  \A q \in Procs : Protected(q)'
  <2>1. Release(p) /\ UNCHANGED row
    BY <1>3 DEF AssignManager, CreateTeam, DeleteTeam, Rollback
  <2> QED
    BY <2>1, ReleaseProtects
<1>4. CASE (\E t \in Teams : LeaveUnmanaged(t)) \/ (\E m \in Members : Join(m))
  <2>1. UNCHANGED <<pc, job, admins, memberLock>>
    BY <1>4 DEF LeaveUnmanaged, Join
  <2>2. \A m \in Members : row[m].status # "absent" => row'[m] = row[m]
    BY <1>4 DEF LeaveUnmanaged, Join, TypeOK
  <2> QED
    BY <2>1, <2>2, StillProtected
<1>5. CASE UNCHANGED vars
  BY <1>5, StillProtected DEF vars
<1> QED
  BY <1>1, <1>2, <1>3, <1>4, <1>5, Disjuncts, LockAdminProtects, LockTargetProtects,
     TeamStatementsProtect, LockTeammateProtects

(***************************************************************************)
(* An admin remains, and the audit tells the rows                          *)
(***************************************************************************)

\* Only the commit of a patch and a new member change memberships.
LEMMA RowsChangeBy ==
  ASSUME TypeOK, [Next]_vars
  PROVE  \/ UNCHANGED <<row, trail>>
         \/ \E p \in Procs : CommitPatch(p)
         \/ \E m \in Members : Join(m)
<1>1. ASSUME NEW p \in Procs, BeginPatch(p) \/ BeginAssign(p) \/ BeginDelete(p)
      PROVE  UNCHANGED <<row, trail>>
  BY <1>1 DEF BeginPatch, BeginAssign, BeginDelete, Begin
<1>2. ASSUME NEW p \in Procs, LockAdmin(p) \/ LockTarget(p) \/ FindTeams(p) \/ LockTeam(p)
                                \/ LockTeammate(p)
      PROVE  UNCHANGED <<row, trail>>
  BY <1>2 DEF LockAdmin, LockTarget, FindTeams, LockTeam, LockTeammate
<1>3. ASSUME NEW p \in Procs,
             AssignManager(p) \/ CreateTeam(p) \/ DeleteTeam(p) \/ Rollback(p)
      PROVE  UNCHANGED <<row, trail>>
  BY <1>3 DEF AssignManager, CreateTeam, DeleteTeam, Rollback
<1>4. ASSUME NEW t \in Teams, LeaveUnmanaged(t) PROVE UNCHANGED <<row, trail>>
  BY <1>4 DEF LeaveUnmanaged
<1>5. CASE UNCHANGED vars
  BY <1>5 DEF vars
<1> QED
  BY <1>1, <1>2, <1>3, <1>4, <1>5, Disjuncts

\* A patch that takes its target out of the active admins leaves another one,
\* which it has locked; any other patch takes none away.
LEMMA AdminsStep == IInv /\ [Next]_vars => AdminRemains'
<1> SUFFICES ASSUME IInv, [Next]_vars PROVE AdminRemains'
  OBVIOUS
<1>0. TypeOK /\ AdminRemains /\ \A p \in Procs : Protected(p)
  BY DEF IInv
<1>1. PICK a \in Members : IsAdmin(row[a])
  BY <1>0 DEF AdminRemains, ActiveAdmins
<1>2. CASE UNCHANGED <<row, trail>>
  BY <1>1, <1>2 DEF AdminRemains, ActiveAdmins
<1>3. CASE \E m \in Members : Join(m)
  <2>1. PICK m \in Members : Join(m)
    BY <1>3
  <2>2. row'[a] = row[a]
    BY <1>0, <1>1, <2>1 DEF Join, TypeOK, IsAdmin
  <2> QED
    BY <1>1, <2>2 DEF AdminRemains, ActiveAdmins
<1>4. CASE \E p \in Procs : CommitPatch(p)
  <2>1. PICK p \in Procs : CommitPatch(p)
    BY <1>4
  <2>2. PICK m : m = job[p].member
    OBVIOUS
  <2>3. /\ m \in Members
        /\ row' = [row EXCEPT ![m] = Patched(row[m], job[p].patch)]
        /\ ~LastAdmin(p, row[m])
    BY <1>0, <2>1, <2>2, CommitPatchWrites
  <2>4. \A n \in Members : n # m => row'[n] = row[n]
    BY <1>0, <2>3 DEF TypeOK
  <2>5. row'[m] = Patched(row[m], job[p].patch)
    BY <1>0, <2>3 DEF TypeOK
  <2>6. CASE a # m
    BY <1>1, <2>4, <2>6 DEF AdminRemains, ActiveAdmins
  <2>7. CASE a = m /\ IsAdmin(Patched(row[m], job[p].patch))
    BY <2>3, <2>5, <2>7 DEF AdminRemains, ActiveAdmins
  <2>8. CASE a = m /\ ~IsAdmin(Patched(row[m], job[p].patch))
    <3>1. PICK b \in admins[p] : b # m
      BY <1>1, <2>2, <2>3, <2>8 DEF LastAdmin
    <3>2. b \in Members /\ IsAdmin(row[b])
      BY <1>0, <3>1 DEF Protected, Counted, TypeOK
    <3> QED
      BY <2>4, <3>1, <3>2 DEF AdminRemains, ActiveAdmins
  <2> QED
    BY <2>6, <2>7, <2>8
<1> QED
  BY <1>0, <1>2, <1>3, <1>4, RowsChangeBy

LEMMA AuditStep == IInv /\ [Next]_vars => AuditTellsRows'
<1> SUFFICES ASSUME IInv, [Next]_vars PROVE AuditTellsRows'
  OBVIOUS
<1>0. TypeOK /\ AuditTellsRows /\ \A p \in Procs : Protected(p)
  BY DEF IInv
<1>1. CASE UNCHANGED <<row, trail>>
  BY <1>0, <1>1 DEF AuditTellsRows
<1>2. CASE \E m \in Members : Join(m)
  BY <1>0, <1>2 DEF AuditTellsRows, Join
<1>3. CASE \E p \in Procs : CommitPatch(p)
  <2>1. PICK p \in Procs : CommitPatch(p)
    BY <1>3
  <2>2. PICK m : m = job[p].member
    OBVIOUS
  <2>3. /\ m \in Members /\ job[p].patch \in Patches
        /\ row' = [row EXCEPT ![m] = Patched(row[m], job[p].patch)]
        /\ trail' = [trail EXCEPT ![m] = Audited(trail[m], row[m], job[p].patch)]
    BY <1>0, <2>1, <2>2, CommitPatchWrites
  <2>4. trail[m] = row[m] /\ row[m] \in Rows
    BY <1>0, <2>3 DEF AuditTellsRows, TypeOK
  <2>5. Audited(trail[m], row[m], job[p].patch) = Patched(row[m], job[p].patch)
    BY <2>3, <2>4, AuditIsExact
  <2> QED
    BY <1>0, <2>3, <2>5 DEF AuditTellsRows
<1> QED
  BY <1>0, <1>1, <1>2, <1>3, RowsChangeBy

LEMMA InitIInv == Init => IInv
<1> SUFFICES ASSUME Init PROVE IInv
  OBVIOUS
<1>1. TypeOK
  BY TypeInit
<1>2. \A p \in Procs : Protected(p)
  BY DEF Init, Protected, Clean, Counted, Chosen
<1>3. AdminRemains
  BY AdminsAssumption DEF Init, AdminRemains, ActiveAdmins, IsAdmin
<1>4. AuditTellsRows
  BY DEF Init, AuditTellsRows
<1> QED
  BY <1>1, <1>2, <1>3, <1>4 DEF IInv

LEMMA StepIInv == IInv /\ [Next]_vars => IInv'
<1> SUFFICES ASSUME IInv, [Next]_vars PROVE IInv'
  OBVIOUS
<1>1. TypeOK' /\ \A p \in Procs : Protected(p)'
  BY TypeStep, ProtectedStep DEF IInv
<1> QED
  BY <1>1, AdminsStep, AuditStep DEF IInv

LEMMA Inductive == Spec => []IInv
  BY InitIInv, StepIInv, PTL DEF Spec

\* The last-admin rule holds under every interleaving: no set of patches takes
\* the last active admin away.
THEOREM AnAdminRemains == Spec => []AdminRemains
<1>1. IInv => AdminRemains
  BY DEF IInv
<1> QED
  BY <1>1, Inductive, PTL

\* The audit rows, replayed, are the memberships.
THEOREM AuditIsFaithful == Spec => []AuditTellsRows
<1>1. IInv => AuditTellsRows
  BY DEF IInv
<1> QED
  BY <1>1, Inductive, PTL

(***************************************************************************)
(* The lock order                                                          *)
(***************************************************************************)

\* While the admins are being locked in the order of their ids, the rows a
\* request holds are those of its scan below every row it has still to lock.
InOrder(p) ==
  pc[p] = "admins" =>
    /\ \A m \in Members : memberLock[m] = p =>
         m \in job[p].scan /\ \A i \in DOMAIN queue[p] : m < queue[p][i]
    /\ \A m \in job[p].scan : memberLock[m] = p \/ \E i \in DOMAIN queue[p] : queue[p][i] = m
    /\ \A i \in DOMAIN queue[p] : queue[p][i] \in job[p].scan
    /\ Ordered(queue[p])

\* No lock outlives its transaction.
NoneLeft(p) == pc[p] = "idle" => \A m \in Members : memberLock[m] # p

Lining(p) == InOrder(p) /\ NoneLeft(p)

\* A request that does not move and whose locks stay the same.
LEMMA StillLining ==
  ASSUME NEW q, Lining(q),
         pc'[q] = pc[q], job'[q] = job[q], queue'[q] = queue[q],
         pc[q] = "admins" => job[q].scan \subseteq Members,
         \A m \in Members : memberLock'[m] = q <=> memberLock[m] = q
  PROVE  Lining(q)'
<1>1. NoneLeft(q)'
  BY DEF Lining, NoneLeft
<1>2. InOrder(q)'
  <2> SUFFICES ASSUME pc[q] = "admins" PROVE InOrder(q)'
    BY DEF InOrder
  <2>1. /\ \A m \in Members : memberLock'[m] = q =>
             m \in job'[q].scan /\ \A i \in DOMAIN queue'[q] : m < queue'[q][i]
        /\ \A i \in DOMAIN queue'[q] : queue'[q][i] \in job'[q].scan
    BY DEF Lining, InOrder
  <2>2. \A m \in job'[q].scan : \/ memberLock'[m] = q
                                \/ \E i \in DOMAIN queue'[q] : queue'[q][i] = m
    BY DEF Lining, InOrder
  <2>3. Ordered(queue[q])'
    BY DEF Lining, InOrder, Ordered
  <2> QED
    BY <2>1, <2>2, <2>3 DEF InOrder
<1> QED
  BY <1>1, <1>2 DEF Lining

LEMMA LiningAside ==
  ASSUME TypeOK, \A q \in Procs : Lining(q), NEW p \in Procs, Aside(p), Lining(p)',
         \A m \in Members : \/ memberLock'[m] = memberLock[m]
                            \/ memberLock[m] \in {None, p} /\ memberLock'[m] \in {None, p}
  PROVE  \A q \in Procs : Lining(q)'
<1> SUFFICES ASSUME NEW q \in Procs, q # p PROVE Lining(q)'
  OBVIOUS
<1>1. pc'[q] = pc[q] /\ job'[q] = job[q] /\ queue'[q] = queue[q]
  BY DEF Aside
<1>2. \A m \in Members : memberLock'[m] = q <=> memberLock[m] = q
  BY NoneAssumption
<1>3. pc[q] = "admins" => job[q].scan \subseteq Members
  BY DEF TypeOK, RequestOK, PatchJobs
<1> QED
  BY <1>1, <1>2, <1>3, StillLining

LEMMA ReleaseLines ==
  ASSUME TypeOK, \A q \in Procs : Lining(q), NEW p \in Procs, Release(p)
  PROVE  \A q \in Procs : Lining(q)'
<1>1. pc'[p] = "idle"
  BY DEF Release, TypeOK
<1>2. \A m \in Members : memberLock'[m] # p
  BY NoneAssumption DEF Release
<1>3. Lining(p)'
  BY <1>1, <1>2 DEF Lining, InOrder, NoneLeft
<1>4. \A m \in Members : \/ memberLock'[m] = memberLock[m]
                         \/ memberLock[m] \in {None, p} /\ memberLock'[m] \in {None, p}
  BY DEF Release
<1> QED
  BY <1>3, <1>4, AsideRelease, LiningAside

LEMMA BeginPatchLines ==
  ASSUME TypeOK, \A q \in Procs : Lining(q), NEW p \in Procs, BeginPatch(p)
  PROVE  \A q \in Procs : Lining(q)'
<1>1. PICK m \in Members, patch \in Patches, s \in Orders(ActiveAdmins) :
        /\ Ordered(s)
        /\ Begin(p, "admins",
                 [member |-> m, patch |-> patch, scan |-> ActiveAdmins, seen |-> None], s)
  BY DEF BeginPatch
<1>2. /\ pc[p] = "idle" /\ pc'[p] = "admins" /\ queue'[p] = s
      /\ job'[p].scan = ActiveAdmins
      /\ UNCHANGED <<memberLock, admins>>
  BY <1>1 DEF Begin, TypeOK
<1>3. /\ \A x \in ActiveAdmins : \E i \in DOMAIN s : s[i] = x
      /\ \A i \in DOMAIN s : s[i] \in ActiveAdmins
  BY DEF Orders
<1>4. \A n \in Members : memberLock[n] # p
  BY <1>2 DEF Lining, NoneLeft
<1>5. Lining(p)'
  BY <1>1, <1>2, <1>3, <1>4 DEF Lining, InOrder, NoneLeft, Ordered
<1>6. Aside(p)
  BY <1>1 DEF Begin, TypeOK, Aside
<1> QED
  BY <1>2, <1>5, <1>6, LiningAside

LEMMA LockAdminLines ==
  ASSUME TypeOK, \A q \in Procs : Lining(q), NEW p \in Procs, LockAdmin(p)
  PROVE  \A q \in Procs : Lining(q)'
<1>1. pc[p] = "admins" /\ pc'[p] = "admins" /\ queue[p] # <<>>
  BY DEF LockAdmin
<1>2. PICK s : s = queue[p]
  OBVIOUS
<1>3. s \in Seq(Members) /\ s # <<>> /\ job[p] \in PatchJobs
  BY <1>1, <1>2 DEF TypeOK, RequestOK
<1>4. PICK h : h = Head(s)
  OBVIOUS
<1>5. PICK n \in Nat : n = Len(s)
  BY <1>3
<1>6. /\ h \in Members /\ h = s[1] /\ 1 \in DOMAIN s
      /\ DOMAIN s = 1..n /\ DOMAIN Tail(s) = 1..(n - 1)
      /\ \A i \in 1..(n - 1) : Tail(s)[i] = s[i + 1]
  BY <1>3, <1>4, <1>5, QueueHead
<1>7. /\ MemberFree(p, h)
      /\ memberLock' = [memberLock EXCEPT ![h] = p]
      /\ queue'[p] = Tail(s) /\ UNCHANGED job
  BY <1>2, <1>4 DEF LockAdmin, TypeOK
<1>8. /\ \A m \in Members : memberLock[m] = p =>
           m \in job[p].scan /\ \A i \in 1..n : m < s[i]
      /\ \A m \in job[p].scan : memberLock[m] = p \/ \E i \in 1..n : s[i] = m
      /\ \A i \in 1..n : s[i] \in job[p].scan
      /\ \A i, j \in 1..n : i < j => s[i] < s[j]
  BY <1>1, <1>2, <1>6 DEF Lining, InOrder, Ordered
<1>9. \A i \in 1..(n - 1) : i + 1 \in 1..n /\ 1 \in 1..n /\ 1 < i + 1
  OBVIOUS
<1>10. \A m \in Members : memberLock'[m] = p =>
          m \in job[p].scan /\ \A i \in 1..(n - 1) : m < Tail(s)[i]
  <2> SUFFICES ASSUME NEW m \in Members, memberLock'[m] = p
               PROVE  m \in job[p].scan /\ \A i \in 1..(n - 1) : m < Tail(s)[i]
    OBVIOUS
  <2>1. CASE m = h
    BY <1>6, <1>8, <1>9, <2>1
  <2>2. CASE m # h
    <3>1. memberLock[m] = p
      BY <1>7, <2>2 DEF TypeOK
    <3> QED
      BY <1>6, <1>8, <1>9, <3>1
  <2> QED
    BY <2>1, <2>2
<1>11. \A m \in job[p].scan : memberLock'[m] = p \/ \E i \in 1..(n - 1) : Tail(s)[i] = m
  <2> SUFFICES ASSUME NEW m \in job[p].scan, memberLock'[m] # p
               PROVE  \E i \in 1..(n - 1) : Tail(s)[i] = m
    OBVIOUS
  <2>1. m \in Members
    BY <1>3 DEF PatchJobs
  <2>2. memberLock[m] # p /\ m # h
    BY <1>6, <1>7, <2>1 DEF TypeOK
  <2>3. PICK i \in 1..n : s[i] = m
    BY <1>8, <2>2
  <2>4. i - 1 \in 1..(n - 1) /\ (i - 1) + 1 = i
    BY <1>6, <2>2, <2>3
  <2> QED
    BY <1>6, <2>3, <2>4
<1>12. \A i \in 1..(n - 1) : Tail(s)[i] \in job[p].scan
  BY <1>6, <1>8, <1>9
<1>13. \A i, j \in 1..(n - 1) : i < j => Tail(s)[i] < Tail(s)[j]
  <2> SUFFICES ASSUME NEW i \in 1..(n - 1), NEW j \in 1..(n - 1), i < j
               PROVE  s[i + 1] < s[j + 1]
    BY <1>6
  <2> QED
    BY <1>8, <1>9
<1>14. Lining(p)'
  BY <1>1, <1>6, <1>7, <1>10, <1>11, <1>12, <1>13 DEF Lining, InOrder, NoneLeft, Ordered
<1>15. Aside(p)
  BY DEF LockAdmin, TypeOK, Aside
<1>16. \A m \in Members : \/ memberLock'[m] = memberLock[m]
                          \/ memberLock[m] \in {None, p} /\ memberLock'[m] \in {None, p}
  BY <1>6, <1>7 DEF MemberFree, TypeOK
<1> QED
  BY <1>14, <1>15, <1>16, LiningAside

\* The other statements of a request: it is not, or no longer, lining up.
LEMMA OthersLine ==
  ASSUME TypeOK, \A q \in Procs : Lining(q), NEW p \in Procs,
         BeginAssign(p) \/ BeginDelete(p) \/ LockTarget(p) \/ FindTeams(p) \/ LockTeam(p)
           \/ LockTeammate(p)
  PROVE  \A q \in Procs : Lining(q)'
<1>1. Aside(p)
  BY DEF BeginAssign, BeginDelete, Begin, LockTarget, FindTeams, LockTeam, LockTeammate, TypeOK,
         Aside
<1>2. pc'[p] \notin {"idle", "admins"}
  BY DEF BeginAssign, BeginDelete, Begin, LockTarget, FindTeams, LockTeam, LockTeammate, TypeOK
<1>3. Lining(p)'
  BY <1>2 DEF Lining, InOrder, NoneLeft
<1>4. \A m \in Members : \/ memberLock'[m] = memberLock[m]
                         \/ memberLock[m] \in {None, p} /\ memberLock'[m] \in {None, p}
  BY DEF BeginAssign, BeginDelete, Begin, LockTarget, FindTeams, LockTeam, LockTeammate, TypeOK,
         MemberFree
<1> QED
  BY <1>1, <1>3, <1>4, LiningAside

LEMMA LiningStep ==
  TypeOK /\ (\A q \in Procs : Lining(q)) /\ [Next]_vars => \A q \in Procs : Lining(q)'
<1> SUFFICES ASSUME TypeOK, \A q \in Procs : Lining(q), [Next]_vars
             PROVE  \A q \in Procs : Lining(q)'
  OBVIOUS
<1>1. ASSUME NEW p \in Procs, CommitPatch(p) \/ AssignManager(p) \/ CreateTeam(p)
                                \/ DeleteTeam(p) \/ Rollback(p)
      PROVE  \A q \in Procs : Lining(q)'
  <2>1. Release(p)
    BY <1>1 DEF CommitPatch, AssignManager, CreateTeam, DeleteTeam, Rollback
  <2> QED
    BY <2>1, ReleaseLines
<1>2. CASE (\E t \in Teams : LeaveUnmanaged(t)) \/ (\E m \in Members : Join(m)) \/ UNCHANGED vars
  <2>1. UNCHANGED <<pc, job, queue, memberLock>>
    BY <1>2 DEF LeaveUnmanaged, Join, vars
  <2>2. \A q \in Procs : pc[q] = "admins" => job[q].scan \subseteq Members
    BY DEF TypeOK, RequestOK, PatchJobs
  <2> QED
    BY <2>1, <2>2, StillLining
<1> QED
  BY <1>1, <1>2, Disjuncts, BeginPatchLines, LockAdminLines, OthersLine

\* A request that locks the admins waits only for one that holds a membership.
LEMMA WaitedForHolds ==
  ASSUME TypeOK, NEW p \in Procs, NEW q \in Procs, pc[p] = "admins", WaitsFor(p) = q
  PROVE  \E m \in Members : memberLock[m] = q
<1>1. job[p] \in PatchJobs /\ queue[p] \in Seq(Members)
  BY DEF TypeOK, RequestOK
<1> DEFINE asked == IF queue[p] # <<>> THEN Head(queue[p]) ELSE job[p].member
<1>2. asked \in Members
  BY <1>1, QueueHead DEF PatchJobs
<1>3. WaitsFor(p) = IF memberLock[asked] = p THEN None ELSE memberLock[asked]
  BY DEF WaitsFor
<1> QED
  BY <1>2, <1>3, NoneAssumption

LEMMA SameScanNoCycle == TypeOK /\ (\A p \in Procs : Lining(p)) => SameAdminsNoDeadlock
<1> SUFFICES ASSUME TypeOK, \A p \in Procs : Lining(p),
                    NEW p \in Procs, NEW q \in Procs,
                    pc[p] = "admins", pc[q] = "admins", job[p].scan = job[q].scan,
                    p # q, WaitsFor(p) = q, WaitsFor(q) = p
             PROVE  FALSE
  BY DEF SameAdminsNoDeadlock, Deadlocked
<1>1. PICK k \in Members : memberLock[k] = q
  BY WaitedForHolds
<1>2. PICK h \in Members : memberLock[h] = p
  BY WaitedForHolds
<1>3. h \in job[q].scan /\ k \in job[p].scan
  BY <1>1, <1>2 DEF Lining, InOrder
<1>4. k < h
  <2>1. PICK i \in DOMAIN queue[q] : queue[q][i] = h
    BY <1>2, <1>3 DEF Lining, InOrder
  <2> QED
    BY <1>1, <2>1 DEF Lining, InOrder
<1>5. h < k
  <2>1. PICK i \in DOMAIN queue[p] : queue[p][i] = k
    BY <1>1, <1>3 DEF Lining, InOrder
  <2> QED
    BY <1>2, <2>1 DEF Lining, InOrder
<1> QED
  BY <1>4, <1>5, MembersAssumption

LEMMA InitLining == Init => \A p \in Procs : Lining(p)
  BY NoneAssumption DEF Init, Lining, InOrder, NoneLeft

\* Two patches that found the same admins never wait for each other.
THEOREM SameAdminsAreSafe == Spec => []SameAdminsNoDeadlock
<1>1. Init => TypeOK /\ \A p \in Procs : Lining(p)
  BY TypeInit, InitLining
<1>2. TypeOK /\ (\A p \in Procs : Lining(p)) /\ [Next]_vars
        => (TypeOK /\ \A p \in Procs : Lining(p))'
  BY TypeStep, LiningStep
<1> QED
  BY <1>1, <1>2, SameScanNoCycle, PTL DEF Spec

\* Racing patches leave an admin and an audit in the order they took effect.
THEOREM PatchesSerial == Spec => []PatchesAreSerial
BY AnAdminRemains, AuditIsFaithful, PTL DEF PatchesAreSerial
=============================================================================
