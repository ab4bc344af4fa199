------------------------------- MODULE TeamAdmins -------------------------------
(***************************************************************************)
(* Team administration of one organization: the transactions behind       *)
(* PATCH /memberships/:id, POST, PATCH and DELETE /teams, statement by     *)
(* statement, over the row locks of Postgres at READ COMMITTED.            *)
(*                                                                         *)
(* A statement reads the committed rows as they are when it starts and     *)
(* then locks them one by one; a row that changed while the statement      *)
(* waited is checked again against the WHERE clause and dropped when it no *)
(* longer matches, its lock kept.  What a transaction writes shows at its  *)
(* commit.  Only memberships and teams are modelled; a user is identified  *)
(* with the membership it has in the organization.                         *)
(*                                                                         *)
(* Sources: services/memberships.ts, services/teams.ts,                    *)
(* repositories/memberships.ts, routes/team.ts, plugins/db.ts.             *)
(***************************************************************************)
EXTENDS Integers, FiniteSets, Sequences

CONSTANTS
  Members,      \* membership ids, ordered as the uuid column is
  Teams,        \* team ids
  Procs,        \* requests the server works on at the same time
  Roles,        \* values of memberships.role
  Patches,      \* bodies of PATCH /memberships/:id
  InitialAdmins, \* admins of the organization at the start
  None,         \* NULL
  Gone          \* the manager of a team that does not exist

Keep == "keep"  \* a field the PATCH leaves out

ASSUME MembersAssumption == Members \subseteq Nat /\ IsFiniteSet(Members) /\ IsFiniteSet(Teams)
ASSUME RolesAssumption == "admin" \in Roles /\ Keep \notin Roles
ASSUME PatchesAssumption ==
  Patches \subseteq [role : Roles \cup {Keep}, status : {"active", "disabled", Keep}]
                      \ {[role |-> Keep, status |-> Keep]}
ASSUME NoneAssumption == None \notin Procs \cup Members \cup Teams /\ Gone \notin Members \cup {None}
ASSUME AdminsAssumption == InitialAdmins \subseteq Members /\ InitialAdmins # {}

VARIABLES
  row,        \* memberships: role and status of each id
  teamOf,     \* memberships.team_id
  manager,    \* teams.manager_id, Gone when there is no such team
  memberLock, \* transaction that holds the row lock of a membership
  teamLock,   \* transaction that holds the row lock of a team
  trail,      \* role and status of each member according to activity_log
  pc,         \* statement each request is at
  job,        \* its input; for a patch, the admins its first statement found
              \* and the target as it was read under its lock
  queue,      \* rows the running statement has still to lock, in order
  admins      \* ids lockActiveAdminIds has collected so far

vars == <<row, teamOf, manager, memberLock, teamLock, trail, pc, job, queue, admins>>

Statuses == {"active", "disabled", "absent"}
Rows == [role : Roles, status : Statuses]
Steps == {"idle", "admins", "target", "teams", "assign", "create", "clear"}
PatchJobs == [member : Members, patch : Patches, scan : SUBSET Members, seen : Rows \cup {None}]
AssignJobs == [member : Members, team : Teams]
DeleteJobs == [team : Teams]

IsAdmin(r) == r.role = "admin" /\ r.status = "active"
ActiveAdmins == {m \in Members : IsAdmin(row[m])}
Patched(r, patch) ==
  [role   |-> IF patch.role = Keep THEN r.role ELSE patch.role,
   status |-> IF patch.status = Keep THEN r.status ELSE patch.status]

\* The orders in which a statement may meet the rows of S.
Orders(S) == {q \in [1..Cardinality(S) -> S] : \A x \in S : \E i \in DOMAIN q : q[i] = x}
BugAnyOrder(q) == TRUE

\* ORDER BY id
Ordered(q) == \A i, j \in DOMAIN q : i < j => q[i] < q[j]

MemberFree(p, m) == memberLock[m] \in {None, p}
TeamFree(p, t) == teamLock[t] \in {None, p}

-----------------------------------------------------------------------------
(* COMMIT and ROLLBACK of withOrgContext: every lock goes with them.       *)

Release(p) ==
  /\ memberLock' = [m \in Members |-> IF memberLock[m] = p THEN None ELSE memberLock[m]]
  /\ teamLock' = [t \in Teams |-> IF teamLock[t] = p THEN None ELSE teamLock[t]]
  /\ pc' = [pc EXCEPT ![p] = "idle"]
  /\ queue' = [queue EXCEPT ![p] = <<>>]
  /\ admins' = [admins EXCEPT ![p] = {}]
  /\ job' = [job EXCEPT ![p] = None]

Rollback(p) ==
  /\ Release(p)
  /\ UNCHANGED <<row, teamOf, manager, trail>>

\* A statement fails or the connection is lost.
TxFails(p) == pc[p] # "idle" /\ Rollback(p)

\* A handler enters its transaction: input, first rows to lock, next statement.
\* The caller was an active admin when requireFreshRole looked, in an earlier
\* transaction; it may be none by now, so nothing is asked of it here.
Begin(p, next, input, rows) ==
  /\ pc[p] = "idle"
  /\ pc' = [pc EXCEPT ![p] = next]
  /\ job' = [job EXCEPT ![p] = input]
  /\ queue' = [queue EXCEPT ![p] = rows]
  /\ UNCHANGED <<row, teamOf, manager, memberLock, teamLock, trail, admins>>

-----------------------------------------------------------------------------
(* updateMembership                                                        *)

BeginPatch(p) ==
  \E m \in Members, patch \in Patches, q \in Orders(ActiveAdmins) :
    /\ Ordered(q)
    /\ Begin(p, "admins",
             [member |-> m, patch |-> patch, scan |-> ActiveAdmins, seen |-> None], q)

BugLockAdminNoRecheck(p) ==
  /\ pc[p] = "admins" /\ queue[p] # <<>>
  /\ LET m == Head(queue[p]) IN
       /\ MemberFree(p, m)
       /\ memberLock' = [memberLock EXCEPT ![m] = p]
       /\ admins' = [admins EXCEPT ![p] = @ \cup {m}]
  /\ queue' = [queue EXCEPT ![p] = Tail(@)]
  /\ UNCHANGED <<row, teamOf, manager, teamLock, trail, pc, job>>

\* lockActiveAdminIds: the next row of the sorted result is locked, and kept
\* in the result if it still is an active admin.
LockAdmin(p) ==
  /\ pc[p] = "admins" /\ queue[p] # <<>>
  /\ LET m == Head(queue[p]) IN
       /\ MemberFree(p, m)
       /\ memberLock' = [memberLock EXCEPT ![m] = p]
       /\ admins' = [admins EXCEPT ![p] = IF IsAdmin(row[m]) THEN @ \cup {m} ELSE @]
  /\ queue' = [queue EXCEPT ![p] = Tail(@)]
  /\ UNCHANGED <<row, teamOf, manager, teamLock, trail, pc, job>>

BugMissingKeepsLocks(p) ==
  /\ pc[p] = "admins" /\ queue[p] = <<>>
  /\ row[job[p].member].status = "absent"
  /\ pc' = [pc EXCEPT ![p] = "idle"]
  /\ UNCHANGED <<row, teamOf, manager, memberLock, teamLock, trail, job, queue, admins>>

\* 404: no such membership.
TargetMissing(p) ==
  /\ pc[p] = "admins" /\ queue[p] = <<>>
  /\ row[job[p].member].status = "absent"
  /\ Rollback(p)

\* The patch takes the target, of which r was read, out of the active admins
\* and leaves none that this transaction has locked.
LastAdmin(p, r) ==
  /\ IsAdmin(r)
  /\ ~IsAdmin(Patched(r, job[p].patch))
  /\ admins[p] \subseteq {job[p].member}

\* 409 last_admin_protected
RefuseLastAdmin(p) ==
  LET m == job[p].member IN
  /\ pc[p] = "admins" /\ queue[p] = <<>>
  /\ row[m].status # "absent"
  /\ MemberFree(p, m)
  /\ LastAdmin(p, row[m])
  /\ Rollback(p)

\* The target read by a plain SELECT, then locked by the UPDATE.
BugReadBeforeLock(p) ==
  LET m == job[p].member IN
  /\ pc[p] = "admins" /\ queue[p] = <<>>
  /\ row[m].status # "absent"
  /\ \/ /\ job[p].seen = None /\ ~LastAdmin(p, row[m])
        /\ job' = [job EXCEPT ![p].seen = row[m]]
        /\ UNCHANGED <<memberLock, pc>>
     \/ /\ job[p].seen # None /\ MemberFree(p, m)
        /\ memberLock' = [memberLock EXCEPT ![m] = p]
        /\ pc' = [pc EXCEPT ![p] = "target"]
        /\ UNCHANGED job
  /\ UNCHANGED <<row, teamOf, manager, teamLock, trail, queue, admins>>

\* getByIdForUpdate, the check, and updateRoleStatus on the row just locked.
LockTarget(p) ==
  LET m == job[p].member IN
  /\ pc[p] = "admins" /\ queue[p] = <<>>
  /\ row[m].status # "absent"
  /\ MemberFree(p, m)
  /\ ~LastAdmin(p, row[m])
  /\ memberLock' = [memberLock EXCEPT ![m] = p]
  /\ job' = [job EXCEPT ![p].seen = row[m]]
  /\ pc' = [pc EXCEPT ![p] = "target"]
  /\ UNCHANGED <<row, teamOf, manager, teamLock, trail, queue, admins>>

BecameDisabled(p) == job[p].patch.status = "disabled" /\ job[p].seen.status = "active"

\* UPDATE teams SET manager_id = NULL starts: the teams it finds.
FindTeams(p) ==
  /\ pc[p] = "target"
  /\ \E q \in Orders({t \in Teams : BecameDisabled(p) /\ manager[t] = job[p].member}) :
       queue' = [queue EXCEPT ![p] = q]
  /\ pc' = [pc EXCEPT ![p] = "teams"]
  /\ UNCHANGED <<row, teamOf, manager, memberLock, teamLock, trail, job, admins>>

\* ... and locks, unless the team was deleted meanwhile.
LockTeam(p) ==
  /\ pc[p] = "teams" /\ queue[p] # <<>>
  /\ LET t == Head(queue[p]) IN
       /\ TeamFree(p, t)
       /\ teamLock' = [teamLock EXCEPT ![t] = IF manager[t] = Gone THEN @ ELSE p]
  /\ queue' = [queue EXCEPT ![p] = Tail(@)]
  /\ UNCHANGED <<row, teamOf, manager, memberLock, trail, pc, job, admins>>

\* The audit rows: one per field whose value differs from the one read.
Audited(r, seen, patch) ==
  [role   |-> IF patch.role \notin {Keep, seen.role} THEN patch.role ELSE r.role,
   status |-> IF patch.status \notin {Keep, seen.status} THEN patch.status ELSE r.status]

CommitPatch(p) ==
  LET m == job[p].member  patch == job[p].patch IN
  /\ pc[p] = "teams" /\ queue[p] = <<>>
  /\ row' = [row EXCEPT ![m] = Patched(@, patch)]
  /\ trail' = [trail EXCEPT ![m] = Audited(@, job[p].seen, patch)]
  /\ manager' = [t \in Teams |-> IF /\ BecameDisabled(p)
                                    /\ teamLock[t] = p /\ manager[t] = m
                                 THEN None ELSE manager[t]]
  /\ Release(p)
  /\ UNCHANGED teamOf

-----------------------------------------------------------------------------
(* createTeam, updateTeam, deleteTeam                                      *)

\* assertActiveMemberInCurrentOrg, a plain SELECT; the write is a statement
\* of its own.
BeginAssign(p) ==
  \E m \in Members, t \in Teams, next \in {"assign", "create"} :
    /\ row[m].status = "active"
    /\ Begin(p, next, [member |-> m, team |-> t], <<>>)

\* UPDATE teams ... WHERE id, which answers 404 when the team is gone.
AssignManager(p) ==
  LET t == job[p].team IN
  /\ pc[p] = "assign"
  /\ TeamFree(p, t)
  /\ manager' = [manager EXCEPT ![t] = IF @ = Gone THEN Gone ELSE job[p].member]
  /\ Release(p)
  /\ UNCHANGED <<row, teamOf, trail>>

\* INSERT INTO teams: the id is new; a team past the ids of Teams is not
\* followed.
CreateTeam(p) ==
  LET t == job[p].team IN
  /\ pc[p] = "create"
  /\ manager' = [manager EXCEPT ![t] = IF @ = Gone THEN job[p].member ELSE @]
  /\ Release(p)
  /\ UNCHANGED <<row, teamOf, trail>>

\* createTeam and updateTeam with managerId null.
LeaveUnmanaged(t) ==
  /\ teamLock[t] = None
  /\ manager' = [manager EXCEPT ![t] = None]
  /\ UNCHANGED <<row, teamOf, memberLock, teamLock, trail, pc, job, queue, admins>>

\* deleteTeam: UPDATE memberships SET team_id = NULL starts; its rows come in
\* the order of the heap.
BeginDelete(p) ==
  \E t \in Teams : \E q \in Orders({m \in Members : teamOf[m] = t}) :
    Begin(p, "clear", [team |-> t], q)

LockTeammate(p) ==
  /\ pc[p] = "clear" /\ queue[p] # <<>>
  /\ MemberFree(p, Head(queue[p]))
  /\ memberLock' = [memberLock EXCEPT ![Head(queue[p])] = p]
  /\ queue' = [queue EXCEPT ![p] = Tail(@)]
  /\ UNCHANGED <<row, teamOf, manager, teamLock, trail, pc, job, admins>>

\* A member that joined the team after the UPDATE read it still refers to it:
\* ON DELETE SET NULL over (org_id, team_id) violates NOT NULL.
Stragglers(p) == {m \in Members : teamOf[m] = job[p].team /\ memberLock[m] # p}

DeleteRefused(p) ==
  /\ pc[p] = "clear" /\ queue[p] = <<>>
  /\ TeamFree(p, job[p].team)
  /\ manager[job[p].team] = Gone \/ Stragglers(p) # {}
  /\ Rollback(p)

DeleteTeam(p) ==
  LET t == job[p].team IN
  /\ pc[p] = "clear" /\ queue[p] = <<>>
  /\ TeamFree(p, t)
  /\ manager[t] # Gone
  /\ Stragglers(p) = {}
  /\ manager' = [manager EXCEPT ![t] = Gone]
  /\ teamOf' = [m \in Members |-> IF teamOf[m] = t THEN None ELSE teamOf[m]]
  /\ Release(p)
  /\ UNCHANGED <<row, trail>>

\* acceptInvitation inserts a membership, in the team of the invitation.
Join(m) ==
  /\ row[m].status = "absent"
  /\ \E r \in Roles, t \in {u \in Teams : manager[u] # Gone} \cup {None} :
       /\ row' = [row EXCEPT ![m] = [role |-> r, status |-> "active"]]
       /\ trail' = [trail EXCEPT ![m] = [role |-> r, status |-> "active"]]
       /\ teamOf' = [teamOf EXCEPT ![m] = t]
  /\ UNCHANGED <<manager, memberLock, teamLock, pc, job, queue, admins>>

-----------------------------------------------------------------------------
(* Postgres aborts a transaction of a cycle of waits.                      *)

\* The transaction that holds the lock p asks for, or None.
WaitsFor(p) ==
  LET asked == IF queue[p] # <<>> THEN Head(queue[p])
               ELSE IF pc[p] = "admins" THEN job[p].member ELSE job[p].team
      holder == CASE pc[p] = "admins"                  -> memberLock[asked]
                  [] pc[p] = "clear" /\ queue[p] # <<>> -> memberLock[asked]
                  [] pc[p] = "clear" /\ queue[p] = <<>> -> teamLock[asked]
                  [] pc[p] = "teams" /\ queue[p] # <<>> -> teamLock[asked]
                  [] pc[p] = "assign"                  -> teamLock[asked]
                  [] OTHER                             -> None
  IN IF holder = p THEN None ELSE holder

Cycle(C) == C # {} /\ {WaitsFor(p) : p \in C} = C

BreakDeadlock(p) ==
  /\ \E C \in SUBSET Procs : p \in C /\ Cycle(C)
  /\ Rollback(p)

-----------------------------------------------------------------------------
Init ==
  /\ row = [m \in Members |-> IF m \in InitialAdmins
                              THEN [role |-> "admin", status |-> "active"]
                              ELSE [role |-> "admin", status |-> "absent"]]
  /\ trail = row
  /\ teamOf = [m \in Members |-> None]
  /\ manager = [t \in Teams |-> Gone]
  /\ memberLock = [m \in Members |-> None]
  /\ teamLock = [t \in Teams |-> None]
  /\ pc = [p \in Procs |-> "idle"]
  /\ job = [p \in Procs |-> None]
  /\ queue = [p \in Procs |-> <<>>]
  /\ admins = [p \in Procs |-> {}]

Advance(p) ==
  \/ LockAdmin(p) \/ TargetMissing(p) \/ RefuseLastAdmin(p) \/ LockTarget(p)
  \/ FindTeams(p) \/ LockTeam(p) \/ CommitPatch(p)
  \/ AssignManager(p) \/ CreateTeam(p)
  \/ LockTeammate(p) \/ DeleteRefused(p) \/ DeleteTeam(p)
  \/ BreakDeadlock(p)

Next ==
  \/ \E p \in Procs : BeginPatch(p) \/ BeginAssign(p) \/ BeginDelete(p)
  \/ \E p \in Procs : Advance(p) \/ TxFails(p)
  \/ \E t \in Teams : LeaveUnmanaged(t)
  \/ \E m \in Members : Join(m)

Spec == Init /\ [][Next]_vars

\* Postgres queues the waiters of a row in order, so a lock that comes free
\* again and again is granted in the end.
FairSpec == Spec /\ \A p \in Procs : SF_vars(Advance(p))

-----------------------------------------------------------------------------
(* Properties                                                              *)

RequestOK(p) ==
  /\ pc[p] \in {"admins", "clear"} => queue[p] \in Seq(Members)
  /\ pc[p] = "teams" => queue[p] \in Seq(Teams)
  /\ pc[p] \in {"admins", "target", "teams"} => job[p] \in PatchJobs
  /\ pc[p] \in {"assign", "create"} => job[p] \in AssignJobs
  /\ pc[p] = "clear" => job[p] \in DeleteJobs

\* Rows, locks, running transactions and the audited values keep their types.
TypeOK ==
  /\ row \in [Members -> Rows] /\ trail \in [Members -> Rows]
  /\ teamOf \in [Members -> Teams \cup {None}]
  /\ manager \in [Teams -> Members \cup {None, Gone}]
  /\ memberLock \in [Members -> Procs \cup {None}]
  /\ teamLock \in [Teams -> Procs \cup {None}]
  /\ pc \in [Procs -> Steps]
  /\ admins \in [Procs -> SUBSET Members]
  /\ job \in [Procs -> PatchJobs \cup AssignJobs \cup DeleteJobs \cup {None}]
  /\ queue \in [Procs -> Seq(Members) \cup Seq(Teams)]
  /\ \A p \in Procs : RequestOK(p)

\* However many patches demote and disable each other's actors at once, the
\* organization keeps an active admin (services/memberships.ts, steps 1 to 3).
AdminRemains == ActiveAdmins # {}

\* Replaying the audit rows gives the memberships as they are: every change is
\* audited, with the value that was really replaced, and nothing else is
\* (services/memberships.ts, "high-risk mutation audit must commit together").
AuditTellsRows == trail = row

\* Patches that race keep an admin, and the audit tells in which order they
\* took effect.
PatchesAreSerial == AdminRemains /\ AuditTellsRows

\* p and q wait for each other.
Deadlocked(p, q) == p # q /\ WaitsFor(p) = q /\ WaitsFor(q) = p

\* Two patches whose first statement found the same admins never wait for each
\* other: the order of lockActiveAdminIds works where the sets agree.
SameAdminsNoDeadlock ==
  \A p, q \in Procs :
    (/\ pc[p] = "admins" /\ pc[q] = "admins"
     /\ job[p].scan = job[q].scan)
       => ~Deadlocked(p, q)

\* repositories/memberships.ts says so of any two callers of
\* lockActiveAdminIds: "ORDER BY id makes the lock acquisition deterministic
\* so two concurrent callers grab rows in the same sequence — no cross-row
\* deadlock".
PatchesDontDeadlock ==
  \A p, q \in Procs :
    (pc[p] = "admins" /\ pc[q] = "admins") => ~Deadlocked(p, q)

\* services/memberships.ts, step 5b: "a disabled member must never appear as a
\* team manager".
ManagersAreActive ==
  \A t \in Teams : manager[t] \in Members => row[manager[t]].status = "active"

\* Every request is answered: no wait for a row lock lasts, and no answer
\* leaves a lock behind that others wait for.
RequestsEnd == \A p \in Procs : pc[p] # "idle" ~> pc[p] = "idle"
=============================================================================
