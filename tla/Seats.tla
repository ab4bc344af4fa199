--------------------------------- MODULE Seats ---------------------------------
(***************************************************************************)
(* Invitations to an organization and the seats of its plan: create,       *)
(* resend, cancel and accept as transactions that wait for row locks.      *)
(* A transaction is a record: the locks it holds and the one it waits for; *)
(* what it has decided is written when it commits.  A statement that finds *)
(* its row locked waits, and looks at the row again when it gets it (READ  *)
(* COMMITTED).                                                             *)
(*                                                                         *)
(* Sources: services/invitations.ts, services/billing.ts,                  *)
(* repositories/invitations.ts, repositories/billing.ts,                   *)
(* services/auth-tokens.ts.                                                *)
(***************************************************************************)
EXTENDS Naturals, FiniteSets

CONSTANTS
  Requests,       \* transactions at a time
  Addresses,      \* <<organization, e-mail>>
  MaxInvitations, \* bound: invitations ever created
  MaxTokens,      \* bound: links ever minted
  Limits,         \* bound: the seat limits a plan may have
  Founders,       \* the addresses that are members to begin with
  Movable,        \* bound: the addresses whose membership is disabled and enabled
  None            \* no row, no lock, no limit

Ids == 1 .. MaxInvitations
Links == 1 .. MaxTokens
Orgs == {x[1] : x \in Addresses}
Emails == {x[2] : x \in Addresses}

ASSUME SeatBounds == MaxInvitations \in Nat \ {0} /\ MaxTokens \in Nat \ {0}
ASSUME SeatLimits == Limits # {} /\ Limits \subseteq Nat \cup {None}
ASSUME SeatFounders == Founders \subseteq Addresses /\ Movable \subseteq Addresses /\ IsFiniteSet(Addresses) /\ IsFiniteSet(Requests)

VARIABLES
  invitation, \* invitations
  link,       \* auth_tokens of purpose invitation
  member,     \* memberships
  users,      \* the e-mails with a row in users
  limit,      \* the seats of each organization's plan
  tx          \* the transaction of each request

rows == <<invitation, link, member, users, limit>>
vars == <<rows, tx>>

Invitations == [address : Addresses \cup {None}, status : {"absent", "pending", "accepted", "canceled"}]
LinkRows == [invitation : Ids \cup {None},
             state : {"absent", "live", "expired", "consumed", "invalidated"}]

\* A row lock, the key-share lock a foreign key takes on the organization,
\* or the entry of the unique index an uncommitted user occupies.
Locks == ({"invitation"} \X Ids) \cup ({"link"} \X Links)
           \cup ({"org", "share"} \X Orgs) \cup ({"user"} \X Emails)

Transactions == [op : {"create", "resend", "cancel", "accept"}, address : Addresses,
                 invitation : Ids \cup {None}, link : Links \cup {None},
                 held : SUBSET Locks, wants : Locks \cup {None}]

ASSUME SeatNone ==
  None \notin Ids /\ None \notin Links /\ None \notin Locks /\ None \notin Transactions

TypeOK ==
  /\ invitation \in [Ids -> Invitations]
  /\ link \in [Links -> LinkRows]
  /\ member \in [Addresses -> {"none", "active", "disabled"}]
  /\ users \subseteq Emails
  /\ limit \in [Orgs -> Limits]
  /\ tx \in [Requests -> Transactions \cup {None}]

Init ==
  /\ invitation = [i \in Ids |-> [address |-> None, status |-> "absent"]]
  /\ link = [t \in Links |-> [invitation |-> None, state |-> "absent"]]
  /\ member = [x \in Addresses |-> IF x \in Founders THEN "active" ELSE "none"]
  /\ users = {x[2] : x \in Founders}
  /\ limit \in [Orgs -> Limits]
  /\ tx = [p \in Requests |-> None]

-----------------------------------------------------------------------------
(* Locks and transactions                                                  *)

Conflict(a, b) ==
  \/ a = b /\ a[1] # "share"
  \/ a[2] = b[2] /\ {a[1], b[1]} = {"org", "share"}

Blockers(p) ==
  {q \in Requests \ {p} : /\ tx[q] # None /\ tx[p] # None /\ tx[p].wants # None
                          /\ \E k \in tx[q].held : Conflict(tx[p].wants, k)}

Gets(p, op, kind) ==
  /\ tx[p] # None
  /\ tx[p].op = op
  /\ tx[p].wants # None /\ tx[p].wants[1] = kind
  /\ Blockers(p) = {}

Starts(p, op, x, i, t, wants) ==
  /\ tx[p] = None
  /\ tx' = [tx EXCEPT ![p] = [op |-> op, address |-> x, invitation |-> i, link |-> t,
                              held |-> {}, wants |-> wants]]
  /\ UNCHANGED rows

\* It has the lock it waited for and asks for the next.
Holds(p, next) ==
  tx' = [tx EXCEPT ![p].held = @ \cup {tx[p].wants}, ![p].wants = next]

Ends(p) == tx' = [tx EXCEPT ![p] = None]
Rejected(p) == Ends(p) /\ UNCHANGED rows

-----------------------------------------------------------------------------
(* What a statement sees                                                   *)

Pending(i) == invitation[i].status = "pending"
PendingOf(x) == {i \in Ids : Pending(i) /\ invitation[i].address = x}
ActiveLinks(i) == {t \in Links : link[t].state \in {"live", "expired"} /\ link[t].invitation = i}
ActiveLink(i) == CHOOSE t \in ActiveLinks(i) : TRUE

\* active_members + pending_invitations: an expired one has its seat
Seats(o) == Cardinality({x \in Addresses : x[1] = o /\ member[x] = "active"})
              + Cardinality({i \in Ids : Pending(i) /\ invitation[i].address[1] = o})

NextId == CHOOSE i \in Ids : invitation[i].status = "absent"
                              /\ \A j \in Ids : invitation[j].status = "absent" => i <= j
NextLink == CHOOSE t \in Links : link[t].state = "absent"
                                 /\ \A u \in Links : link[u].state = "absent" => t <= u
Creating == {p \in Requests : tx[p] # None /\ tx[p].op = "create"}
Minting == {p \in Requests : tx[p] # None /\ tx[p].op \in {"create", "resend"}}
HasId == Cardinality({i \in Ids : invitation[i].status = "absent"}) > Cardinality(Creating)
HasLink == Cardinality({t \in Links : link[t].state = "absent"}) > Cardinality(Minting)

\* mintToken, after the invalidation of the link it replaces
Replacing(i, old) ==
  [t \in Links |-> IF t = NextLink THEN [invitation |-> i, state |-> "live"]
                   ELSE IF t = old THEN [link[t] EXCEPT !.state = "invalidated"] ELSE link[t]]

-----------------------------------------------------------------------------
(* createInvitation                                                        *)

\* The address is not a member; then the pending row is looked up and locked.
BeginCreate(p, x) ==
  /\ HasId /\ HasLink
  /\ member[x] = "none"
  /\ IF PendingOf(x) = {} THEN Starts(p, "create", x, None, None, <<"org", x[1]>>)
     ELSE \E i \in PendingOf(x) : Starts(p, "create", x, i, None, <<"invitation", i>>)

\* Accepted or canceled while it waited: there is no pending row.
CreateMeetsPending(p) ==
  /\ Gets(p, "create", "invitation")
  /\ LET i == tx[p].invitation IN
     IF Pending(i) THEN Holds(p, <<"link", ActiveLink(i)>>)
     ELSE tx' = [tx EXCEPT ![p].invitation = None, ![p].wants = <<"org", tx[p].address[1]>>]
  /\ UNCHANGED rows

\* invitation_already_pending, or the expired one is to be canceled
CreateMeetsLink(p) ==
  /\ Gets(p, "create", "link")
  /\ LET t == tx[p].wants[2] IN
     IF link[t].state = "expired"
     THEN tx' = [tx EXCEPT ![p].link = t, ![p].held = @ \cup {<<"link", t>>},
                           ![p].wants = <<"org", tx[p].address[1]>>]
     ELSE Ends(p)
  /\ UNCHANGED rows

Room(o, seats) == limit[o] = None \/ seats <= limit[o]

BugAssertPlanAllows(p, o) ==
  IF Room(o, Seats(o) + 1 - (IF tx[p].invitation = None THEN 0 ELSE 1))
  THEN tx' = [tx EXCEPT ![p].wants = None] ELSE Ends(p)

\* assertPlanAllows: the count is made under the lock of the organization;
\* the row this transaction cancels is not in it.
AssertPlanAllows(p, o) ==
  IF Room(o, Seats(o) + 1 - (IF tx[p].invitation = None THEN 0 ELSE 1)) THEN Holds(p, None) ELSE Ends(p)

CreateCounts(p) ==
  /\ Gets(p, "create", "org")
  /\ AssertPlanAllows(p, tx[p].address[1])
  /\ UNCHANGED rows

Replaced(p) ==
  [i \in Ids |-> IF i = NextId THEN [address |-> tx[p].address, status |-> "pending"]
                 ELSE IF i = tx[p].invitation THEN [invitation[i] EXCEPT !.status = "canceled"]
                 ELSE invitation[i]]

\* The unique index on pending addresses, then the rows and COMMIT
CreateCommits(p) ==
  /\ tx[p] # None /\ tx[p].op = "create" /\ tx[p].wants = None
  /\ Ends(p)
  /\ IF PendingOf(tx[p].address) \subseteq {tx[p].invitation}
     THEN /\ invitation' = Replaced(p)
          /\ link' = Replacing(NextId, tx[p].link)
          /\ UNCHANGED <<member, users, limit>>
     ELSE UNCHANGED rows

-----------------------------------------------------------------------------
(* resendInvitation, cancelInvitation                                      *)

\* An invitation that is final by now is a 409.
BeginChange(p, op, i) ==
  /\ Pending(i)
  /\ op = "resend" => HasLink
  /\ Starts(p, op, invitation[i].address, i, None, <<"invitation", i>>)

\* Final meanwhile: invitation_already_finalized; or its link is looked up and locked
ChangeLocks(p, op) ==
  /\ Gets(p, op, "invitation")
  /\ IF Pending(tx[p].invitation) THEN Holds(p, <<"link", ActiveLink(tx[p].invitation)>>) ELSE Ends(p)
  /\ UNCHANGED rows

\* The foreign keys of the new token and of the audit row come next.
ChangeLocksLink(p, op) ==
  /\ Gets(p, op, "link")
  /\ tx' = [tx EXCEPT ![p].link = tx[p].wants[2], ![p].held = @ \cup {tx[p].wants},
                      ![p].wants = <<"share", tx[p].address[1]>>]
  /\ UNCHANGED rows

ResendCommits(p) ==
  /\ Gets(p, "resend", "share")
  /\ Ends(p)
  /\ link' = Replacing(tx[p].invitation, tx[p].link)
  /\ UNCHANGED <<invitation, member, users, limit>>

BugInvalidated(t) == link[t]

Invalidated(t) == [link[t] EXCEPT !.state = "invalidated"]

CancelCommits(p) ==
  /\ Gets(p, "cancel", "share")
  /\ Ends(p)
  /\ invitation' = [invitation EXCEPT ![tx[p].invitation].status = "canceled"]
  /\ link' = [link EXCEPT ![tx[p].link] = Invalidated(tx[p].link)]
  /\ UNCHANGED <<member, users, limit>>

-----------------------------------------------------------------------------
(* acceptInvitation                                                        *)

BugBeginAccept(p, t) ==
  /\ link[t].state = "live" /\ tx[p] = None
  /\ \A q \in Requests : tx[q] # None => <<"link", t>> \notin tx[q].held
  /\ tx' = [tx EXCEPT ![p] = [op |-> "accept", address |-> invitation[link[t].invitation].address,
                              invitation |-> link[t].invitation, link |-> t, held |-> {<<"link", t>>},
                              wants |-> <<"invitation", link[t].invitation>>]]
  /\ UNCHANGED rows

\* findTokenByRaw takes no lock: the invitation is locked before its token.
\* A link that is not live by now is a 410.
BeginAccept(p, t) ==
  /\ link[t].state = "live"
  /\ Starts(p, "accept", invitation[link[t].invitation].address, link[t].invitation, t,
            <<"invitation", link[t].invitation>>)

BugAcceptLocks(p) ==
  /\ Gets(p, "accept", "invitation")
  /\ Holds(p, <<"share", tx[p].address[1]>>)
  /\ UNCHANGED rows

AcceptLocks(p) ==
  /\ Gets(p, "accept", "invitation")
  /\ IF Pending(tx[p].invitation) THEN Holds(p, <<"link", tx[p].link>>) ELSE Ends(p)
  /\ UNCHANGED rows

BugGood(t) == link[t].state # "expired"

\* lockAndValidateTokenById
Good(t) == link[t].state = "live"

\* The seats are counted without the lock of the organization: more than the
\* plan has is a 403.  The user has a row, or one is to be inserted.
AcceptValidates(p) ==
  /\ Gets(p, "accept", "link")
  /\ LET x == tx[p].address IN
     IF ~Good(tx[p].link) \/ ~Room(x[1], Seats(x[1])) THEN Ends(p)
     ELSE IF x[2] \notin users THEN Holds(p, <<"user", x[2]>>)
     ELSE IF member[x] # "none" THEN Ends(p)
     ELSE Holds(p, <<"share", x[1]>>)
  /\ UNCHANGED rows

\* INSERT INTO users, ON CONFLICT DO NOTHING: it waits for an uncommitted
\* insert of the same e-mail and looks again.
AcceptInsertsUser(p) ==
  /\ Gets(p, "accept", "user")
  /\ LET x == tx[p].address IN
     IF x[2] \in users /\ member[x] # "none" THEN Ends(p)
     ELSE IF x[2] \in users THEN tx' = [tx EXCEPT ![p].wants = <<"share", x[1]>>]
     ELSE Holds(p, <<"share", x[1]>>)
  /\ UNCHANGED rows

Accepted(p) == [invitation EXCEPT ![tx[p].invitation].status = "accepted"]

\* The membership and its unique key, accepted_at, consumed_at and COMMIT
AcceptCommits(p) ==
  /\ Gets(p, "accept", "share")
  /\ Ends(p)
  /\ LET x == tx[p].address IN
     IF member[x] # "none" THEN UNCHANGED rows
     ELSE /\ member' = [member EXCEPT ![x] = "active"]
          /\ users' = users \cup {x[2]}
          /\ invitation' = Accepted(p)
          /\ link' = [link EXCEPT ![tx[p].link].state = "consumed"]
          /\ UNCHANGED limit

-----------------------------------------------------------------------------
(* The rest of the system                                                  *)

OrgFree(o) == \A p \in Requests : tx[p] # None => <<"org", o>> \notin tx[p].held

\* updateMembership: the audit row needs the organization's row.
SetStatus(x, from, to) ==
  /\ member[x] = from /\ OrgFree(x[1])
  /\ member' = [member EXCEPT ![x] = to]
  /\ UNCHANGED <<invitation, link, users, limit, tx>>

Expires(t) ==
  /\ link[t].state = "live"
  /\ link' = [link EXCEPT ![t].state = "expired"]
  /\ UNCHANGED <<invitation, member, users, limit, tx>>

Request(p) ==
  \/ \E x \in Addresses : BeginCreate(p, x)
  \/ CreateMeetsPending(p)
  \/ CreateMeetsLink(p)
  \/ CreateCounts(p)
  \/ CreateCommits(p)
  \/ \E op \in {"resend", "cancel"}, i \in Ids : BeginChange(p, op, i)
  \/ \E op \in {"resend", "cancel"} : ChangeLocks(p, op)
  \/ \E op \in {"resend", "cancel"} : ChangeLocksLink(p, op)
  \/ ResendCommits(p)
  \/ CancelCommits(p)
  \/ \E t \in Links : BeginAccept(p, t)
  \/ AcceptLocks(p)
  \/ AcceptValidates(p)
  \/ AcceptInsertsUser(p)
  \/ AcceptCommits(p)

Next ==
  \/ \E p \in Requests : Request(p)
  \/ \E x \in Movable : SetStatus(x, "active", "disabled") \/ SetStatus(x, "disabled", "active")
  \/ \E t \in Links : Expires(t)

Spec == Init /\ [][Next]_vars

-----------------------------------------------------------------------------
(* Properties                                                              *)

\* A link opens an invitation exactly while it is pending, and there is one
\* such link: a resend leaves no second one, a cancel or an acceptance none.
OneLinkWhilePending ==
  \A i \in Ids : Cardinality(ActiveLinks(i)) = (IF Pending(i) THEN 1 ELSE 0)

\* An accepted or canceled invitation stays what it is, whatever request
\* found it pending before: no acceptance after a cancel, no cancel after it.
FinalIsFinal ==
  [][\A i \in Ids : invitation[i].status \in {"accepted", "canceled"} => invitation'[i] = invitation[i]]_vars

\* Who joins does it through the newest link of a pending invitation to the
\* address, which is spent by it, and takes the seat the invitation had.
JoinsThroughTheNewestLink ==
  [][\A x \in Addresses : member[x] = "none" /\ member'[x] # "none" =>
       /\ Seats(x[1])' = Seats(x[1])
       /\ \E t \in Links : /\ link[t].state \in {"live", "expired"} /\ link'[t].state = "consumed"
                           /\ invitation[link[t].invitation].address = x
                           /\ \A u \in Links : link[u].invitation = link[t].invitation => u <= t]_vars

\* An invitation that adds a seat finds it free in the plan, whoever creates,
\* accepts or enables meanwhile.
SeatsAreBought ==
  [][\A o \in Orgs : Seats(o)' > Seats(o) /\ member' = member => (limit[o] = None \/ Seats(o)' <= limit[o])]_vars

\* An invitation leads to what was paid for: one link opens it while it is
\* pending, a final answer stays, who joins uses that link and its seat, and a
\* new seat was free.
InvitationsAreKept ==
  /\ []OneLinkWhilePending /\ FinalIsFinal
  /\ JoinsThroughTheNewestLink /\ SeatsAreBought

\* The lock order invitation, token, organization: no set of transactions
\* waits for itself, which PostgreSQL would end with an error.
NoWaitCycle ==
  \A S \in SUBSET Requests : S # {} => \E p \in S : Blockers(p) \cap S = {}

\* Who is a member has no pending invitation (already_member).
NoInvitationForAMember ==
  \A x \in Addresses : member[x] # "none" => PendingOf(x) = {}

=============================================================================
