----------------------------- MODULE ActivityFeed -----------------------------
(* The feed of the activity log: repositories/activityLog.ts, the route     *)
(* GET /activity-log and the panel of settings.html that pages through it.  *)
(*                                                                          *)
(* A row is written by a transaction of its own: created_at is the time the *)
(* transaction began, in microseconds, and its id is a random uuid, so rows *)
(* appear in an order that is neither that of their times nor that of their *)
(* ids. A page goes out with times cut to milliseconds, and the cursor of   *)
(* the next page is the time and the id of the last row shown. Rows are     *)
(* never changed or deleted.                                                *)
EXTENDS Integers, FiniteSets

CONSTANTS
  RowIds,       \* the ids rows may get, ordered as uuids are
  Actions,      \* what a row may be about
  Filterable,   \* the actions the route lets a reader filter by
  Ranges,       \* pairs of milliseconds a reader may filter by
  MaxLimit,     \* LIST_LIMIT_MAX and MAX_LIMIT, both 100
  Milli,        \* microseconds to the millisecond
  MaxTime,      \* bound: the clock of the database
  AnyAction, NoRow    \* no action; no cursor

ASSUME FeedAssumption ==
  /\ RowIds \subseteq Nat
  /\ Filterable \subseteq Actions
  /\ AnyAction \notin Actions
  /\ Ranges \subseteq Int \X Int
  /\ MaxLimit \in Nat \ {0}
  /\ Milli \in Nat \ {0}
  /\ MaxTime \in Nat
  /\ NoRow \notin RowIds

VARIABLES
  now,      \* the clock of the database
  entries,  \* by id: the row and how far its transaction is
  chosen,   \* the filter the panel shows as chosen
  load,     \* the request of the panel and its answer; idle unless auditLoading
  shown,    \* the rows the panel shows
  cursor,   \* auditCursor: the last row of the last page, if there are more
  button,   \* "load more" is to be seen
  asked,    \* the filters the pages shown were asked with
  owed      \* the rows of the filter that were in the log at the first page

logVars == <<now, entries>>
panelVars == <<chosen, load, shown, cursor, button, asked, owed>>
feedVars == <<logVars, panelVars>>

Filters == [action : Filterable \cup {AnyAction}, range : Ranges]

Row == [st : {"none", "open", "in"}, at : 0..MaxTime, action : Actions \cup {AnyAction}]
NoRowYet == [st |-> "none", at |-> 0, action |-> AnyAction]

Load == [st : {"idle", "asked", "probe", "answer"}, filter : Filters, limit : 1..MaxLimit,
         page : SUBSET RowIds, last : RowIds \cup {NoRow}, more : BOOLEAN]
Resting(f, n) ==
  [st |-> "idle", filter |-> f, limit |-> n, page |-> {}, last |-> NoRow, more |-> FALSE]

FeedInit ==
  /\ now = 0
  /\ entries = [i \in RowIds |-> NoRowYet]
  /\ chosen \in Filters
  /\ \E n \in 1..MaxLimit : load = Resting(chosen, n)
  /\ shown = {} /\ cursor = NoRow /\ button = FALSE /\ asked = {} /\ owed = {}

-----------------------------------------------------------------------------
(* The log: transactions of other requests.                                *)

Tick == now < MaxTime /\ now' = now + 1 /\ UNCHANGED <<entries, panelVars>>

\* BEGIN: now() of the transaction is fixed.
BeginRow(i) ==
  /\ entries[i].st = "none"
  /\ entries' = [entries EXCEPT ![i].st = "open", ![i].at = now]
  /\ UNCHANGED <<now, panelVars>>

\* The insert and the COMMIT: the row is seen from here on.
CommitRow(i, a) ==
  /\ entries[i].st = "open"
  /\ entries' = [entries EXCEPT ![i].st = "in", ![i].action = a]
  /\ UNCHANGED <<now, panelVars>>

RollBackRow(i) ==
  /\ entries[i].st = "open"
  /\ entries' = [entries EXCEPT ![i] = NoRowYet]
  /\ UNCHANGED <<now, panelVars>>

-----------------------------------------------------------------------------
(* The query.                                                              *)

Ms(t) == t \div Milli

\* The filters look at the full time of the row, the cursor at its milliseconds.
Matches(f, i) ==
  /\ entries[i].st = "in"
  /\ f.action \in {AnyAction, entries[i].action}
  /\ f.range[1] * Milli <= entries[i].at /\ entries[i].at <= f.range[2] * Milli

\* (date_trunc('milliseconds', created_at), id) < (that of j)
Older(i, j) ==
  \/ Ms(entries[i].at) < Ms(entries[j].at)
  \/ Ms(entries[i].at) = Ms(entries[j].at) /\ i < j

\* The cursor taken for the full time of the row it comes from.
BugListed(f, c) ==
  {i \in RowIds : /\ Matches(f, i)
               /\ \/ c = NoRow
                  \/ entries[i].at < Ms(entries[c].at) * Milli
                  \/ entries[i].at = Ms(entries[c].at) * Milli /\ i < c}

\* The rows a query finds, before its ORDER BY and LIMIT.
Listed(f, c) == {i \in RowIds : Matches(f, i) /\ (c = NoRow \/ Older(i, c))}

\* ORDER BY ... DESC LIMIT n: the n newest of S, or all when there are fewer.
Newest(S, n) ==
  {P \in SUBSET S :
     /\ \A i \in P, j \in S \ P : Older(j, i)
     /\ Cardinality(P) <= n
     /\ Cardinality(P) = n \/ P = S}

\* visible[visible.length - 1] ?? null
LastOf(P) ==
  IF P = {} THEN {NoRow} ELSE {i \in P : \A j \in P : j = i \/ Older(i, j)}

-----------------------------------------------------------------------------
(* The panel and the route.                                                *)

Ask(f) == load' = [Resting(f, load.limit) EXCEPT !.st = "asked"]

\* loadAuditLog(true): the list is cleared and the first page asked for.
Reload(f) ==
  /\ Ask(f)
  /\ shown' = {} /\ cursor' = NoRow /\ asked' = {} /\ owed' = {}
  /\ UNCHANGED <<logVars, button>>

Refresh == load.st = "idle" /\ Reload(chosen) /\ UNCHANGED chosen

\* Another action to filter by; a range is only for readers of the route.
\* While a page is under way the list is not loaded again.
Choose(f) ==
  /\ f # chosen /\ f.range = chosen.range
  /\ chosen' = f
  /\ \/ load.st = "idle" /\ Reload(f)
     \/ load.st # "idle" /\ UNCHANGED <<logVars, load, shown, cursor, button, asked, owed>>

\* loadAuditLog(false): from the cursor, with the filter chosen by now.
LoadMore ==
  /\ load.st = "idle" /\ button
  /\ Ask(chosen)
  /\ UNCHANGED <<logVars, chosen, shown, cursor, button, asked, owed>>

\* limit + 1 rows are asked for: one too many says that there are more. With
\* limit = 100, the most the repository gives, a full page needs a probe.
Query ==
  /\ load.st = "asked"
  /\ LET S == Listed(load.filter, cursor)
         peek == IF load.limit < MaxLimit THEN load.limit + 1 ELSE MaxLimit
     IN \E got \in Newest(S, peek) :
          LET more == peek > load.limit /\ Cardinality(got) = peek
          IN \E page \in IF more THEN Newest(got, load.limit) ELSE {got} :
               \E last \in LastOf(page) :
                 load' = [load EXCEPT !.page = page, !.last = last, !.more = more,
                            !.st = IF ~more /\ load.limit = MaxLimit
                                      /\ Cardinality(page) = MaxLimit
                                   THEN "probe" ELSE "answer"]
  /\ owed' = IF cursor = NoRow THEN Listed(load.filter, NoRow) ELSE owed
  /\ UNCHANGED <<logVars, chosen, shown, cursor, button, asked>>

\* A second transaction looks for one row below the last of the page.
Probe ==
  /\ load.st = "probe"
  /\ load' = [load EXCEPT !.st = "answer", !.more = Listed(load.filter, load.last) # {}]
  /\ UNCHANGED <<logVars, chosen, shown, cursor, button, asked, owed>>

\* The page is appended; its last row is the cursor if there are more.
Receive ==
  /\ load.st = "answer"
  /\ shown' = shown \cup load.page
  /\ cursor' = IF load.more THEN load.last ELSE NoRow
  /\ button' = load.more
  /\ asked' = asked \cup {load.filter}
  /\ load' = Resting(load.filter, load.limit)
  /\ UNCHANGED <<logVars, chosen, owed>>

\* No answer, or a refusal: the panel says so; list, cursor and button stay.
LoadFails ==
  /\ load.st # "idle"
  /\ load' = Resting(load.filter, load.limit)
  /\ UNCHANGED <<logVars, chosen, shown, cursor, button, asked, owed>>

-----------------------------------------------------------------------------
FeedNext ==
  \/ Tick
  \/ \E i \in RowIds : BeginRow(i)
  \/ \E i \in RowIds, a \in Actions : CommitRow(i, a)
  \/ \E i \in RowIds : RollBackRow(i)
  \/ \E f \in Filters : Choose(f)
  \/ Refresh
  \/ LoadMore
  \/ Query
  \/ Probe
  \/ Receive
  \/ LoadFails

FeedSpec == FeedInit /\ [][FeedNext]_feedVars

-----------------------------------------------------------------------------
FeedTypeOK ==
  /\ now \in 0..MaxTime
  /\ entries \in [RowIds -> Row]
  /\ chosen \in Filters
  /\ load \in Load
  /\ shown \subseteq RowIds
  /\ cursor \in RowIds \cup {NoRow}
  /\ button \in BOOLEAN
  /\ asked \subseteq Filters
  /\ owed \subseteq RowIds

\* Pages go on where the list ends: whatever is committed, chosen or lost in
\* between, no row comes twice, nor above one that is shown.
PagesGoOn == \A i \in load.page, j \in shown : Older(i, j)

\* Once a reader has come to the end of the list under one filter, every row
\* that matched when the first page was read has been shown, and no other kind.
ListIsWhole ==
  \A f \in Filters : asked = {f} =>
    /\ \A i \in shown : Matches(f, i)
    /\ cursor = NoRow => owed \subseteq shown

FeedIsTrue == PagesGoOn /\ ListIsWhole
=============================================================================
