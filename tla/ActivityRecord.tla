---------------------------- MODULE ActivityRecord ----------------------------
(* Writing the activity log: services/activityLog.ts, the inserts of        *)
(* repositories/activityLog.ts and the transactions they run in.            *)
(*                                                                          *)
(* A request changes something and records it in the same transaction. The  *)
(* sanitizer refuses a payload that names anything secret, at any depth; a  *)
(* refusal or a failed insert takes the change with it. Only the view of a  *)
(* report goes on without its row. A key is the sequence of its words, as   *)
(* splitKeyToWords gives them; a payload is the set of the paths to its     *)
(* values, a path being the keys from the outside in. Values are left out.  *)
EXTENDS Naturals, Sequences

CONSTANTS
  Writers,     \* requests, each a transaction that records one event
  SlipPayloads \* payloads a caller might pass by mistake

VARIABLES
  writer,     \* by request: its event and how far it is
  changes, \* the requests whose change is committed
  log      \* activity_log: the rows committed
auditVars == <<writer, changes, log>>

-----------------------------------------------------------------------------
(* The events: action, target type, pool of the transaction, payload.      *)

Flat(ks) == {<<k>> : k \in ks}
Event(action, target, pool, payload) ==
  [action |-> action, target |-> target, pool |-> pool, payload |-> payload]
App(action, target, ks) == Event(action, target, "app", Flat(ks))
Service(action, target, ks) == Event(action, target, "service", Flat(ks))

Nothing == {}
Fields == {<<"fields">>}
CallId == <<"call", "id">>
CustomerId == <<"customer", "id">>
RecordingId == <<"recording", "id">>
TeamId == <<"team", "id">>

LoginEvents ==
  { App("mfa.login_challenge_issued", "auth_token", {<<"kind">>, <<"method">>, <<"expires", "at">>}),
    Service("mfa.login_verified", "session", {<<"method">>}),
    App("auth.refresh_mfa_required", "session", {<<"reason">>}) }

FactorEvents ==
  { App("mfa.disabled", "user", {<<"method">>}) }
  \cup UNION { { Event("mfa.setup_started", "user", pool, Flat({<<"flow">>, <<"method">>})),
                 Event("mfa.failed_attempt", "user", pool,
                       Flat({<<"flow">>, <<"failed", "attempt", "count">>})),
                 Event("mfa.locked", "user", pool, Flat({<<"flow">>, <<"locked", "until">>})),
                 Event("mfa.enabled", "user", pool, Flat({<<"method">>})) } : pool \in {"app", "service"} }

OrganizationEvents ==
  { App(a, "organization", ks) :
      a \in {"organization.mfa_required_enabled", "organization.mfa_required_disabled"},
      ks \in {Nothing, {<<"members", "without", "mfa", "count">>}} }
  \cup { App("billing.profile_updated", "organization", Fields) }

MembershipEvents ==
  { App("membership.role_changed", "membership", {<<"from", "role">>, <<"to", "role">>}),
    App("membership.status_changed", "membership", {<<"from", "status">>, <<"to", "status">>}) }

InvitationEvents ==
  { App("invitation.created", "invitation", {<<"role">>, TeamId}),
    App("invitation.resent", "invitation", {<<"invitation", "id">>}),
    App("invitation.cancelled", "invitation", {<<"invitation", "id">>}),
    Service("invitation.accepted", "invitation",
            {<<"invitation", "id">>, <<"membership", "id">>, <<"role">>, TeamId}) }

CustomerEvents ==
  { App("customer.created", "customer", {<<"status">>}),
    App("customer.updated", "customer", Fields),
    App("customer.deleted", "customer", Nothing) }

CallEvents ==
  { App("call.created", "call", {<<"direction">>, CustomerId, <<"agent", "user", "id">>}),
    App("call.ended", "call", {<<"final", "status">>, <<"duration", "seconds">>}) }

LinkEvents ==
  { App("call.customer_linked", "call", {CustomerId}),
    App("call.customer_unlinked", "call", {<<"previous", "customer", "id">>}) }

NoteEvents ==
  { App("call.notes_updated", "call", {<<"notes", "length">>}),
    App("call.manual_summary_updated", "call", Fields) }

ItemEvents ==
  { App("call_action_item.created", "call_action_item", {CallId, <<"assignee", "user", "id">>}),
    App("call_action_item.status_changed", "call_action_item",
        {CallId, <<"from", "status">>, <<"to", "status">>}),
    App("call_action_item.assignee_changed", "call_action_item",
        {CallId, <<"from", "assignee", "user", "id">>, <<"to", "assignee", "user", "id">>}),
    App("call_action_item.deleted", "call_action_item", {CallId}) }

KnowledgeEvents ==
  { App("knowledge_base.created", "knowledge_base", Nothing),
    App("knowledge_base.updated", "knowledge_base", Fields),
    App("knowledge_base.deleted", "knowledge_base", Nothing) }

TemplateEvents ==
  { App("checklist_template.created", "checklist_template", {<<"is", "active">>, <<"sort", "order">>}),
    App("checklist_template.updated", "checklist_template", Fields),
    App("checklist_template.deleted", "checklist_template", Nothing) }

ViewEvents ==
  { App("report.team_viewed", "report",
        {<<"scope">>, TeamId, <<"from">>, <<"to">>, <<"window", "days">>}) }

UploadEvents ==
  LET file == {RecordingId, <<"content", "type">>, <<"size", "bytes">>, <<"duration", "seconds">>}
  IN { App("recording.upload_initiated", "call", file \cup {<<"ttl", "seconds">>}),
       App("recording.finalized", "call", file) }

RecordingEvents ==
  { App("recording.playback_url_issued", "call", {RecordingId, <<"ttl", "seconds">>}),
    App("recording.delete_requested", "call", {RecordingId, <<"previous", "status">>}),
    App("recording.deleted", "call", {RecordingId}) }

RetentionEvents ==
  LET sweep == {<<"actor", "type">>, <<"cutoff">>, <<"deleted", "count">>, <<"batch", "size">>,
                <<"batches">>, <<"retention", "days">>}
  IN { App("retention.transcripts_deleted", "organization", sweep),
       App("email_outbox.sending_recovered", "organization",
           {<<"actor", "type">>, <<"cutoff">>, <<"recovered", "count">>,
            <<"stuck", "after", "seconds">>}),
       Event("retention.recordings_deleted", "organization", "app",
             Flat(sweep \cup {<<"uploaded", "before">>, <<"object", "not", "found", "count">>,
                              <<"failed", "count">>,
                              <<"delete", "pending", "retried", "count">>})
             \cup { <<<<"storage", "provider", "counts">>, <<p>>>> : p \in {"local", "s3", "minio"} }) }

Helpers ==
  UNION {LoginEvents, FactorEvents, OrganizationEvents, MembershipEvents, InvitationEvents,
         CustomerEvents, CallEvents, LinkEvents, NoteEvents, ItemEvents, KnowledgeEvents,
         TemplateEvents, ViewEvents, UploadEvents, RecordingEvents, RetentionEvents}

\* A caller that hands the sanitizer what it is there to keep out.
Slips == { Event("customer.updated", "customer", "app", p) : p \in SlipPayloads }

NoEvent == Event("none", "none", "none", {})

\* activity_log_action_check, in step with the type ActivityAction.
AllowedActions ==
  { "auth.login", "auth.logout", "auth.refresh_mfa_required", "auth.password_reset_requested",
    "auth.password_reset_completed", "auth.email_verified", "auth.email_verification_resent",
    "mfa.login_challenge_issued", "mfa.login_verified", "mfa.setup_started", "mfa.enabled",
    "mfa.disabled", "mfa.failed_attempt", "mfa.locked", "organization.mfa_required_enabled",
    "organization.mfa_required_disabled", "membership.role_changed", "membership.status_changed",
    "membership.team_changed", "invitation.created", "invitation.resent", "invitation.cancelled",
    "invitation.accepted", "customer.created", "customer.updated", "customer.deleted",
    "call.created", "call.ended", "call.customer_linked", "call.customer_unlinked",
    "call.notes_updated", "call.manual_summary_updated", "call_action_item.created",
    "call_action_item.status_changed", "call_action_item.assignee_changed",
    "call_action_item.deleted", "knowledge_base.created", "knowledge_base.updated",
    "knowledge_base.deleted", "knowledge_chunk.replaced", "checklist_template.created",
    "checklist_template.updated", "checklist_template.deleted", "report.team_viewed",
    "retention.transcripts_deleted", "email_outbox.sending_recovered", "billing.profile_updated",
    "recording.upload_initiated", "recording.finalized", "recording.playback_url_issued",
    "recording.delete_requested", "recording.deleted", "retention.recordings_deleted" }

\* activity_log_target_type_check
TargetTypes ==
  { "organization", "user", "membership", "invitation", "customer", "call", "call_action_item",
    "knowledge_base", "knowledge_chunk", "checklist_template", "auth_token", "session", "report" }

-----------------------------------------------------------------------------
(* The sanitizer.                                                          *)

ForbiddenWords == {"token", "secret", "password", "ciphertext", "key", "raw"}
SafeKeys == {<<"auth", "token", "id">>}

WordsOf(k) == {k[n] : n \in 1..Len(k)}
ForbiddenKey(k) == k \notin SafeKeys /\ WordsOf(k) \cap ForbiddenWords # {}

\* Only the outermost keys are looked at.
BugSanitizes(payload) == \A path \in payload : ~ForbiddenKey(path[1])

\* sanitizeObject goes down into objects and arrays: every key of every path.
Sanitizes(payload) == \A path \in payload : \A n \in 1..Len(path) : ~ForbiddenKey(path[n])

-----------------------------------------------------------------------------
(* A request.                                                              *)

\* tryRecordActivity is for views only.
BestEffort(e) == e.action = "report.team_viewed"

\* insertActivity reads the row back with RETURNING, insertActivityVoid of
\* the service pool does not.
ReadsBack(e) == e.pool = "app"

\* The role of the service pool may insert into activity_log and not read it.
Admitted(e) ==
  /\ e.action \in AllowedActions /\ e.target \in TargetTypes
  /\ e.pool = "service" => ~ReadsBack(e)

AuditInit ==
  /\ writer = [w \in Writers |-> [st |-> "none", event |-> NoEvent, row |-> FALSE, why |-> "none"]]
  /\ changes = {} /\ log = {}

\* BEGIN, in a request that is going to record e.
BeginWriter(w, e) ==
  /\ writer[w].st = "none"
  /\ writer' = [writer EXCEPT ![w].st = "begun", ![w].event = e]
  /\ UNCHANGED <<changes, log>>

\* The statements the event is about.
Change(w) ==
  /\ writer[w].st = "begun"
  /\ writer' = [writer EXCEPT ![w].st = "changed"]
  /\ UNCHANGED <<changes, log>>

\* The exception goes up and the transaction is rolled back.
Refuse(w, why) ==
  writer' = [writer EXCEPT ![w].st = "refused", ![w].row = FALSE, ![w].why = why]

\* The row is inserted. For a view, a SAVEPOINT around the insert lets the
\* transaction go on without it.
Recorded(w) ==
  /\ writer[w].st = "changed"
  /\ LET e == writer[w].event
     IN /\ Sanitizes(e.payload) /\ Admitted(e)
        /\ writer' = [writer EXCEPT ![w].st = "recorded", ![w].row = TRUE]
  /\ UNCHANGED <<changes, log>>

\* The sanitizer or the table refuses it, or the database fails.
NotRecorded(w) ==
  /\ writer[w].st = "changed"
  /\ LET e == writer[w].event
     IN \E why \in {"sanitizer", "table", "failure"} :
          /\ why = "sanitizer" => ~Sanitizes(e.payload)
          /\ why = "table" => Sanitizes(e.payload) /\ ~Admitted(e)
          /\ why = "failure" => Sanitizes(e.payload) /\ Admitted(e)
          /\ IF BestEffort(e) THEN writer' = [writer EXCEPT ![w].st = "recorded"] ELSE Refuse(w, why)
  /\ UNCHANGED <<changes, log>>

Commit(w) ==
  /\ writer[w].st = "recorded"
  /\ writer' = [writer EXCEPT ![w].st = "answered"]
  /\ changes' = changes \cup {w}
  /\ log' = log \cup (IF writer[w].row THEN {[of |-> w, payload |-> writer[w].event.payload]} ELSE {})

\* Any other statement of the request fails, or the COMMIT.
Stops(w) ==
  /\ writer[w].st \in {"begun", "changed", "recorded"}
  /\ Refuse(w, "failure")
  /\ UNCHANGED <<changes, log>>

AuditNext ==
  \/ \E w \in Writers, e \in Helpers \cup Slips : BeginWriter(w, e)
  \/ \E w \in Writers : Change(w)
  \/ \E w \in Writers : Recorded(w)
  \/ \E w \in Writers : NotRecorded(w)
  \/ \E w \in Writers : Commit(w)
  \/ \E w \in Writers : Stops(w)

AuditSpec == AuditInit /\ [][AuditNext]_auditVars

-----------------------------------------------------------------------------
\* A change is committed with the row of its event or not at all, only a view
\* does without; no event the code records is refused for what it says, and
\* nothing secret is in the log, whatever a caller hands over.
AuditIsJust ==
  /\ \A w \in Writers :
       LET j == writer[w]
           written == \E r \in log : r.of = w
       IN /\ (w \in changes) <=> (j.st = "answered")
          /\ written => w \in changes
          /\ w \in changes => written \/ BestEffort(j.event)
          /\ j.st = "refused" /\ j.event \in Helpers => j.why = "failure"
          /\ j.st = "refused" /\ BestEffort(j.event) => j.why = "failure"
  /\ \A r \in log : \A path \in r.payload : \A n \in 1..Len(path) :
       path[n] = <<"auth", "token", "id">> \/ WordsOf(path[n]) \cap ForbiddenWords = {}
=============================================================================
