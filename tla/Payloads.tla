------------------------------- MODULE Payloads -------------------------------
(***************************************************************************)
(* The payload contract of payloads.py, and the batch of _persist_events   *)
(* that it guards.  An event is a kind and a payload, a function whose     *)
(* domain is the fields that are present.                                  *)
(*                                                                         *)
(* A value is the word itself where the contract lists words, and else the *)
(* name of what the contract tells apart: "task", "run" and "sha" are      *)
(* identifiers of the right format, "url" is an HTTPS URL without query,   *)
(* "number" and "negative" are integers, "list" is anything that is not a  *)
(* scalar, "empty" is the empty string, "secret" is a text with one of the *)
(* forbidden words, and any other value is a text of no format.            *)
(***************************************************************************)
EXTENDS Naturals, Sequences, FiniteSets

CONSTANT NoValue    \* what reading an absent field gives: None

(* The required and the optional fields of a kind. *)
Fields(required, optional) == [required |-> required, optional |-> optional]
CardFields == {"kanban_task_id", "status"}
(* Mutant: no kind lists the assignee of its card. *)
MutantContextFields == {"run_id", "linear_issue_id", "agent"}

ContextFields == {"assignee", "run_id", "linear_issue_id", "agent"}
GateFields == {"tests_status", "review_status"}
ReferenceFields == {"commit_sha", "pull_request_url", "railway_deployment_id"}

KanbanFields(kind) ==
  CASE kind = "kanban.status_changed" -> Fields(CardFields, ContextFields \cup {"kanban_outcome"})
    [] kind = "kanban.completed" ->
         Fields(CardFields, ContextFields \cup GateFields \cup ReferenceFields \cup {"kanban_outcome"})
    [] kind = "kanban.blocked" ->
         Fields(CardFields, ContextFields \cup GateFields \cup {"kanban_outcome"})
    [] kind = "kanban.failed" -> Fields(CardFields \cup {"kanban_outcome"}, ContextFields)
    [] OTHER -> Fields(CardFields, ContextFields)

RunFields(kind) ==
  CASE kind = "run.created" -> Fields({}, {})
    [] kind = "run.started" ->
         Fields({}, {"linear_status_to", "risk", "execution_mode", "environment"})
    [] kind = "agent.dispatched" ->
         Fields({}, {"kanban_task_id", "dispatch_backend", "status", "assignee"})
    [] kind = "run.completed" -> Fields({}, GateFields \cup ReferenceFields)
    [] kind = "run.failed" ->
         Fields({"error"}, {"error_code", "kanban_task_id", "kanban_outcome"})
    [] kind = "run.blocked" ->
         Fields({"error"}, GateFields \cup {"blocked_reason", "kanban_task_id"})
    [] kind = "run.canceled" -> Fields({}, {"canceled_by", "reason"})

LockFields(kind) ==
  CASE kind = "lock.acquired" -> Fields({"ttl_seconds", "expires_at"}, {})
    [] kind = "lock.released" -> Fields({}, {"finished_status"})
    [] kind = "lock.rejected" -> Fields({"reason"}, {"attempted_run_id"})
    [] kind = "lock.expired" -> Fields({"expired_at"}, {"last_heartbeat_at", "ttl_seconds"})
    [] kind = "lock.recovered" -> Fields({}, {"recovered_by", "previous_run_id"})

DeployFields(kind) ==
  CASE kind = "tests.completed" ->
         Fields({"tests_status"}, {"command", "exit_code", "total", "passed", "failed",
                                   "skipped", "duration_ms", "artifact_path"})
    [] kind = "review.completed" ->
         Fields({"review_status"}, {"reviewer", "artifact_path", "pull_request_url"})
    [] kind = "deploy.requested" ->
         Fields({"environment"}, {"requested_by", "pull_request_url", "commit_sha"})
    [] kind = "deploy.completed" ->
         Fields({"railway_deployment_id", "environment", "deploy_status"},
                {"deployment_url", "commit_sha", "duration_ms"})

KanbanKinds == {"kanban.dispatched", "kanban.status_changed", "kanban.completed",
                "kanban.blocked", "kanban.failed", "kanban.timeout"}
RunKinds == {"run.created", "run.started", "agent.dispatched", "run.completed",
             "run.failed", "run.blocked", "run.canceled"}
LockKinds == {"lock.acquired", "lock.released", "lock.rejected", "lock.expired",
              "lock.recovered"}
DeployKinds == {"tests.completed", "review.completed", "deploy.requested", "deploy.completed"}

(* Mutant: lock.expired requires the expiry under the name it has when acquired. *)
MutantLockExpired(kind) ==
  CASE kind = "lock.expired" -> Fields({"expires_at"}, {"last_heartbeat_at", "ttl_seconds"})
    [] kind \in KanbanKinds -> KanbanFields(kind)
    [] kind \in RunKinds -> RunFields(kind)
    [] kind \in LockKinds \ {"lock.expired"} -> LockFields(kind)

EventFields(kind) ==
  CASE kind \in KanbanKinds -> KanbanFields(kind)
    [] kind \in RunKinds -> RunFields(kind)
    [] kind \in LockKinds -> LockFields(kind)
    [] kind \in DeployKinds -> DeployFields(kind)

Enums ==
  [ tests_status |-> {"passed", "failed", "skipped"},
    review_status |-> {"approved", "changes_requested", "blocked"},
    deploy_status |-> {"succeeded", "failed", "canceled"},
    environment |-> {"local", "preview", "staging", "production"},
    reason |-> {"RunConflict"} ]
IntFields == {"ttl_seconds", "total", "passed", "failed", "skipped", "duration_ms", "exit_code"}
UrlFields == {"pull_request_url", "deployment_url"}
IdPatterns == [run_id |-> "run", kanban_task_id |-> "task", commit_sha |-> "sha"]

(* What no field may hold, a text with one of _SECRET_WORDS last. *)
Forbidden == {"list", "empty", "secret"}

(* _validate_value *)
ValidValue(kind, field, value) ==
  /\ value \notin Forbidden
  /\ field \in IntFields =>
       value = "number" \/ (field = "exit_code" /\ value = "negative")
  /\ field \in DOMAIN Enums /\ (field = "reason" => kind = "lock.rejected") =>
       value \in Enums[field]
  /\ field = "environment" /\ kind \in {"deploy.requested", "deploy.completed"} =>
       value # "local"
  /\ field \in DOMAIN IdPatterns => value = IdPatterns[field]
  /\ field \in UrlFields => value = "url"

(* The fields of a payload that have a value; the others are dropped. *)
Present(payload) == {f \in DOMAIN payload : payload[f] # NoValue}

(* validate_event_payload does not raise. *)
ValidEvent(e) ==
  LET fields == EventFields(e.kind)
      present == Present(e.payload)
  IN  /\ DOMAIN e.payload \subseteq fields.required \cup fields.optional
      /\ fields.required \subseteq present
      /\ \A f \in present : ValidValue(e.kind, f, e.payload[f])
      /\ e.kind = "agent.dispatched" /\ present # {} => "kanban_task_id" \in present

(* A batch is persisted only if every event of it is valid. *)
Accepted(batch) == \A k \in DOMAIN batch : ValidEvent(batch[k])

(* dict.get *)
Get(payload, field) == IF field \in DOMAIN payload THEN payload[field] ELSE NoValue

(* Mutant: the kind is not part of the key. *)
MutantEventKey(e) ==
  <<Get(e.payload, "kanban_task_id"), Get(e.payload, "status"),
    Get(e.payload, "kanban_outcome")>>

(* _event_key of an event with a task: the gates are not part of it. *)
EventKey(e) ==
  <<e.kind, Get(e.payload, "kanban_task_id"), Get(e.payload, "status"),
    Get(e.payload, "kanban_outcome")>>

(* The places of a batch where a key occurs for the first time. *)
Firsts(batch) ==
  {k \in DOMAIN batch : \A j \in 1 .. k - 1 : EventKey(batch[j]) # EventKey(batch[k])}

(* The events _persist_events inserts: the first of every key, in order. *)
Deduplicated(batch) ==
  LET firsts == Firsts(batch)
      Nth(n) == CHOOSE k \in firsts : Cardinality({j \in firsts : j =< k}) = n
  IN  [n \in 1 .. Cardinality(firsts) |-> batch[Nth(n)]]
Persistable(batch) == IF Accepted(batch) THEN Deduplicated(batch) ELSE <<>>
===============================================================================
