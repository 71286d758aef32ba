------------------------------- MODULE Execution -------------------------------
(***************************************************************************)
(* One call of execute() together with the dispatch it makes: AgentRuntime *)
(* for all the runs, and for the run Caller the KanbanDispatcherAdapter    *)
(* that works while the caller is at "dispatch".  What the adapter returns *)
(* or raises is what the runtime gets, and the events it observed are what *)
(* the runtime persists, one insert after the other, each of which may be  *)
(* lost, or be applied after the call has given up or died.                *)
(***************************************************************************)
EXTENDS AgentRuntime, KanbanAdapter

CONSTANT Caller    \* the run whose dispatch is followed

VARIABLE stored    \* the adapter's events the table agent_events has for Caller

execVars == <<vars, adapterVars, stored>>

ASSUME CallerAssumption == Caller \in Runs

(* What the runtime can be handed: a batch has at most Timeout + 2 events. *)
AdapterOutcomes ==
  [tests : Gates, review : Gates, events : 0 .. Timeout + 2, valid : BOOLEAN]
ASSUME AdapterOutcomesAssumption == AdapterOutcomes \subseteq Outcomes

ExecInit == Init /\ AdapterInit /\ stored = <<>>

(* A batch and the fields of a result, as execute() looks at them. *)
OutcomeOf(batch, fields) ==
  [tests  |-> IF fields.tests_status = "passed" THEN "ok" ELSE "missing",
   review |-> IF fields.review_status = "approved" THEN "ok" ELSE "missing",
   events |-> Len(Deduplicated(batch)),
   valid  |-> Accepted(batch)]

(* dispatch(context): a step of the adapter, and what its end means. *)
CallerDispatches ==
  /\ pc[Caller] = "dispatch"
  /\ \/ (Started \/ Poll) /\ UNCHANGED vars
     \/ /\ ReturnsDone \/ ReturnsBlocked
        /\ DispatchReturns(Caller, OutcomeOf(events', result'))
     \/ /\ RunFailed \/ TimesOut
        /\ DispatchRaisesEvents(Caller, OutcomeOf(events', result'))
     \/ StartBlocked /\ DispatchRaises(Caller, "blocked")
     \/ BoardFails /\ DispatchRaises(Caller, "failed")
  /\ UNCHANGED stored

(* The insert the store applies, in its turn or late, is the next one of   *)
(* the batch without its duplicates.                                       *)
Records ==
  stored' =
    IF agent_events'[Caller] = Append(agent_events[Caller], "kanban")
    THEN Append(stored, Deduplicated(events)[posted[Caller] + 1])
    ELSE stored

(* A step A of the runtime in which the dispatch of Caller does not end. *)
Apart(A) ==
  /\ A
  /\ pc[Caller] = "dispatch" => pc'[Caller] \in {"dispatch", "crashed"}
  /\ Records
  /\ UNCHANGED adapterVars

ExecNext == CallerDispatches \/ Apart(Next)

ExecSpec == ExecInit /\ [][ExecNext]_execVars

(* The fairness of AgentRuntime.  The adapter's steps are steps of its     *)
(* caller: a sleep ends, and a call of the board answers or raises.        *)
ExecFairness ==
  /\ WF_execVars(CallerDispatches \/ Apart(pc[Caller] # "idle" /\ WorkerStep(Caller)))
  /\ \A r \in Runs \ {Caller} : WF_execVars(Apart(pc[r] # "idle" /\ WorkerStep(r)))
  /\ \A r \in Runs : WF_execVars(Apart(RefusalGoesOn(r)))
  /\ WF_execVars(Apart(TimePasses))

FairExecSpec == ExecSpec /\ ExecFairness

-------------------------------------------------------------------------------
(* The payloads the functions of sql/ write themselves *)

(* result.fields(), of which the columns without a value are stripped. *)
FinishPayload == Payload(result, DOMAIN result)

SqlPayload(kind) ==
  CASE kind = "lock.acquired" -> [ttl_seconds |-> "number", expires_at |-> "time"]
    [] kind = "run.started" ->
         [risk |-> "low", execution_mode |-> "auto", environment |-> "local"]
    [] kind = "lock.rejected" -> [reason |-> "RunConflict", attempted_run_id |-> "run"]
    [] kind = "run.completed" -> FinishPayload
    [] kind = "run.failed" -> [error |-> "RuntimeError", error_code |-> "RuntimeError"]
    [] kind = "run.blocked" -> [error |-> "ExecutionBlocked"]
    [] kind = "lock.released" -> [finished_status |-> "status"]
    [] kind = "lock.expired" -> [expired_at |-> "time", last_heartbeat_at |-> "time"]
    [] kind = "lock.recovered" -> [previous_run_id |-> "run"]
    [] OTHER -> <<>>
ASSUME WordsAssumption ==
  NoValue \notin {"number", "time", "RunConflict", "RuntimeError", "ExecutionBlocked"}

(* The row of agent_events an insert without an adapter event leaves. *)
SqlEvent(kind) == [kind |-> kind, payload |-> SqlPayload(kind)]
Written(kind) == \E k \in DOMAIN agent_events[Caller] : agent_events[Caller][k] = kind

-------------------------------------------------------------------------------
(* Properties *)

(* The table has the first events of the batch, each once and in order,    *)
(* whatever inserts are lost, late, or applied after the process died      *)
(* (runtime.py 220-221).                                                   *)
StoredInOrder ==
  /\ Len(stored) =< Len(Deduplicated(events))
  /\ \A k \in DOMAIN stored : stored[k] = Deduplicated(events)[k]

(* A completed run has the whole trail of its dispatch in the table, even  *)
(* when its finish was applied after the worker gave up (runtime.py 172).  *)
CompletedTrailIsWhole ==
  agent_runs[Caller].status = "completed" =>
    Accepted(events) /\ stored = Deduplicated(events)

(* A call that was answered and lost no insert leaves the whole trail of   *)
(* its dispatch or none: none if the contract refuses one event of it, and *)
(* none if the board failed, whose exception does not carry the events     *)
(* observed before (runtime.py 188-192, kanban.py 132).                    *)
NoInsertLost == "kanban" \notin late[Caller] /\ Len(stored) = posted[Caller]
TrailIsWholeOrAbsent ==
  pc[Caller] \in {"returned", "raised"} /\ NoInsertLost =>
    stored = IF at = "raised" THEN <<>> ELSE Persistable(events)

(* A gated run that completed from a done card has the gates it passed in  *)
(* a row of the table, not only in the columns its finish wrote (kanban.py *)
(* 154-157, runtime.py 175-182, 224-228).                                  *)
GatesAreOnRecord ==
  agent_runs[Caller].status = "completed" /\ Caller \in Gated /\ snapshot.status = "done" =>
    \E k \in DOMAIN stored :
      /\ Get(stored[k].payload, "tests_status") = "passed"
      /\ Get(stored[k].payload, "review_status") = "approved"

(* The inductive invariant: where the caller is while the adapter is at    *)
(* work, and how far the inserts of what it observed have come.            *)
Entries == {Deduplicated(events)[k] : k \in DOMAIN Deduplicated(events)}
Lost == "kanban" \in late[Caller]
NothingStored ==
  /\ posted[Caller] = 0 /\ stored = <<>> /\ ~Lost
  /\ pc[Caller] \notin {"persist", "flush", "complete"}

Handed ==
  /\ pc[Caller] \notin {"idle", "refused", "conflict", "progress", "announce", "dispatch"}
  /\ pc[Caller] = "persist" => at = "returned"
  /\ outcome[Caller] = OutcomeOf(events, result)
  /\ stored \in Seq(Entries)
  /\ Len(stored) \in {posted[Caller], posted[Caller] + 1}
  /\ \A k \in DOMAIN stored : stored[k] = Deduplicated(events)[k]
  /\ pc[Caller] \in {"persist", "flush", "complete"} => NoInsertLost
  /\ ~NoInsertLost => outcome[Caller].valid /\ posted[Caller] < outcome[Caller].events
  /\ Lost => Len(stored) = posted[Caller]
  /\ outcome[Caller].valid => posted[Caller] =< outcome[Caller].events
  /\ ~outcome[Caller].valid => posted[Caller] = 0 /\ pc[Caller] # "complete"
  /\ NoInsertLost /\ pc[Caller] \notin {"persist", "flush"} =>
       ~outcome[Caller].valid \/ posted[Caller] = outcome[Caller].events

ExecInv ==
  /\ pc[Caller] \in {"idle", "refused", "conflict", "progress", "announce"} => at = "start"
  /\ pc[Caller] = "dispatch" => at \in {"start", "poll"}
  /\ at = "poll" => pc[Caller] \in {"dispatch", "crashed"}
  /\ at \in {"start", "blocked"} => events = <<>>
  /\ at \in {"start", "poll", "blocked", "raised"} => NothingStored
  /\ at \in {"returned", "failed", "timeout"} => Handed
  /\ moved[Caller] = "In Review" => at = "returned"

(* Every row the table has for Caller meets the contract of payloads.py,   *)
(* those the functions of sql/ write without it included, except the       *)
(* run.completed of a blocked card, whose fields no event of the batch     *)
(* carried past the contract (kanban.py 147-152, supabase.py 78-82).       *)
AuditMeetsContract ==
  /\ Accepted(stored)
  /\ \A kind \in EventKinds \ {"kanban"} :
       /\ Written(kind)
       /\ ~(kind = "run.completed" /\ snapshot.status = "blocked")
       => ValidEvent(SqlEvent(kind))

(* With the adapter for its dispatch the runtime is the one of             *)
(* AgentRuntime: no batch and no result is one it was not modelled with.   *)
ImplementsRuntime == Spec
===============================================================================
