----------------------------- MODULE KanbanAdapter -----------------------------
(***************************************************************************)
(* KanbanDispatcherAdapter: one dispatch.  It starts the work on the board *)
(* (the poller's start creates a card or takes an existing one), polls the *)
(* card until it is done, blocked, failed or too late, and returns or      *)
(* raises with the events it observed.                                     *)
(*                                                                         *)
(* The board belongs to the Hermes dispatcher, which this repository does  *)
(* not contain: between two reads a card may change in any way, so a read  *)
(* gives any card.  Time is the number of ticks left until the deadline; a *)
(* poll takes one or more of them.                                         *)
(***************************************************************************)
EXTENDS Payloads

CONSTANTS
  Timeout,     \* ticks until the deadline, counted in polls
  Contexts,    \* what an ExecutionContext says of its run
  Assignees,   \* who a card may be assigned to, NoValue if nobody
  Metadata     \* what the metadata of a finished card may say of the gates
               \* and of its references, for which commit_sha stands

ASSUME TimeoutAssumption == Timeout \in Nat \ {0}

VARIABLES
  at,          \* where the call is
  context,     \* the run the call is made for
  snapshot,    \* the card as last read
  last_status, \* the last status an event reported
  events,      \* the events observed so far
  left,        \* ticks until the deadline
  result       \* the fields of the ExecutionResult

adapterVars == <<at, context, snapshot, last_status, events, left, result>>

TERMINAL_DONE_STATUSES == {"done"}
TERMINAL_BLOCKED_STATUSES == {"blocked"}
Terminal == TERMINAL_DONE_STATUSES \cup TERMINAL_BLOCKED_STATUSES
(* "failed" stands for the four outcomes that fail a run, "other" for one  *)
(* that does not, such as the reclaim of a worker that vanished.           *)
TERMINAL_FAILED_OUTCOMES == {"failed"}
CardOutcomes == {NoValue, "other"} \cup TERMINAL_FAILED_OUTCOMES

(* ExecutionContext: the identifier of the run is a ULID, whose letters    *)
(* may happen to spell a forbidden word; the agent is one of the words of  *)
(* AGENTS; the identifier of the issue is whatever Linear gives it.        *)
ASSUME ContextAssumption ==
  \A x \in Contexts :
    /\ x = [run_id |-> x.run_id, linear_issue_id |-> x.linear_issue_id, agent |-> x.agent]
    /\ x.run_id \in {"run", "secret"}
    /\ x.linear_issue_id # NoValue
    /\ x.agent \notin Forbidden \cup {NoValue}

(* read_task: a card with its latest run; the metadata is the run's, on    *)
(* the level of the task as well, and is looked at when the card is        *)
(* terminal.  "missing" is a card that is gone, of which nothing is known. *)
CardStatuses == {"ready", "running", "missing"} \cup Terminal
NoMetadata == [tests_status |-> NoValue, review_status |-> NoValue, commit_sha |-> NoValue]
CardOf(status, who, outcome, m) ==
  [status |-> status, assignee |-> who, kanban_outcome |-> outcome,
   kanban_task_id |-> "task", tests_status |-> m.tests_status,
   review_status |-> m.review_status, commit_sha |-> m.commit_sha]
Unread == CardOf("missing", NoValue, NoValue, NoMetadata)
Readable ==
  {Unread} \cup
  {CardOf(s, a, o, NoMetadata) : s \in {"ready", "running"}, a \in Assignees,
                                 o \in CardOutcomes} \cup
  {CardOf(s, a, o, m) : s \in Terminal, a \in Assignees, o \in CardOutcomes,
                        m \in Metadata \cup {NoMetadata}}
ASSUME MetadataAssumption ==
  \A m \in Metadata : m = [tests_status |-> m.tests_status,
                           review_status |-> m.review_status, commit_sha |-> m.commit_sha]
ASSUME NoValueAssumption ==
  NoValue \notin CardStatuses \cup TERMINAL_FAILED_OUTCOMES \cup
             {"other", "task", "passed", "approved", "run", "secret"}

(* What the adapter knows of run x and card c, and the fields of it that   *)
(* an event of a kind states.                                              *)
Known(x, c) ==
  [f \in {"run_id", "linear_issue_id", "agent"} \cup DOMAIN c |->
     IF f \in DOMAIN c THEN c[f] ELSE x[f]]
Stated(kind) ==
  {"run_id", "linear_issue_id", "agent", "kanban_task_id", "status", "assignee",
   "kanban_outcome"} \cup
  IF kind = "kanban.completed" THEN {"tests_status", "review_status", "commit_sha"} ELSE {}

(* _event_payload: a field without a value is left out. *)
Payload(c, fields) == [f \in {g \in fields : c[g] # NoValue} |-> c[f]]
EventOf(x, kind, c) == [kind |-> kind, payload |-> Payload(Known(x, c), Stated(kind))]

Observe(kind, c) == events' = Append(events, EventOf(context, kind, c))

(* _result_fields *)
ResultOf(c) == [tests_status |-> c.tests_status, review_status |-> c.review_status,
                commit_sha |-> c.commit_sha]

AdapterInit ==
  /\ at = "start"
  /\ context \in Contexts
  /\ snapshot = Unread
  /\ last_status = "missing"
  /\ events = <<>>
  /\ left = Timeout
  /\ result = NoMetadata

(* The loop goes on: the card has neither ended nor failed. *)
Waits ==
  /\ at = "poll"
  /\ snapshot.status \notin Terminal
  /\ snapshot.kanban_outcome \notin TERMINAL_FAILED_OUTCOMES

(* Mutant: the event has a kind of its own. *)
MutantStarted ==
  /\ at = "start"
  /\ snapshot' \in Readable
  /\ last_status' = snapshot'.status
  /\ Observe("kanban.started", snapshot')
  /\ at' = "poll"
  /\ UNCHANGED <<context, left, result>>

(* start() returned a task, and the first read of it. *)
Started ==
  /\ at = "start"
  /\ snapshot' \in Readable
  /\ last_status' = snapshot'.status
  /\ Observe("kanban.dispatched", snapshot')
  /\ at' = "poll"
  /\ UNCHANGED <<context, left, result>>

(* start() refuses the context: ExecutionBlocked. *)
StartBlocked ==
  /\ at = "start"
  /\ at' = "blocked"
  /\ UNCHANGED <<context, snapshot, last_status, events, left, result>>

(* start() or a read of the board raises; no events travel with it. *)
BoardFails ==
  /\ at = "start" \/ (Waits /\ left > 0)
  /\ at' = "raised"
  /\ UNCHANGED <<context, snapshot, last_status, events, left, result>>

(* The latest run of a card that is not terminal has failed. *)
RunFailed ==
  /\ at = "poll"
  /\ snapshot.status \notin Terminal
  /\ snapshot.kanban_outcome \in TERMINAL_FAILED_OUTCOMES
  /\ Observe("kanban.failed", snapshot)
  /\ at' = "failed"
  /\ UNCHANGED <<context, snapshot, last_status, left, result>>

TimesOut ==
  /\ Waits
  /\ left = 0
  /\ Observe("kanban.timeout", snapshot)
  /\ at' = "timeout"
  /\ UNCHANGED <<context, snapshot, last_status, left, result>>

(* Mutant: a change is compared with the first status that was read. *)
MutantPoll ==
  /\ Waits
  /\ left > 0
  /\ left' \in 0 .. left - 1
  /\ snapshot' \in Readable
  /\ IF snapshot'.status # last_status
     THEN Observe("kanban.status_changed", snapshot')
     ELSE UNCHANGED events
  /\ UNCHANGED <<at, context, last_status, result>>

(* Mutant: every poll starts a new deadline. *)
MutantPollForever ==
  /\ Waits
  /\ left > 0
  /\ left' = Timeout
  /\ snapshot' \in Readable
  /\ events' = events
  /\ last_status' = snapshot'.status
  /\ UNCHANGED <<at, context, result>>

(* Mutant: the deadline is moved by every change of the card. *)
MutantPollUntimed ==
  /\ Waits
  /\ left > 0
  /\ snapshot' \in Readable
  /\ IF snapshot'.status # last_status
     THEN /\ last_status' = snapshot'.status
          /\ Observe("kanban.status_changed", snapshot')
          /\ UNCHANGED left
     ELSE /\ left' = left - 1
          /\ UNCHANGED <<last_status, events>>
  /\ UNCHANGED <<at, context, result>>

(* sleep and read again. *)
Poll ==
  /\ Waits
  /\ left > 0
  /\ left' \in 0 .. left - 1
  /\ snapshot' \in Readable
  /\ IF snapshot'.status # last_status
     THEN /\ last_status' = snapshot'.status
          /\ Observe("kanban.status_changed", snapshot')
     ELSE UNCHANGED <<last_status, events>>
  /\ UNCHANGED <<at, context, result>>

(* Mutant: the event of a done card does not carry the result. *)
MutantReturnsDone ==
  /\ at = "poll"
  /\ snapshot.status \in TERMINAL_DONE_STATUSES
  /\ result' = ResultOf(snapshot)
  /\ events' = Append(events, [kind |-> "kanban.completed",
                 payload |-> Payload(Known(context, snapshot), Stated("kanban.blocked"))])
  /\ at' = "returned"
  /\ UNCHANGED <<context, snapshot, last_status, left>>

(* The card is done: an ExecutionResult with what its metadata says. *)
ReturnsDone ==
  /\ at = "poll"
  /\ snapshot.status \in TERMINAL_DONE_STATUSES
  /\ result' = ResultOf(snapshot)
  /\ Observe("kanban.completed", snapshot)
  /\ at' = "returned"
  /\ UNCHANGED <<context, snapshot, last_status, left>>

(* The card is blocked: an ExecutionResult as well. *)
ReturnsBlocked ==
  /\ at = "poll"
  /\ snapshot.status \in TERMINAL_BLOCKED_STATUSES
  /\ result' = ResultOf(snapshot)
  /\ Observe("kanban.blocked", snapshot)
  /\ at' = "returned"
  /\ UNCHANGED <<context, snapshot, last_status, left>>

DispatchEnded == {"returned", "failed", "timeout", "blocked", "raised"}
DispatchOver == at \in DispatchEnded /\ UNCHANGED adapterVars

AdapterStep ==
  \/ Started \/ StartBlocked \/ BoardFails
  \/ RunFailed \/ TimesOut \/ Poll
  \/ ReturnsDone \/ ReturnsBlocked

AdapterNext == AdapterStep \/ DispatchOver

AdapterSpec == AdapterInit /\ [][AdapterNext]_adapterVars

(* A call of the adapter goes on: its sleeps end and the board answers. *)
FairAdapterSpec == AdapterSpec /\ WF_adapterVars(AdapterStep)

-------------------------------------------------------------------------------
(* What the runtime makes of a dispatch *)

GatesPassed == result.tests_status = "passed" /\ result.review_status = "approved"

(* execute() finishes the run completed. *)
Completes(gated) == at = "returned" /\ Accepted(events) /\ (gated => GatesPassed)

-------------------------------------------------------------------------------
(* Properties *)

(* Type correctness of the call. *)
AdapterTypeOK ==
  /\ at \in {"start", "poll"} \cup DispatchEnded
  /\ context \in Contexts
  /\ snapshot \in Readable
  /\ last_status \in CardStatuses
  /\ \A k \in DOMAIN events :
       events[k].kind \in KanbanKinds /\ CardFields \subseteq DOMAIN events[k].payload
  /\ left \in 0 .. Timeout
  /\ result \in Metadata \cup {NoMetadata}

(* The batch follows the card: its last event shows the status last read,  *)
(* and a change is reported only when the status is not the one reported   *)
(* before, so a card that comes back to a status is reported again         *)
(* (kanban.py 118, 132-135).                                               *)
ReportsFollowCard ==
  /\ events # <<>> => events[Len(events)].payload["status"] = snapshot.status
  /\ \A k \in 2 .. Len(events) :
       events[k].kind = "kanban.status_changed" =>
         events[k].payload["status"] # events[k - 1].payload["status"]

(* The adapter and the contract, two files that change apart, agree on     *)
(* everything but an outcome of the card at the first read or at the       *)
(* timeout, gates and references outside of the contract, and a forbidden  *)
(* word in the identifier of the run or of the issue or in the name of the *)
(* assignee (kanban.py 167-188, payloads.py 25-30).                        *)
ContractAgrees ==
  \A k \in DOMAIN events : ~ValidEvent(events[k]) =>
    \/ /\ events[k].kind \in {"kanban.dispatched", "kanban.timeout"}
       /\ "kanban_outcome" \in DOMAIN events[k].payload
    \/ /\ events[k].kind = "kanban.completed"
       /\ \E f \in GateFields \cup {"commit_sha"} :
            f \in DOMAIN events[k].payload /\ ~ValidValue(events[k].kind, f, events[k].payload[f])
    \/ \E f \in {"run_id", "linear_issue_id", "assignee"} :
         f \in DOMAIN events[k].payload /\ events[k].payload[f] \in Forbidden

EndingKind ==
  CASE at = "failed" -> "kanban.failed"
    [] at = "timeout" -> "kanban.timeout"
    [] snapshot.status = "done" -> "kanban.completed"
    [] OTHER -> "kanban.blocked"

(* Removing the duplicates of a batch never removes its first event or the *)
(* one that says how the dispatch ended (runtime.py 210-228).              *)
TrailEndsAsCall ==
  at \in {"returned", "failed", "timeout"} =>
    LET trail == Deduplicated(events)
    IN  /\ trail[1] = events[1] /\ trail[1].kind = "kanban.dispatched"
        /\ trail[Len(trail)].kind = EndingKind
        /\ trail[Len(trail)].payload["status"] = snapshot.status

(* A gated run that completes from a done card leaves the gates it passed  *)
(* in its trail (kanban.py 154-165, runtime.py 172-181).                   *)
CompletionIsTraced ==
  Completes(TRUE) /\ snapshot.status = "done" =>
    LET trail == Persistable(events)
    IN  \E k \in DOMAIN trail :
          /\ Get(trail[k].payload, "tests_status") = "passed"
          /\ Get(trail[k].payload, "review_status") = "approved"

(* A batch has at most an event for each tick, the first and the last one. *)
BatchBounded == Len(events) =< Timeout + 2

(* The inductive invariant of the loop, and what its exits leave: the last *)
(* event and the result are made from the card as last read, and no event  *)
(* before it is of a kind that ends a dispatch.                            *)
LoopInv ==
  /\ at = "start" => events = <<>> /\ left = Timeout
  /\ at = "poll" => /\ events # <<>>
                    /\ last_status = snapshot.status
                    /\ Len(events) + left =< Timeout + 1

Going == {"kanban.dispatched", "kanban.status_changed"}
ExitInv ==
  /\ events # <<>> => events[1].kind = "kanban.dispatched"
  /\ at = "poll" => \A k \in DOMAIN events : events[k].kind \in Going
  /\ at \in {"returned", "failed", "timeout"} =>
       /\ events # <<>>
       /\ events[Len(events)] = EventOf(context, EndingKind, snapshot)
       /\ \A k \in 1 .. Len(events) - 1 : events[k].kind \in Going
  /\ at = "returned" => result = ResultOf(snapshot) /\ snapshot.status \in Terminal

(* Every dispatch ends, whatever the card does: by its deadline at the     *)
(* latest (kanban.py 117, 128).                                            *)
DispatchEnds == <>(at \in DispatchEnded)

(* runtime.py 43 of the error a failed or late card raises: it comes       *)
(* "after observing events that must be persisted first".  None of them is *)
(* if the first read, or the timeout, sees an outcome of the card.         *)
ObservedEventsPersisted ==
  at \in {"failed", "timeout"} => Persistable(events) # <<>>
===============================================================================
