----------------------------- MODULE AgentRuntime -----------------------------
(***************************************************************************)
(* AgentRuntime.execute: the worker that claims an issue, beats while the  *)
(* dispatcher works, persists what the dispatcher observed, and finishes   *)
(* the run, together with its pulse thread, the store of RunStore, and     *)
(* everything that may go wrong between them: a call that is lost, late or *)
(* applied without an answer, a process that dies, a lock that expires     *)
(* under a worker that still runs, and a recovery by another tick.         *)
(*                                                                         *)
(* pc[r] is where execute() is for run r.  "close" is the finish of the    *)
(* except clause; "park" and "flush" are what the clause does before it.   *)
(* The calls that end: returned and raised (the store took the verdict),   *)
(* conflict (RunConflict from the claim), escaped (an exception left the   *)
(* claim or the except clause) and crashed (the process is gone).          *)
(***************************************************************************)
EXTENDS RunStore

CONSTANTS
  HB,         \* ticks the pulse waits between heartbeats
  Gated,      \* runs of dev-backend, dev-frontend and devops
  Outcomes    \* what a dispatch may return or raise: the two gates, how many
              \* distinct events it observed, and whether the payload
              \* contract accepts all of them

(* The constructor's check: a heartbeat is less than half the TTL. *)
ASSUME HeartbeatAssumption == HB \in Nat \ {0} /\ 2 * HB < TTL
ASSUME GatedAssumption == Gated \subseteq Runs
ASSUME OutcomesAssumption ==
  Outcomes \subseteq [tests : Gates, review : Gates, events : Nat, valid : BOOLEAN]

VARIABLES
  pc,        \* where the call of execute() for run r is
  pulse,     \* the heartbeat thread of r: "lost" is a recorded heartbeat error
  since,     \* ticks since the lock was last extended by r, capped at TTL
  outcome,   \* what the dispatch of r returned or raised
  posted,    \* how many of its events are persisted
  verdict,   \* the status the except clause finishes with
  moved,     \* the last move of the Linear issue acknowledged to r
  late       \* requests of r that got no answer and may still be applied

workerVars == <<pc, pulse, since, outcome, posted, verdict, moved, late>>
vars == <<storeVars, workerVars>>

Working == {"progress", "announce", "dispatch", "persist", "complete",
            "flush", "park", "close"}
Over == {"returned", "raised", "conflict", "escaped", "crashed"}
PCs == {"idle", "refused"} \cup Working \cup Over
Verdicts == {"completed", "failed", "blocked"}
Requests == {"claim", "heartbeat"} \cup WorkerEvents \cup Verdicts
NoOutcome == [tests |-> "missing", review |-> "missing", events |-> 0, valid |-> TRUE]

Init ==
  /\ StoreInit
  /\ pc = [r \in Runs |-> "idle"]
  /\ pulse = [r \in Runs |-> "off"]
  /\ since = [r \in Runs |-> 0]
  /\ outcome = [r \in Runs |-> NoOutcome]
  /\ posted = [r \in Runs |-> 0]
  /\ verdict = [r \in Runs |-> "failed"]
  /\ moved = [r \in Runs |-> "Todo"]
  /\ late = [r \in Runs |-> {}]

-------------------------------------------------------------------------------
(* Helpers *)

GoTo(r, place) == pc' = [pc EXCEPT ![r] = place]

(* Mutant: stop is never set. *)
MutantStopPulse(r) == UNCHANGED pulse

(* stop.set() and worker.join(): a recorded heartbeat error stays. *)
StopPulse(r) == pulse' = [pulse EXCEPT ![r] = IF @ = "beating" THEN "stopped" ELSE @]

(* Mutant: a blocked run is finished without the move of its issue. *)
MutantExcept(r, v) ==
  /\ StopPulse(r)
  /\ verdict' = [verdict EXCEPT ![r] = v]
  /\ GoTo(r, "close")

(* The except clause takes over with status v. *)
Except(r, v) ==
  /\ StopPulse(r)
  /\ verdict' = [verdict EXCEPT ![r] = v]
  /\ GoTo(r, IF v = "blocked" THEN "park" ELSE "close")

Persisted(r) == outcome[r].valid /\ posted[r] = outcome[r].events
GatesOpen(r) == r \in Gated => outcome[r].tests = "ok" /\ outcome[r].review = "ok"

-------------------------------------------------------------------------------
(* The worker *)

(* store.claim answers, the pulse thread starts. *)
Claim(r) ==
  /\ pc[r] = "idle"
  /\ ClaimGranted(r)
  /\ GoTo(r, "progress")
  /\ pulse' = [pulse EXCEPT ![r] = "beating"]
  /\ since' = [since EXCEPT ![r] = 0]
  /\ UNCHANGED <<outcome, posted, verdict, moved, late>>

ClaimMeetsConflict(r) ==
  /\ pc[r] = "idle"
  /\ ClaimRefused(r)
  /\ GoTo(r, "refused")
  /\ UNCHANGED <<pulse, since, outcome, posted, verdict, moved, late>>

(* The refused claim has returned false: RunConflict. *)
RaiseConflict(r) ==
  /\ pc[r] = "refused"
  /\ ~Rejecting(r)
  /\ GoTo(r, "conflict")
  /\ UNCHANGED <<storeVars, pulse, since, outcome, posted, verdict, moved, late>>

MoveInProgress(r) ==
  /\ pc[r] = "progress"
  /\ moved' = [moved EXCEPT ![r] = "In Progress"]
  /\ GoTo(r, "announce")
  /\ UNCHANGED <<storeVars, pulse, since, outcome, posted, verdict, late>>

(* Mutant: the event's type is not one of the contract's. *)
MutantAnnounce(r) ==
  /\ pc[r] = "announce"
  /\ PostEvent(r, "agent.started")
  /\ GoTo(r, "dispatch")
  /\ UNCHANGED <<pulse, since, outcome, posted, verdict, moved, late>>

Announce(r) ==
  /\ pc[r] = "announce"
  /\ PostEvent(r, "agent.dispatched")
  /\ GoTo(r, "dispatch")
  /\ UNCHANGED <<pulse, since, outcome, posted, verdict, moved, late>>

DispatchReturns(r, o) ==
  /\ pc[r] = "dispatch"
  /\ outcome' = [outcome EXCEPT ![r] = o]
  /\ StopPulse(r)
  /\ GoTo(r, "persist")
  /\ UNCHANGED <<storeVars, since, posted, verdict, moved, late>>

(* The dispatch raises: ExecutionBlocked from the start policy, or anything. *)
DispatchRaises(r, v) ==
  /\ pc[r] = "dispatch"
  /\ Except(r, v)
  /\ UNCHANGED <<storeVars, since, outcome, posted, moved, late>>

(* The dispatch raises an ExecutionEventError with the events it observed. *)
DispatchRaisesEvents(r, o) ==
  /\ pc[r] = "dispatch"
  /\ outcome' = [outcome EXCEPT ![r] = o]
  /\ StopPulse(r)
  /\ GoTo(r, "flush")
  /\ UNCHANGED <<storeVars, since, posted, verdict, moved, late>>

(* What a dispatch may do, as far as the runtime can tell. *)
DispatchAnswers(r) ==
  \/ \E o \in Outcomes : DispatchReturns(r, o) \/ DispatchRaisesEvents(r, o)
  \/ \E v \in {"failed", "blocked"} : DispatchRaises(r, v)

(* Mutant: the loop of _persist_events ends after the first insert. *)
MutantPersistEvent(r) ==
  /\ pc[r] \in {"persist", "flush"}
  /\ outcome[r].valid
  /\ posted[r] < outcome[r].events
  /\ PostEvent(r, "kanban")
  /\ posted' = [posted EXCEPT ![r] = outcome[r].events]
  /\ UNCHANGED <<pc, pulse, since, outcome, verdict, moved, late>>

(* _persist_events: the whole batch is validated before the first insert. *)
PersistEvent(r) ==
  /\ pc[r] \in {"persist", "flush"}
  /\ outcome[r].valid
  /\ posted[r] < outcome[r].events
  /\ PostEvent(r, "kanban")
  /\ posted' = [posted EXCEPT ![r] = @ + 1]
  /\ UNCHANGED <<pc, pulse, since, outcome, verdict, moved, late>>

BatchRefused(r) ==
  /\ pc[r] \in {"persist", "flush"}
  /\ ~outcome[r].valid
  /\ Except(r, "failed")
  /\ UNCHANGED <<storeVars, since, outcome, posted, moved, late>>

(* Mutant: the except clause does not wait for the rest of the batch. *)
MutantFlushDone(r) ==
  /\ pc[r] = "flush"
  /\ Except(r, "failed")
  /\ UNCHANGED <<storeVars, since, outcome, posted, moved, late>>

FlushDone(r) ==
  /\ pc[r] = "flush"
  /\ Persisted(r)
  /\ Except(r, "failed")
  /\ UNCHANGED <<storeVars, since, outcome, posted, moved, late>>

(* A heartbeat failed during the dispatch: the outcome requires review. *)
OutcomeInDoubt(r) ==
  /\ pc[r] = "persist"
  /\ Persisted(r)
  /\ pulse[r] = "lost"
  /\ Except(r, "failed")
  /\ UNCHANGED <<storeVars, since, outcome, posted, moved, late>>

GatesIncomplete(r) ==
  /\ pc[r] = "persist"
  /\ Persisted(r)
  /\ pulse[r] # "lost"
  /\ ~GatesOpen(r)
  /\ Except(r, "blocked")
  /\ UNCHANGED <<storeVars, since, outcome, posted, moved, late>>

(* Mutant: a heartbeat error does not stop the run from completing. *)
MutantMoveInReview(r) ==
  /\ pc[r] = "persist"
  /\ Persisted(r)
  /\ GatesOpen(r)
  /\ moved' = [moved EXCEPT ![r] = "In Review"]
  /\ GoTo(r, "complete")
  /\ UNCHANGED <<storeVars, pulse, since, outcome, posted, verdict, late>>

MoveInReview(r) ==
  /\ pc[r] = "persist"
  /\ Persisted(r)
  /\ pulse[r] # "lost"
  /\ GatesOpen(r)
  /\ moved' = [moved EXCEPT ![r] = "In Review"]
  /\ GoTo(r, "complete")
  /\ UNCHANGED <<storeVars, pulse, since, outcome, posted, verdict, late>>

(* Mutant: the answer of the finish is not looked at. *)
MutantComplete(r) ==
  /\ pc[r] = "complete"
  /\ \E ok \in BOOLEAN :
       Finish(r, "completed", outcome[r].tests, outcome[r].review, ok)
  /\ GoTo(r, "returned")
  /\ UNCHANGED <<pulse, since, outcome, posted, verdict, moved, late>>

(* Mutant: a refused finish starts the persistence over. *)
MutantCompleteRetries(r) ==
  /\ pc[r] = "complete"
  /\ \E ok \in BOOLEAN :
       /\ Finish(r, "completed", outcome[r].tests, outcome[r].review, ok)
       /\ GoTo(r, IF ok THEN "returned" ELSE "persist")
  /\ UNCHANGED <<pulse, since, outcome, posted, verdict, moved, late>>

(* store.finish("completed"): a finish that returns false raises. *)
Complete(r) ==
  /\ pc[r] = "complete"
  /\ \/ /\ Finish(r, "completed", outcome[r].tests, outcome[r].review, TRUE)
        /\ GoTo(r, "returned")
        /\ UNCHANGED <<pulse, verdict>>
     \/ /\ Finish(r, "completed", outcome[r].tests, outcome[r].review, FALSE)
        /\ Except(r, "failed")
  /\ UNCHANGED <<since, outcome, posted, moved, late>>

MoveBlocked(r) ==
  /\ pc[r] = "park"
  /\ moved' = [moved EXCEPT ![r] = "Blocked"]
  /\ GoTo(r, "close")
  /\ UNCHANGED <<storeVars, pulse, since, outcome, posted, verdict, late>>

(* store.finish(verdict) of the except clause; when it returns false, its  *)
(* own error replaces the one being handled.                               *)
Close(r) ==
  /\ pc[r] = "close"
  /\ \E ok \in BOOLEAN :
       /\ Finish(r, verdict[r], "missing", "missing", ok)
       /\ GoTo(r, IF ok THEN "raised" ELSE "escaped")
  /\ UNCHANGED <<pulse, since, outcome, posted, verdict, moved, late>>

-------------------------------------------------------------------------------
(* Calls without an answer and lost processes *)

(* The request the call of r has sent, or is about to. *)
Asks(r, q) ==
  \/ pc[r] = "idle" /\ q = "claim"
  \/ pc[r] = "announce" /\ q = "agent.dispatched"
  \/ /\ pc[r] \in {"persist", "flush"} /\ q = "kanban"
     /\ outcome[r].valid /\ posted[r] < outcome[r].events
  \/ pc[r] = "complete" /\ q = "completed"
  \/ pc[r] = "close" /\ q = verdict[r]
Request(r) == {q \in Requests : Asks(r, q)}

MayBeLate(r, requests) == late' = [late EXCEPT ![r] = @ \cup requests]

(* Mutant: an insert without an answer is tried again. *)
MutantCallFails(r) ==
  /\ pc[r] \in {"progress", "announce", "complete"} \/ Request(r) = {"kanban"}
  /\ MayBeLate(r, Request(r))
  /\ IF Request(r) = {"kanban"} THEN UNCHANGED <<pulse, verdict, pc>> ELSE Except(r, "failed")
  /\ UNCHANGED <<storeVars, since, outcome, posted, moved>>

(* A call inside the try block, or the flush of the except clause, raises: *)
(* a timeout, an HTTP error, a failed move of the Linear issue.            *)
CallFails(r) ==
  /\ \/ pc[r] \in {"progress", "announce", "complete"}
     \/ pc[r] \in {"persist", "flush"} /\ Request(r) # {}
     \/ pc[r] = "persist" /\ Persisted(r) /\ pulse[r] # "lost" /\ GatesOpen(r)
  /\ MayBeLate(r, Request(r))
  /\ Except(r, "failed")
  /\ UNCHANGED <<storeVars, since, outcome, posted, moved>>

(* A call that nothing catches raises: the claim, the move to Blocked, the *)
(* finish of the except clause.                                            *)
CallEscapes(r) ==
  /\ pc[r] \in {"idle", "refused", "park", "close"}
  /\ MayBeLate(r, Request(r))
  /\ GoTo(r, "escaped")
  /\ UNCHANGED <<storeVars, pulse, since, outcome, posted, verdict, moved>>

BeatDue(r) == pulse[r] = "beating" /\ since[r] >= HB

(* The process of r dies, at any point after its claim. *)
Crash(r) ==
  /\ pc[r] \in {"refused"} \cup Working
  /\ MayBeLate(r, Request(r) \cup IF BeatDue(r) THEN {"heartbeat"} ELSE {})
  /\ StopPulse(r)
  /\ GoTo(r, "crashed")
  /\ UNCHANGED <<storeVars, since, outcome, posted, verdict, moved>>

(* The store applies a request nobody waits for any more. *)
Deliver(r) ==
  /\ \E q \in late[r] :
       /\ late' = [late EXCEPT ![r] = @ \ {q}]
       /\ \/ q = "claim" /\ (ClaimGranted(r) \/ ClaimRefused(r))
          \/ q = "heartbeat" /\ \E ok \in BOOLEAN : Heartbeat(r, ok)
          \/ q \in WorkerEvents /\ PostEvent(r, q)
          \/ /\ q = "completed"
             /\ \E ok \in BOOLEAN :
                  Finish(r, "completed", outcome[r].tests, outcome[r].review, ok)
          \/ /\ q \in {"failed", "blocked"}
             /\ \E ok \in BOOLEAN : Finish(r, q, "missing", "missing", ok)
  /\ UNCHANGED <<pc, pulse, since, outcome, posted, verdict, moved>>

-------------------------------------------------------------------------------
(* The pulse thread *)

(* A heartbeat is answered: true renews the wait, false ends the thread. *)
Beat(r) ==
  /\ BeatDue(r)
  /\ \/ /\ Heartbeat(r, TRUE)
        /\ since' = [since EXCEPT ![r] = 0]
        /\ UNCHANGED pulse
     \/ /\ Heartbeat(r, FALSE)
        /\ pulse' = [pulse EXCEPT ![r] = "lost"]
        /\ UNCHANGED since
  /\ UNCHANGED <<pc, outcome, posted, verdict, moved, late>>

(* A heartbeat raises: the thread records the error and ends, no retry. *)
BeatFails(r) ==
  /\ BeatDue(r)
  /\ pulse' = [pulse EXCEPT ![r] = "lost"]
  /\ MayBeLate(r, {"heartbeat"})
  /\ UNCHANGED <<storeVars, pc, since, outcome, posted, verdict, moved>>

-------------------------------------------------------------------------------
(* The database and the other processes *)

(* The transaction of a refused claim goes on by itself. *)
RefusalGoesOn(r) ==
  /\ ClaimReadsHolder(r) \/ ClaimAudits(r)
  /\ UNCHANGED workerVars

(* Another tick recovers the issue, or an operator gives it back. *)
RecoverExpired(i) ==
  /\ Recover(i, TRUE)
  /\ UNCHANGED workerVars

OperatorGivesBack(i) ==
  /\ OperatorRelease(i)
  /\ UNCHANGED workerVars

TimePasses ==
  /\ \/ \E i \in Issues : locks[i].left > 0
     \/ \E r \in Runs : pulse[r] = "beating" /\ since[r] < HB
  /\ Tick
  /\ since' = [r \in Runs |-> IF pulse[r] = "beating" /\ since[r] < TTL
                              THEN since[r] + 1 ELSE since[r]]
  /\ UNCHANGED <<pc, pulse, outcome, posted, verdict, moved, late>>

(* All calls are over: nothing more has to happen. *)
AllOver == (\A r \in Runs : pc[r] \in Over) /\ UNCHANGED vars

-------------------------------------------------------------------------------

OwnStep(r) ==
  \/ Claim(r) \/ ClaimMeetsConflict(r) \/ RaiseConflict(r)
  \/ MoveInProgress(r) \/ Announce(r)
  \/ PersistEvent(r) \/ BatchRefused(r) \/ FlushDone(r)
  \/ OutcomeInDoubt(r) \/ GatesIncomplete(r) \/ MoveInReview(r)
  \/ Complete(r) \/ MoveBlocked(r) \/ Close(r)
  \/ CallFails(r) \/ CallEscapes(r)

WorkerStep(r) == OwnStep(r) \/ DispatchAnswers(r)

PulseStep(r) == Beat(r) \/ BeatFails(r)

Others ==
  \/ \E r \in Runs : Crash(r) \/ Deliver(r) \/ RefusalGoesOn(r)
  \/ \E i \in Issues : RecoverExpired(i) \/ OperatorGivesBack(i)

Next ==
  \/ \E r \in Runs : WorkerStep(r) \/ PulseStep(r)
  \/ Others
  \/ TimePasses
  \/ AllOver

Spec == Init /\ [][Next]_vars

(* Fairness: a started call of execute() goes on until it ends, because    *)
(* every call it makes has a timeout; so does the transaction of a refused *)
(* claim; and the clock runs.  Nothing is assumed of crashes, of late      *)
(* requests, of heartbeats, of recovery or of the operator.                *)
Fairness ==
  /\ \A r \in Runs : /\ WF_vars(pc[r] # "idle" /\ WorkerStep(r))
                    /\ WF_vars(RefusalGoesOn(r))
  /\ WF_vars(TimePasses)

FairSpec == Spec /\ Fairness

-------------------------------------------------------------------------------
(* Properties *)

(* Type correctness of the workers, their pulses and the late requests. *)
TypeOK ==
  /\ StoreTypeOK
  /\ pc \in [Runs -> PCs]
  /\ pulse \in [Runs -> {"off", "beating", "lost", "stopped"}]
  /\ since \in [Runs -> 0 .. TTL]
  /\ outcome \in [Runs -> Outcomes \cup {NoOutcome}]
  /\ posted \in [Runs -> Nat]
  /\ verdict \in [Runs -> {"failed", "blocked"}]
  /\ moved \in [Runs -> {"Todo", "In Progress", "In Review", "Blocked"}]
  /\ late \in [Runs -> SUBSET Requests]

(* What has to be true of a run before anything may finish it completed:   *)
(* the batch was accepted and persisted, no heartbeat failed, the gates of *)
(* a gated agent are open, and Linear was moved to In Review.              *)
Earned(r) ==
  /\ Persisted(r)
  /\ GatesOpen(r)
  /\ pulse[r] = "stopped"
  /\ moved[r] = "In Review"

(* A row is completed only if its run earned it, even when the finish was  *)
(* lost, applied late, or raced by the failed finish that followed it; and *)
(* the row shows the gates (runtime.py 170-182).                           *)
CompletedIsEarned ==
  \A r \in Runs : agent_runs[r].status = "completed" =>
    /\ Earned(r)
    /\ r \in Gated => agent_runs[r].tests = "ok" /\ agent_runs[r].review = "ok"

(* What the caller is told is what the store holds: a return means         *)
(* completed, the original exception means the verdict of the except       *)
(* clause, a conflict means no row; and the run no longer has the lock     *)
(* (runtime.py 144, 182-201).                                              *)
AnswersAreTrue ==
  \A r \in Runs :
    /\ pc[r] = "returned" => agent_runs[r].status = "completed"
    /\ pc[r] = "raised" =>
         \/ agent_runs[r].status = verdict[r]
         \/ verdict[r] = "blocked" /\ agent_runs[r].status = "canceled"
    /\ pc[r] = "conflict" => agent_runs[r].status = "absent"
    /\ pc[r] \in {"returned", "raised", "conflict"} => ~Owns(r)

(* A run that ends blocked keeps its issue from everybody until a person   *)
(* gives it back, and Linear is where people look: a blocked row is never  *)
(* there without the move to Blocked, in that order, even when the finish  *)
(* is lost and applied after the call has given up (runtime.py 194-201).   *)
ParkedIsShown ==
  \A r \in Runs : Blocked(r) => verdict[r] = "blocked" /\ moved[r] = "Blocked"

(* The inductive invariant of the calls: where the pulse can beat, where a *)
(* row or a late finish can be completed, and what a run that has not been *)
(* claimed or has been answered looks like.                                *)
PulseOK(r) ==
  /\ pulse[r] = "beating" => pc[r] \in {"progress", "announce", "dispatch"}
  /\ pulse[r] = "off" => pc[r] \notin Working

Completing(r) == agent_runs[r].status = "completed" \/ "completed" \in late[r]
EarnedOK(r) ==
  /\ pc[r] = "complete" \/ Completing(r) => Earned(r)
  /\ Completing(r) => pc[r] \in {"complete", "close"} \cup Over
  /\ r \in Gated /\ agent_runs[r].status = "completed" =>
       agent_runs[r].tests = "ok" /\ agent_runs[r].review = "ok"

AnswerOK(r) ==
  /\ pc[r] \in {"idle", "refused", "conflict"} =>
       agent_runs[r].status = "absent" /\ late[r] = {}
  /\ pc[r] = "returned" => agent_runs[r].status = "completed"
  /\ pc[r] = "raised" =>
       \/ agent_runs[r].status = verdict[r]
       \/ verdict[r] = "blocked" /\ agent_runs[r].status = "canceled"

CallInv == \A r \in Runs : PulseOK(r) /\ EarnedOK(r) /\ AnswerOK(r)

RuntimeInv == StoreInv /\ TypeOK /\ CallInv

(* What a beating pulse adds: nothing of the run is in flight, and unless   *)
(* the TTL has passed since the last heartbeat, the lock's remaining time   *)
(* and the time since then make up the TTL.                                *)
PulseHolds(r) ==
  pulse[r] = "beating" =>
    /\ late[r] = {}
    /\ since[r] < TTL => Owns(r) /\ locks[IssueOf[r]].left + since[r] = TTL
PulsesHold == \A r \in Runs : PulseHolds(r)

(* A run whose pulse is at most a whole period late holds a lock that has  *)
(* not expired, whatever the other runs, late requests, recovery and the   *)
(* operator do, so nobody takes the issue from a worker that is            *)
(* dispatching: the constructor's check, two periods fit in a TTL, is what *)
(* this rests on (runtime.py 131, 154-161).                                *)
BeatingHoldsLock ==
  \A r \in Runs : pulse[r] = "beating" /\ since[r] =< 2 * HB =>
    Owns(r) /\ locks[IssueOf[r]].left > 0

(* The runtime uses the tables only through the functions of RunStore. *)
UsesStore == StoreSpec

(* A lock that outlives its call expires: once the call is over nothing    *)
(* renews the lock for ever, so recovery becomes possible (runtime.py      *)
(* 202-204).                                                               *)
OrphanLockExpires ==
  \A r \in Runs :
    pc[r] \in Over /\ Owns(r) ~> ~Owns(r) \/ locks[IssueOf[r]].left = 0

(* Every call of execute() ends, whatever fails on the way. *)
CallsEnd == \A r \in Runs : pc[r] # "idle" ~> pc[r] \in Over

(* README.md 55-56 of a heartbeat failure: "triggers a failed-run          *)
(* transition when the worker still owns the lock".  It does not when the  *)
(* dispatch raises ExecutionBlocked: the run ends blocked (runtime.py 194).*)
HeartbeatFailureFails ==
  \A r \in Runs : pulse[r] = "lost" /\ Ended(r) => agent_runs[r].status = "failed"
===============================================================================
