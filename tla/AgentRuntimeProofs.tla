-------------------------- MODULE AgentRuntimeProofs --------------------------
(***************************************************************************)
(* Proofs about AgentRuntime, for any number of issues and runs, any TTL   *)
(* and any heartbeat period that passes the constructor's check: the       *)
(* runtime uses the store as RunStore specifies it, what is completed was  *)
(* earned, what is answered is true, and a beating pulse keeps the lock.   *)
(***************************************************************************)
EXTENDS AgentRuntime, RunStoreProofs

(* The types of what the dispatch returned. *)
LEMMA OutcomeTypes ==
  ASSUME TypeOK, NEW r \in Runs
  PROVE  /\ outcome[r].tests \in Gates
         /\ outcome[r].review \in Gates
         /\ outcome[r].events \in Nat
         /\ outcome[r].valid \in BOOLEAN
<1>1. NoOutcome \in [tests : Gates, review : Gates, events : Nat, valid : BOOLEAN]
  BY DEF NoOutcome, Gates
<1>2. outcome[r] \in [tests : Gates, review : Gates, events : Nat, valid : BOOLEAN]
  BY <1>1, OutcomesAssumption DEF TypeOK
<1>3. QED
  BY <1>2

-------------------------------------------------------------------------------
(* The runtime uses the store *)

LEMMA RequestsKnown ==
  /\ WorkerEvents \subseteq Requests
  /\ {"completed", "failed", "blocked"} \subseteq FinalStatuses
  /\ "missing" \in Gates
  /\ "agent.dispatched" \in WorkerEvents /\ "kanban" \in WorkerEvents
BY DEF Requests, WorkerEvents, FinalStatuses, Gates

(* A delivered request is a step of the store. *)
LEMMA DeliverUsesStore ==
  ASSUME TypeOK, NEW r \in Runs, Deliver(r)
  PROVE  StoreNext
<1>1. PICK q \in late[r] :
        \/ ClaimGranted(r) \/ ClaimRefused(r)
        \/ \E ok \in BOOLEAN : Heartbeat(r, ok)
        \/ q \in WorkerEvents /\ PostEvent(r, q)
        \/ \E ok \in BOOLEAN :
             Finish(r, "completed", outcome[r].tests, outcome[r].review, ok)
        \/ q \in {"failed", "blocked"} /\ \E ok \in BOOLEAN :
             Finish(r, q, "missing", "missing", ok)
  BY DEF Deliver
<1>2. CASE q \in {"failed", "blocked"} /\ \E ok \in BOOLEAN : Finish(r, q, "missing", "missing", ok)
  <2>1. q \in FinalStatuses \ {"completed"}
    BY <1>2 DEF FinalStatuses
  <2>2. QED
    BY <1>2, <2>1 DEF StoreNext
<1>3. QED
  BY <1>1, <1>2, OutcomeTypes DEF StoreNext

(* Every step of the runtime is a step of the store or leaves it alone. *)
LEMMA StepUsesStore ==
  ASSUME TypeOK, [Next]_vars
  PROVE  [StoreNext]_storeVars
<1> USE RequestsKnown
<1>1. CASE UNCHANGED vars
  BY <1>1 DEF vars, storeVars
<1>2. ASSUME NEW r \in Runs, WorkerStep(r)
      PROVE  [StoreNext]_storeVars
  <2>1. CASE Claim(r) \/ ClaimMeetsConflict(r)
    BY <2>1 DEF Claim, ClaimMeetsConflict, StoreNext
  <2>2. CASE Announce(r)
    BY <2>2 DEF Announce, StoreNext
  <2>3. CASE PersistEvent(r)
    BY <2>3 DEF PersistEvent, StoreNext
  <2>4. CASE Complete(r)
    <3>1. \E ok \in BOOLEAN : Finish(r, "completed", outcome[r].tests, outcome[r].review, ok)
      BY <2>4 DEF Complete
    <3>2. QED
      BY <3>1, OutcomeTypes DEF StoreNext
  <2>5. CASE Close(r)
    <3>1. verdict[r] \in FinalStatuses \ {"completed"}
      BY DEF TypeOK, FinalStatuses
    <3>2. \E ok \in BOOLEAN : Finish(r, verdict[r], "missing", "missing", ok)
      BY <2>5 DEF Close
    <3>3. QED
      BY <3>1, <3>2 DEF StoreNext
  <2>6. CASE UNCHANGED storeVars
    BY <2>6
  <2>7. QED
    BY <1>2, <2>1, <2>2, <2>3, <2>4, <2>5, <2>6
    DEF WorkerStep, OwnStep, RaiseConflict, MoveInProgress, DispatchAnswers, DispatchReturns, DispatchRaises,
        DispatchRaisesEvents, BatchRefused, FlushDone, OutcomeInDoubt, GatesIncomplete,
        MoveInReview, MoveBlocked, CallFails, CallEscapes
<1>3. ASSUME NEW r \in Runs, PulseStep(r) \/ Crash(r) \/ Deliver(r) \/ RefusalGoesOn(r)
      PROVE  [StoreNext]_storeVars
  BY <1>3, DeliverUsesStore
  DEF PulseStep, Beat, BeatFails, Crash, RefusalGoesOn, StoreNext
<1>4. ASSUME NEW i \in Issues, RecoverExpired(i) \/ OperatorGivesBack(i)
      PROVE  [StoreNext]_storeVars
  BY <1>4 DEF RecoverExpired, OperatorGivesBack, StoreNext
<1>5. CASE TimePasses
  BY <1>5 DEF TimePasses, StoreNext
<1>6. CASE AllOver
  BY <1>6 DEF AllOver, vars, storeVars
<1>7. QED
  BY <1>1, <1>2, <1>3, <1>4, <1>5, <1>6 DEF Next, Others

-------------------------------------------------------------------------------
(* Types *)

LEMMA SinceZero == 0 \in 0 .. TTL
BY TTLAssumption

LEMMA SinceNext == \A n \in 0 .. TTL : n < TTL => n + 1 \in 0 .. TTL
BY TTLAssumption

LEMMA PostedNext == \A n \in Nat : n + 1 \in Nat
OBVIOUS

(* The worker's half of TypeOK. *)
WorkerTypeOK ==
  /\ pc \in [Runs -> PCs]
  /\ pulse \in [Runs -> {"off", "beating", "lost", "stopped"}]
  /\ since \in [Runs -> 0 .. TTL]
  /\ outcome \in [Runs -> Outcomes \cup {NoOutcome}]
  /\ posted \in [Runs -> Nat]
  /\ verdict \in [Runs -> {"failed", "blocked"}]
  /\ moved \in [Runs -> {"Todo", "In Progress", "In Review", "Blocked"}]
  /\ late \in [Runs -> SUBSET Requests]

LEMMA PlacesKnown ==
  {"idle", "refused", "progress", "announce", "dispatch", "persist", "complete", "flush",
   "park", "close", "returned", "raised", "conflict", "escaped", "crashed"} = PCs
BY DEF PCs, Working, Over

LEMMA ExceptTypes ==
  ASSUME WorkerTypeOK, NEW r \in Runs, NEW v \in {"failed", "blocked"}, Except(r, v)
  PROVE  /\ pc' \in [Runs -> PCs]
         /\ pulse' \in [Runs -> {"off", "beating", "lost", "stopped"}]
         /\ verdict' \in [Runs -> {"failed", "blocked"}]
BY PlacesKnown DEF WorkerTypeOK, Except, StopPulse, GoTo

LEMMA WorkerTypeStep ==
  ASSUME WorkerTypeOK, [Next]_vars
  PROVE  WorkerTypeOK'
<1> USE PlacesKnown DEF WorkerTypeOK
<1>1. CASE UNCHANGED vars \/ AllOver
  BY <1>1 DEF vars, workerVars, AllOver
<1>2. ASSUME NEW r \in Runs, WorkerStep(r)
      PROVE  WorkerTypeOK'
  <2>1. CASE Claim(r)
    BY <2>1, SinceZero DEF Claim, GoTo
  <2>2. CASE ClaimMeetsConflict(r)
    BY <2>2 DEF ClaimMeetsConflict, GoTo
  <2>3. CASE RaiseConflict(r)
    BY <2>3 DEF RaiseConflict, GoTo
  <2>4. CASE MoveInProgress(r)
    BY <2>4 DEF MoveInProgress, GoTo
  <2>5. CASE Announce(r)
    BY <2>5 DEF Announce, GoTo
  <2>6. ASSUME NEW o \in Outcomes, DispatchReturns(r, o)
        PROVE  WorkerTypeOK'
    BY <2>6 DEF DispatchReturns, GoTo, StopPulse
  <2>7. ASSUME NEW v \in {"failed", "blocked"}, DispatchRaises(r, v)
        PROVE  WorkerTypeOK'
    BY <2>7, ExceptTypes DEF DispatchRaises
  <2>8. ASSUME NEW o \in Outcomes, DispatchRaisesEvents(r, o)
        PROVE  WorkerTypeOK'
    BY <2>8 DEF DispatchRaisesEvents, GoTo, StopPulse
  <2>9. CASE PersistEvent(r)
    <3>1. posted[r] + 1 \in Nat
      BY PostedNext
    <3>2. QED
      BY <2>9, <3>1 DEF PersistEvent
  <2>10. CASE BatchRefused(r)
    BY <2>10, ExceptTypes DEF BatchRefused
  <2>11. CASE FlushDone(r)
    BY <2>11, ExceptTypes DEF FlushDone
  <2>12. CASE OutcomeInDoubt(r)
    BY <2>12, ExceptTypes DEF OutcomeInDoubt
  <2>13. CASE GatesIncomplete(r)
    BY <2>13, ExceptTypes DEF GatesIncomplete
  <2>14. CASE MoveInReview(r)
    BY <2>14 DEF MoveInReview, GoTo
  <2>15. CASE Complete(r)
    BY <2>15, ExceptTypes DEF Complete, GoTo
  <2>16. CASE MoveBlocked(r)
    BY <2>16 DEF MoveBlocked, GoTo
  <2>17. CASE Close(r)
    BY <2>17 DEF Close, GoTo
  <2>18. CASE CallFails(r)
    BY <2>18, ExceptTypes DEF CallFails, MayBeLate, Request
  <2>19. CASE CallEscapes(r)
    BY <2>19 DEF CallEscapes, MayBeLate, Request, GoTo
  <2>20. QED
    BY <1>2, <2>1, <2>2, <2>3, <2>4, <2>5, <2>6, <2>7, <2>8, <2>9, <2>10, <2>11, <2>12, <2>13, <2>14, <2>15, <2>16, <2>17, <2>18, <2>19 DEF WorkerStep, OwnStep, DispatchAnswers
<1>3. ASSUME NEW r \in Runs, PulseStep(r)
      PROVE  WorkerTypeOK'
  <2>1. CASE Beat(r)
    BY <2>1, SinceZero DEF Beat
  <2>2. CASE BeatFails(r)
    BY <2>2 DEF BeatFails, MayBeLate, Requests
  <2>3. QED
    BY <1>3, <2>1, <2>2 DEF PulseStep
<1>4. ASSUME NEW r \in Runs, Crash(r)
      PROVE  WorkerTypeOK'
  <2>1. Request(r) \cup (IF BeatDue(r) THEN {"heartbeat"} ELSE {}) \in SUBSET Requests
    BY DEF Request, Requests
  <2>2. QED
    BY <1>4, <2>1 DEF Crash, MayBeLate, StopPulse, GoTo
<1>5. ASSUME NEW r \in Runs, Deliver(r)
      PROVE  WorkerTypeOK'
  BY <1>5 DEF Deliver
<1>6. CASE \/ \E r \in Runs : RefusalGoesOn(r)
           \/ \E i \in Issues : RecoverExpired(i) \/ OperatorGivesBack(i)
  BY <1>6 DEF RefusalGoesOn, RecoverExpired, OperatorGivesBack, workerVars
<1>7. CASE TimePasses
  <2>1. since' \in [Runs -> 0 .. TTL]
    <3> SUFFICES ASSUME NEW r \in Runs
                 PROVE  (IF pulse[r] = "beating" /\ since[r] < TTL
                         THEN since[r] + 1 ELSE since[r]) \in 0 .. TTL
      BY <1>7 DEF TimePasses
    <3>1. since[r] \in 0 .. TTL
      OBVIOUS
    <3>2. QED
      BY <3>1, SinceNext
  <2>2. QED
    BY <1>7, <2>1 DEF TimePasses
<1>8. QED
  BY <1>1, <1>2, <1>3, <1>4, <1>5, <1>6, <1>7 DEF Next, Others

-------------------------------------------------------------------------------
(* The invariant of the calls *)

RunStep(r) == WorkerStep(r) \/ PulseStep(r) \/ Crash(r) \/ Deliver(r) \/ RefusalGoesOn(r)

(* A finish or a claim of r touches no other row. *)
LEMMA RowsOfOthers ==
  ASSUME NEW r \in Runs, NEW q \in Runs, q # r, agent_runs \in [Runs -> Row],
         \/ ClaimGranted(r) \/ ClaimRefused(r) \/ ClaimReadsHolder(r) \/ ClaimAudits(r)
         \/ \E kind \in EventKinds : PostEvent(r, kind)
         \/ \E ok \in BOOLEAN : Heartbeat(r, ok)
         \/ \E final \in FinalStatuses, tests, review \in Gates, ok \in BOOLEAN :
              Finish(r, final, tests, review, ok)
  PROVE  agent_runs'[q] = agent_runs[q]
BY DEF ClaimGranted, ClaimRefused, ClaimReadsHolder, ClaimAudits, PostEvent, Heartbeat, Finish

(* A step of run r leaves the call and the row of every other run alone. *)
LEMMA OtherRuns ==
  ASSUME TypeOK, NEW r \in Runs, NEW q \in Runs, q # r, RunStep(r)
  PROVE  /\ agent_runs'[q] = agent_runs[q]
         /\ pc'[q] = pc[q] /\ pulse'[q] = pulse[q] /\ outcome'[q] = outcome[q]
         /\ posted'[q] = posted[q] /\ verdict'[q] = verdict[q]
         /\ moved'[q] = moved[q] /\ late'[q] = late[q]
<1> DEFINE Kept == /\ pc'[q] = pc[q] /\ pulse'[q] = pulse[q] /\ outcome'[q] = outcome[q]
                   /\ posted'[q] = posted[q] /\ verdict'[q] = verdict[q]
                   /\ moved'[q] = moved[q] /\ late'[q] = late[q]
<1> USE RequestsKnown
<1>0. /\ agent_runs \in [Runs -> Row]
      /\ verdict[r] \in FinalStatuses
  BY DEF TypeOK, StoreTypeOK, FinalStatuses
<1>1. ASSUME WorkerStep(r)
      PROVE  Kept
  <2>1. CASE \/ Claim(r) \/ ClaimMeetsConflict(r) \/ RaiseConflict(r) \/ MoveInProgress(r)
             \/ Announce(r) \/ PersistEvent(r)
    BY <2>1 DEF TypeOK, Claim, ClaimMeetsConflict, RaiseConflict, MoveInProgress, Announce,
                PersistEvent, GoTo
  <2>2. CASE \/ DispatchAnswers(r)
             \/ BatchRefused(r) \/ FlushDone(r)
    BY <2>2 DEF TypeOK, DispatchAnswers, DispatchReturns, DispatchRaises, DispatchRaisesEvents,
                BatchRefused, FlushDone, Except, StopPulse, GoTo
  <2>3. CASE \/ OutcomeInDoubt(r) \/ GatesIncomplete(r) \/ MoveInReview(r) \/ Complete(r)
             \/ MoveBlocked(r) \/ Close(r)
    BY <2>3 DEF TypeOK, OutcomeInDoubt, GatesIncomplete, MoveInReview, Complete, MoveBlocked,
                Close, Except, StopPulse, GoTo
  <2>4. CASE CallFails(r) \/ CallEscapes(r)
    BY <2>4 DEF TypeOK, CallFails, CallEscapes, MayBeLate, Except, StopPulse, GoTo
  <2>5. QED
    BY <1>1, <2>1, <2>2, <2>3, <2>4 DEF WorkerStep, OwnStep
<1>2. ASSUME PulseStep(r) \/ Crash(r) \/ Deliver(r) \/ RefusalGoesOn(r)
      PROVE  Kept
  BY <1>2 DEF TypeOK, PulseStep, Beat, BeatFails, Crash, Deliver, RefusalGoesOn, MayBeLate,
              StopPulse, GoTo, workerVars
<1>3. agent_runs'[q] = agent_runs[q]
  <2>1. CASE UNCHANGED agent_runs
    BY <2>1
  <2>2. CASE ClaimGranted(r) \/ ClaimRefused(r) \/ ClaimReadsHolder(r) \/ ClaimAudits(r)
    BY <1>0, <2>2, RowsOfOthers
  <2>3. CASE \E final \in FinalStatuses, tests, review \in Gates, ok \in BOOLEAN :
               Finish(r, final, tests, review, ok)
    BY <1>0, <2>3, RowsOfOthers
  <2>4. CASE WorkerStep(r)
    <3>1. CASE Claim(r)
      BY <2>2, <3>1 DEF Claim
    <3>2. CASE Complete(r)
      BY <2>3, <3>2, OutcomeTypes DEF Complete
    <3>3. CASE Close(r)
      BY <1>0, <2>3, <3>3 DEF Close
    <3>4. QED
      BY <2>1, <2>4, <3>1, <3>2, <3>3
      DEF WorkerStep, OwnStep, storeVars, ClaimMeetsConflict, ClaimRefused, RaiseConflict,
          MoveInProgress, Announce, PersistEvent, PostEvent, DispatchAnswers, DispatchReturns, DispatchRaises,
          DispatchRaisesEvents, BatchRefused, FlushDone, OutcomeInDoubt, GatesIncomplete,
          MoveInReview, MoveBlocked, CallFails, CallEscapes
  <2>5. CASE PulseStep(r) \/ Crash(r) \/ RefusalGoesOn(r)
    BY <2>1, <2>5 DEF PulseStep, Beat, BeatFails, Heartbeat, Crash, RefusalGoesOn,
                      ClaimReadsHolder, ClaimAudits, storeVars
  <2>6. CASE Deliver(r)
    BY <2>1, <2>2, <2>3, <2>6, OutcomeTypes DEF Deliver, Heartbeat, PostEvent
  <2>7. QED
    BY <2>4, <2>5, <2>6 DEF RunStep
<1>4. QED
  BY <1>1, <1>2, <1>3 DEF RunStep

(* What a granted claim and a finish do to the row of their run. *)
LEMMA ClaimRow ==
  ASSUME NEW r \in Runs, agent_runs \in [Runs -> Row], ClaimGranted(r)
  PROVE  agent_runs[r].status = "absent" /\ agent_runs'[r].status = "running"
BY DEF ClaimGranted, UniqueViolation, Row

LEMMA FinishRow ==
  ASSUME NEW r \in Runs, agent_runs \in [Runs -> Row], NEW final, NEW tests, NEW review,
         NEW ok \in BOOLEAN, Finish(r, final, tests, review, ok)
  PROVE  /\ ok => /\ agent_runs[r].status \in {"running", "reviewing"}
                  /\ agent_runs'[r].status = final
                  /\ agent_runs'[r].tests = tests
                  /\ agent_runs'[r].review = review
         /\ ~ok => agent_runs' = agent_runs
<1>1. /\ ok => agent_runs[r].status \in {"running", "reviewing"}
      /\ ok => agent_runs' = [agent_runs EXCEPT ![r] =
                 [status |-> final, tests |-> tests, review |-> review]]
      /\ ~ok => agent_runs' = agent_runs
  BY Zenon DEF Finish, OpenStatuses
<1>2. ok => agent_runs'[r] = [status |-> final, tests |-> tests, review |-> review]
  BY <1>1
<1>3. QED
  BY <1>1, <1>2

(* The two ends of each step that finishes a run. *)
LEMMA CompleteCases ==
  ASSUME TypeOK, NEW r \in Runs, Complete(r)
  PROVE  /\ UNCHANGED <<outcome, posted, moved, late>>
         /\ pc[r] = "complete"
         /\ \/ /\ agent_runs'[r].status = "completed"
               /\ agent_runs'[r].tests = outcome[r].tests
               /\ agent_runs'[r].review = outcome[r].review
               /\ pc'[r] = "returned"
               /\ pulse'[r] = pulse[r]
            \/ /\ agent_runs' = agent_runs
               /\ pc'[r] = "close"
               /\ pulse[r] = "stopped" => pulse'[r] = "stopped"
<1>0. /\ pc \in [Runs -> PCs] /\ agent_runs \in [Runs -> Row]
      /\ pulse \in [Runs -> {"off", "beating", "lost", "stopped"}]
  BY DEF TypeOK, StoreTypeOK
<1>1. UNCHANGED <<outcome, posted, moved, late>> /\ pc[r] = "complete"
  BY DEF Complete
<1>2. CASE /\ Finish(r, "completed", outcome[r].tests, outcome[r].review, TRUE)
           /\ GoTo(r, "returned") /\ UNCHANGED <<pulse, verdict>>
  <2>1. /\ agent_runs'[r].status = "completed"
        /\ agent_runs'[r].tests = outcome[r].tests
        /\ agent_runs'[r].review = outcome[r].review
    BY <1>0, <1>2, FinishRow
  <2>2. pc'[r] = "returned" /\ pulse'[r] = pulse[r]
    BY <1>0, <1>2 DEF GoTo
  <2>3. QED
    BY <1>1, <2>1, <2>2
<1>3. CASE /\ Finish(r, "completed", outcome[r].tests, outcome[r].review, FALSE)
           /\ Except(r, "failed")
  <2>1. agent_runs' = agent_runs
    BY <1>0, <1>3, FinishRow
  <2>2. pc'[r] = "close" /\ (pulse[r] = "stopped" => pulse'[r] = "stopped")
    BY <1>0, <1>3 DEF Except, StopPulse, GoTo
  <2>3. QED
    BY <1>1, <2>1, <2>2
<1>4. QED
  BY <1>2, <1>3 DEF Complete

LEMMA CloseCases ==
  ASSUME TypeOK, NEW r \in Runs, Close(r)
  PROVE  /\ UNCHANGED <<pulse, outcome, posted, verdict, moved, late>>
         /\ pc[r] = "close"
         /\ \/ agent_runs'[r].status = verdict[r] /\ pc'[r] = "raised"
            \/ agent_runs' = agent_runs /\ pc'[r] = "escaped"
<1>0. /\ pc \in [Runs -> PCs] /\ agent_runs \in [Runs -> Row]
  BY DEF TypeOK, StoreTypeOK
<1>1. UNCHANGED <<pulse, outcome, posted, verdict, moved, late>> /\ pc[r] = "close"
  BY DEF Close
<1>2. PICK ok \in BOOLEAN :
        /\ Finish(r, verdict[r], "missing", "missing", ok)
        /\ GoTo(r, IF ok THEN "raised" ELSE "escaped")
  BY DEF Close
<1>3. /\ ok => agent_runs'[r].status = verdict[r]
      /\ ~ok => agent_runs' = agent_runs
  BY <1>0, <1>2, FinishRow
<1>4. pc'[r] = IF ok THEN "raised" ELSE "escaped"
  BY <1>0, <1>2 DEF GoTo
<1>5. QED
  BY <1>1, <1>3, <1>4

(* What a late finish does to the row of its run. *)
LEMMA LateFinish ==
  ASSUME TypeOK, NEW r \in Runs, NEW final, NEW tests, NEW review,
         \E ok \in BOOLEAN : Finish(r, final, tests, review, ok)
  PROVE  \/ agent_runs' = agent_runs
         \/ /\ agent_runs[r].status \in {"running", "reviewing"}
            /\ agent_runs'[r].status = final
            /\ agent_runs'[r].tests = tests
            /\ agent_runs'[r].review = review
<1>1. agent_runs \in [Runs -> Row]
  BY DEF TypeOK, StoreTypeOK
<1>2. PICK ok \in BOOLEAN : Finish(r, final, tests, review, ok)
  OBVIOUS
<1>3. QED
  BY <1>1, <1>2, FinishRow

CallOK(r) == PulseOK(r) /\ EarnedOK(r) /\ AnswerOK(r)

(* The steps of a worker preserve the invariant of its own call. *)
LEMMA WorkerStepCall ==
  ASSUME StoreInv, TypeOK, NEW r \in Runs, CallOK(r), WorkerStep(r)
  PROVE  CallOK(r)'
<1> USE DEF CallOK, PulseOK, EarnedOK, AnswerOK, Completing, Earned, Persisted, GatesOpen,
            Working, Over, storeVars, GoTo
<1>0. /\ pc \in [Runs -> PCs] /\ outcome \in [Runs -> Outcomes \cup {NoOutcome}]
      /\ pulse \in [Runs -> {"off", "beating", "lost", "stopped"}]
      /\ posted \in [Runs -> Nat] /\ verdict \in [Runs -> {"failed", "blocked"}]
      /\ moved \in [Runs -> {"Todo", "In Progress", "In Review", "Blocked"}]
      /\ late \in [Runs -> SUBSET Requests] /\ agent_runs \in [Runs -> Row]
  BY DEF TypeOK, StoreTypeOK
<1>1. CASE Claim(r)
  <2>1. agent_runs[r].status = "absent" /\ agent_runs'[r].status = "running"
    BY <1>0, <1>1, ClaimRow DEF Claim
  <2>2. /\ pc[r] = "idle" /\ pc'[r] = "progress" /\ pulse'[r] = "beating"
        /\ late'[r] = {}
    BY <1>0, <1>1 DEF Claim
  <2>3. QED
    BY <2>1, <2>2
<1>2. CASE ClaimMeetsConflict(r)
  BY <1>0, <1>2 DEF ClaimMeetsConflict, ClaimRefused
<1>3. CASE RaiseConflict(r)
  BY <1>0, <1>3 DEF RaiseConflict
<1>4. CASE MoveInProgress(r)
  BY <1>0, <1>4 DEF MoveInProgress
<1>5. CASE Announce(r)
  BY <1>0, <1>5 DEF Announce, PostEvent
<1>6. ASSUME NEW o \in Outcomes, DispatchReturns(r, o)
      PROVE  CallOK(r)'
  BY <1>0, <1>6 DEF DispatchReturns, StopPulse
<1>7. ASSUME NEW v \in {"failed", "blocked"}, DispatchRaises(r, v)
      PROVE  CallOK(r)'
  BY <1>0, <1>7 DEF DispatchRaises, Except, StopPulse
<1>8. ASSUME NEW o \in Outcomes, DispatchRaisesEvents(r, o)
      PROVE  CallOK(r)'
  BY <1>0, <1>8 DEF DispatchRaisesEvents, StopPulse
<1>9. CASE PersistEvent(r)
  BY <1>0, <1>9 DEF PersistEvent, PostEvent
<1>10. CASE BatchRefused(r)
  BY <1>0, <1>10 DEF BatchRefused, Except, StopPulse
<1>11. CASE FlushDone(r)
  BY <1>0, <1>11 DEF FlushDone, Except, StopPulse
<1>12. CASE OutcomeInDoubt(r)
  BY <1>0, <1>12 DEF OutcomeInDoubt, Except, StopPulse
<1>13. CASE GatesIncomplete(r)
  BY <1>0, <1>13 DEF GatesIncomplete, Except, StopPulse
<1>14. CASE MoveInReview(r)
  BY <1>0, <1>14 DEF MoveInReview
<1>15. CASE Complete(r)
  <2>1. /\ Earned(r) /\ pulse'[r] = "stopped" /\ pc'[r] \in {"returned", "close"}
        /\ pc'[r] = "returned" => agent_runs'[r].status = "completed"
        /\ \/ agent_runs' = agent_runs
           \/ agent_runs'[r].tests = outcome[r].tests /\ agent_runs'[r].review = outcome[r].review
        /\ UNCHANGED <<outcome, posted, moved, late>>
    BY <1>15, CompleteCases
  <2>2. Earned(r)'
    BY <2>1
  <2>3. PulseOK(r)' /\ AnswerOK(r)'
    BY <2>1
  <2>4. EarnedOK(r)'
    BY <2>1, <2>2
  <2>5. QED
    BY <2>3, <2>4
<1>16. CASE MoveBlocked(r)
  BY <1>0, <1>16 DEF MoveBlocked
<1>17. CASE Close(r)
  <2>1. /\ verdict[r] # "completed" /\ pc'[r] \in {"raised", "escaped"}
        /\ pc'[r] = "raised" => agent_runs'[r].status = verdict[r]
        /\ pc'[r] = "escaped" => agent_runs' = agent_runs
        /\ UNCHANGED <<pulse, outcome, posted, verdict, moved, late>>
        /\ pc[r] = "close"
    BY <1>0, <1>17, CloseCases
  <2>2. PulseOK(r)' /\ AnswerOK(r)'
    BY <2>1
  <2>3. EarnedOK(r)'
    BY <2>1
  <2>4. QED
    BY <2>2, <2>3
<1>18. CASE CallFails(r)
  BY <1>0, <1>18 DEF CallFails, MayBeLate, Request, Asks, Except, StopPulse
<1>19. CASE CallEscapes(r)
  BY <1>0, <1>19 DEF CallEscapes, MayBeLate, Request, Asks
<1>20. QED
  BY <1>1, <1>2, <1>3, <1>4, <1>5, <1>6, <1>7, <1>8, <1>9, <1>10, <1>11, <1>12, <1>13, <1>14, <1>15, <1>16, <1>17, <1>18, <1>19 DEF WorkerStep, OwnStep, DispatchAnswers

(* So do the pulse, a crash, a late request and the refusal's audit. *)
LEMMA OtherStepCall ==
  ASSUME StoreInv, TypeOK, NEW r \in Runs, CallOK(r),
         PulseStep(r) \/ Crash(r) \/ Deliver(r) \/ RefusalGoesOn(r)
  PROVE  CallOK(r)'
<1> USE DEF CallOK, PulseOK, EarnedOK, AnswerOK, Completing, Earned, Persisted, GatesOpen,
            Working, Over, storeVars, GoTo
<1>0. /\ pc \in [Runs -> PCs] /\ outcome \in [Runs -> Outcomes \cup {NoOutcome}]
      /\ pulse \in [Runs -> {"off", "beating", "lost", "stopped"}]
      /\ posted \in [Runs -> Nat] /\ verdict \in [Runs -> {"failed", "blocked"}]
      /\ moved \in [Runs -> {"Todo", "In Progress", "In Review", "Blocked"}]
      /\ late \in [Runs -> SUBSET Requests] /\ agent_runs \in [Runs -> Row]
  BY DEF TypeOK, StoreTypeOK
<1>1. CASE Beat(r)
  BY <1>0, <1>1 DEF Beat, BeatDue, Heartbeat
<1>2. CASE BeatFails(r)
  BY <1>0, <1>2 DEF BeatFails, BeatDue, MayBeLate
<1>3. CASE Crash(r)
  BY <1>0, <1>3 DEF Crash, MayBeLate, Request, Asks, StopPulse
<1>4. CASE Deliver(r)
  <2>1. PICK q \in late[r] :
          /\ late' = [late EXCEPT ![r] = @ \ {q}]
          /\ \/ q = "claim" /\ (ClaimGranted(r) \/ ClaimRefused(r))
             \/ q = "heartbeat" /\ \E ok \in BOOLEAN : Heartbeat(r, ok)
             \/ q \in WorkerEvents /\ PostEvent(r, q)
             \/ /\ q = "completed"
                /\ \E ok \in BOOLEAN :
                     Finish(r, "completed", outcome[r].tests, outcome[r].review, ok)
             \/ /\ q \in {"failed", "blocked"}
                /\ \E ok \in BOOLEAN : Finish(r, q, "missing", "missing", ok)
    BY <1>4 DEF Deliver
  <2>2. UNCHANGED <<pc, pulse, since, outcome, posted, verdict, moved>>
    BY <1>4 DEF Deliver
  <2>3. pc[r] \notin {"idle", "refused", "conflict"}
    BY <2>1
  <2>4. late'[r] = late[r] \ {q}
    BY <1>0, <2>1
  <2>5. CASE q = "claim" /\ (ClaimGranted(r) \/ ClaimRefused(r))
    <3>1. CASE ClaimGranted(r)
      BY <1>0, <2>2, <2>3, <2>4, <3>1, ClaimRow
    <3>2. CASE ClaimRefused(r)
      BY <1>0, <2>2, <2>3, <2>4, <3>2 DEF ClaimRefused
    <3>3. QED
      BY <2>5, <3>1, <3>2
  <2>6. CASE UNCHANGED agent_runs
    BY <1>0, <2>2, <2>3, <2>4, <2>6
  <2>7. CASE /\ q = "completed"
             /\ \E ok \in BOOLEAN :
                  Finish(r, "completed", outcome[r].tests, outcome[r].review, ok)
    <3>1. Completing(r)
      BY <2>7
    <3>2. \/ agent_runs' = agent_runs
          \/ /\ agent_runs[r].status \in {"running", "reviewing"}
             /\ agent_runs'[r].status = "completed"
             /\ agent_runs'[r].tests = outcome[r].tests
             /\ agent_runs'[r].review = outcome[r].review
      <4>1. \E ok \in BOOLEAN :
              Finish(r, "completed", outcome[r].tests, outcome[r].review, ok)
        BY <2>7
      <4>2. QED
        BY <4>1, LateFinish
    <3>3. PulseOK(r)'
      BY <2>2
    <3>4. pc[r] = "raised" => agent_runs[r].status \notin {"running", "reviewing"}
      BY <1>0
    <3>5. AnswerOK(r)'
      BY <2>2, <2>3, <2>4, <3>2, <3>4
    <3>6. Earned(r)' /\ (r \in Gated => outcome[r].tests = "ok" /\ outcome[r].review = "ok")
      BY <2>2, <3>1
    <3>7. EarnedOK(r)'
      BY <2>2, <2>4, <3>1, <3>2, <3>6
    <3>8. QED
      BY <3>3, <3>5, <3>7
  <2>8. CASE /\ q \in {"failed", "blocked"}
             /\ \E ok \in BOOLEAN : Finish(r, q, "missing", "missing", ok)
    <3>1. \/ agent_runs' = agent_runs
          \/ /\ agent_runs[r].status \in {"running", "reviewing"}
             /\ agent_runs'[r].status = q
      BY <2>8, LateFinish
    <3>2. pc[r] = "raised" => agent_runs[r].status \notin {"running", "reviewing"}
      BY <1>0
    <3>3. PulseOK(r)'
      BY <2>2
    <3>4. EarnedOK(r)'
      BY <2>2, <2>4, <2>8, <3>1
    <3>5. AnswerOK(r)'
      BY <2>2, <2>3, <2>4, <2>8, <3>1, <3>2
    <3>6. QED
      BY <3>3, <3>4, <3>5
  <2>9. QED
    BY <2>1, <2>5, <2>6, <2>7, <2>8 DEF Heartbeat, PostEvent
<1>5. CASE RefusalGoesOn(r)
  BY <1>0, <1>5 DEF RefusalGoesOn, ClaimReadsHolder, ClaimAudits, workerVars
<1>6. QED
  BY <1>1, <1>2, <1>3, <1>4, <1>5 DEF PulseStep

(* What recovery and the operator do to a row: a blocked run is canceled,  *)
(* a run that has not ended fails.                                         *)
LEMMA RowsRecovered ==
  ASSUME StoreInv, NEW i \in Issues, RecoverExpired(i) \/ OperatorGivesBack(i),
         NEW r \in Runs
  PROVE  \/ agent_runs'[r] = agent_runs[r]
         \/ /\ agent_runs[r].status = "blocked"
            /\ agent_runs'[r].status = "canceled"
         \/ /\ agent_runs[r].status \in {"queued", "running", "reviewing"}
            /\ agent_runs'[r].status = "failed"
<1>0. agent_runs \in [Runs -> Row]
  BY DEF StoreInv, StoreTypeOK
<1>1. CASE RecoverExpired(i)
  BY <1>0, <1>1 DEF RecoverExpired, Recover, Row
<1>2. CASE OperatorGivesBack(i)
  BY <1>0, <1>2 DEF OperatorGivesBack, OperatorRelease, Blocked, Row
<1>3. QED
  BY <1>1, <1>2

(* A call that nothing touches keeps its invariant, even if its row is     *)
(* recovered or given back.                                                *)
LEMMA CallKept ==
  ASSUME NEW q \in Runs, CallOK(q), verdict[q] \in {"failed", "blocked"},
         pc'[q] = pc[q], pulse'[q] = pulse[q], outcome'[q] = outcome[q],
         posted'[q] = posted[q], verdict'[q] = verdict[q],
         moved'[q] = moved[q], late'[q] = late[q],
         \/ agent_runs'[q] = agent_runs[q]
         \/ /\ agent_runs[q].status = "blocked"
            /\ agent_runs'[q].status = "canceled"
         \/ /\ agent_runs[q].status \in {"queued", "running", "reviewing"}
            /\ agent_runs'[q].status = "failed"
  PROVE  CallOK(q)'
<1>1. PulseOK(q)'
  BY DEF CallOK, PulseOK
<1>2. Earned(q)' <=> Earned(q)
  BY DEF Earned, Persisted, GatesOpen
<1>3. Completing(q)' => Completing(q)
  BY DEF Completing
<1>4. EarnedOK(q)'
  BY <1>2, <1>3 DEF CallOK, EarnedOK
<1>5. AnswerOK(q)'
  BY DEF CallOK, AnswerOK
<1>6. QED
  BY <1>1, <1>4, <1>5 DEF CallOK

(* Every step preserves the invariant of the calls. *)
LEMMA CallStep ==
  ASSUME StoreInv, TypeOK, CallInv, [Next]_vars
  PROVE  CallInv'
<1>0. \A r \in Runs : CallOK(r)
  BY DEF CallInv, CallOK
<1>1. ASSUME NEW r \in Runs, RunStep(r)
      PROVE  CallInv'
  <2> SUFFICES ASSUME NEW q \in Runs
               PROVE  CallOK(q)'
    BY DEF CallInv, CallOK
  <2>1. CASE q = r
    BY <1>0, <1>1, <2>1, WorkerStepCall, OtherStepCall DEF RunStep
  <2>2. CASE q # r
    <3>1. /\ agent_runs'[q] = agent_runs[q]
          /\ pc'[q] = pc[q] /\ pulse'[q] = pulse[q] /\ outcome'[q] = outcome[q]
          /\ posted'[q] = posted[q] /\ verdict'[q] = verdict[q]
          /\ moved'[q] = moved[q] /\ late'[q] = late[q]
      BY <1>1, <2>2, OtherRuns
    <3>2. verdict[q] \in {"failed", "blocked"}
      BY DEF TypeOK
    <3>3. QED
      BY <1>0, <3>1, <3>2, CallKept
  <2>3. QED
    BY <2>1, <2>2
<1>2. ASSUME NEW i \in Issues, RecoverExpired(i) \/ OperatorGivesBack(i)
      PROVE  CallInv'
  <2> SUFFICES ASSUME NEW q \in Runs
               PROVE  CallOK(q)'
    BY DEF CallInv, CallOK
  <2>1. UNCHANGED workerVars
    BY <1>2 DEF RecoverExpired, OperatorGivesBack
  <2>2. \/ agent_runs'[q] = agent_runs[q]
        \/ /\ agent_runs[q].status = "blocked"
           /\ agent_runs'[q].status = "canceled"
        \/ /\ agent_runs[q].status \in {"queued", "running", "reviewing"}
           /\ agent_runs'[q].status = "failed"
    BY <1>2, RowsRecovered
  <2>3. verdict[q] \in {"failed", "blocked"}
    BY DEF TypeOK
  <2>4. QED
    BY <1>0, <2>1, <2>2, <2>3, CallKept DEF workerVars
<1>3. CASE TimePasses \/ AllOver \/ UNCHANGED vars
  <2>1. UNCHANGED <<agent_runs, pc, pulse, outcome, posted, verdict, moved, late>>
    BY <1>3 DEF TimePasses, Tick, AllOver, vars, storeVars, workerVars
  <2>2. QED
    BY <1>0, <2>1
    DEF CallInv, CallOK, PulseOK, EarnedOK, AnswerOK, Completing, Earned, Persisted, GatesOpen
<1>4. QED
  BY <1>1, <1>2, <1>3 DEF Next, Others, RunStep

-------------------------------------------------------------------------------
(* The invariant of the runtime, and what follows from it *)

LEMMA RuntimeInitInv ==
  ASSUME Init
  PROVE  RuntimeInv
<1>1. StoreInv
  BY StoreInitInv DEF Init
<1>2. TypeOK
  <2>1. NoOutcome \in Outcomes \cup {NoOutcome} /\ 0 \in Nat
    OBVIOUS
  <2>2. QED
    BY <1>1, <2>1, SinceZero DEF Init, TypeOK, StoreInv, PCs
<1>3. CallInv
  BY DEF Init, StoreInit, NoRow, CallInv, PulseOK, EarnedOK, AnswerOK, Completing, Working, Over
<1>4. QED
  BY <1>1, <1>2, <1>3 DEF RuntimeInv

LEMMA RuntimeStepInv ==
  ASSUME RuntimeInv, [Next]_vars
  PROVE  RuntimeInv'
<1>1. StoreInv /\ TypeOK /\ CallInv
  BY DEF RuntimeInv
<1>2. StoreInv'
  BY <1>1, StepUsesStore, StoreStepInv
<1>3. WorkerTypeOK'
  BY <1>1, WorkerTypeStep DEF TypeOK, WorkerTypeOK
<1>4. CallInv'
  BY <1>1, CallStep
<1>5. TypeOK'
  BY <1>2, <1>3 DEF TypeOK, WorkerTypeOK, StoreInv
<1>6. QED
  BY <1>2, <1>4, <1>5 DEF RuntimeInv

THEOREM RuntimeInvariant == Spec => []RuntimeInv
<1>1. Init => RuntimeInv
  BY RuntimeInitInv
<1>2. RuntimeInv /\ [Next]_vars => RuntimeInv'
  BY RuntimeStepInv
<1>3. QED
  BY <1>1, <1>2, PTL DEF Spec

(* The workers, their pulses and the late requests are well typed. *)
THEOREM RuntimeTypes == Spec => []TypeOK
<1>1. RuntimeInv => TypeOK
  BY DEF RuntimeInv
<1>2. QED
  BY RuntimeInvariant, <1>1, PTL

(* The runtime changes the tables only through the functions of the store, *)
(* so every theorem about StoreSpec holds of the runtime.                  *)
THEOREM RuntimeUsesStore == Spec => UsesStore
<1>1. Init => StoreInit
  BY DEF Init
<1>2. RuntimeInv /\ [Next]_vars => [StoreNext]_storeVars
  BY StepUsesStore DEF RuntimeInv
<1>3. QED
  BY RuntimeInvariant, <1>1, <1>2, PTL DEF Spec, UsesStore, StoreSpec

(* A completed row was earned, whatever was lost, late or raced. *)
THEOREM CompletionsAreEarned == Spec => []CompletedIsEarned
<1>1. RuntimeInv => CompletedIsEarned
  BY DEF RuntimeInv, CallInv, EarnedOK, Completing, CompletedIsEarned
<1>2. QED
  BY RuntimeInvariant, <1>1, PTL

(* What the caller is told is what the store holds. *)
THEOREM AnswersHold == Spec => []AnswersAreTrue
<1>1. ASSUME RuntimeInv, NEW r \in Runs, agent_runs[r].status # "running"
      PROVE  ~Owns(r)
  BY <1>1, RunsAssumption DEF RuntimeInv, StoreInv, LockIffRunning, Owns
<1>2. ASSUME RuntimeInv
      PROVE  AnswersAreTrue
  <2> SUFFICES ASSUME NEW r \in Runs
               PROVE  /\ pc[r] = "returned" => agent_runs[r].status = "completed"
                      /\ pc[r] = "raised" =>
                           \/ agent_runs[r].status = verdict[r]
                           \/ verdict[r] = "blocked" /\ agent_runs[r].status = "canceled"
                      /\ pc[r] = "conflict" => agent_runs[r].status = "absent"
                      /\ pc[r] \in {"returned", "raised", "conflict"} => ~Owns(r)
    BY DEF AnswersAreTrue
  <2>1. AnswerOK(r) /\ verdict[r] \in {"failed", "blocked"}
    BY <1>2 DEF RuntimeInv, CallInv, TypeOK
  <2>2. QED
    BY <1>1, <1>2, <2>1 DEF AnswerOK
<1>3. QED
  BY RuntimeInvariant, <1>2, PTL

-------------------------------------------------------------------------------
(* A beating pulse keeps the lock *)

(* A step of one run cannot touch the lock another run owns. *)
LEMMA LockOfOthers ==
  ASSUME TypeOK, NEW r \in Runs, NEW q \in Runs, q # r, RunStep(r)
  PROVE  /\ since'[q] = since[q]
         /\ Owns(q) => locks'[IssueOf[q]] = locks[IssueOf[q]]
<1>0. /\ locks \in [Issues -> Lock] /\ since \in [Runs -> 0 .. TTL]
      /\ IssueOf[q] \in Issues /\ IssueOf[r] \in Issues /\ q # NoRun
  BY RunsAssumption DEF TypeOK, StoreTypeOK
<1>2. since'[q] = since[q]
  BY <1>0 DEF RunStep, WorkerStep, OwnStep, PulseStep, Claim, ClaimMeetsConflict, RaiseConflict,
              MoveInProgress, Announce, DispatchAnswers, DispatchReturns, DispatchRaises, DispatchRaisesEvents,
              PersistEvent, BatchRefused, FlushDone, OutcomeInDoubt, GatesIncomplete,
              MoveInReview, Complete, MoveBlocked, Close, CallFails, CallEscapes, Beat,
              BeatFails, Crash, Deliver, RefusalGoesOn, workerVars
<1> SUFFICES ASSUME Owns(q)
             PROVE  locks'[IssueOf[q]] = locks[IssueOf[q]]
  BY <1>2
<1>1. Owns(r) => IssueOf[r] # IssueOf[q]
  BY DEF Owns
<1>3. CASE UNCHANGED locks
  BY <1>3
<1>4. CASE ClaimGranted(r)
  <2>1. IssueOf[r] # IssueOf[q]
    BY <1>0, <1>4 DEF ClaimGranted, UniqueViolation, Locked, Owns
  <2>2. QED
    BY <1>0, <1>2, <1>4, <2>1 DEF ClaimGranted
<1>5. ASSUME NEW ok \in BOOLEAN, Heartbeat(r, ok)
      PROVE  locks'[IssueOf[q]] = locks[IssueOf[q]]
  BY <1>0, <1>1, <1>5 DEF Heartbeat
<1>6. ASSUME NEW final, NEW tests, NEW review, NEW ok \in BOOLEAN,
             Finish(r, final, tests, review, ok)
      PROVE  locks'[IssueOf[q]] = locks[IssueOf[q]]
  <2>1. CASE ok
    <3>1. IssueOf[r] # IssueOf[q]
      BY <1>1, <1>6, <2>1, Zenon DEF Finish
    <3>2. locks' = [locks EXCEPT ![IssueOf[r]] = NoLock]
      BY <1>6, <2>1, Zenon DEF Finish
    <3>3. QED
      BY <1>0, <3>1, <3>2
  <2>2. CASE ~ok
    BY <1>6, <2>2, Zenon DEF Finish
  <2>3. QED
    BY <2>1, <2>2
<1>7. CASE WorkerStep(r)
  <2>1. CASE Claim(r)
    BY <1>2, <1>4, <2>1 DEF Claim
  <2>2. CASE Complete(r)
    <3>1. \E ok \in BOOLEAN : Finish(r, "completed", outcome[r].tests, outcome[r].review, ok)
      BY <2>2 DEF Complete
    <3>2. QED
      BY <1>2, <1>6, <3>1
  <2>3. CASE Close(r)
    <3>1. \E ok \in BOOLEAN : Finish(r, verdict[r], "missing", "missing", ok)
      BY <2>3 DEF Close
    <3>2. QED
      BY <1>2, <1>6, <3>1
  <2>4. QED
    BY <1>3, <1>7, <2>1, <2>2, <2>3
    DEF WorkerStep, OwnStep, storeVars, ClaimMeetsConflict, ClaimRefused, RaiseConflict,
        MoveInProgress, Announce, PersistEvent, PostEvent, DispatchAnswers, DispatchReturns, DispatchRaises,
        DispatchRaisesEvents, BatchRefused, FlushDone, OutcomeInDoubt, GatesIncomplete,
        MoveInReview, MoveBlocked, CallFails, CallEscapes
<1>8. CASE PulseStep(r)
  BY <1>2, <1>3, <1>5, <1>8 DEF PulseStep, Beat, BeatFails, storeVars
<1>9. CASE Crash(r) \/ RefusalGoesOn(r)
  BY <1>3, <1>9 DEF Crash, RefusalGoesOn, ClaimReadsHolder, ClaimAudits, storeVars
<1>10. CASE Deliver(r)
  <2>1. \/ UNCHANGED locks
        \/ ClaimGranted(r)
        \/ \E ok \in BOOLEAN : Heartbeat(r, ok)
        \/ \E ok \in BOOLEAN, final \in Requests : \E tests, review \in Gates :
             Finish(r, final, tests, review, ok)
    BY <1>10, OutcomeTypes DEF Deliver, ClaimRefused, PostEvent, Requests, Verdicts, Gates
  <2>2. QED
    BY <1>2, <1>3, <1>4, <1>5, <1>6, <2>1
<1>11. QED
  BY <1>7, <1>8, <1>9, <1>10 DEF RunStep

(* A run whose pulse still beats after a step of its own has just claimed  *)
(* or beaten, or the step touched neither its lock nor its clock.          *)
LEMMA OwnBeat ==
  ASSUME RuntimeInv, NEW r \in Runs, PulseHolds(r), RunStep(r)
  PROVE  PulseHolds(r)'
<1>0. /\ locks \in [Issues -> Lock] /\ since \in [Runs -> 0 .. TTL]
      /\ pc \in [Runs -> PCs] /\ late \in [Runs -> SUBSET Requests]
      /\ pulse \in [Runs -> {"off", "beating", "lost", "stopped"}]
      /\ IssueOf[r] \in Issues /\ PulseOK(r) /\ AnswerOK(r)
  BY RunsAssumption DEF RuntimeInv, TypeOK, StoreTypeOK, CallInv
<1> SUFFICES ASSUME pulse'[r] = "beating"
             PROVE  PulseHolds(r)'
  BY DEF PulseHolds
<1>1. CASE Claim(r)
  <2>1. locks'[IssueOf[r]] = [run |-> r, left |-> TTL] /\ since'[r] = 0 /\ late'[r] = {}
    BY <1>0, <1>1 DEF Claim, ClaimGranted, AnswerOK
  <2>2. QED
    BY <2>1, TTLAssumption DEF PulseHolds, Owns
<1>2. CASE Beat(r)
  <2>1. Heartbeat(r, TRUE) /\ since' = [since EXCEPT ![r] = 0] /\ late' = late
    BY <1>0, <1>2 DEF Beat
  <2>2. locks'[IssueOf[r]] = [run |-> r, left |-> TTL] /\ since'[r] = 0
    BY <1>0, <2>1 DEF Heartbeat
  <2>3. late'[r] = {}
    BY <1>2, <2>1 DEF Beat, BeatDue, PulseHolds
  <2>4. QED
    BY <2>2, <2>3, TTLAssumption DEF PulseHolds, Owns
<1>3. CASE \/ MoveInProgress(r) \/ Announce(r) \/ RefusalGoesOn(r)
  BY <1>3 DEF MoveInProgress, Announce, RefusalGoesOn, PostEvent, ClaimReadsHolder,
              ClaimAudits, PulseHolds, Owns, storeVars, workerVars
<1>4. CASE \/ DispatchAnswers(r)
           \/ BatchRefused(r) \/ FlushDone(r) \/ OutcomeInDoubt(r) \/ GatesIncomplete(r)
           \/ CallFails(r) \/ Crash(r) \/ BeatFails(r)
  BY <1>0, <1>4 DEF DispatchAnswers, DispatchReturns, DispatchRaises, DispatchRaisesEvents, BatchRefused,
                    FlushDone, OutcomeInDoubt, GatesIncomplete, CallFails, Crash, BeatFails,
                    Except, StopPulse
<1>5. CASE \/ ClaimMeetsConflict(r) \/ RaiseConflict(r) \/ PersistEvent(r)
           \/ MoveInReview(r) \/ Complete(r) \/ MoveBlocked(r) \/ Close(r) \/ CallEscapes(r)
  BY <1>0, <1>5 DEF ClaimMeetsConflict, RaiseConflict, PersistEvent, MoveInReview, Complete,
                    MoveBlocked, Close, CallEscapes, Except, StopPulse, PulseOK
<1>6. CASE Deliver(r)
  BY <1>0, <1>6 DEF Deliver, PulseHolds
<1>7. QED
  BY <1>1, <1>2, <1>3, <1>4, <1>5, <1>6 DEF RunStep, WorkerStep, OwnStep, PulseStep

(* While less than a TTL has passed since the heartbeat, the lock is alive. *)
LEMMA TimeLeft ==
  ASSUME NEW l \in 0 .. TTL, NEW s \in 0 .. TTL, l + s = TTL, s < TTL
  PROVE  l > 0 /\ l - 1 + (s + 1) = TTL
BY TTLAssumption

(* Every step preserves the invariant of the beating pulses. *)
LEMMA PulsesStep ==
  ASSUME RuntimeInv, PulsesHold, [Next]_vars
  PROVE  PulsesHold'
<1>0. /\ locks \in [Issues -> Lock] /\ since \in [Runs -> 0 .. TTL]
      /\ TypeOK /\ \A r \in Runs : IssueOf[r] \in Issues
  BY RunsAssumption DEF RuntimeInv, TypeOK, StoreTypeOK
<1> SUFFICES ASSUME NEW q \in Runs
             PROVE  PulseHolds(q)'
  BY DEF PulsesHold
<1>1. PulseHolds(q)
  BY DEF PulsesHold
<1>2. locks[IssueOf[q]].left \in 0 .. TTL /\ since[q] \in 0 .. TTL
  BY <1>0 DEF Lock
<1>3. pulse[q] = "beating" /\ since[q] < TTL => locks[IssueOf[q]].left > 0
  BY <1>1, <1>2, TimeLeft DEF PulseHolds
<1>4. ASSUME NEW r \in Runs, RunStep(r)
      PROVE  PulseHolds(q)'
  <2>1. CASE q = r
    BY <1>1, <1>4, <2>1, OwnBeat
  <2>2. CASE q # r
    <3>1. pulse'[q] = pulse[q] /\ late'[q] = late[q]
      BY <1>0, <1>4, <2>2, OtherRuns
    <3>2. /\ since'[q] = since[q]
          /\ Owns(q) => locks'[IssueOf[q]] = locks[IssueOf[q]]
      BY <1>0, <1>4, <2>2, LockOfOthers
    <3>3. QED
      BY <1>1, <3>1, <3>2 DEF PulseHolds, Owns
  <2>3. QED
    BY <2>1, <2>2
<1>5. ASSUME NEW i \in Issues, RecoverExpired(i) \/ OperatorGivesBack(i)
      PROVE  PulseHolds(q)'
  <2>1. UNCHANGED workerVars
    BY <1>5 DEF RecoverExpired, OperatorGivesBack
  <2>2. CASE OperatorGivesBack(i)
    BY <1>1, <2>1, <2>2 DEF OperatorGivesBack, OperatorRelease, PulseHolds, Owns, workerVars
  <2>3. CASE RecoverExpired(i)
    <3>1. locks[i].left = 0 /\ locks' = [locks EXCEPT ![i] = NoLock]
      BY <2>3 DEF RecoverExpired, Recover
    <3>2. pulse[q] = "beating" /\ since[q] < TTL => IssueOf[q] # i
      BY <1>3, <3>1
    <3>3. QED
      BY <1>0, <1>1, <2>1, <3>1, <3>2 DEF PulseHolds, Owns, workerVars
  <2>4. QED
    BY <1>5, <2>2, <2>3
<1>6. CASE TimePasses
  <2>0. UNCHANGED <<pulse, late>>
    BY <1>6 DEF TimePasses
  <2> SUFFICES ASSUME pulse[q] = "beating", since'[q] < TTL
               PROVE  Owns(q)' /\ locks'[IssueOf[q]].left + since'[q] = TTL
    BY <1>1, <2>0 DEF PulseHolds
  <2>1. since[q] < TTL /\ since'[q] = since[q] + 1
    BY <1>0, <1>2, <1>6 DEF TimePasses
  <2>2. /\ locks'[IssueOf[q]].run = locks[IssueOf[q]].run
        /\ locks'[IssueOf[q]].left = locks[IssueOf[q]].left - 1
    BY <1>0, <1>3, <1>6, <2>1 DEF TimePasses, Tick
  <2>3. Owns(q) /\ locks[IssueOf[q]].left + since[q] = TTL
    BY <1>1, <2>1 DEF PulseHolds
  <2>4. locks'[IssueOf[q]].left + since'[q] = TTL
    BY <1>2, <2>1, <2>2, <2>3, TimeLeft
  <2>5. QED
    BY <2>2, <2>3, <2>4 DEF Owns
<1>7. CASE AllOver \/ UNCHANGED vars
  BY <1>1, <1>7 DEF AllOver, vars, storeVars, workerVars, PulseHolds, Owns
<1>8. QED
  BY <1>4, <1>5, <1>6, <1>7 DEF Next, Others, RunStep

(* A pulse that is at most a whole period late keeps the lock alive, for   *)
(* every TTL and heartbeat period the constructor accepts.                 *)
THEOREM BeatingPulseHolds == Spec => []BeatingHoldsLock
<1>1. Init => RuntimeInv /\ PulsesHold
  BY RuntimeInitInv DEF Init, PulsesHold, PulseHolds
<1>2. RuntimeInv /\ PulsesHold /\ [Next]_vars => (RuntimeInv /\ PulsesHold)'
  BY RuntimeStepInv, PulsesStep
<1>3. RuntimeInv /\ PulsesHold => BeatingHoldsLock
  <2> SUFFICES ASSUME RuntimeInv, PulsesHold, NEW r \in Runs, pulse[r] = "beating",
                      since[r] =< 2 * HB
               PROVE  Owns(r) /\ locks[IssueOf[r]].left > 0
    BY DEF BeatingHoldsLock
  <2>1. locks[IssueOf[r]].left \in 0 .. TTL /\ since[r] \in 0 .. TTL
    BY RunsAssumption DEF RuntimeInv, TypeOK, StoreTypeOK, Lock
  <2>2. since[r] < TTL
    BY <2>1, HeartbeatAssumption, TTLAssumption
  <2>3. Owns(r) /\ locks[IssueOf[r]].left + since[r] = TTL
    BY <2>2 DEF PulsesHold, PulseHolds
  <2>4. QED
    BY <2>1, <2>2, <2>3, TimeLeft
<1>4. QED
  BY <1>1, <1>2, <1>3, PTL DEF Spec

-------------------------------------------------------------------------------
(* Parked issues and refused claims *)

(* A blocked row, or a blocked finish that may still be applied, comes     *)
(* after the move of the issue to Blocked, and only once the call is over  *)
(* or about to be.                                                         *)
Blocking(r) == Blocked(r) \/ "blocked" \in late[r]
ParkedOK(r) ==
  /\ Blocking(r) \/ (pc[r] = "close" /\ verdict[r] = "blocked") =>
       verdict[r] = "blocked" /\ moved[r] = "Blocked"
  /\ Blocking(r) => pc[r] \in {"close"} \cup Over

(* A run has no row exactly until its claim is granted, which happens at   *)
(* most once and never to a claim that is being refused.                   *)
ClaimOK(r) ==
  /\ agent_runs[r].status = "absent" =>
       /\ late[r] \subseteq {"claim"}
       /\ pc[r] \in {"idle", "refused", "conflict", "escaped", "crashed"}
  /\ agent_runs[r].status # "absent" => "claim" \notin late[r]
  /\ Rejecting(r) =>
       agent_runs[r].status = "absent" /\ "claim" \notin late[r] /\ pc[r] # "idle"

CloseOK(r) == ParkedOK(r) /\ ClaimOK(r)

(* A step of run r adds no refused claim of another run. *)
LEMMA RejectingOthers ==
  ASSUME NEW r \in Runs, NEW q \in Runs, q # r, RunStep(r), Rejecting(q)'
  PROVE  Rejecting(q)
<1>1. CASE UNCHANGED rejecting
  BY <1>1 DEF Rejecting
<1>2. CASE ClaimRefused(r) \/ ClaimReadsHolder(r) \/ ClaimAudits(r)
  BY <1>2 DEF ClaimRefused, ClaimReadsHolder, ClaimAudits, Rejecting
<1>3. CASE WorkerStep(r) /\ ~ClaimMeetsConflict(r)
  BY <1>1, <1>3
  DEF WorkerStep, OwnStep, storeVars, Claim, ClaimGranted, RaiseConflict, MoveInProgress, Announce,
      PersistEvent, PostEvent, DispatchAnswers, DispatchReturns, DispatchRaises,
      DispatchRaisesEvents, BatchRefused, FlushDone, OutcomeInDoubt, GatesIncomplete,
      MoveInReview, Complete, MoveBlocked, Close, Finish, CallFails, CallEscapes
<1>4. CASE PulseStep(r) \/ Crash(r)
  BY <1>1, <1>4 DEF PulseStep, Beat, BeatFails, Heartbeat, Crash, storeVars
<1>5. CASE Deliver(r)
  BY <1>1, <1>2, <1>5 DEF Deliver, ClaimGranted, Heartbeat, PostEvent, Finish
<1>6. QED
  BY <1>2, <1>3, <1>4, <1>5 DEF RunStep, ClaimMeetsConflict, RefusalGoesOn

(* The steps of a worker keep what is known of a parked run. *)
LEMMA WorkerStepParked ==
  ASSUME StoreInv, TypeOK, NEW r \in Runs, CallOK(r), ParkedOK(r), WorkerStep(r)
  PROVE  ParkedOK(r)'
<1> USE DEF ParkedOK, Blocking, Blocked, Over, Working, storeVars, GoTo
<1>0. /\ pc \in [Runs -> PCs] /\ verdict \in [Runs -> {"failed", "blocked"}]
      /\ moved \in [Runs -> {"Todo", "In Progress", "In Review", "Blocked"}]
      /\ late \in [Runs -> SUBSET Requests] /\ agent_runs \in [Runs -> Row]
  BY DEF TypeOK, StoreTypeOK
<1>1. CASE Claim(r)
  BY <1>0, <1>1, ClaimRow DEF Claim
<1>2. CASE \/ ClaimMeetsConflict(r) \/ RaiseConflict(r) \/ MoveInProgress(r) \/ Announce(r)
           \/ PersistEvent(r) \/ MoveInReview(r)
  BY <1>0, <1>2 DEF ClaimMeetsConflict, ClaimRefused, RaiseConflict, MoveInProgress, Announce,
                    PersistEvent, PostEvent, MoveInReview
<1>3. CASE DispatchAnswers(r)
  BY <1>0, <1>3 DEF DispatchAnswers, DispatchReturns, DispatchRaises, DispatchRaisesEvents, Except
<1>4. CASE \/ BatchRefused(r) \/ FlushDone(r) \/ OutcomeInDoubt(r) \/ GatesIncomplete(r)
  BY <1>0, <1>4 DEF BatchRefused, FlushDone, OutcomeInDoubt, GatesIncomplete, Except
<1>5. CASE Complete(r)
  <2>1. pc[r] = "complete" /\ late' = late /\ pc'[r] \in {"returned", "close"}
    BY <1>5, CompleteCases
  <2>2. agent_runs'[r].status = "completed" \/ agent_runs' = agent_runs
    BY <1>5, CompleteCases
  <2>3. pc'[r] = "close" => verdict'[r] = "failed"
    BY <1>0, <1>5 DEF Complete, Except
  <2>4. QED
    BY <2>1, <2>2, <2>3
<1>6. CASE MoveBlocked(r)
  BY <1>0, <1>6 DEF MoveBlocked
<1>7. CASE Close(r)
  BY <1>7, CloseCases
<1>8. CASE CallFails(r)
  BY <1>0, <1>8 DEF CallFails, MayBeLate, Request, Asks, Except
<1>9. CASE CallEscapes(r)
  BY <1>0, <1>9 DEF CallEscapes, MayBeLate, Request, Asks
<1>10. QED
  BY <1>1, <1>2, <1>3, <1>4, <1>5, <1>6, <1>7, <1>8, <1>9 DEF WorkerStep, OwnStep

(* They keep what is known of a claim. *)
LEMMA WorkerStepClaim ==
  ASSUME StoreInv, TypeOK, NEW r \in Runs, CallOK(r), ClaimOK(r), WorkerStep(r)
  PROVE  ClaimOK(r)'
<1> USE DEF ClaimOK, Working
<1>0. /\ pc \in [Runs -> PCs] /\ late \in [Runs -> SUBSET Requests]
      /\ agent_runs \in [Runs -> Row]       /\ verdict[r] # "absent" /\ verdict[r] # "claim"
      /\ pc[r] \in {"idle", "refused"} => late[r] = {} /\ agent_runs[r].status = "absent"
  BY DEF TypeOK, StoreTypeOK, CallOK, AnswerOK
<1>1. CASE Claim(r)
  <2>1. agent_runs'[r].status = "running" /\ rejecting' = rejecting
    BY <1>0, <1>1, ClaimRow DEF Claim, ClaimGranted
  <2>2. pc[r] = "idle" /\ late' = late
    BY <1>1 DEF Claim
  <2>3. QED
    BY <1>0, <2>1, <2>2 DEF Rejecting
<1>2. CASE ClaimMeetsConflict(r)
  BY <1>0, <1>2 DEF ClaimMeetsConflict, ClaimRefused, GoTo
<1>3. CASE \/ RaiseConflict(r) \/ MoveInProgress(r) \/ Announce(r) \/ PersistEvent(r)
           \/ MoveInReview(r) \/ MoveBlocked(r)
  BY <1>0, <1>3 DEF RaiseConflict, MoveInProgress, Announce,
                    PersistEvent, PostEvent, MoveInReview, MoveBlocked, GoTo, storeVars, Rejecting
<1>4. CASE DispatchAnswers(r)
  BY <1>0, <1>4 DEF DispatchAnswers, DispatchReturns, DispatchRaises, DispatchRaisesEvents, Except, GoTo, storeVars, Rejecting
<1>5. CASE \/ BatchRefused(r) \/ FlushDone(r) \/ OutcomeInDoubt(r) \/ GatesIncomplete(r)
  BY <1>0, <1>5 DEF BatchRefused, FlushDone, OutcomeInDoubt, GatesIncomplete, Except, GoTo, storeVars, Rejecting
<1>6. CASE Complete(r)
  <2>1. /\ pc[r] = "complete" /\ late' = late /\ pc'[r] \in {"returned", "close"}
        /\ agent_runs'[r].status = "completed" \/ agent_runs' = agent_runs
    BY <1>6, CompleteCases
  <2>2. rejecting' = rejecting
    BY <1>6 DEF Complete, Finish
  <2>3. QED
    BY <2>1, <2>2 DEF Rejecting
<1>7. CASE Close(r)
  <2>1. /\ pc[r] = "close" /\ late' = late
        /\ agent_runs'[r].status = verdict[r] \/ agent_runs' = agent_runs
    BY <1>7, CloseCases
  <2>2. rejecting' = rejecting
    BY <1>7 DEF Close, Finish
  <2>3. QED
    BY <1>0, <2>1, <2>2 DEF Rejecting
<1>8. CASE CallFails(r)
  BY <1>0, <1>8 DEF CallFails, MayBeLate, Request, Asks, Except, GoTo, storeVars, Rejecting
<1>9. CASE CallEscapes(r)
  BY <1>0, <1>9 DEF CallEscapes, MayBeLate, Request, Asks, GoTo, storeVars, Rejecting
<1>10. QED
  BY <1>1, <1>2, <1>3, <1>4, <1>5, <1>6, <1>7, <1>8, <1>9 DEF WorkerStep, OwnStep


(* A request that is delivered late keeps both. *)
LEMMA DeliverClose ==
  ASSUME StoreInv, TypeOK, NEW r \in Runs, CallOK(r), CloseOK(r), Deliver(r)
  PROVE  CloseOK(r)'
<1> USE DEF CloseOK, ParkedOK, ClaimOK, Blocking, Blocked
<1>0. /\ late \in [Runs -> SUBSET Requests] /\ agent_runs \in [Runs -> Row]
      /\ UNCHANGED <<pc, verdict, moved>>
  BY DEF TypeOK, StoreTypeOK, Deliver
<1>1. PICK q \in late[r] :
        /\ late' = [late EXCEPT ![r] = @ \ {q}]
        /\ \/ q = "claim" /\ (ClaimGranted(r) \/ ClaimRefused(r))
           \/ q = "heartbeat" /\ \E ok \in BOOLEAN : Heartbeat(r, ok)
           \/ q \in WorkerEvents /\ PostEvent(r, q)
           \/ /\ q = "completed"
              /\ \E ok \in BOOLEAN :
                   Finish(r, "completed", outcome[r].tests, outcome[r].review, ok)
           \/ /\ q \in {"failed", "blocked"}
              /\ \E ok \in BOOLEAN : Finish(r, q, "missing", "missing", ok)
  BY DEF Deliver
<1>2. late'[r] = late[r] \ {q}
  BY <1>0, <1>1
<1>3. CASE q = "claim"
  <2>1. ~Rejecting(r) /\ agent_runs[r].status = "absent" /\ pc[r] \notin {"idle", "refused"}
    BY <1>3 DEF CallOK, AnswerOK
  <2>2. CASE ClaimGranted(r)
    <3>1. agent_runs'[r].status = "running" /\ rejecting' = rejecting
      BY <1>0, <2>2, ClaimRow DEF ClaimGranted
    <3>2. QED
      BY <1>0, <1>2, <1>3, <2>1, <3>1 DEF Rejecting
  <2>3. CASE ClaimRefused(r)
    BY <1>0, <1>2, <1>3, <2>1, <2>3 DEF ClaimRefused
  <2>4. QED
    BY <1>1, <1>3, <2>2, <2>3 DEF WorkerEvents
<1>4. CASE q # "claim"
  <2>1. agent_runs[r].status # "absent" /\ ~Rejecting(r)
    BY <1>4
  <2>2. UNCHANGED rejecting
    BY <1>1, <1>4 DEF Heartbeat, PostEvent, Finish
  <2>3. \/ agent_runs' = agent_runs
        \/ /\ agent_runs'[r].status = q
           /\ q \in {"completed", "failed", "blocked"}
    <3>1. CASE q = "completed"
      BY <1>1, <3>1, LateFinish DEF WorkerEvents
    <3>2. CASE q \in {"failed", "blocked"}
      <4>1. \E ok \in BOOLEAN : Finish(r, q, "missing", "missing", ok)
        BY <1>1, <3>2 DEF WorkerEvents
      <4>2. QED
        BY <3>2, <4>1, LateFinish
    <3>3. QED
      BY <1>1, <1>4, <3>1, <3>2 DEF Heartbeat, PostEvent
  <2>4. ParkedOK(r)'
    BY <1>0, <1>2, <2>3
  <2>5. ClaimOK(r)'
    BY <1>0, <1>2, <2>1, <2>2, <2>3 DEF Rejecting
  <2>6. QED
    BY <2>4, <2>5
<1>5. QED
  BY <1>3, <1>4

(* So do the pulse, a crash and the transaction of a refused claim. *)
LEMMA OtherStepClose ==
  ASSUME StoreInv, TypeOK, NEW r \in Runs, CallOK(r), CloseOK(r),
         PulseStep(r) \/ Crash(r) \/ RefusalGoesOn(r)
  PROVE  CloseOK(r)'
<1> USE DEF CloseOK, ParkedOK, ClaimOK, Blocking, Blocked
<1>0. /\ pc \in [Runs -> PCs] /\ late \in [Runs -> SUBSET Requests]
      /\ pulse[r] = "beating" => pc[r] \in {"progress", "announce", "dispatch"}
      /\ verdict[r] \in {"failed", "blocked"}
  BY DEF TypeOK, CallOK, PulseOK
<1>1. CASE Beat(r)
  BY <1>0, <1>1 DEF Beat, Heartbeat, Rejecting
<1>2. CASE BeatFails(r)
  BY <1>0, <1>2 DEF BeatFails, BeatDue, MayBeLate, storeVars, Rejecting
<1>3. CASE Crash(r)
  BY <1>0, <1>3 DEF Crash, BeatDue, MayBeLate, Request, Asks, GoTo, Working, Over, storeVars, Rejecting
<1>4. CASE RefusalGoesOn(r)
  <2>1. UNCHANGED <<agent_runs, workerVars>>
    BY <1>4 DEF RefusalGoesOn, ClaimReadsHolder, ClaimAudits
  <2>2. Rejecting(r)' => Rejecting(r)
    BY <1>4 DEF RefusalGoesOn, ClaimReadsHolder, ClaimAudits, Rejecting
  <2>3. QED
    BY <2>1, <2>2 DEF workerVars
<1>5. QED
  BY <1>1, <1>2, <1>3, <1>4 DEF PulseStep


(* Every step keeps what is known of every parked run and every claim. *)
CloseInv == \A r \in Runs : CloseOK(r)

LEMMA CloseStep ==
  ASSUME RuntimeInv, CloseInv, [Next]_vars
  PROVE  CloseInv'
<1> USE DEF CloseInv
<1>0. StoreInv /\ TypeOK /\ \A r \in Runs : CallOK(r)
  BY DEF RuntimeInv, CallInv, CallOK
<1> SUFFICES ASSUME NEW q \in Runs
             PROVE  CloseOK(q)'
  OBVIOUS
<1>1. ASSUME NEW r \in Runs, RunStep(r)
      PROVE  CloseOK(q)'
  <2>1. CASE q = r
    BY <1>0, <1>1, <2>1, WorkerStepParked, WorkerStepClaim, DeliverClose, OtherStepClose
    DEF RunStep, CloseOK
  <2>2. CASE q # r
    <3>1. /\ agent_runs'[q] = agent_runs[q] /\ pc'[q] = pc[q] /\ verdict'[q] = verdict[q]
          /\ moved'[q] = moved[q] /\ late'[q] = late[q]
      BY <1>0, <1>1, <2>2, OtherRuns
    <3>2. Rejecting(q)' => Rejecting(q)
      BY <1>1, <2>2, RejectingOthers
    <3>3. QED
      BY <3>1, <3>2 DEF CloseOK, ParkedOK, ClaimOK, Blocking, Blocked
  <2>3. QED
    BY <2>1, <2>2
<1>2. ASSUME NEW i \in Issues, RecoverExpired(i) \/ OperatorGivesBack(i)
      PROVE  CloseOK(q)'
  <2>1. UNCHANGED <<workerVars, rejecting>>
    BY <1>2 DEF RecoverExpired, OperatorGivesBack, Recover, OperatorRelease
  <2>2. \/ agent_runs'[q] = agent_runs[q]
        \/ /\ agent_runs[q].status = "blocked"
           /\ agent_runs'[q].status = "canceled"
        \/ /\ agent_runs[q].status \in {"queued", "running", "reviewing"}
           /\ agent_runs'[q].status = "failed"
    BY <1>0, <1>2, RowsRecovered
  <2>3. QED
    BY <2>1, <2>2 DEF CloseOK, ParkedOK, ClaimOK, Blocking, Blocked, Rejecting, workerVars
<1>3. CASE TimePasses \/ AllOver \/ UNCHANGED vars
  <2>1. UNCHANGED <<agent_runs, rejecting, pc, verdict, moved, late>>
    BY <1>3 DEF TimePasses, Tick, AllOver, vars, storeVars, workerVars
  <2>2. QED
    BY <2>1 DEF CloseOK, ParkedOK, ClaimOK, Blocking, Blocked, Rejecting
<1>4. QED
  BY <1>1, <1>2, <1>3 DEF Next, Others, RunStep

LEMMA CloseInit ==
  ASSUME Init
  PROVE  CloseInv
BY DEF Init, StoreInit, NoRow, CloseInv, CloseOK, ParkedOK, ClaimOK, Blocking, Blocked, Rejecting

(* What is known of parked runs and claims holds in every behaviour. *)
THEOREM CloseInvariant == Spec => []CloseInv
<1>1. Init => CloseInv
  BY CloseInit
<1>2. RuntimeInv /\ CloseInv /\ [Next]_vars => CloseInv'
  BY CloseStep
<1>3. QED
  BY RuntimeInvariant, <1>1, <1>2, PTL DEF Spec

(* An issue is blocked in the store only when it shows as Blocked in       *)
(* Linear, however the finish arrives.                                     *)
THEOREM ParkedShows == Spec => []ParkedIsShown
<1>1. CloseInv => ParkedIsShown
  BY DEF CloseInv, CloseOK, ParkedOK, Blocking, ParkedIsShown
<1>2. QED
  BY CloseInvariant, <1>1, PTL

-------------------------------------------------------------------------------
(* The trail of a run *)

(* A run without a row has no trail, and the trail of a run with a row     *)
(* begins with the events of its one claim, which never occur again.       *)
TrailOpens(r) ==
  IF agent_runs[r].status = "absent" THEN agent_events[r] = <<>> ELSE Opened(agent_events[r])

TrailInv == HoldersOK /\ \A r \in Runs : TrailOpens(r)

(* Nothing but its claim writes to the tables for a run without a row. *)
LEMMA AbsentKept ==
  ASSUME RuntimeInv, CloseInv, HoldersOK, [Next]_vars,
         NEW q \in Runs, agent_runs[q].status = "absent"
  PROVE  \/ ClaimGranted(q)
         \/ agent_events'[q] = agent_events[q] /\ agent_runs'[q] = agent_runs[q]
<1> DEFINE Kept == agent_events'[q] = agent_events[q] /\ agent_runs'[q] = agent_runs[q]
<1>0. /\ agent_events \in [Runs -> Seq(EventKinds)] /\ agent_runs \in [Runs -> Row]
      /\ TypeOK /\ StoreInv
      /\ late[q] \subseteq {"claim"}
      /\ pc[q] \in {"idle", "refused", "conflict", "escaped", "crashed"}
  BY DEF RuntimeInv, StoreInv, StoreTypeOK, CloseInv, CloseOK, ClaimOK
<1>1. ASSUME NEW r \in Runs, ClaimGranted(r)
      PROVE  r = q \/ Kept
  BY <1>0, <1>1 DEF ClaimGranted
<1>2. ASSUME NEW r \in Runs, NEW final, NEW tests, NEW review, NEW ok \in BOOLEAN,
             Finish(r, final, tests, review, ok)
      PROVE  Kept
  <2>1. \/ agent_runs' = agent_runs /\ agent_events' = agent_events
        \/ /\ agent_runs[r].status \in OpenStatuses
           /\ agent_runs' = [agent_runs EXCEPT ![r] =
                [status |-> final, tests |-> tests, review |-> review]]
           /\ agent_events' = [agent_events EXCEPT ![r] =
                Append(Append(@, FinalEvent(final)), "lock.released")]
    BY <1>2, Zenon DEF Finish
  <2>2. "absent" \notin OpenStatuses
    BY DEF OpenStatuses
  <2>3. QED
    BY <1>0, <2>1, <2>2
<1>3. ASSUME NEW r \in Runs, NEW kind, PostEvent(r, kind), r # q
      PROVE  Kept
  BY <1>0, <1>3 DEF PostEvent
<1>4. ASSUME NEW r \in Runs, RefusalGoesOn(r)
      PROVE  Kept
  BY <1>0, <1>4 DEF RefusalGoesOn, ClaimReadsHolder, ClaimAudits, HoldersOK, HolderOK
<1>5. CASE UNCHANGED <<agent_runs, agent_events>>
  BY <1>5
<1>6. ASSUME NEW r \in Runs, WorkerStep(r)
      PROVE  ClaimGranted(q) \/ Kept
  <2>1. CASE Claim(r)
    BY <1>1, <2>1 DEF Claim
  <2>2. CASE Announce(r) \/ PersistEvent(r)
    BY <1>0, <1>3, <2>2 DEF Announce, PersistEvent
  <2>3. CASE Complete(r)
    <3>1. \E ok \in BOOLEAN : Finish(r, "completed", outcome[r].tests, outcome[r].review, ok)
      BY <2>3 DEF Complete
    <3>2. QED
      BY <1>2, <3>1
  <2>4. CASE Close(r)
    <3>1. \E ok \in BOOLEAN : Finish(r, verdict[r], "missing", "missing", ok)
      BY <2>4 DEF Close
    <3>2. QED
      BY <1>2, <3>1
  <2>5. QED
    BY <1>5, <1>6, <2>1, <2>2, <2>3, <2>4
    DEF WorkerStep, OwnStep, storeVars, ClaimMeetsConflict, ClaimRefused, RaiseConflict,
        MoveInProgress, DispatchAnswers, DispatchReturns, DispatchRaises, DispatchRaisesEvents,
        BatchRefused, FlushDone, OutcomeInDoubt, GatesIncomplete, MoveInReview, MoveBlocked,
        CallFails, CallEscapes
<1>7. ASSUME NEW r \in Runs, Deliver(r)
      PROVE  ClaimGranted(q) \/ Kept
  <2>1. \/ UNCHANGED <<agent_runs, agent_events>>
        \/ ClaimGranted(r)
        \/ \E kind \in WorkerEvents : kind \in late[r] /\ PostEvent(r, kind)
        \/ \E ok \in BOOLEAN, final \in Requests : \E tests, review \in Gates :
             Finish(r, final, tests, review, ok)
    BY <1>0, <1>7, OutcomeTypes DEF Deliver, ClaimRefused, Heartbeat, Requests, Verdicts, Gates
  <2>2. "claim" \notin WorkerEvents
    BY DEF WorkerEvents
  <2>3. QED
    BY <1>0, <1>1, <1>2, <1>3, <1>5, <2>1, <2>2
<1>8. ASSUME NEW i \in Issues, RecoverExpired(i) \/ OperatorGivesBack(i)
      PROVE  Kept
  <2>1. CASE RecoverExpired(i)
    BY <1>0, <2>1, LockedRun DEF RecoverExpired, Recover
  <2>2. CASE OperatorGivesBack(i)
    BY <1>0, <2>2 DEF OperatorGivesBack, OperatorRelease, Blocked
  <2>3. QED
    BY <1>8, <2>1, <2>2
<1>9. QED
  BY <1>4, <1>5, <1>6, <1>7, <1>8
  DEF Next, Others, PulseStep, Beat, BeatFails, Heartbeat, Crash, TimePasses, Tick, AllOver,
      vars, storeVars

LEMMA TrailStep ==
  ASSUME RuntimeInv, CloseInv, TrailInv, [Next]_vars
  PROVE  TrailInv'
<1>0. StoreInv /\ HoldersOK /\ [StoreNext]_storeVars
  BY StepUsesStore DEF RuntimeInv, TrailInv
<1>1. HoldersOK'
  BY <1>0, HoldersStep DEF HoldersOK
<1>2. ASSUME NEW q \in Runs
      PROVE  TrailOpens(q)'
  <2>1. CASE agent_runs[q].status # "absent"
    <3>1. agent_runs'[q].status # "absent"
      BY <1>0, <2>1, RowsStay
    <3>2. Opened(agent_events'[q])
      BY <1>0, <2>1, TrailGrows DEF TrailInv, TrailOpens
    <3>3. QED
      BY <3>1, <3>2 DEF TrailOpens
  <2>2. CASE agent_runs[q].status = "absent" /\ ClaimGranted(q)
    <3>1. agent_runs'[q].status = "running"
      BY <1>0, <2>2, ClaimRow DEF StoreInv, StoreTypeOK
    <3>2. agent_events'[q] =
            Append(Append(Append(<<>>, "run.created"), "lock.acquired"), "run.started")
      BY <1>0, <2>2 DEF ClaimGranted, TrailInv, TrailOpens, StoreInv, StoreTypeOK
    <3>3. QED
      BY <3>1, <3>2, OpeningIsOpened DEF TrailOpens
  <2>3. CASE agent_runs[q].status = "absent" /\ ~ClaimGranted(q)
    BY <1>0, <2>3, AbsentKept DEF TrailInv, TrailOpens
  <2>4. QED
    BY <2>1, <2>2, <2>3
<1>3. QED
  BY <1>1, <1>2 DEF TrailInv

(* Whatever requests are late, lost or repeated, no trail has an event     *)
(* before its claim or the events of two claims, and a run that was never  *)
(* claimed leaves nothing in the tables (runtime.py 142-148, 167; sql      *)
(* 57-64).                                                                 *)
THEOREM TrailsOpenWithTheirClaim == Spec => [](\A r \in Runs : TrailOpens(r))
<1>1. Init => TrailInv
  BY DEF Init, StoreInit, NoRow, TrailInv, HoldersOK, TrailOpens
<1>2. RuntimeInv /\ CloseInv /\ TrailInv /\ [Next]_vars => TrailInv'
  BY TrailStep
<1>3. TrailInv => \A r \in Runs : TrailOpens(r)
  BY DEF TrailInv
<1>4. QED
  BY RuntimeInvariant, CloseInvariant, <1>1, <1>2, <1>3, PTL DEF Spec


-------------------------------------------------------------------------------
(* Every step of a call brings it nearer to its end *)

(* How far the call still has to go; persisting a batch stays in one stage. *)
Stage(place) ==
  CASE place = "idle" -> 9
    [] place \in {"refused", "progress"} -> 8
    [] place = "announce" -> 7
    [] place = "dispatch" -> 6
    [] place \in {"persist", "flush"} -> 5
    [] place = "complete" -> 4
    [] place = "park" -> 3
    [] place = "close" -> 2
    [] OTHER -> 1

Advances(r) ==
  \/ Stage(pc'[r]) < Stage(pc[r])
  \/ /\ pc'[r] = pc[r] /\ outcome'[r] = outcome[r]
     /\ posted[r] < posted'[r] /\ posted'[r] =< outcome[r].events
Stays(r) == pc'[r] = pc[r] /\ outcome'[r] = outcome[r] /\ posted'[r] = posted[r]

(* No path through execute() goes back: each step of the worker, the error *)
(* paths included, leads to a later stage or persists one more event of a  *)
(* batch that no longer changes, and nothing that happens around the call  *)
(* puts it back.  With the fairness of its calls this is why a call ends   *)
(* (runtime.py 138-208).                                                   *)
CallAdvances(r) == Advances(r) \/ (Stays(r) /\ ~WorkerStep(r))
CallsOnlyAdvance == [][\A r \in Runs : CallAdvances(r)]_vars

LEMMA WorkerAdvances ==
  ASSUME TypeOK, NEW r \in Runs, WorkerStep(r)
  PROVE  Advances(r)
<1> USE DEF Advances, Stage
<1>0. /\ pc \in [Runs -> PCs] /\ posted \in [Runs -> Nat]
      /\ outcome[r].events \in Nat
  BY OutcomeTypes DEF TypeOK
<1>1. CASE \/ Claim(r) \/ ClaimMeetsConflict(r) \/ RaiseConflict(r) \/ MoveInProgress(r)
           \/ Announce(r) \/ MoveInReview(r) \/ MoveBlocked(r)
  <2>1. \/ pc[r] = "idle" /\ pc'[r] \in {"progress", "refused"}
        \/ pc[r] = "refused" /\ pc'[r] = "conflict"
        \/ pc[r] = "progress" /\ pc'[r] = "announce"
        \/ pc[r] = "announce" /\ pc'[r] = "dispatch"
        \/ pc[r] = "persist" /\ pc'[r] = "complete"
        \/ pc[r] = "park" /\ pc'[r] = "close"
    BY <1>0, <1>1 DEF Claim, ClaimMeetsConflict, RaiseConflict, MoveInProgress, Announce,
                      MoveInReview, MoveBlocked, GoTo
  <2>2. QED
    BY <2>1
<1>2. CASE DispatchAnswers(r)
  BY <1>0, <1>2 DEF DispatchAnswers, DispatchReturns, DispatchRaises, DispatchRaisesEvents,
                    Except, GoTo
<1>3. CASE \/ BatchRefused(r) \/ FlushDone(r) \/ OutcomeInDoubt(r) \/ GatesIncomplete(r)
  BY <1>0, <1>3 DEF BatchRefused, FlushDone, OutcomeInDoubt, GatesIncomplete, Except, GoTo
<1>4. CASE PersistEvent(r)
  BY <1>0, <1>4 DEF PersistEvent
<1>5. CASE Complete(r)
  BY <1>5, CompleteCases
<1>6. CASE Close(r)
  BY <1>6, CloseCases
<1>7. CASE CallFails(r)
  BY <1>0, <1>7 DEF CallFails, Except, GoTo
<1>8. CASE CallEscapes(r)
  BY <1>0, <1>8 DEF CallEscapes, GoTo
<1>9. QED
  BY <1>1, <1>2, <1>3, <1>4, <1>5, <1>6, <1>7, <1>8 DEF WorkerStep, OwnStep

LEMMA StepAdvances ==
  ASSUME TypeOK, [Next]_vars, NEW r \in Runs
  PROVE  CallAdvances(r)
<1> USE DEF CallAdvances
<1>0. pc \in [Runs -> PCs]
  BY DEF TypeOK
<1>1. CASE WorkerStep(r)
  BY <1>1, WorkerAdvances
<1> SUFFICES ASSUME ~WorkerStep(r)
             PROVE  Advances(r) \/ Stays(r)
  BY <1>1
<1>2. ASSUME NEW q \in Runs, RunStep(q), q # r
      PROVE  Stays(r)
  BY <1>2, OtherRuns DEF Stays
<1>3. CASE Crash(r)
  BY <1>0, <1>3 DEF Crash, Working, GoTo, Advances, Stage
<1>4. CASE PulseStep(r) \/ Deliver(r) \/ RefusalGoesOn(r)
  BY <1>4 DEF PulseStep, Beat, BeatFails, Deliver, RefusalGoesOn, workerVars, Stays
<1>5. CASE \/ \E i \in Issues : RecoverExpired(i) \/ OperatorGivesBack(i)
           \/ TimePasses \/ AllOver \/ UNCHANGED vars
  BY <1>5 DEF RecoverExpired, OperatorGivesBack, TimePasses, AllOver, vars, workerVars, Stays
<1>6. QED
  BY <1>2, <1>3, <1>4, <1>5 DEF Next, Others, RunStep

(* The safety half of CallsEnd, for any number of runs and batches of any  *)
(* length.                                                                 *)
THEOREM CallsAdvance == Spec => CallsOnlyAdvance
<1>1. RuntimeInv /\ [Next]_vars => [\A r \in Runs : CallAdvances(r)]_vars
  BY StepAdvances DEF RuntimeInv
<1>2. QED
  BY RuntimeInvariant, <1>1, PTL DEF Spec, CallsOnlyAdvance

-------------------------------------------------------------------------------
(* Nothing renews the lock of a call that is over *)

(* The lock of a call that is over only runs out: its pulse has stopped,   *)
(* it sends no new request, and the one thing that can still extend the    *)
(* lock is the heartbeat that was in flight, once.  With the clock this is *)
(* why a lock that outlives its call expires (runtime.py 153-161,          *)
(* 202-204; sql 77-83).                                                    *)
OrphanRunsOut(r) ==
  pc[r] \in Over =>
    /\ pc'[r] = pc[r]
    /\ late'[r] \subseteq late[r]
    /\ Owns(r) /\ locks'[IssueOf[r]].run = r =>
         \/ locks'[IssueOf[r]].left =< locks[IssueOf[r]].left
         \/ "heartbeat" \in late[r] /\ "heartbeat" \notin late'[r]
OrphansRunOut == [][\A r \in Runs : OrphanRunsOut(r)]_vars

LEMMA OrphanStep ==
  ASSUME RuntimeInv, [Next]_vars, NEW r \in Runs
  PROVE  OrphanRunsOut(r)
<1> USE RunsAssumption
<1>0. /\ TypeOK /\ StoreInv /\ PulseOK(r)
      /\ locks \in [Issues -> Lock] /\ late \in [Runs -> SUBSET Requests]
      /\ locks[IssueOf[r]].left \in 0 .. TTL
  BY DEF RuntimeInv, CallInv, StoreInv, StoreTypeOK, TypeOK, Lock
<1> SUFFICES ASSUME pc[r] \in Over
             PROVE  /\ pc'[r] = pc[r] /\ late'[r] \subseteq late[r]
                    /\ Owns(r) /\ locks'[IssueOf[r]].run = r =>
                         \/ locks'[IssueOf[r]].left =< locks[IssueOf[r]].left
                         \/ "heartbeat" \in late[r] /\ "heartbeat" \notin late'[r]
  BY DEF OrphanRunsOut
<1> USE DEF Over
<1>1. ~WorkerStep(r) /\ ~PulseStep(r) /\ ~Crash(r)
  BY <1>0 DEF WorkerStep, OwnStep, Claim, ClaimMeetsConflict, RaiseConflict, MoveInProgress,
      Announce, DispatchAnswers, DispatchReturns, DispatchRaises, DispatchRaisesEvents,
      PersistEvent, BatchRefused, FlushDone, OutcomeInDoubt, GatesIncomplete, MoveInReview,
      Complete, MoveBlocked, Close, CallFails, CallEscapes, PulseStep, Beat, BeatFails,
      BeatDue, Crash, Working, PulseOK
<1>2. ASSUME NEW q \in Runs, RunStep(q), q # r
      PROVE  OrphanRunsOut(r)
  <2>1. /\ pc'[r] = pc[r] /\ late'[r] = late[r]
        /\ Owns(r) => locks'[IssueOf[r]] = locks[IssueOf[r]]
    BY <1>0, <1>2, OtherRuns, LockOfOthers
  <2>2. QED
    BY <1>0, <2>1 DEF OrphanRunsOut
<1>3. CASE Deliver(r)
  <2>1. PICK q \in late[r] :
          /\ late' = [late EXCEPT ![r] = @ \ {q}]
          /\ \/ ClaimGranted(r) \/ ClaimRefused(r)
             \/ q = "heartbeat"
             \/ PostEvent(r, q)
             \/ \E ok \in BOOLEAN :
                  Finish(r, "completed", outcome[r].tests, outcome[r].review, ok)
             \/ \E ok \in BOOLEAN : Finish(r, q, "missing", "missing", ok)
    BY <1>3 DEF Deliver
  <2>2. late'[r] = late[r] \ {q} /\ pc'[r] = pc[r]
    BY <1>0, <1>3, <2>1 DEF Deliver
  <2>3. CASE ClaimGranted(r)
    BY <1>0, <2>2, <2>3 DEF ClaimGranted, UniqueViolation, Locked, Owns
  <2>4. ASSUME NEW final, NEW tests, NEW review, NEW ok \in BOOLEAN,
               Finish(r, final, tests, review, ok)
        PROVE  locks' = locks \/ locks'[IssueOf[r]].run # r
    <3>1. locks' = locks \/ locks' = [locks EXCEPT ![IssueOf[r]] = NoLock]
      BY <2>4, Zenon DEF Finish
    <3>2. QED
      BY <1>0, <3>1 DEF NoLock
  <2>5. QED
    BY <1>0, <2>1, <2>2, <2>3, <2>4 DEF ClaimRefused, PostEvent
<1>4. CASE RefusalGoesOn(r)
  BY <1>0, <1>4 DEF RefusalGoesOn, ClaimReadsHolder, ClaimAudits, workerVars
<1>5. ASSUME NEW i \in Issues, RecoverExpired(i) \/ OperatorGivesBack(i)
      PROVE  OrphanRunsOut(r)
  <2>1. UNCHANGED workerVars /\ (locks' = locks \/ locks' = [locks EXCEPT ![i] = NoLock])
    BY <1>5 DEF RecoverExpired, OperatorGivesBack, Recover, OperatorRelease
  <2>2. QED
    BY <1>0, <2>1 DEF OrphanRunsOut, NoLock, workerVars
<1>6. CASE TimePasses
  BY <1>0, <1>6 DEF TimePasses, Tick
<1>7. CASE AllOver \/ UNCHANGED vars
  BY <1>0, <1>7 DEF AllOver, vars, storeVars, workerVars
<1>8. QED
  BY <1>1, <1>2, <1>3, <1>4, <1>5, <1>6, <1>7 DEF Next, Others, RunStep, OrphanRunsOut

(* The safety half of OrphanLockExpires, for any TTL and any number of     *)
(* runs.                                                                   *)
THEOREM OrphanLocksRunOut == Spec => OrphansRunOut
<1>1. RuntimeInv /\ [Next]_vars => [\A r \in Runs : OrphanRunsOut(r)]_vars
  BY OrphanStep
<1>2. QED
  BY RuntimeInvariant, <1>1, PTL DEF Spec, OrphansRunOut

-------------------------------------------------------------------------------
(* What the runtime inherits from the store *)

(* Under the runtime the tables are still the abstract lease: whatever is  *)
(* late or lost, an issue has one holder or is parked, and a run that has  *)
(* lost the issue never holds it again.                                    *)
THEOREM RuntimeImplementsLease == Spec => ImplementsLease /\ LostLocksStayLost
BY RuntimeUsesStore, StoreImplementsLease, LostLocks, PTL DEF UsesStore

===============================================================================
