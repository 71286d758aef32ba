---------------------------- MODULE ExecutionProofs ----------------------------
(***************************************************************************)
(* Proofs about Execution, for any runs, any deadline, any metadata a card *)
(* may have: the runtime with the adapter is the runtime of AgentRuntime,  *)
(* and what the table has of a dispatch is the beginning of its batch, all *)
(* of it once the run is completed.                                        *)
(***************************************************************************)
EXTENDS Execution, AgentRuntimeProofs, KanbanAdapterProofs

-------------------------------------------------------------------------------
(* The parts *)

LEMMA ExecStepAdapter ==
  ASSUME [ExecNext]_execVars
  PROVE  [AdapterNext]_adapterVars
BY DEF ExecNext, CallerDispatches, Apart, AdapterNext, AdapterStep, execVars

(* The adapter in the runtime is the adapter. *)
THEOREM ExecutionUsesAdapter == ExecSpec => AdapterSpec
<1>1. ExecInit => AdapterInit
  BY DEF ExecInit
<1>2. QED
  BY ExecStepAdapter, <1>1, PTL DEF ExecSpec, AdapterSpec

(* A batch without its duplicates is not longer. *)
LEMMA DeduplicatedLength ==
  ASSUME NEW S, NEW batch \in Seq(S)
  PROVE  /\ Len(Deduplicated(batch)) \in 0 .. Len(batch)
         /\ DOMAIN Deduplicated(batch) = 1 .. Len(Deduplicated(batch))
         /\ Deduplicated(batch) =
              [k \in 1 .. Len(Deduplicated(batch)) |-> Deduplicated(batch)[k]]
<1>1. Firsts(batch) \subseteq 1 .. Len(batch) /\ Len(batch) \in Nat
  BY DEF Firsts
<1>2. /\ IsFiniteSet(1 .. Len(batch)) /\ Cardinality(1 .. Len(batch)) = Len(batch)
      /\ IsFiniteSet(Firsts(batch)) /\ Cardinality(Firsts(batch)) =< Cardinality(1 .. Len(batch))
  <2>1. IsFiniteSet(1 .. Len(batch)) /\ Cardinality(1 .. Len(batch)) = Len(batch)
    <3>1. \A a, b \in Int : /\ IsFiniteSet(a .. b)
                            /\ Cardinality(a .. b) = IF a > b THEN 0 ELSE b - a + 1
      BY FS_Interval
    <3>2. 1 \in Int /\ Len(batch) \in Int
      BY <1>1
    <3>3. /\ IsFiniteSet(1 .. Len(batch))
          /\ Cardinality(1 .. Len(batch)) = IF 1 > Len(batch) THEN 0 ELSE Len(batch) - 1 + 1
      BY <3>1, <3>2
    <3>4. QED
      BY <1>1, <3>3
  <2>2. QED
    BY <1>1, <2>1, FS_Subset
<1>3. Cardinality(Firsts(batch)) \in Nat
  BY <1>2, FS_CardinalityType
<1> DEFINE n == Cardinality(Firsts(batch))
           Nth(k) == batch[CHOOSE j \in Firsts(batch) :
                             Cardinality({i \in Firsts(batch) : i =< j}) = k]
<1>4. Deduplicated(batch) = [k \in 1 .. n |-> Nth(k)]
  BY DEF Deduplicated
<1> HIDE DEF n, Nth
<1>5. n \in Nat
  BY <1>3 DEF n
<1>6. Len(Deduplicated(batch)) = n /\ DOMAIN Deduplicated(batch) = 1 .. n
  BY <1>4, <1>5
<1>7. Deduplicated(batch) = [k \in 1 .. n |-> Deduplicated(batch)[k]]
  BY <1>4
<1>8. QED
  BY <1>1, <1>2, <1>5, <1>6, <1>7 DEF n

LEMMA OutcomeKnown ==
  ASSUME NEW S, NEW batch \in Seq(S), Len(batch) =< Timeout + 2, NEW fields
  PROVE  OutcomeOf(batch, fields) \in Outcomes
<1>1. Len(Deduplicated(batch)) \in 0 .. Timeout + 2
  BY DeduplicatedLength, TimeoutAssumption
<1>2. Accepted(batch) \in BOOLEAN
  BY DEF Accepted
<1>3. OutcomeOf(batch, fields) \in AdapterOutcomes
  BY <1>1, <1>2 DEF OutcomeOf, AdapterOutcomes, Gates
<1>4. QED
  BY <1>3, AdapterOutcomesAssumption

LEMMA ExecStepRuntime ==
  ASSUME ProofInv', [ExecNext]_execVars
  PROVE  [Next]_vars
<1>1. OutcomeOf(events', result') \in Outcomes
  BY OutcomeKnown DEF ProofInv, BatchBounded
<1>2. CASE CallerDispatches
  <2>1. UNCHANGED vars \/ DispatchAnswers(Caller)
    BY <1>1, <1>2 DEF CallerDispatches, DispatchAnswers
  <2>2. QED
    BY <2>1, CallerAssumption DEF Next, WorkerStep
<1>3. CASE Apart(Next)
  BY <1>3 DEF Apart
<1>4. QED
  BY <1>2, <1>3 DEF ExecNext, execVars

LEMMA ExecutionBatches == ExecSpec => []ProofInv
BY AdapterInvariant, ExecutionUsesAdapter, PTL

(* The runtime with the adapter for the dispatch of one of its runs is the *)
(* runtime, so whatever holds of AgentRuntime holds here.                  *)
THEOREM ExecutionImplementsRuntime == ExecSpec => ImplementsRuntime
<1>1. ExecInit => Init
  BY DEF ExecInit
<1>2. QED
  BY ExecStepRuntime, ExecutionBatches, <1>1, PTL DEF ExecSpec, Spec, ImplementsRuntime

-------------------------------------------------------------------------------
(* What the store is asked to insert *)

Inserted == agent_events'[Caller] = Append(agent_events[Caller], "kanban")

(* A longer trail, or one that ends otherwise, is no insert of an event of *)
(* the adapter.                                                            *)
LEMMA OtherTrails ==
  ASSUME NEW s \in Seq(EventKinds)
  PROVE  /\ s # Append(s, "kanban")
         /\ \A a \in EventKinds \ {"kanban"} : Append(s, a) # Append(s, "kanban")
         /\ \A a, b \in EventKinds : Append(Append(s, a), b) # Append(s, "kanban")
         /\ \A a, b, c \in EventKinds : Append(Append(Append(s, a), b), c) # Append(s, "kanban")
<1>0. "kanban" \in EventKinds
  BY DEF EventKinds, WorkerEvents
<1>1. Len(s) \in Nat /\ Len(Append(s, "kanban")) = Len(s) + 1
  BY <1>0
<1>2. s # Append(s, "kanban")
  BY <1>1
<1>3. ASSUME NEW a \in EventKinds, a # "kanban"
      PROVE  Append(s, a) # Append(s, "kanban")
  BY <1>0, <1>1, <1>3
<1>4. ASSUME NEW a \in EventKinds, NEW b \in EventKinds
      PROVE  Append(Append(s, a), b) # Append(s, "kanban")
  BY <1>1
<1>5. ASSUME NEW a \in EventKinds, NEW b \in EventKinds, NEW c \in EventKinds
      PROVE  Append(Append(Append(s, a), b), c) # Append(s, "kanban")
  <2>1. Append(s, a) \in Seq(EventKinds)
    OBVIOUS
  <2>2. Append(Append(s, a), b) \in Seq(EventKinds)
    BY <2>1
  <2>3. QED
    BY <1>1, <2>1, <2>2
<1>6. QED
  BY <1>2, <1>3, <1>4, <1>5

(* No function of sql/ inserts one. *)
LEMMA FunctionsInsertNone ==
  ASSUME StoreTypeOK, NEW r \in Runs,
         \/ ClaimGranted(r) \/ ClaimRefused(r) \/ ClaimReadsHolder(r) \/ ClaimAudits(r)
         \/ \E ok \in BOOLEAN : Heartbeat(r, ok)
         \/ \E final \in FinalStatuses, tests, review \in Gates, ok \in BOOLEAN :
              Finish(r, final, tests, review, ok)
         \/ \E i \in Issues : OperatorRelease(i) \/ \E ok \in BOOLEAN : Recover(i, ok)
         \/ PostEvent(r, "agent.dispatched")
         \/ PostEvent(r, "kanban") /\ r # Caller
         \/ UNCHANGED agent_events
  PROVE  ~Inserted
<1> DEFINE s == agent_events[Caller]
<1>0. s \in Seq(EventKinds) /\ agent_events \in [Runs -> Seq(EventKinds)]
  BY CallerAssumption DEF StoreTypeOK
<1>1. {"run.created", "lock.acquired", "run.started", "agent.dispatched", "lock.rejected",
       "lock.released", "lock.expired", "lock.recovered"} \subseteq EventKinds \ {"kanban"}
  BY DEF EventKinds, EndingEvents, WorkerEvents
<1>2. \A final \in FinalStatuses : FinalEvent(final) \in EventKinds
  BY DEF FinalStatuses, FinalEvent, EventKinds, EndingEvents
<1>3. CASE agent_events'[Caller] = s
  BY <1>0, <1>3, OtherTrails DEF Inserted
<1>4. CASE \E a \in EventKinds \ {"kanban"} : agent_events'[Caller] = Append(s, a)
  BY <1>0, <1>4, OtherTrails DEF Inserted
<1>5. CASE \E a, b \in EventKinds : agent_events'[Caller] = Append(Append(s, a), b)
  BY <1>0, <1>5, OtherTrails DEF Inserted
<1>6. CASE \E a, b, c \in EventKinds :
             agent_events'[Caller] = Append(Append(Append(s, a), b), c)
  BY <1>0, <1>6, OtherTrails DEF Inserted
<1>7. CASE ClaimGranted(r)
  BY <1>0, <1>1, <1>3, <1>6, <1>7, CallerAssumption DEF ClaimGranted
<1>8. CASE ClaimAudits(r)
  BY <1>0, <1>1, <1>3, <1>4, <1>8, CallerAssumption DEF ClaimAudits
<1>9. CASE \E final \in FinalStatuses, tests, review \in Gates, ok \in BOOLEAN :
             Finish(r, final, tests, review, ok)
  <2>1. PICK final \in FinalStatuses :
          \/ UNCHANGED agent_events
          \/ agent_events' = [agent_events EXCEPT ![r] =
               Append(Append(@, FinalEvent(final)), "lock.released")]
    BY <1>9 DEF Finish
  <2>2. FinalEvent(final) \in EventKinds /\ "lock.released" \in EventKinds
    BY <1>1, <1>2
  <2>3. \/ agent_events'[Caller] = s
        \/ agent_events'[Caller] = Append(Append(s, FinalEvent(final)), "lock.released")
    BY <1>0, <2>1, CallerAssumption
  <2>4. QED
    BY <1>3, <1>5, <2>2, <2>3
<1>10. CASE \E i \in Issues, ok \in BOOLEAN : Recover(i, ok)
  <2>1. PICK i \in Issues :
          \/ UNCHANGED agent_events
          \/ agent_events' = [agent_events EXCEPT ![locks[i].run] =
               Append(Append(@, "lock.expired"), "lock.recovered")]
    BY <1>10 DEF Recover
  <2>2. "lock.expired" \in EventKinds /\ "lock.recovered" \in EventKinds
    BY <1>1
  <2>3. \/ agent_events'[Caller] = s
        \/ agent_events'[Caller] = Append(Append(s, "lock.expired"), "lock.recovered")
    BY <1>0, <2>1, CallerAssumption
  <2>4. QED
    BY <1>3, <1>5, <2>2, <2>3
<1>11. CASE PostEvent(r, "agent.dispatched") \/ (PostEvent(r, "kanban") /\ r # Caller)
  BY <1>0, <1>1, <1>3, <1>4, <1>11, CallerAssumption DEF PostEvent
<1>12. CASE UNCHANGED agent_events
  BY <1>3, <1>12
<1>13. QED
  BY <1>7, <1>8, <1>9, <1>10, <1>11, <1>12
  DEF ClaimRefused, ClaimReadsHolder, Heartbeat, OperatorRelease

-------------------------------------------------------------------------------
(* The steps *)

(* A step that leaves the call of Caller where it is. *)
LEMMA CallStays ==
  ASSUME ExecInv, UNCHANGED <<adapterVars, stored>>,
         pc'[Caller] = pc[Caller], outcome'[Caller] = outcome[Caller],
         posted'[Caller] = posted[Caller], moved'[Caller] = moved[Caller],
         Lost' <=> Lost
  PROVE  ExecInv'
BY DEF ExecInv, Handed, NothingStored, NoInsertLost, Lost, Entries, adapterVars

(* A step that ends or goes on with the call, and inserts nothing: while   *)
(* the batch is being persisted it is over only if everything has been     *)
(* inserted, if the contract refuses the batch, or if an insert got lost.  *)
LEMMA CallMoves ==
  ASSUME ExecInv, ProofInv, UNCHANGED <<adapterVars, stored>>,
         Lost => Lost',
         Lost' => Lost \/ (/\ pc[Caller] \in {"persist", "flush"} /\ outcome[Caller].valid
                           /\ posted[Caller] < outcome[Caller].events),
         outcome'[Caller] = outcome[Caller], posted'[Caller] = posted[Caller],
         moved'[Caller] = "In Review" => pc[Caller] = "persist" \/ moved[Caller] = "In Review",
         pc[Caller] \in {"persist", "flush"} =>
           Lost' \/ ~outcome[Caller].valid \/ posted[Caller] = outcome[Caller].events,
         pc[Caller] \notin Over,
         pc'[Caller] \in {"complete", "park", "close"} \cup (Over \ {"conflict"}),
         pc[Caller] = "dispatch" => pc'[Caller] = "crashed",
         pc'[Caller] = "complete" => pc[Caller] = "persist" /\ outcome[Caller].valid /\ ~Lost'
  PROVE  ExecInv'
<1>1. /\ at' = at /\ events' = events /\ result' = result /\ stored' = stored
      /\ at \in {"start", "poll", "blocked", "raised", "returned", "failed", "timeout"}
  BY DEF adapterVars, ProofInv, DispatchEnded
<1>2. CASE at \in {"start", "poll", "blocked", "raised"}
  BY <1>1, <1>2 DEF ExecInv, NothingStored, Lost, Over
<1>3. CASE at \in {"returned", "failed", "timeout"}
  <2>1. Handed
    BY <1>3 DEF ExecInv
  <2>2. /\ pc'[Caller] \notin {"idle", "refused", "conflict", "progress", "announce", "dispatch"}
        /\ pc'[Caller] \notin {"persist", "flush"}
    BY DEF Over
  <2>3. /\ (outcome[Caller] = OutcomeOf(events, result))'
        /\ (stored \in Seq(Entries))'
        /\ (Len(stored) \in {posted[Caller], posted[Caller] + 1})'
        /\ (\A k \in DOMAIN stored : stored[k] = Deduplicated(events)[k])'
    BY <1>1, <2>1 DEF Handed, Entries
  <2>4. /\ Lost' => (Len(stored) = posted[Caller])'
        /\ ~NoInsertLost' => (outcome[Caller].valid /\ posted[Caller] < outcome[Caller].events)'
    BY <1>1, <2>1 DEF Handed, NoInsertLost, Lost
  <2>5. pc'[Caller] = "complete" => NoInsertLost' /\ outcome'[Caller].valid
    BY <1>1, <2>1 DEF Handed, NoInsertLost, Lost
  <2>6. /\ (outcome[Caller].valid => posted[Caller] =< outcome[Caller].events)'
        /\ (~outcome[Caller].valid => posted[Caller] = 0)'
    BY <1>1, <2>1 DEF Handed
  <2>7. NoInsertLost' => (~outcome[Caller].valid \/ posted[Caller] = outcome[Caller].events)'
    <3>1. ASSUME NoInsertLost', pc[Caller] \notin {"persist", "flush"}
          PROVE  ~outcome[Caller].valid \/ posted[Caller] = outcome[Caller].events
      <4>1. NoInsertLost
        BY <1>1, <3>1 DEF NoInsertLost, Lost
      <4>2. QED
        BY <2>1, <3>1, <4>1 DEF Handed
    <3>2. ASSUME NoInsertLost', pc[Caller] \in {"persist", "flush"}
          PROVE  ~outcome[Caller].valid \/ posted[Caller] = outcome[Caller].events
      BY <3>2 DEF NoInsertLost, Lost
    <3>3. QED
      BY <3>1, <3>2
  <2>8. Handed'
    BY <2>2, <2>3, <2>4, <2>5, <2>6, <2>7 DEF Handed
  <2>9. QED
    BY <1>1, <1>3, <2>1, <2>8 DEF ExecInv, Handed, Over
<1>4. QED
  BY <1>1, <1>2, <1>3

(* A request for an event of the adapter is the next one of its batch. *)
LEMMA RequestsNext ==
  ASSUME TypeOK
  PROVE  "kanban" \in Request(Caller) <=>
           /\ pc[Caller] \in {"persist", "flush"} /\ outcome[Caller].valid
           /\ posted[Caller] < outcome[Caller].events
<1>1. verdict[Caller] # "kanban" /\ "kanban" \in Requests
  BY CallerAssumption, RequestsKnown DEF TypeOK
<1>2. QED
  BY <1>1 DEF Request, Asks

(* An event of the adapter is inserted by PersistEvent or late. *)
DeliversLate ==
  /\ Deliver(Caller)
  /\ Lost
  /\ late' = [late EXCEPT ![Caller] = @ \ {"kanban"}]

LEMMA StepInserts ==
  ASSUME TypeOK, NEW r \in Runs, RunStep(r), Inserted
  PROVE  r = Caller /\ (PersistEvent(r) \/ DeliversLate)
<1>0. StoreTypeOK
  BY DEF TypeOK
<1>1. ~UNCHANGED agent_events
  BY <1>0, FunctionsInsertNone
<1>2. ASSUME \E final \in FinalStatuses, tests, review \in Gates, ok \in BOOLEAN :
               Finish(r, final, tests, review, ok)
      PROVE  FALSE
  BY <1>0, <1>2, FunctionsInsertNone
<1>3. ASSUME OwnStep(r) \/ DispatchAnswers(r)
      PROVE  r = Caller /\ PersistEvent(r)
  <2>1. ~(Claim(r) \/ ClaimMeetsConflict(r) \/ Announce(r))
    BY <1>0, FunctionsInsertNone DEF Claim, ClaimMeetsConflict, Announce
  <2>2. ~Complete(r)
    BY <1>2, OutcomeTypes DEF Complete, FinalStatuses
  <2>3. ~Close(r)
    <3>1. verdict[r] \in FinalStatuses
      BY DEF TypeOK, FinalStatuses
    <3>2. QED
      BY <1>2, <3>1, RequestsKnown DEF Close
  <2>4. PersistEvent(r) => r = Caller
    BY <1>0, FunctionsInsertNone DEF PersistEvent
  <2>5. \/ PersistEvent(r)
        \/ UNCHANGED agent_events
    BY <1>3, <2>1, <2>2, <2>3
    DEF OwnStep, DispatchAnswers, storeVars, RaiseConflict, MoveInProgress, DispatchReturns,
        DispatchRaises, DispatchRaisesEvents, BatchRefused, FlushDone, OutcomeInDoubt,
        GatesIncomplete, MoveInReview, MoveBlocked, CallFails, CallEscapes
  <2>6. QED
    BY <1>1, <2>4, <2>5
<1>4. ASSUME PulseStep(r) \/ Crash(r) \/ RefusalGoesOn(r)
      PROVE  FALSE
  BY <1>0, <1>1, <1>4, FunctionsInsertNone
  DEF PulseStep, Beat, BeatFails, Crash, RefusalGoesOn, storeVars
<1>5. ASSUME Deliver(r)
      PROVE  r = Caller /\ DeliversLate
  <2>1. PICK q \in late[r] :
          /\ late' = [late EXCEPT ![r] = @ \ {q}]
          /\ \/ ClaimGranted(r) \/ ClaimRefused(r)
             \/ \E ok \in BOOLEAN : Heartbeat(r, ok)
             \/ q \in WorkerEvents /\ PostEvent(r, q)
             \/ \E final \in FinalStatuses, tests, review \in Gates, ok \in BOOLEAN :
                  Finish(r, final, tests, review, ok)
    <3>1. {"completed", "failed", "blocked"} \subseteq FinalStatuses
      BY DEF FinalStatuses
    <3>2. QED
      BY <1>5, <3>1, RequestsKnown, OutcomeTypes DEF Deliver
  <2>2. q \in WorkerEvents /\ PostEvent(r, q)
    BY <1>0, <1>2, <2>1, FunctionsInsertNone
  <2>3. q = "kanban" /\ r = Caller
    BY <1>0, <2>2, FunctionsInsertNone DEF WorkerEvents
  <2>4. QED
    BY <1>5, <2>1, <2>3 DEF DeliversLate, Lost
<1>6. QED
  BY <1>3, <1>4, <1>5 DEF RunStep, WorkerStep

LEMMA PersistStep ==
  ASSUME TypeOK, ProofInv, ExecInv, Records, UNCHANGED adapterVars,
         \/ PersistEvent(Caller) \/ DeliversLate
  PROVE  ExecInv'
<1> DEFINE trail == Deduplicated(events)
<1>0. /\ at' = at /\ events' = events /\ result' = result
      /\ at \in {"start", "poll", "blocked", "raised", "returned", "failed", "timeout"}
  BY DEF adapterVars, ProofInv, DispatchEnded
<1>1. /\ posted \in [Runs -> Nat] /\ posted[Caller] \in Nat /\ outcome[Caller].events \in Nat
      /\ late \in [Runs -> SUBSET Requests] /\ agent_events \in [Runs -> Seq(EventKinds)]
  BY CallerAssumption, OutcomeTypes DEF TypeOK, StoreTypeOK
<1>2. Inserted
  <2>1. PostEvent(Caller, "kanban")
    <3>1. CASE PersistEvent(Caller)
      BY <3>1 DEF PersistEvent
    <3>2. CASE DeliversLate
      <4>1. PICK q \in late[Caller] : /\ late' = [late EXCEPT ![Caller] = @ \ {q}]
                                      /\ q = "kanban" => PostEvent(Caller, "kanban")
        BY <3>2 DEF DeliversLate, Deliver
      <4>2. late'[Caller] = late[Caller] \ {q}
        BY <1>1, <4>1, CallerAssumption
      <4>3. late' = [late EXCEPT ![Caller] = @ \ {"kanban"}] /\ "kanban" \in late[Caller]
        BY <3>2 DEF DeliversLate, Lost
      <4>4. late'[Caller] = late[Caller] \ {"kanban"}
        BY <1>1, <4>3, CallerAssumption
      <4>5. q = "kanban"
        BY <4>2, <4>3, <4>4
      <4>6. QED
        BY <4>1, <4>5
    <3>3. QED
      BY <3>1, <3>2
  <2>2. QED
    BY <1>1, <2>1, CallerAssumption DEF PostEvent, Inserted
<1>3. stored' = Append(stored, trail[posted[Caller] + 1])
  BY <1>2 DEF Records, Inserted
<1>4. /\ Handed /\ outcome[Caller].valid /\ posted[Caller] < outcome[Caller].events
      /\ Len(stored) = posted[Caller]
      /\ at \in {"returned", "failed", "timeout"}
  <2>1. CASE PersistEvent(Caller)
    BY <1>0, <2>1 DEF PersistEvent, ExecInv, NothingStored, Handed, NoInsertLost
  <2>2. CASE DeliversLate
    BY <1>0, <2>2 DEF DeliversLate, ExecInv, NothingStored, Handed, NoInsertLost, Lost
  <2>3. QED
    BY <2>1, <2>2
<1>5. /\ DOMAIN trail = 1 .. Len(trail) /\ Len(trail) = outcome[Caller].events
      /\ Len(trail) \in Nat
  BY <1>1, <1>4, DeduplicatedLength DEF Handed, OutcomeOf, ProofInv
<1>6. /\ stored \in Seq(Entries) /\ trail[posted[Caller] + 1] \in Entries
      /\ \A k \in DOMAIN stored : stored[k] = trail[k]
  BY <1>1, <1>4, <1>5 DEF Handed, Entries
<1> HIDE DEF trail
<1>7. /\ stored' \in Seq(Entries) /\ Len(stored') = posted[Caller] + 1
      /\ \A k \in DOMAIN stored' : stored'[k] = trail[k]
  BY <1>1, <1>3, <1>4, <1>6
<1>8. /\ pc'[Caller] = pc[Caller] /\ outcome'[Caller] = outcome[Caller]
      /\ moved'[Caller] = moved[Caller] /\ Entries' = Entries
  BY <1>0 DEF PersistEvent, DeliversLate, Deliver, Entries
<1>9. /\ pc'[Caller] \notin {"idle", "refused", "conflict", "progress", "announce", "dispatch"}
      /\ (pc[Caller] = "persist" => at = "returned")'
      /\ (outcome[Caller] = OutcomeOf(events, result))'
      /\ (stored \in Seq(Entries))'
      /\ (\A k \in DOMAIN stored : stored[k] = Deduplicated(events)[k])'
  BY <1>0, <1>4, <1>7, <1>8 DEF Handed, trail
<1>10. CASE PersistEvent(Caller)
  <2>1. /\ posted'[Caller] = posted[Caller] + 1 /\ late' = late
        /\ pc[Caller] \in {"persist", "flush"}
    BY <1>1, <1>10, CallerAssumption DEF PersistEvent
  <2>2. NoInsertLost' /\ ~Lost'
    BY <1>4, <1>7, <2>1 DEF NoInsertLost, Lost, Handed
  <2>3. Handed'
    BY <1>1, <1>4, <1>7, <1>8, <1>9, <2>1, <2>2 DEF Handed
  <2>4. QED
    BY <1>0, <1>4, <1>8, <2>1, <2>3 DEF ExecInv
<1>11. CASE DeliversLate
  <2>1. posted'[Caller] = posted[Caller] /\ ~Lost'
    BY <1>1, <1>11, CallerAssumption DEF DeliversLate, Deliver, Lost
  <2>2. ~NoInsertLost' /\ ~NoInsertLost
    BY <1>1, <1>7, <1>11, <2>1 DEF NoInsertLost, DeliversLate, Lost
  <2>3. Handed'
    BY <1>1, <1>4, <1>7, <1>8, <1>9, <2>1, <2>2 DEF Handed
  <2>4. QED
    BY <1>0, <1>4, <1>8, <2>3 DEF ExecInv, Handed
<1>12. QED
  BY <1>10, <1>11

(* A step of the runtime that does not end the dispatch of Caller. *)
LEMMA ApartStep ==
  ASSUME TypeOK, ProofInv, ExecInv, Apart(Next)
  PROVE  ExecInv'
<1>0. /\ UNCHANGED adapterVars /\ Records
      /\ pc[Caller] = "dispatch" => pc'[Caller] \in {"dispatch", "crashed"}
      /\ pc \in [Runs -> PCs] /\ moved \in [Runs -> {"Todo", "In Progress", "In Review", "Blocked"}]
      /\ late \in [Runs -> SUBSET Requests] /\ Caller \in Runs
      /\ verdict \in [Runs -> {"failed", "blocked"}]
      /\ posted[Caller] \in Nat /\ outcome[Caller].events \in Nat
      /\ outcome[Caller].valid \in BOOLEAN
  BY CallerAssumption, OutcomeTypes DEF Apart, TypeOK
<1>1. ~Inserted => stored' = stored
  BY <1>0 DEF Records, Inserted
<1>2. \/ at = "start" /\ NothingStored /\ events = <<>>
      \/ pc[Caller] \notin {"idle", "refused", "conflict", "progress", "announce"}
  BY DEF ExecInv
<1>3. ASSUME NEW r \in Runs, RunStep(r), r # Caller
      PROVE  ExecInv'
  <2>1. ~Inserted
    BY <1>3, StepInserts
  <2>2. QED
    BY <1>0, <1>1, <1>3, <2>1, OtherRuns, CallStays DEF Lost
<1>4. ASSUME RunStep(Caller), ~Inserted
      PROVE  ExecInv'
  <2>0. stored' = stored
    BY <1>1, <1>4
  <2>1. CASE \/ Claim(Caller) \/ ClaimMeetsConflict(Caller) \/ RaiseConflict(Caller)
             \/ MoveInProgress(Caller) \/ Announce(Caller)
    <3>1. /\ pc[Caller] \in {"idle", "refused", "progress", "announce"}
          /\ pc'[Caller] \in {"refused", "conflict", "progress", "announce", "dispatch"}
          /\ posted'[Caller] = posted[Caller] /\ late'[Caller] = late[Caller]
          /\ moved'[Caller] \in {moved[Caller], "In Progress"}
      BY <1>0, <2>1 DEF Claim, ClaimMeetsConflict, RaiseConflict, MoveInProgress, Announce, GoTo
    <3>2. at' = "start" /\ events' = <<>> /\ stored' = <<>> /\ posted'[Caller] = 0 /\ ~Lost'
      BY <1>0, <1>2, <2>0, <3>1 DEF NothingStored, Lost, adapterVars
    <3>3. moved'[Caller] # "In Review"
      BY <1>2, <3>1 DEF ExecInv
    <3>4. QED
      BY <3>1, <3>2, <3>3 DEF ExecInv, NothingStored
  <2>2. CASE \/ BatchRefused(Caller) \/ FlushDone(Caller) \/ OutcomeInDoubt(Caller)
             \/ GatesIncomplete(Caller)
    <3>1. /\ pc[Caller] \in {"persist", "flush"} /\ pc'[Caller] \in {"park", "close"}
          /\ ~outcome[Caller].valid \/ posted[Caller] = outcome[Caller].events
          /\ UNCHANGED <<outcome, posted, moved, late>>
      BY <1>0, <2>2 DEF BatchRefused, FlushDone, OutcomeInDoubt, GatesIncomplete, Persisted,
                        Except, GoTo
    <3>2. QED
      BY <1>0, <2>0, <3>1, CallMoves DEF Lost, Over
  <2>3. CASE MoveInReview(Caller)
    <3>1. /\ pc[Caller] = "persist" /\ pc'[Caller] = "complete"
          /\ outcome[Caller].valid /\ posted[Caller] = outcome[Caller].events
          /\ UNCHANGED <<outcome, posted, late>>
      BY <1>0, <2>3 DEF MoveInReview, Persisted, GoTo
    <3>2. ~Lost
      BY <3>1 DEF ExecInv, NothingStored, Handed, NoInsertLost, Lost, ProofInv, DispatchEnded
    <3>3. QED
      BY <1>0, <2>0, <3>1, <3>2, CallMoves DEF Lost, Over
  <2>4. CASE Complete(Caller) \/ MoveBlocked(Caller) \/ Close(Caller)
    <3>1. /\ pc[Caller] \in {"complete", "park", "close"}
          /\ pc'[Caller] \in {"park", "close", "returned", "raised", "escaped"}
          /\ UNCHANGED <<outcome, posted, late>>
          /\ moved'[Caller] \in {moved[Caller], "Blocked"}
      BY <1>0, <2>4 DEF Complete, MoveBlocked, Close, Except, GoTo
    <3>2. QED
      BY <1>0, <2>0, <3>1, CallMoves DEF Lost, Over
  <2>5. CASE CallFails(Caller) \/ CallEscapes(Caller) \/ Crash(Caller)
    <3> DEFINE loses == "kanban" \in Request(Caller)
    <3>1. /\ pc[Caller] \notin Over /\ pc'[Caller] \in {"close", "escaped", "crashed"}
          /\ pc[Caller] = "dispatch" => pc'[Caller] = "crashed"
          /\ UNCHANGED <<outcome, posted, moved>>
      BY <1>0, <2>5 DEF CallFails, CallEscapes, Crash, Except, GoTo, Over, Working
    <3>2. Lost' <=> Lost \/ loses
      <4>1. PICK requests : /\ late' = [late EXCEPT ![Caller] = @ \cup requests]
                            /\ requests \in {Request(Caller), Request(Caller) \cup {"heartbeat"}}
        BY <2>5 DEF CallFails, CallEscapes, Crash, MayBeLate
      <4>2. late'[Caller] = late[Caller] \cup requests
        BY <1>0, <4>1
      <4>3. QED
        BY <4>1, <4>2 DEF Lost
    <3>3. loses <=> /\ pc[Caller] \in {"persist", "flush"} /\ outcome[Caller].valid
                    /\ posted[Caller] < outcome[Caller].events
      BY RequestsNext
    <3>4. pc[Caller] \in {"persist", "flush"} =>
            Lost' \/ ~outcome[Caller].valid \/ posted[Caller] = outcome[Caller].events
      <4>1. pc[Caller] \in {"persist", "flush"} /\ outcome[Caller].valid =>
              posted[Caller] =< outcome[Caller].events
        BY DEF ExecInv, NothingStored, Handed, ProofInv, DispatchEnded
      <4>2. ASSUME pc[Caller] \in {"persist", "flush"}, outcome[Caller].valid, ~Lost'
            PROVE  posted[Caller] = outcome[Caller].events
        <5>1. ~(posted[Caller] < outcome[Caller].events)
          BY <3>2, <3>3, <4>2
        <5>2. posted[Caller] =< outcome[Caller].events
          BY <4>1, <4>2
        <5>3. posted[Caller] \in Nat /\ outcome[Caller].events \in Nat
          BY <1>0
        <5>4. \A m, n \in Nat : m =< n /\ ~(m < n) => m = n
          OBVIOUS
        <5>5. QED
          BY <5>1, <5>2, <5>3, <5>4
      <4>3. QED
        BY <4>2
    <3> HIDE DEF loses
    <3>5. QED
      BY <1>0, <2>0, <3>1, <3>2, <3>3, <3>4, CallMoves DEF Over
  <2>6. CASE PulseStep(Caller) \/ RefusalGoesOn(Caller)
    <3>1. /\ UNCHANGED <<pc, outcome, posted, moved>>
          /\ late'[Caller] \in {late[Caller], late[Caller] \cup {"heartbeat"}}
      BY <1>0, <2>6 DEF PulseStep, Beat, BeatFails, RefusalGoesOn, MayBeLate, workerVars
    <3>2. Lost' <=> Lost
      BY <3>1 DEF Lost
    <3>3. QED
      BY <1>0, <2>0, <3>1, <3>2, CallStays
  <2>7. CASE Deliver(Caller)
    <3>1. PICK q \in late[Caller] :
            /\ late' = [late EXCEPT ![Caller] = @ \ {q}]
            /\ q = "kanban" => PostEvent(Caller, "kanban")
      BY <2>7 DEF Deliver
    <3>2. q # "kanban"
      <4>1. PostEvent(Caller, "kanban") => Inserted
        BY <1>0 DEF PostEvent, Inserted, TypeOK, StoreTypeOK
      <4>2. QED
        BY <1>4, <3>1, <4>1
    <3>3. UNCHANGED <<pc, outcome, posted, moved>>
      BY <2>7 DEF Deliver
    <3>4. late'[Caller] = late[Caller] \ {q}
      BY <1>0, <3>1
    <3>5. Lost' <=> Lost
      BY <3>2, <3>4 DEF Lost
    <3>6. QED
      BY <1>0, <2>0, <3>3, <3>5, CallStays
  <2>8. ~PersistEvent(Caller)
    BY <1>0, <1>4 DEF PersistEvent, PostEvent, Inserted, TypeOK, StoreTypeOK
  <2>9. ~DispatchAnswers(Caller)
    BY <1>0 DEF DispatchAnswers, DispatchReturns, DispatchRaises, DispatchRaisesEvents, Except,
                GoTo
  <2>10. QED
    BY <1>4, <2>1, <2>2, <2>3, <2>4, <2>5, <2>6, <2>7, <2>8, <2>9
    DEF RunStep, WorkerStep, OwnStep
<1>5. CASE RunStep(Caller) /\ Inserted
  BY <1>0, <1>5, StepInserts, PersistStep
<1>6. CASE \/ \E i \in Issues : RecoverExpired(i) \/ OperatorGivesBack(i)
           \/ TimePasses \/ AllOver
  <2>1. UNCHANGED <<pc, outcome, posted, moved, late>>
    BY <1>6 DEF RecoverExpired, OperatorGivesBack, TimePasses, AllOver, vars, workerVars
  <2>2. ~Inserted
    <3>1. StoreTypeOK
      BY DEF TypeOK
    <3>2. \/ UNCHANGED agent_events
          \/ \E i \in Issues : OperatorRelease(i) \/ \E ok \in BOOLEAN : Recover(i, ok)
      BY <1>6 DEF RecoverExpired, OperatorGivesBack, TimePasses, Tick, AllOver, vars, storeVars
    <3>3. QED
      BY <1>0, <3>1, <3>2, FunctionsInsertNone
  <2>3. QED
    BY <1>0, <1>1, <2>1, <2>2, CallStays DEF Lost
<1>7. QED
  BY <1>3, <1>4, <1>5, <1>6 DEF Apart, Next, Others, RunStep

(* A step of the dispatch of Caller. *)
LEMMA DispatchStep ==
  ASSUME TypeOK, ProofInv, ProofInv', ExecInv, CallerDispatches
  PROVE  ExecInv'
<1>0. /\ pc \in [Runs -> PCs] /\ outcome \in [Runs -> Outcomes \cup {NoOutcome}]
      /\ Caller \in Runs /\ moved[Caller] # "In Review"
  BY CallerAssumption DEF CallerDispatches, TypeOK, ExecInv
<1>1. /\ pc[Caller] = "dispatch" /\ at \in {"start", "poll"} /\ stored' = stored
      /\ posted[Caller] = 0 /\ stored = <<>> /\ ~Lost
  BY DEF CallerDispatches, ExecInv, NothingStored
<1>2. CASE (Started \/ Poll) /\ UNCHANGED vars
  <2>1. at' = "poll"
    BY <1>2 DEF Started, Poll, Waits
  <2>2. UNCHANGED <<pc, posted, late, moved>>
    BY <1>2 DEF vars, workerVars
  <2>3. QED
    BY <1>0, <1>1, <2>1, <2>2 DEF ExecInv, NothingStored, Lost
<1>3. CASE \/ StartBlocked /\ DispatchRaises(Caller, "blocked")
           \/ BoardFails /\ DispatchRaises(Caller, "failed")
  <2>1. /\ at' \in {"blocked", "raised"}
        /\ at' = "blocked" => events' = <<>>
    BY <1>3 DEF StartBlocked, BoardFails, ExecInv
  <2>2. pc'[Caller] \in {"park", "close"} /\ UNCHANGED <<posted, late, moved>>
    BY <1>0, <1>3 DEF DispatchRaises, Except, GoTo
  <2>3. QED
    BY <1>0, <1>1, <2>1, <2>2 DEF ExecInv, NothingStored, Lost
<1>4. CASE \/ /\ ReturnsDone \/ ReturnsBlocked
              /\ DispatchReturns(Caller, OutcomeOf(events', result'))
           \/ /\ RunFailed \/ TimesOut
              /\ DispatchRaisesEvents(Caller, OutcomeOf(events', result'))
  <2>1. /\ at' \in {"returned", "failed", "timeout"}
        /\ pc'[Caller] \in {"persist", "flush"}
        /\ pc'[Caller] = "persist" => at' = "returned"
        /\ UNCHANGED <<posted, late, moved>>
    BY <1>0, <1>4 DEF ReturnsDone, ReturnsBlocked, RunFailed, TimesOut, DispatchReturns,
                      DispatchRaisesEvents, GoTo
  <2>2. outcome'[Caller] = OutcomeOf(events', result')
    BY <1>0, <1>4 DEF DispatchReturns, DispatchRaisesEvents
  <2>3. outcome'[Caller].events \in Nat
    <3>1. Len(Deduplicated(events')) \in Nat
      BY DeduplicatedLength DEF ProofInv
    <3>2. QED
      BY <2>2, <3>1 DEF OutcomeOf
  <2>4. NoInsertLost' /\ ~Lost' /\ posted'[Caller] = 0 /\ stored' = <<>>
    BY <1>1, <2>1 DEF NoInsertLost, Lost
  <2>5. Handed'
    BY <2>1, <2>2, <2>3, <2>4 DEF Handed
  <2>6. QED
    BY <1>0, <2>1, <2>5 DEF ExecInv
<1>5. QED
  BY <1>2, <1>3, <1>4 DEF CallerDispatches

(* How far the inserts have come is told by where the call is. *)
THEOREM ExecutionInvariant == ExecSpec => []ExecInv
<1>1. ExecInit => ExecInv
  BY CallerAssumption DEF ExecInit, Init, AdapterInit, ExecInv, NothingStored, Lost
<1>2. TypeOK /\ ProofInv /\ ProofInv' /\ ExecInv /\ [ExecNext]_execVars => ExecInv'
  <2>1. TypeOK /\ ProofInv /\ ExecInv /\ UNCHANGED execVars => ExecInv'
    BY CallStays DEF execVars, vars, workerVars, Lost
  <2>2. QED
    BY <2>1, DispatchStep, ApartStep DEF ExecNext
<1>3. ExecSpec => []TypeOK
  BY ExecutionImplementsRuntime, RuntimeTypes DEF ImplementsRuntime
<1>4. QED
  BY ExecutionBatches, <1>1, <1>2, <1>3, PTL DEF ExecSpec

-------------------------------------------------------------------------------
(* What the table has *)

LEMMA StoredBegins ==
  ASSUME TypeOK, ProofInv, ExecInv
  PROVE  /\ StoredInOrder
         /\ stored \in Seq(Entries) \/ stored = <<>>
<1>0. /\ DOMAIN Deduplicated(events) = 1 .. Len(Deduplicated(events))
      /\ Len(Deduplicated(events)) \in Nat
  BY DeduplicatedLength DEF ProofInv
<1>1. posted[Caller] \in Nat /\ outcome[Caller].events \in Nat
  BY CallerAssumption, OutcomeTypes DEF TypeOK
<1>2. CASE at \in {"start", "poll", "blocked", "raised"}
  <2>1. stored = <<>>
    BY <1>2 DEF ExecInv, NothingStored
  <2>2. QED
    BY <1>0, <2>1 DEF StoredInOrder
<1>3. CASE at \in {"returned", "failed", "timeout"}
  <2>1. Handed
    BY <1>3 DEF ExecInv
  <2>2. /\ stored \in Seq(Entries)
        /\ \A k \in DOMAIN stored : stored[k] = Deduplicated(events)[k]
        /\ Len(stored) \in {posted[Caller], posted[Caller] + 1}
        /\ outcome[Caller].events = Len(Deduplicated(events))
    BY <2>1 DEF Handed, OutcomeOf
  <2>3. Len(stored) =< Len(Deduplicated(events))
    <3>1. CASE NoInsertLost
      <4>1. Len(stored) = posted[Caller]
        BY <3>1 DEF NoInsertLost
      <4>2. posted[Caller] =< outcome[Caller].events
        BY <1>1, <2>1 DEF Handed
      <4>3. QED
        BY <2>2, <4>1, <4>2
    <3>2. CASE ~NoInsertLost
      <4>1. posted[Caller] < outcome[Caller].events
        BY <2>1, <3>2 DEF Handed
      <4>2. QED
        BY <1>1, <2>2, <4>1
    <3>3. QED
      BY <3>1, <3>2
  <2>4. QED
    BY <2>2, <2>3 DEF StoredInOrder
<1>4. QED
  BY <1>2, <1>3 DEF ProofInv, DispatchEnded

(* The table has the beginning of the batch, each event once and in order. *)
THEOREM InsertsInOrder == ExecSpec => []StoredInOrder
<1>1. ExecSpec => []TypeOK
  BY ExecutionImplementsRuntime, RuntimeTypes DEF ImplementsRuntime
<1>2. TypeOK /\ ProofInv /\ ExecInv => StoredInOrder
  BY StoredBegins
<1>3. QED
  BY ExecutionBatches, ExecutionInvariant, <1>1, <1>2, PTL

(* A trail that is as long as the batch without duplicates is this batch. *)
LEMMA WholeTrail ==
  ASSUME TypeOK, ProofInv, ExecInv, Len(stored) = Len(Deduplicated(events))
  PROVE  stored = Deduplicated(events)
<1> DEFINE trail == Deduplicated(events)
<1>2. trail = [k \in 1 .. Len(trail) |-> trail[k]] /\ DOMAIN trail = 1 .. Len(trail)
  BY DeduplicatedLength DEF ProofInv
<1> HIDE DEF trail
<1>3. stored = [k \in 1 .. Len(stored) |-> stored[k]] /\ DOMAIN stored = 1 .. Len(stored)
  <2>1. CASE stored \in Seq(Entries)
    BY <2>1
  <2>2. CASE stored = <<>>
    <3>1. stored \in Seq({})
      BY <2>2
    <3>2. QED
      BY <3>1
  <2>3. QED
    BY <2>1, <2>2, StoredBegins
<1>4. \A k \in DOMAIN stored : stored[k] = trail[k]
  BY StoredBegins DEF StoredInOrder, trail
<1>5. Len(stored) = Len(trail)
  BY DEF trail
<1>6. QED
  BY <1>2, <1>3, <1>4, <1>5 DEF trail

(* A dispatch handed over to a call that goes on has its trail inserted. *)
LEMMA HandedTrail ==
  ASSUME TypeOK, ProofInv, ExecInv, NoInsertLost, at \in {"returned", "failed", "timeout"},
         pc[Caller] \notin {"persist", "flush"}
  PROVE  stored = Persistable(events)
<1>1. Handed
  BY DEF ExecInv
<1>2. /\ outcome[Caller].valid = Accepted(events)
      /\ outcome[Caller].events = Len(Deduplicated(events))
      /\ Len(stored) = posted[Caller]
  BY <1>1 DEF Handed, OutcomeOf, NoInsertLost
<1>3. CASE Accepted(events)
  <2>1. posted[Caller] = outcome[Caller].events
    BY <1>1, <1>2, <1>3 DEF Handed
  <2>2. QED
    BY <1>2, <1>3, <2>1, WholeTrail DEF Persistable
<1>4. CASE ~Accepted(events)
  <2>1. posted[Caller] = 0
    BY <1>1, <1>2, <1>4 DEF Handed
  <2>2. stored = <<>>
    BY <1>2, <2>1, StoredBegins
  <2>3. QED
    BY <1>4, <2>2 DEF Persistable
<1>5. QED
  BY <1>3, <1>4

LEMMA CompletedTrail ==
  ASSUME TypeOK, ProofInv, ExecInv, CompletedIsEarned, agent_runs[Caller].status = "completed"
  PROVE  /\ at = "returned"
         /\ Accepted(events) /\ stored = Deduplicated(events)
         /\ Caller \in Gated => GatesPassed
<1>1. Earned(Caller) /\ (Caller \in Gated => GatesOpen(Caller))
  BY CallerAssumption DEF CompletedIsEarned, Earned
<1>2. at = "returned" /\ Handed
  BY <1>1 DEF Earned, ExecInv
<1>3. outcome[Caller] = OutcomeOf(events, result)
  BY <1>2 DEF Handed
<1>4. posted[Caller] = Len(Deduplicated(events))
  <2>1. posted[Caller] = outcome[Caller].events
    BY <1>1 DEF Earned, Persisted
  <2>2. QED
    BY <1>3, <2>1 DEF OutcomeOf
<1>5. Accepted(events)
  <2>1. outcome[Caller].valid
    BY <1>1 DEF Earned, Persisted
  <2>2. QED
    BY <1>3, <2>1 DEF OutcomeOf
<1>6. Len(stored) = Len(Deduplicated(events))
  <2>1. Len(stored) \in {posted[Caller], posted[Caller] + 1} /\ Len(stored) \in Nat
    BY <1>2, StoredBegins DEF Handed
  <2>2. posted[Caller] \in Nat /\ Len(stored) =< Len(Deduplicated(events))
    BY CallerAssumption, StoredBegins DEF TypeOK, StoredInOrder
  <2>3. QED
    BY <1>4, <2>1, <2>2
<1>7. ASSUME Caller \in Gated
      PROVE  GatesPassed
  <2>1. OutcomeOf(events, result).tests = "ok" /\ OutcomeOf(events, result).review = "ok"
    BY <1>1, <1>3, <1>7 DEF GatesOpen
  <2>2. QED
    BY <2>1 DEF OutcomeOf, GatesPassed
<1>8. QED
  BY <1>2, <1>5, <1>6, <1>7, WholeTrail

(* A completed run has the whole trail of its dispatch in the table. *)
THEOREM CompletedTrails == ExecSpec => []CompletedTrailIsWhole
<1>1. ExecSpec => []TypeOK /\ []CompletedIsEarned
  BY ExecutionImplementsRuntime, RuntimeTypes, CompletionsAreEarned DEF ImplementsRuntime
<1>2. TypeOK /\ ProofInv /\ ExecInv /\ CompletedIsEarned => CompletedTrailIsWhole
  BY CompletedTrail DEF CompletedTrailIsWhole
<1>3. QED
  BY ExecutionBatches, ExecutionInvariant, <1>1, <1>2, PTL

(* A call that was answered and lost no insert leaves the whole trail or   *)
(* none.                                                                   *)
THEOREM TrailsAreWholeOrAbsent == ExecSpec => []TrailIsWholeOrAbsent
<1>1. ExecSpec => []TypeOK
  BY ExecutionImplementsRuntime, RuntimeTypes DEF ImplementsRuntime
<1>2. ASSUME TypeOK, ProofInv, ExecInv, pc[Caller] \in {"returned", "raised"}, NoInsertLost
      PROVE  stored = IF at = "raised" THEN <<>> ELSE Persistable(events)
  <2>1. CASE at \in {"returned", "failed", "timeout"}
    BY <1>2, <2>1, HandedTrail
  <2>2. CASE at = "raised"
    BY <1>2, <2>2 DEF ExecInv, NothingStored
  <2>3. CASE at \in {"start", "blocked"}
    <3>1. stored = <<>> /\ events = <<>>
      BY <1>2, <2>3 DEF ExecInv, NothingStored
    <3>2. Persistable(events) = <<>>
      <4>1. Len(Deduplicated(events)) = 0
        <5>1. events \in Seq(Observed) /\ Len(events) = 0
          BY <1>2, <3>1 DEF ProofInv
        <5>2. Len(Deduplicated(events)) \in 0 .. Len(events)
          BY <5>1, DeduplicatedLength
        <5>3. QED
          BY <5>1, <5>2
      <4>2. Deduplicated(events) = <<>>
        BY <1>2, <3>1, <4>1, WholeTrail
      <4>3. QED
        BY <4>2 DEF Persistable
    <3>3. QED
      BY <2>3, <3>1, <3>2
  <2>4. at # "poll"
    BY <1>2 DEF ExecInv
  <2>5. QED
    BY <1>2, <2>1, <2>2, <2>3, <2>4 DEF ProofInv, DispatchEnded
<1>3. TypeOK /\ ProofInv /\ ExecInv => TrailIsWholeOrAbsent
  BY <1>2 DEF TrailIsWholeOrAbsent
<1>4. QED
  BY ExecutionBatches, ExecutionInvariant, <1>1, <1>3, PTL

(* A gated run that completed from a done card has its gates on record. *)
THEOREM GatesRecorded == ExecSpec => []GatesAreOnRecord
<1>1. ExecSpec => []TypeOK /\ []CompletedIsEarned
  BY ExecutionImplementsRuntime, RuntimeTypes, CompletionsAreEarned DEF ImplementsRuntime
<1>2. ExecSpec => []CompletionIsTraced
  BY ExecutionUsesAdapter, CompletionsAreTraced
<1>3. TypeOK /\ ProofInv /\ ExecInv /\ CompletedIsEarned /\ CompletionIsTraced => GatesAreOnRecord
  BY CompletedTrail DEF GatesAreOnRecord, CompletionIsTraced, Completes, Persistable
<1>4. QED
  BY ExecutionBatches, ExecutionInvariant, <1>1, <1>2, <1>3, PTL

-------------------------------------------------------------------------------
(* The contract of the table *)

(* Every rank up to the number of the first ones is the rank of a first    *)
(* one, so that an event without duplicates is one of the batch.           *)
Before(batch, k) == {j \in Firsts(batch) : j =< k}
Ranked(batch) ==
  \A m \in 1 .. Cardinality(Firsts(batch)) :
    \E k \in Firsts(batch) : Cardinality(Before(batch, k)) = m

LEMMA FirstsFinite ==
  ASSUME NEW S, NEW batch \in Seq(S)
  PROVE  /\ Firsts(batch) \subseteq 1 .. Len(batch)
         /\ IsFiniteSet(Firsts(batch)) /\ Cardinality(Firsts(batch)) \in Nat
<1>1. Firsts(batch) \subseteq 1 .. Len(batch) /\ Len(batch) \in Nat
  BY DEF Firsts
<1>2. IsFiniteSet(1 .. Len(batch))
  BY <1>1, FS_Interval
<1>3. QED
  BY <1>1, <1>2, FS_Subset, FS_CardinalityType

LEMMA RankedGrows ==
  ASSUME NEW S, NEW batch \in Seq(S), NEW e \in S, Ranked(batch)
  PROVE  Ranked(Append(batch, e))
<1> DEFINE n == Len(batch)
           longer == Append(batch, e)
           F == Firsts(batch)
           G == Firsts(longer)
<1>1. /\ longer \in Seq(S) /\ n \in Nat /\ Len(longer) = n + 1
      /\ \A k \in 1 .. n : longer[k] = batch[k]
  OBVIOUS
<1>2. /\ F \subseteq 1 .. n /\ IsFiniteSet(F) /\ Cardinality(F) \in Nat
      /\ G \subseteq 1 .. n + 1 /\ IsFiniteSet(G) /\ Cardinality(G) \in Nat
  BY <1>1, FirstsFinite
<1>3. \A k \in 1 .. n : k \in G <=> k \in F
  <2> SUFFICES ASSUME NEW k \in 1 .. n
               PROVE  k \in G <=> k \in F
    OBVIOUS
  <2>1. k \in DOMAIN longer /\ k \in DOMAIN batch
    BY <1>1
  <2>2. \A j \in 1 .. k - 1 : longer[j] = batch[j] /\ longer[k] = batch[k]
    BY <1>1
  <2>3. QED
    BY <2>1, <2>2 DEF Firsts
<1> HIDE DEF F, G, longer
<1>4. ASSUME NEW k \in F
      PROVE  k \in G /\ Before(longer, k) = Before(batch, k)
  <2>1. k \in 1 .. n /\ k \in G
    BY <1>2, <1>3, <1>4
  <2>2. \A j : j \in G /\ j =< k <=> j \in F /\ j =< k
    <3>1. ASSUME NEW j \in G, j =< k
          PROVE  j \in 1 .. n
      BY <1>1, <1>2, <2>1, <3>1
    <3>2. QED
      BY <1>2, <1>3, <3>1
  <2>3. QED
    BY <2>1, <2>2 DEF Before, F, G
<1>5. CASE n + 1 \notin G
  <2>1. G = F
    <3>1. G \subseteq 1 .. n
      BY <1>1, <1>2, <1>5
    <3>2. QED
      BY <1>2, <1>3, <3>1
  <2>2. QED
    BY <1>4, <2>1 DEF Ranked, F, G, longer
<1>6. CASE n + 1 \in G
  <2>1. G = F \cup {n + 1} /\ n + 1 \notin F
    <3>1. \A j \in G : j \in 1 .. n \/ j = n + 1
      BY <1>1, <1>2
    <3>2. n + 1 \notin 1 .. n
      BY <1>1
    <3>3. QED
      BY <1>2, <1>3, <1>6, <3>1, <3>2
  <2>2. Cardinality(G) = Cardinality(F) + 1
    BY <1>2, <2>1, FS_AddElement
  <2>3. Before(longer, n + 1) = G
    <3>1. \A j \in G : j =< n + 1
      BY <1>1, <1>2
    <3>2. QED
      BY <3>1 DEF Before, G
  <2>4. ASSUME NEW m \in 1 .. Cardinality(G)
        PROVE  \E k \in G : Cardinality(Before(longer, k)) = m
    <3>1. CASE m = Cardinality(G)
      BY <1>6, <2>3, <3>1
    <3>2. CASE m # Cardinality(G)
      <4>1. m \in 1 .. Cardinality(F)
        BY <1>2, <2>2, <3>2
      <4>2. PICK k \in F : Cardinality(Before(batch, k)) = m
        BY <4>1 DEF Ranked, F
      <4>3. QED
        BY <1>4, <4>2
    <3>3. QED
      BY <3>1, <3>2
  <2>5. QED
    BY <2>4 DEF Ranked, G, longer
<1>7. QED
  BY <1>5, <1>6

BatchRanked == Ranked(events)

LEMMA DispatchesRanked == AdapterSpec => []BatchRanked
<1>1. AdapterInit => BatchRanked
  <2> SUFFICES ASSUME AdapterInit
               PROVE  Ranked(events)
    BY DEF BatchRanked
  <2>1. events = <<>>
    BY DEF AdapterInit
  <2>2. Firsts(events) = {}
    BY <2>1 DEF Firsts
  <2>3. Cardinality(Firsts(events)) = 0
    BY <2>2, FS_EmptySet
  <2>4. QED
    BY <2>3 DEF Ranked
<1>2. ProofInv /\ BatchRanked /\ [AdapterNext]_adapterVars => BatchRanked'
  <2> SUFFICES ASSUME ProofInv, Ranked(events), [AdapterNext]_adapterVars
               PROVE  Ranked(events')
    BY DEF BatchRanked
  <2>1. CASE events' = events
    BY <2>1
  <2>2. ASSUME NEW kind \in KanbanKinds, NEW c \in Readable, Observe(kind, c)
        PROVE  Ranked(events')
    <3>1. events \in Seq(Observed) /\ EventOf(context, kind, c) \in Observed
      BY EventFacts DEF ProofInv
    <3>2. events' = Append(events, EventOf(context, kind, c))
      BY <2>2 DEF Observe
    <3>3. QED
      BY <3>1, <3>2, RankedGrows
  <2>3. QED
    BY <2>1, <2>2, StepObserves
<1>3. QED
  BY AdapterInvariant, <1>1, <1>2, PTL DEF AdapterSpec

LEMMA DeduplicatedFromBatch ==
  ASSUME NEW S, NEW batch \in Seq(S), Ranked(batch),
         NEW m \in 1 .. Len(Deduplicated(batch))
  PROVE  \E k \in DOMAIN batch : Deduplicated(batch)[m] = batch[k]
<1> DEFINE F == Firsts(batch)
           Nth(i) == CHOOSE k \in F : Cardinality({j \in F : j =< k}) = i
<1>1. Cardinality(F) \in Nat /\ F \subseteq DOMAIN batch
  BY FirstsFinite DEF Firsts
<1>2. Deduplicated(batch) = [i \in 1 .. Cardinality(F) |-> batch[Nth(i)]]
  BY DEF Deduplicated
<1>3. \E k \in F : Cardinality({j \in F : j =< k}) = m
  <2>1. m \in 1 .. Cardinality(F)
    BY <1>1, <1>2
  <2>2. QED
    BY <2>1 DEF Ranked, Before
<1> HIDE DEF F
<1>4. Nth(m) \in F
  BY <1>3
<1>5. m \in 1 .. Cardinality(F)
  BY <1>1, <1>2
<1> HIDE DEF Nth
<1>6. Deduplicated(batch)[m] = batch[Nth(m)]
  BY <1>2, <1>5
<1>7. QED
  BY <1>1, <1>4, <1>6

(* No event that the contract refuses gets into the table. *)
LEMMA StoredAccepted ==
  ASSUME TypeOK, ProofInv, ExecInv, Ranked(events)
  PROVE  Accepted(stored)
<1>1. CASE stored = <<>>
  BY <1>1 DEF Accepted
<1>2. CASE stored # <<>>
  <2>1. Handed
    BY <1>2 DEF ExecInv, NothingStored, ProofInv, DispatchEnded
  <2>2. Accepted(events)
    <3>1. ASSUME ~outcome[Caller].valid
          PROVE  FALSE
      <4>1. posted[Caller] = 0 /\ NoInsertLost
        BY <2>1, <3>1 DEF Handed
      <4>2. Len(stored) = 0 /\ stored \in Seq(Entries)
        BY <2>1, <4>1 DEF Handed, NoInsertLost
      <4>3. QED
        BY <1>2, <4>2
    <3>2. QED
      BY <2>1, <3>1 DEF Handed, OutcomeOf
  <2>3. ASSUME NEW k \in DOMAIN stored
        PROVE  ValidEvent(stored[k])
    <3>1. k \in 1 .. Len(Deduplicated(events)) /\ stored[k] = Deduplicated(events)[k]
      <4>1. stored \in Seq(Entries) /\ Len(stored) =< Len(Deduplicated(events))
        BY <1>2, StoredBegins DEF StoredInOrder
      <4>2. Len(Deduplicated(events)) \in Nat
        BY DeduplicatedLength DEF ProofInv
      <4>3. QED
        BY <4>1, <4>2, StoredBegins DEF StoredInOrder
    <3>2. PICK j \in DOMAIN events : stored[k] = events[j]
      BY <3>1, DeduplicatedFromBatch DEF ProofInv
    <3>3. QED
      BY <2>2, <3>2 DEF Accepted
  <2>4. QED
    BY <2>3 DEF Accepted
<1>3. QED
  BY <1>1, <1>2

(* The fields of the events the functions of sql/ write. *)
LEMMA SqlFields ==
  /\ EventFields("agent.dispatched") =
       Fields({}, {"kanban_task_id", "dispatch_backend", "status", "assignee"})
  /\ EventFields("run.created") = Fields({}, {})
  /\ EventFields("run.started") =
       Fields({}, {"linear_status_to", "risk", "execution_mode", "environment"})
  /\ EventFields("run.completed") = Fields({}, GateFields \cup ReferenceFields)
  /\ EventFields("run.failed") =
       Fields({"error"}, {"error_code", "kanban_task_id", "kanban_outcome"})
  /\ EventFields("run.blocked") =
       Fields({"error"}, GateFields \cup {"blocked_reason", "kanban_task_id"})
  /\ EventFields("run.canceled") = Fields({}, {"canceled_by", "reason"})
  /\ EventFields("lock.acquired") = Fields({"ttl_seconds", "expires_at"}, {})
  /\ EventFields("lock.released") = Fields({}, {"finished_status"})
  /\ EventFields("lock.rejected") = Fields({"reason"}, {"attempted_run_id"})
  /\ EventFields("lock.expired") = Fields({"expired_at"}, {"last_heartbeat_at", "ttl_seconds"})
  /\ EventFields("lock.recovered") = Fields({}, {"recovered_by", "previous_run_id"})
<1>1. /\ \A kind \in RunKinds : EventFields(kind) = RunFields(kind)
      /\ \A kind \in LockKinds : EventFields(kind) = LockFields(kind)
  BY DEF EventFields, KanbanKinds, RunKinds, LockKinds, DeployKinds
<1>2. QED
  BY <1>1 DEF RunFields, LockFields, RunKinds, LockKinds

(* Those that do not carry the result of a run are within the contract. *)
LEMMA SqlEventsValid ==
  ASSUME NEW kind \in EventKinds \ {"kanban", "run.completed"}
  PROVE  ValidEvent(SqlEvent(kind))
<1> USE SqlFields, WordsAssumption
    DEF SqlEvent, SqlPayload, ValidEvent, Present, ValidValue, Forbidden, Fields, IntFields,
        Enums, IdPatterns, UrlFields
<1>1. CASE kind \in {"agent.dispatched", "run.created", "run.canceled"}
  <2>1. SqlPayload(kind) = <<>>
    BY <1>1
  <2>2. DOMAIN SqlEvent(kind).payload = {} /\ SqlEvent(kind).kind = kind
    BY <2>1
  <2>3. Present(SqlEvent(kind).payload) = {}
    BY <2>2
  <2>4. EventFields(kind).required = {}
    BY <1>1
  <2> HIDE DEF SqlEvent, Present
  <2>5. QED
    BY <2>2, <2>3, <2>4
<1>2. CASE kind = "run.started"
  BY <1>2
<1>3. CASE kind = "run.failed"
  BY <1>3
<1>4. CASE kind = "run.blocked"
  BY <1>4
<1>5. CASE kind = "lock.acquired"
  BY <1>5
<1>6. CASE kind = "lock.released"
  BY <1>6
<1>7. CASE kind = "lock.rejected"
  BY <1>7
<1>8. CASE kind = "lock.expired"
  BY <1>8
<1>9. CASE kind = "lock.recovered"
  BY <1>9
<1>10. QED
  BY <1>1, <1>2, <1>3, <1>4, <1>5, <1>6, <1>7, <1>8, <1>9
  DEF EventKinds, WorkerEvents, EndingEvents

(* A run.completed has the fields of the kanban.completed in the batch, for *)
(* which the contract checks the same.                                      *)
LEMMA FinishValid ==
  ASSUME ProofInv, ExitInv, at = "returned", snapshot.status # "blocked", Accepted(events)
  PROVE  ValidEvent(SqlEvent("run.completed"))
<1> DEFINE e == EventOf(context, "kanban.completed", snapshot)
           given == GateFields \cup {"commit_sha"}
<1>1. snapshot.status = "done"
  BY DEF ExitInv, Terminal, TERMINAL_DONE_STATUSES, TERMINAL_BLOCKED_STATUSES
<1>2. EndingKind = "kanban.completed"
  BY <1>1 DEF EndingKind
<1>3. /\ events \in Seq(Observed) /\ events # <<>> /\ events[Len(events)] = e
      /\ result = ResultOf(snapshot)
  BY <1>2 DEF ProofInv, ExitInv
<1>4. ValidEvent(e)
  <2>1. Len(events) \in DOMAIN events
    BY <1>3
  <2>2. QED
    BY <1>3, <2>1 DEF Accepted
<1>5. /\ DOMAIN result = given
      /\ \A f \in given : result[f] = Known(context, snapshot)[f]
  <2>1. DOMAIN result = given /\ \A f \in given : result[f] = snapshot[f]
    BY <1>3 DEF ResultOf, GateFields
  <2>2. context \in Contexts /\ snapshot \in Readable
    BY DEF ProofInv
  <2>3. \A f \in DOMAIN snapshot : Known(context, snapshot)[f] = snapshot[f]
    BY <2>2, KnownFacts
  <2>4. given \subseteq DOMAIN snapshot
    BY <2>2, CardFacts DEF GateFields
  <2>5. QED
    BY <2>1, <2>3, <2>4
<1>6. ASSUME NEW f \in given, result[f] # NoValue
      PROVE  ValidValue("run.completed", f, result[f])
  <2>1. f \in Present(e.payload) /\ e.payload[f] = result[f] /\ e.kind = "kanban.completed"
    BY <1>5, <1>6 DEF EventOf, Payload, Present, Stated, GateFields
  <2>2. ValidValue("kanban.completed", f, result[f])
    BY <1>4, <2>1 DEF ValidEvent
  <2>3. f \in {"tests_status", "review_status", "commit_sha"}
    BY DEF GateFields
  <2>4. QED
    BY <2>2, <2>3 DEF ValidValue
<1>7. /\ DOMAIN FinishPayload = {f \in given : result[f] # NoValue}
      /\ \A f \in DOMAIN FinishPayload : FinishPayload[f] = result[f]
  BY <1>5 DEF FinishPayload, Payload
<1>8. SqlEvent("run.completed") = [kind |-> "run.completed", payload |-> FinishPayload]
  BY DEF SqlEvent, SqlPayload
<1>9. given \subseteq GateFields \cup ReferenceFields
  BY DEF ReferenceFields
<1> HIDE DEF e, given
<1>10. QED
  BY <1>6, <1>7, <1>8, <1>9, SqlFields DEF ValidEvent, Present, Fields

(* What the table has of a run is within the contract, but for the result  *)
(* of a blocked card.                                                      *)
THEOREM AuditsMeetContract == ExecSpec => []AuditMeetsContract
<1>1. ExecSpec => []TypeOK /\ []CompletedIsEarned /\ []TrailMatchesRow
  BY ExecutionImplementsRuntime, RuntimeTypes, CompletionsAreEarned, RuntimeInvariant, PTL
  DEF ImplementsRuntime, RuntimeInv, StoreInv
<1>2. ExecSpec => []ExitInv /\ []BatchRanked
  BY ExecutionUsesAdapter, ExitInvariant, DispatchesRanked, PTL
<1>3. ASSUME TypeOK, ProofInv, ExecInv, ExitInv, BatchRanked, CompletedIsEarned, TrailMatchesRow
      PROVE  AuditMeetsContract
  <2>1. Accepted(stored)
    BY <1>3, StoredAccepted DEF BatchRanked
  <2>2. ASSUME Written("run.completed"), snapshot.status # "blocked"
        PROVE  ValidEvent(SqlEvent("run.completed"))
    <3>1. agent_runs[Caller].status = "completed"
      <4> DEFINE trail == agent_events[Caller]
                 status == agent_runs[Caller].status
      <4>1. PICK k \in DOMAIN trail : trail[k] = "run.completed"
        BY <2>2 DEF Written
      <4>2. k \in Endings(trail)
        BY <4>1 DEF Endings, EndingEvents
      <4>3. Accounts(trail, status)
        BY <1>3, CallerAssumption DEF TrailMatchesRow
      <4>4. status \in FinalStatuses
        BY <4>2, <4>3 DEF Accounts
      <4>5. Explains("run.completed", status)
        BY <4>1, <4>2, <4>3, <4>4 DEF Accounts
      <4>6. QED
        BY <4>4, <4>5 DEF Explains, FinalEvent, FinalStatuses
    <3>2. at = "returned" /\ Accepted(events)
      BY <1>3, <3>1, CompletedTrail
    <3>3. QED
      BY <1>3, <2>2, <3>2, FinishValid
  <2>3. QED
    BY <2>1, <2>2, SqlEventsValid DEF AuditMeetsContract
<1>4. QED
  BY ExecutionBatches, ExecutionInvariant, <1>1, <1>2, <1>3, PTL

-------------------------------------------------------------------------------
(* What the composition inherits *)

(* The call with its adapter has what was proved of the runtime and of the *)
(* adapter: completions are earned, answers are true, a beating pulse      *)
(* holds the lock, blocked issues show, trails begin with their claim.     *)
THEOREM ExecutionIsSafe ==
  ExecSpec => [](/\ CompletedIsEarned /\ AnswersAreTrue
                 /\ BeatingHoldsLock /\ ParkedIsShown
                 /\ \A r \in Runs : TrailOpens(r))
BY ExecutionImplementsRuntime, CompletionsAreEarned, AnswersHold, BeatingPulseHolds, ParkedShows,
   TrailsOpenWithTheirClaim, PTL DEF ImplementsRuntime

(* And its steps only go forward: those of the call, those of the dispatch *)
(* within it, and those of the lock a call leaves behind; the tables stay  *)
(* the abstract lease.                                                     *)
THEOREM ExecutionOnlyAdvances ==
  ExecSpec => /\ CallsOnlyAdvance
              /\ DispatchOnlyAdvances
              /\ OrphansRunOut
              /\ ImplementsLease
BY ExecutionImplementsRuntime, ExecutionUsesAdapter, CallsAdvance, DispatchesAdvance,
   OrphanLocksRunOut, RuntimeImplementsLease, PTL DEF ImplementsRuntime
===============================================================================
