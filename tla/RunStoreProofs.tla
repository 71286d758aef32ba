---------------------------- MODULE RunStoreProofs ----------------------------
(***************************************************************************)
(* Proofs about RunStore, for any number of issues and runs and any TTL:   *)
(* its inductive invariant, that ended rows are final, that the store      *)
(* implements IssueLease, that a lost lock stays lost, and whom refused    *)
(* claims name in their events.                                            *)
(***************************************************************************)
EXTENDS RunStore, TLAPS

(* Appending an event that ends nothing keeps a trail in line with a status. *)
LEMMA QuietEvent ==
  ASSUME NEW trail \in Seq(EventKinds), NEW kind \in EventKinds \ EndingEvents,
         NEW status, Accounts(trail, status)
  PROVE  /\ Append(trail, kind) \in Seq(EventKinds)
         /\ Accounts(Append(trail, kind), status)
<1> DEFINE longer == Append(trail, kind)
<1>1. /\ longer \in Seq(EventKinds)
      /\ DOMAIN longer = 1 .. Len(trail) + 1
      /\ DOMAIN trail = 1 .. Len(trail)
      /\ Len(trail) \in Nat
      /\ \A k \in 1 .. Len(trail) : longer[k] = trail[k]
      /\ longer[Len(trail) + 1] = kind
  OBVIOUS
<1>2. Endings(longer) = Endings(trail)
  BY <1>1 DEF Endings
<1>3. \A k \in Endings(trail) : longer[k] = trail[k]
  BY <1>1 DEF Endings
<1>4. QED
  BY <1>1, <1>2, <1>3 DEF Accounts

(* Appending the event that ends an open run accounts for its new status. *)
LEMMA EndingEvent ==
  ASSUME NEW trail \in Seq(EventKinds), NEW kind \in EndingEvents,
         NEW before, before \notin FinalStatuses, Accounts(trail, before),
         NEW status \in FinalStatuses, Explains(kind, status)
  PROVE  /\ Append(trail, kind) \in Seq(EventKinds)
         /\ Accounts(Append(trail, kind), status)
<1> DEFINE longer == Append(trail, kind)
<1>1. /\ longer \in Seq(EventKinds)
      /\ DOMAIN longer = 1 .. Len(trail) + 1
      /\ DOMAIN trail = 1 .. Len(trail)
      /\ Len(trail) \in Nat
      /\ \A k \in 1 .. Len(trail) : longer[k] = trail[k]
      /\ longer[Len(trail) + 1] = kind
  BY DEF EventKinds
<1>2. Endings(trail) = {}
  BY DEF Accounts
<1>3. Endings(longer) = {Len(trail) + 1}
  BY <1>1, <1>2 DEF Endings
<1>4. QED
  BY <1>1, <1>3 DEF Accounts

(* Two open statuses are accounted for by the same trails, and so are a    *)
(* blocked run and the canceled one the operator makes of it.              *)
LEMMA SameTrail ==
  ASSUME NEW trail
  PROVE  /\ Accounts(trail, "absent") => Accounts(trail, "running")
         /\ Accounts(trail, "blocked") => Accounts(trail, "canceled")
BY DEF Accounts, Explains, FinalEvent, FinalStatuses

LEMMA EventKindsKnown ==
  /\ {"run.created", "lock.acquired", "run.started", "lock.released",
      "lock.recovered", "lock.rejected"} \subseteq EventKinds \ EndingEvents
  /\ WorkerEvents \subseteq EventKinds \ EndingEvents
BY DEF EventKinds, EndingEvents, WorkerEvents

(* The initial tables satisfy the invariant. *)
LEMMA StoreInitInv == StoreInit => StoreInv
<1> SUFFICES ASSUME StoreInit PROVE StoreInv
  OBVIOUS
<1> USE RunsAssumption, TTLAssumption DEF StoreInit, NoRow, NoLock
<1>1. StoreTypeOK
  BY DEF StoreTypeOK, Row, Lock, Statuses, Gates
<1>2. SettledRows /\ OneActiveRun /\ LockIffRunning
  BY DEF SettledRows, OneActiveRun, LockIffRunning, Active, ActiveStatuses
<1>3. TrailMatchesRow
  BY DEF TrailMatchesRow, Accounts, Endings, FinalStatuses
<1>4. QED
  BY <1>1, <1>2, <1>3 DEF StoreInv

(* What the invariant says of the run a lock row names. *)
LEMMA LockedRun ==
  ASSUME StoreInv, NEW i \in Issues, Locked(i)
  PROVE  /\ locks[i].run \in Runs
         /\ IssueOf[locks[i].run] = i
         /\ agent_runs[locks[i].run].status = "running"
         /\ \A r \in Runs : Active(r) /\ IssueOf[r] = i => r = locks[i].run
<1>1. locks[i].run \in Runs
  BY DEF StoreInv, StoreTypeOK, Lock, Locked
<1>2. /\ IssueOf[locks[i].run] = i
      /\ agent_runs[locks[i].run].status = "running"
  BY <1>1 DEF StoreInv, LockIffRunning
<1>3. \A r \in Runs : Active(r) /\ IssueOf[r] = i => r = locks[i].run
  BY <1>1, <1>2 DEF StoreInv, OneActiveRun, Active, ActiveStatuses
<1>4. QED
  BY <1>1, <1>2, <1>3

(* An open row that a finish finds owns the lock and is running. *)
LEMMA OpenIsRunning ==
  ASSUME StoreInv, NEW r \in Runs, agent_runs[r].status \in OpenStatuses
  PROVE  agent_runs[r].status = "running"
BY DEF StoreInv, SettledRows, OpenStatuses

(* One lemma per action of the store: it preserves the invariant. *)
LEMMA ClaimGrantedInv ==
  ASSUME StoreInv, NEW r \in Runs, ClaimGranted(r)
  PROVE  StoreInv'
<1> USE RunsAssumption, TTLAssumption DEF ClaimGranted
<1> DEFINE i == IssueOf[r]
           trail == agent_events[r]
           longer == Append(Append(Append(trail, "run.created"), "lock.acquired"), "run.started")
<1>0. /\ i \in Issues /\ agent_runs[r].status = "absent"
      /\ agent_runs \in [Runs -> Row] /\ locks \in [Issues -> Lock]
      /\ agent_events \in [Runs -> Seq(EventKinds)] /\ rejecting \in SUBSET Rejection
      /\ agent_events' = [agent_events EXCEPT ![r] = longer]
  BY DEF StoreInv, StoreTypeOK, UniqueViolation
<1>1. /\ longer \in Seq(EventKinds)
      /\ Accounts(longer, "running")
  <2>1. Accounts(trail, "running")
    BY <1>0, SameTrail DEF StoreInv, TrailMatchesRow
  <2>2. /\ Append(trail, "run.created") \in Seq(EventKinds)
        /\ Accounts(Append(trail, "run.created"), "running")
    BY <1>0, <2>1, QuietEvent, EventKindsKnown
  <2>3. /\ Append(Append(trail, "run.created"), "lock.acquired") \in Seq(EventKinds)
        /\ Accounts(Append(Append(trail, "run.created"), "lock.acquired"), "running")
    BY <2>2, QuietEvent, EventKindsKnown
  <2>4. QED
    BY <2>3, QuietEvent, EventKindsKnown
<1>2. StoreTypeOK'
  <2>1. agent_runs' \in [Runs -> Row]
    BY <1>0 DEF Row, Statuses, ActiveStatuses
  <2>2. locks' \in [Issues -> Lock]
    BY <1>0 DEF Lock
  <2>3. QED
    BY <1>0, <1>1, <2>1, <2>2 DEF StoreTypeOK
<1>3. SettledRows'
  BY <1>0 DEF StoreInv, SettledRows, Row
<1>4. LockIffRunning'
  <2> SUFFICES ASSUME NEW j \in Issues, NEW q \in Runs
               PROVE  locks'[j].run = q <=> IssueOf[q] = j /\ agent_runs'[q].status = "running"
    BY DEF LockIffRunning
  <2>1. CASE j = i /\ q = r
    BY <1>0, <2>1 DEF Row
  <2>2. CASE j = i /\ q # r
    BY <1>0, <2>2 DEF UniqueViolation, RunsOf, Active, ActiveStatuses
  <2>3. CASE j # i
    BY <1>0, <2>3 DEF StoreInv, LockIffRunning
  <2>4. QED
    BY <2>1, <2>2, <2>3
<1>5. OneActiveRun'
  BY <1>0 DEF StoreInv, OneActiveRun, UniqueViolation, RunsOf, Active, Row
<1>6. TrailMatchesRow'
  BY <1>0, <1>1 DEF StoreInv, TrailMatchesRow, Row
<1>7. QED
  BY <1>2, <1>3, <1>4, <1>5, <1>6 DEF StoreInv

(* The steps that change no row: the trails stay in line. *)
LEMMA RowsKeptInv ==
  ASSUME StoreInv, UNCHANGED agent_runs, StoreTypeOK',
         \A i \in Issues : locks'[i].run = locks[i].run,
         TrailMatchesRow'
  PROVE  StoreInv'
BY DEF StoreInv, SettledRows, LockIffRunning, OneActiveRun, Active

LEMMA ClaimRefusedInv ==
  ASSUME StoreInv, NEW r \in Runs,
         ClaimRefused(r) \/ ClaimReadsHolder(r) \/ ClaimAudits(r)
  PROVE  StoreInv'
<1> USE RunsAssumption DEF Rejection
<1>1. CASE ClaimRefused(r)
  BY <1>1, RowsKeptInv DEF ClaimRefused, StoreInv, StoreTypeOK, TrailMatchesRow
<1>2. CASE ClaimReadsHolder(r)
  <2>1. rejecting' \in SUBSET Rejection
    <3>1. Holder(r) \in Runs \cup {NoRun}
      <4>1. IssueOf[r] \in Issues
        OBVIOUS
      <4>2. CASE Locked(IssueOf[r])
        BY <4>1, <4>2, LockedRun DEF Holder
      <4>3. CASE ~Locked(IssueOf[r])
        BY <4>3 DEF Holder, RunsOf
      <4>4. QED
        BY <4>2, <4>3
    <3>2. QED
      BY <1>2, <3>1 DEF ClaimReadsHolder, StoreInv, StoreTypeOK
  <2>2. QED
    BY <1>2, <2>1, RowsKeptInv DEF ClaimReadsHolder, StoreInv, StoreTypeOK, TrailMatchesRow
<1>3. CASE ClaimAudits(r)
  <2>1. PICK x \in rejecting :
          /\ x.holder # NoRun
          /\ rejecting' = rejecting \ {x}
          /\ agent_events' = [agent_events EXCEPT ![x.holder] = Append(@, "lock.rejected")]
          /\ UNCHANGED <<agent_runs, locks>>
    BY <1>3 DEF ClaimAudits
  <2>2. x.holder \in Runs
    BY <2>1 DEF StoreInv, StoreTypeOK
  <2>3. /\ Append(agent_events[x.holder], "lock.rejected") \in Seq(EventKinds)
        /\ Accounts(Append(agent_events[x.holder], "lock.rejected"),
                    agent_runs[x.holder].status)
    BY <2>2, QuietEvent, EventKindsKnown DEF StoreInv, StoreTypeOK, TrailMatchesRow
  <2>4. StoreTypeOK' /\ TrailMatchesRow'
    BY <2>1, <2>2, <2>3 DEF StoreInv, StoreTypeOK, TrailMatchesRow
  <2>5. QED
    BY <2>1, <2>4, RowsKeptInv
<1>4. QED
  BY <1>1, <1>2, <1>3

LEMMA HeartbeatInv ==
  ASSUME StoreInv, NEW r \in Runs, NEW ok \in BOOLEAN, Heartbeat(r, ok)
  PROVE  StoreInv'
<1> USE RunsAssumption, TTLAssumption DEF Heartbeat
<1>1. StoreTypeOK'
  BY DEF StoreInv, StoreTypeOK, Lock
<1>2. \A i \in Issues : locks'[i].run = locks[i].run
  BY DEF StoreInv, StoreTypeOK, Lock, Owns
<1>3. TrailMatchesRow'
  BY DEF StoreInv, TrailMatchesRow
<1>4. QED
  BY <1>1, <1>2, <1>3, RowsKeptInv

LEMMA PostEventInv ==
  ASSUME StoreInv, NEW r \in Runs, NEW kind \in WorkerEvents, PostEvent(r, kind)
  PROVE  StoreInv'
<1>1. /\ Append(agent_events[r], kind) \in Seq(EventKinds)
      /\ Accounts(Append(agent_events[r], kind), agent_runs[r].status)
  BY QuietEvent, EventKindsKnown DEF StoreInv, StoreTypeOK, TrailMatchesRow
<1>2. StoreTypeOK' /\ TrailMatchesRow'
  BY <1>1 DEF PostEvent, StoreInv, StoreTypeOK, TrailMatchesRow
<1>3. QED
  BY <1>2, RowsKeptInv DEF PostEvent

LEMMA TickInv ==
  ASSUME StoreInv, Tick
  PROVE  StoreInv'
<1> USE TTLAssumption DEF Tick
<1>1. StoreTypeOK' /\ \A i \in Issues : locks'[i].run = locks[i].run
  BY DEF StoreInv, StoreTypeOK, Lock
<1>2. TrailMatchesRow'
  BY DEF StoreInv, TrailMatchesRow
<1>3. QED
  BY <1>1, <1>2, RowsKeptInv

(* A running run ends: finish and recovery change the row, the trail and   *)
(* the lock together.                                                      *)
LEMMA RunEndsInv ==
  ASSUME StoreInv, NEW r \in Runs, agent_runs[r].status = "running",
         NEW row \in Row, row.status \in FinalStatuses,
         NEW ending \in EndingEvents, Explains(ending, row.status),
         NEW closing \in {"lock.released", "lock.recovered"},
         agent_runs' = [agent_runs EXCEPT ![r] = row],
         agent_events' = [agent_events EXCEPT ![r] = Append(Append(@, ending), closing)],
         locks' = [locks EXCEPT ![IssueOf[r]] = NoLock],
         rejecting' = rejecting
  PROVE  StoreInv'
<1> USE RunsAssumption, TTLAssumption
<1>0. /\ IssueOf[r] \in Issues
      /\ agent_runs \in [Runs -> Row] /\ locks \in [Issues -> Lock]
      /\ agent_events \in [Runs -> Seq(EventKinds)] /\ rejecting \in SUBSET Rejection
      /\ locks[IssueOf[r]].run = r
  BY DEF StoreInv, StoreTypeOK, LockIffRunning
<1>1. /\ Append(Append(agent_events[r], ending), closing) \in Seq(EventKinds)
      /\ Accounts(Append(Append(agent_events[r], ending), closing), row.status)
  <2>1. /\ Append(agent_events[r], ending) \in Seq(EventKinds)
        /\ Accounts(Append(agent_events[r], ending), row.status)
    <3>1. "running" \notin FinalStatuses
      BY DEF FinalStatuses
    <3>2. Accounts(agent_events[r], "running")
      BY DEF StoreInv, TrailMatchesRow
    <3>3. QED
      BY <1>0, <3>1, <3>2, EndingEvent
  <2>2. closing \in EventKinds \ EndingEvents
    BY EventKindsKnown
  <2>3. QED
    BY <2>1, <2>2, QuietEvent
<1>2. StoreTypeOK'
  <2>1. NoLock \in Lock
    BY DEF NoLock, Lock
  <2>2. QED
    BY <1>0, <1>1, <2>1 DEF StoreTypeOK
<1>3. SettledRows'
  BY <1>0 DEF StoreInv, SettledRows, FinalStatuses
<1>4. LockIffRunning'
  <2> SUFFICES ASSUME NEW i \in Issues, NEW q \in Runs
               PROVE  locks'[i].run = q <=> IssueOf[q] = i /\ agent_runs'[q].status = "running"
    BY DEF LockIffRunning
  <2>1. CASE i = IssueOf[r]
    BY <1>0, <2>1 DEF NoLock, FinalStatuses, StoreInv, LockIffRunning
  <2>2. CASE i # IssueOf[r]
    BY <1>0, <2>2 DEF StoreInv, LockIffRunning
  <2>3. QED
    BY <2>1, <2>2
<1>5. OneActiveRun'
  BY <1>0 DEF StoreInv, OneActiveRun, Active, ActiveStatuses
<1>6. TrailMatchesRow'
  BY <1>0, <1>1 DEF StoreInv, TrailMatchesRow
<1>7. QED
  BY <1>2, <1>3, <1>4, <1>5, <1>6 DEF StoreInv

LEMMA FinishInv ==
  ASSUME StoreInv, NEW r \in Runs, NEW final \in FinalStatuses,
         NEW tests \in Gates, NEW review \in Gates, NEW ok \in BOOLEAN,
         Finish(r, final, tests, review, ok)
  PROVE  StoreInv'
<1>1. CASE ok
  <2> DEFINE row == [status |-> final, tests |-> tests, review |-> review]
  <2>1. agent_runs[r].status = "running"
    BY <1>1, OpenIsRunning DEF Finish
  <2>2. row \in Row /\ row.status \in FinalStatuses
    BY DEF Row, Statuses
  <2>3. FinalEvent(final) \in EndingEvents /\ Explains(FinalEvent(final), row.status)
    BY DEF FinalEvent, EndingEvents, FinalStatuses, Explains
  <2>4. /\ agent_runs' = [agent_runs EXCEPT ![r] = row]
        /\ agent_events' = [agent_events EXCEPT ![r] =
             Append(Append(@, FinalEvent(final)), "lock.released")]
        /\ locks' = [locks EXCEPT ![IssueOf[r]] = NoLock]
        /\ rejecting' = rejecting
    BY <1>1 DEF Finish
  <2> HIDE DEF row
  <2>5. QED
    BY <2>1, <2>2, <2>3, <2>4, RunEndsInv
<1>2. CASE ~ok
  BY <1>2, RowsKeptInv DEF Finish, StoreInv, StoreTypeOK, TrailMatchesRow
<1>3. QED
  BY <1>1, <1>2

LEMMA RecoverInv ==
  ASSUME StoreInv, NEW i \in Issues, NEW ok \in BOOLEAN, Recover(i, ok)
  PROVE  StoreInv'
<1>1. CASE ok
  <2> DEFINE q == locks[i].run
             row == [agent_runs[q] EXCEPT !.status = "failed"]
  <2>1. Locked(i)
    BY <1>1 DEF Recover
  <2>2. q \in Runs /\ IssueOf[q] = i /\ agent_runs[q].status = "running"
    BY <2>1, LockedRun
  <2>3. agent_runs \in [Runs -> Row]
    BY DEF StoreInv, StoreTypeOK
  <2>4. row \in Row /\ row.status \in FinalStatuses /\ row.status = "failed"
    BY <2>2, <2>3 DEF Row, Statuses, FinalStatuses
  <2>5. "lock.expired" \in EndingEvents /\ Explains("lock.expired", row.status)
    BY <2>4 DEF EndingEvents, Explains
  <2>6. /\ agent_runs' = [agent_runs EXCEPT ![q] = row]
        /\ agent_events' = [agent_events EXCEPT ![q] =
             Append(Append(@, "lock.expired"), "lock.recovered")]
        /\ locks' = [locks EXCEPT ![IssueOf[q]] = NoLock]
        /\ rejecting' = rejecting
    BY <1>1, <2>2, <2>3 DEF Recover
  <2> HIDE DEF row, q
  <2>7. QED
    BY <2>2, <2>4, <2>5, <2>6, RunEndsInv
<1>2. CASE ~ok
  BY <1>2, RowsKeptInv DEF Recover, StoreInv, StoreTypeOK, TrailMatchesRow
<1>3. QED
  BY <1>1, <1>2

LEMMA OperatorReleaseInv ==
  ASSUME StoreInv, NEW i \in Issues, OperatorRelease(i)
  PROVE  StoreInv'
<1> USE RunsAssumption DEF OperatorRelease, Blocked
<1>0. /\ agent_runs \in [Runs -> Row]
      /\ \A r \in Runs : agent_runs'[r] =
           IF IssueOf[r] = i /\ Blocked(r)
           THEN [agent_runs[r] EXCEPT !.status = "canceled"] ELSE agent_runs[r]
  BY DEF StoreInv, StoreTypeOK
<1>1. \A r \in Runs : /\ agent_runs[r] \in Row
                     /\ agent_runs'[r] \in Row
                     /\ \/ agent_runs'[r].status = agent_runs[r].status
                        \/ /\ agent_runs[r].status = "blocked"
                           /\ agent_runs'[r].status = "canceled"
  BY <1>0 DEF Row, Statuses, FinalStatuses
<1>2. StoreTypeOK'
  <2>1. agent_runs' \in [Runs -> Row]
    BY <1>1
  <2>2. QED
    BY <2>1 DEF StoreInv, StoreTypeOK
<1>3. SettledRows'
  BY <1>1 DEF StoreInv, SettledRows
<1>4. LockIffRunning'
  BY <1>1 DEF StoreInv, LockIffRunning
<1>5. OneActiveRun'
  BY <1>1 DEF StoreInv, OneActiveRun, Active, ActiveStatuses
<1>6. TrailMatchesRow'
  <2> SUFFICES ASSUME NEW r \in Runs
               PROVE  Accounts(agent_events[r], agent_runs'[r].status)
    BY DEF TrailMatchesRow
  <2>1. Accounts(agent_events[r], agent_runs[r].status)
    BY DEF StoreInv, TrailMatchesRow
  <2>2. CASE agent_runs'[r].status = agent_runs[r].status
    BY <2>1, <2>2
  <2>3. CASE agent_runs[r].status = "blocked" /\ agent_runs'[r].status = "canceled"
    BY <2>1, <2>3, SameTrail
  <2>4. QED
    BY <1>1, <2>2, <2>3
<1>7. QED
  BY <1>2, <1>3, <1>4, <1>5, <1>6 DEF StoreInv

(* Every step of the store preserves the invariant. *)
LEMMA StoreStepInv ==
  ASSUME StoreInv, [StoreNext]_storeVars
  PROVE  StoreInv'
<1>1. CASE UNCHANGED storeVars
  BY <1>1, RowsKeptInv DEF storeVars, StoreInv, StoreTypeOK, TrailMatchesRow
<1>2. CASE \E r \in Runs : ClaimGranted(r)
  BY <1>2, ClaimGrantedInv
<1>3. CASE \E r \in Runs : ClaimRefused(r) \/ ClaimReadsHolder(r) \/ ClaimAudits(r)
  BY <1>3, ClaimRefusedInv
<1>4. CASE \E r \in Runs, ok \in BOOLEAN : Heartbeat(r, ok)
  BY <1>4, HeartbeatInv
<1>5. CASE \E r \in Runs, final \in FinalStatuses, tests, review \in Gates, ok \in BOOLEAN :
             Finish(r, final, tests, review, ok)
  BY <1>5, FinishInv
<1>6. CASE \E r \in Runs, kind \in WorkerEvents : PostEvent(r, kind)
  BY <1>6, PostEventInv
<1>7. CASE \E i \in Issues : OperatorRelease(i)
  BY <1>7, OperatorReleaseInv
<1>8. CASE \E i \in Issues, ok \in BOOLEAN : Recover(i, ok)
  BY <1>8, RecoverInv
<1>9. CASE Tick
  BY <1>9, TickInv
<1>10. QED
  <2>1. "completed" \in FinalStatuses /\ "missing" \in Gates
    BY DEF FinalStatuses, Gates
  <2>2. QED
    BY <1>1, <1>2, <1>3, <1>4, <1>5, <1>6, <1>7, <1>8, <1>9, <2>1 DEF StoreNext

(* In every state of every behaviour of the store, the tables agree: types *)
(* are right, a lock is the running run's, one run of an issue is active,  *)
(* and each trail has the one ending event its row calls for.              *)
THEOREM StoreInvariant == StoreSpec => []StoreInv
<1>1. StoreInv /\ [StoreNext]_storeVars => StoreInv'
  BY StoreStepInv
<1>2. QED
  BY StoreInitInv, <1>1, PTL DEF StoreSpec

(* The tables are well typed. *)
THEOREM StoreTypes == StoreSpec => []StoreTypeOK
<1>1. StoreInv => StoreTypeOK
  BY DEF StoreInv
<1>2. QED
  BY StoreInvariant, <1>1, PTL

(* An issue has a lock row exactly while one of its runs is running. *)
THEOREM LocksFollowRuns == StoreSpec => []LockIffRunning
<1>1. StoreInv => LockIffRunning
  BY DEF StoreInv
<1>2. QED
  BY StoreInvariant, <1>1, PTL

(* The audit trail of every run accounts for its row. *)
THEOREM TrailsAccount == StoreSpec => []TrailMatchesRow
<1>1. StoreInv => TrailMatchesRow
  BY DEF StoreInv
<1>2. QED
  BY StoreInvariant, <1>1, PTL

-------------------------------------------------------------------------------
(* Ended rows *)

LEMMA StepKeepsRows ==
  ASSUME StoreInv, StoreNext, NEW r \in Runs
  PROVE  RowKept(r)
<1> SUFFICES ASSUME Ended(r)
             PROVE  \/ agent_runs'[r] = agent_runs[r]
                    \/ /\ Blocked(r)
                       /\ agent_runs'[r] = [agent_runs[r] EXCEPT !.status = "canceled"]
  BY DEF RowKept
<1> USE DEF Ended
<1>0. agent_runs \in [Runs -> Row] /\ agent_runs[r].status \notin {"absent", "running"}
  BY DEF StoreInv, StoreTypeOK, FinalStatuses
<1>1. CASE \E q \in Runs : ClaimGranted(q)
  BY <1>0, <1>1 DEF ClaimGranted, UniqueViolation
<1>2. CASE UNCHANGED agent_runs
  BY <1>2
<1>3. CASE \E q \in Runs, final \in FinalStatuses, tests, review \in Gates, ok \in BOOLEAN :
             Finish(q, final, tests, review, ok)
  BY <1>0, <1>3, OpenIsRunning DEF Finish
<1>4. CASE \E i \in Issues : OperatorRelease(i)
  BY <1>0, <1>4 DEF OperatorRelease
<1>5. CASE \E i \in Issues, ok \in BOOLEAN : Recover(i, ok)
  BY <1>0, <1>5, LockedRun DEF Recover
<1>6. QED
  <2>1. "completed" \in FinalStatuses /\ "missing" \in Gates
    BY DEF FinalStatuses, Gates
  <2>2. QED
    BY <1>1, <1>2, <1>3, <1>4, <1>5, <2>1
    DEF StoreNext, ClaimRefused, ClaimReadsHolder, ClaimAudits, Heartbeat, PostEvent, Tick

(* No step rewrites an ended row, except the operator's release of a       *)
(* blocked one.                                                            *)
THEOREM EndedRowsAreFinal == StoreSpec => RowsAreFinal
<1>1. StoreInv /\ [StoreNext]_storeVars => [EndedRowsKept]_storeVars
  BY StepKeepsRows DEF EndedRowsKept
<1>2. QED
  BY StoreInvariant, <1>1, PTL DEF StoreSpec, RowsAreFinal

-------------------------------------------------------------------------------
(* The store implements IssueLease *)

(* What the lease of an issue is, case by case. *)
LEMMA LeaseCases ==
  ASSUME StoreInv, NEW i \in Issues
  PROVE  /\ Locked(i) => LeaseOf(i) = Lease!Held(locks[i].run)
         /\ ~Locked(i) /\ (\A r \in RunsOf(i) : ~Blocked(r)) => LeaseOf(i) = Lease!Free
         /\ \A r \in RunsOf(i) : Blocked(r) => LeaseOf(i) = Lease!Parked(r)
<1>1. ASSUME NEW r \in RunsOf(i), Blocked(r)
      PROVE  LeaseOf(i) = Lease!Parked(r)
  <2>1. r \in Runs /\ IssueOf[r] = i /\ Active(r) /\ agent_runs[r].status # "running"
    BY <1>1 DEF RunsOf, Blocked, Active, ActiveStatuses
  <2>2. ~Locked(i)
    BY <2>1, LockedRun
  <2>3. \A q \in RunsOf(i) : Blocked(q) => q = r
    BY <2>1 DEF StoreInv, OneActiveRun, RunsOf, Blocked, Active, ActiveStatuses
  <2>4. (CHOOSE q \in RunsOf(i) : Blocked(q)) = r
    BY <1>1, <2>3
  <2>5. QED
    BY <1>1, <2>2, <2>4 DEF LeaseOf, Lease!Parked
<1>2. QED
  BY <1>1 DEF LeaseOf, Lease!Held, Lease!Free

(* A run leaves the issues of others as they are. *)
LEMMA OtherIssues ==
  ASSUME NEW i \in Issues, locks'[i].run = locks[i].run,
         \A r \in RunsOf(i) : agent_runs'[r] = agent_runs[r]
  PROVE  LeaseOf(i)' = LeaseOf(i)
<1>1. Locked(i)' <=> Locked(i)
  BY DEF Locked
<1>2. \A r \in RunsOf(i) : Blocked(r)' <=> Blocked(r)
  BY DEF Blocked
<1>3. (CHOOSE r \in RunsOf(i) : Blocked(r)') = (CHOOSE r \in RunsOf(i) : Blocked(r))
  BY <1>2, Zenon
<1>4. QED
  BY <1>1, <1>2, <1>3, Zenon DEF LeaseOf

(* A step that changes the lease of issue i alone. *)
LEMMA OneIssueChanges ==
  ASSUME NEW i \in Issues, NEW new, LeaseOf(i)' = new,
         \A j \in Issues : j # i => LeaseOf(j)' = LeaseOf(j)
  PROVE  LeaseView' = [LeaseView EXCEPT ![i] = new]
BY DEF LeaseView

(* A granted claim takes a free issue. *)
LEMMA ClaimIsGrant ==
  ASSUME StoreInv, StoreInv', NEW r \in Runs, ClaimGranted(r)
  PROVE  Lease!Grant(r)
<1> USE RunsAssumption DEF ClaimGranted
<1>0. /\ IssueOf[r] \in Issues /\ agent_runs \in [Runs -> Row]
      /\ locks \in [Issues -> Lock] /\ NoRun # r
  BY DEF StoreInv, StoreTypeOK
<1>1. agent_runs[r].status = "absent"
  BY DEF UniqueViolation
<1>2. LeaseOf(IssueOf[r]) = Lease!Free
  <2>1. ~Locked(IssueOf[r]) /\ \A q \in RunsOf(IssueOf[r]) : ~Blocked(q)
    BY DEF UniqueViolation, Active, Blocked, ActiveStatuses
  <2>2. QED
    BY <1>0, <2>1, LeaseCases
<1>3. LeaseOf(IssueOf[r])' = Lease!Held(r)
  <2>1. locks'[IssueOf[r]].run = r
    BY <1>0
  <2>2. QED
    BY <1>0, <2>1, LeaseCases DEF Locked, LeaseOf, Lease!Held
<1>4. \A j \in Issues : j # IssueOf[r] => LeaseOf(j)' = LeaseOf(j)
  BY <1>0, OtherIssues DEF RunsOf
<1>5. Claimed' = Claimed \cup {r}
  BY <1>0 DEF Claimed, Row
<1>6. QED
  BY <1>0, <1>1, <1>2, <1>3, <1>4, <1>5, OneIssueChanges DEF Lease!Grant, Claimed, LeaseView

(* A run that ends releases its issue, and parks it when it ends blocked. *)
LEMMA RunEndIsReleaseOrPark ==
  ASSUME StoreInv, StoreInv', NEW r \in Runs, agent_runs[r].status = "running",
         agent_runs' = [agent_runs EXCEPT ![r] = agent_runs'[r]],
         agent_runs'[r].status \in FinalStatuses,
         locks' = [locks EXCEPT ![IssueOf[r]] = NoLock]
  PROVE  Lease!Release(IssueOf[r]) \/ Lease!Park(IssueOf[r])
<1> USE RunsAssumption
<1> DEFINE i == IssueOf[r]
<1>0. /\ i \in Issues /\ agent_runs \in [Runs -> Row]
      /\ locks \in [Issues -> Lock] /\ locks[i].run = r /\ NoRun # r
  BY DEF StoreInv, StoreTypeOK, LockIffRunning
<1>1. Locked(i) /\ LeaseOf(i) = Lease!Held(r)
  BY <1>0, LeaseCases DEF Locked
<1>2. ~Locked(i)'
  BY <1>0 DEF Locked, NoLock
<1>3. \A q \in RunsOf(i) : Blocked(q)' => q = r
  BY <1>0, <1>1, LockedRun DEF RunsOf, Blocked, Active, ActiveStatuses
<1>4. \A j \in Issues : j # i => LeaseOf(j)' = LeaseOf(j)
  BY <1>0, OtherIssues DEF RunsOf
<1>5. Claimed' = Claimed
  BY <1>0 DEF Claimed, FinalStatuses
<1>6. CASE Blocked(r)'
  <2>1. (CHOOSE q \in RunsOf(i) : Blocked(q)') = r
    BY <1>3, <1>6 DEF RunsOf
  <2>2. LeaseOf(i)' = Lease!Parked(r)
    BY <1>2, <1>6, <2>1 DEF LeaseOf, RunsOf, Lease!Parked
  <2>3. Lease!Park(i)
    BY <1>0, <1>1, <1>4, <1>5, <2>2, OneIssueChanges DEF Lease!Park, Lease!Held, LeaseView
  <2>4. QED
    BY <2>3
<1>7. CASE ~Blocked(r)'
  <2>1. LeaseOf(i)' = Lease!Free
    BY <1>2, <1>3, <1>7 DEF LeaseOf, Lease!Free
  <2>2. Lease!Release(i)
    BY <1>0, <1>1, <1>4, <1>5, <2>1, OneIssueChanges DEF Lease!Release, Lease!Held, LeaseView
  <2>3. QED
    BY <2>2
<1>8. QED
  BY <1>6, <1>7

(* The operator gives a parked issue back. *)
LEMMA OperatorIsUnpark ==
  ASSUME StoreInv, NEW i \in Issues, OperatorRelease(i)
  PROVE  Lease!Unpark(i)
<1> USE RunsAssumption DEF OperatorRelease
<1>0. /\ agent_runs \in [Runs -> Row]
      /\ \A r \in Runs : agent_runs'[r] =
           IF IssueOf[r] = i /\ Blocked(r)
           THEN [agent_runs[r] EXCEPT !.status = "canceled"] ELSE agent_runs[r]
      /\ locks' = locks
  BY DEF StoreInv, StoreTypeOK
<1>1. PICK r \in RunsOf(i) : Blocked(r)
  OBVIOUS
<1>2. LeaseOf(i) = Lease!Parked(r)
  BY <1>1, LeaseCases
<1>3. LeaseOf(i)' = Lease!Free
  <2>1. ~Locked(i)'
    BY <1>0, <1>1, LockedRun DEF Locked, RunsOf, Active, Blocked, ActiveStatuses
  <2>2. \A q \in RunsOf(i) : ~Blocked(q)'
    BY <1>0 DEF RunsOf, Blocked, Row
  <2>3. QED
    BY <2>1, <2>2 DEF LeaseOf, Lease!Free
<1>4. \A j \in Issues : j # i => LeaseOf(j)' = LeaseOf(j)
  BY <1>0, OtherIssues DEF RunsOf
<1>5. Claimed' = Claimed
  <2>1. \A q \in Runs : agent_runs'[q].status = "absent" <=> agent_runs[q].status = "absent"
    BY <1>0 DEF Row, Blocked
  <2>2. QED
    BY <2>1 DEF Claimed
<1>6. QED
  BY <1>2, <1>3, <1>4, <1>5, OneIssueChanges DEF Lease!Unpark, Lease!Parked, LeaseView

(* Steps that change neither a row nor whose lock it is leave the lease alone. *)
LEMMA LeaseKept ==
  ASSUME UNCHANGED agent_runs, \A i \in Issues : locks'[i].run = locks[i].run
  PROVE  UNCHANGED <<LeaseView, Claimed>>
<1>1. \A i \in Issues : LeaseOf(i)' = LeaseOf(i)
  BY OtherIssues DEF RunsOf
<1>2. Claimed' = Claimed
  BY DEF Claimed
<1>3. QED
  BY <1>1, <1>2 DEF LeaseView

(* Every step of the store is a step of the lease or leaves it alone. *)
LEMMA StoreStepIsLeaseStep ==
  ASSUME StoreInv, StoreInv', [StoreNext]_storeVars
  PROVE  [Lease!LeaseNext]_Lease!leaseVars
<1> USE RunsAssumption DEF Lease!LeaseNext, Lease!leaseVars
<1>1. CASE UNCHANGED storeVars
  BY <1>1, LeaseKept DEF storeVars
<1>2. CASE \E r \in Runs : ClaimGranted(r)
  BY <1>2, ClaimIsGrant
<1>3. CASE \E r \in Runs : ClaimRefused(r) \/ ClaimReadsHolder(r) \/ ClaimAudits(r)
  <2>1. UNCHANGED <<agent_runs, locks>>
    BY <1>3 DEF ClaimRefused, ClaimReadsHolder, ClaimAudits
  <2>2. QED
    BY <2>1, LeaseKept
<1>4. CASE \E r \in Runs, ok \in BOOLEAN : Heartbeat(r, ok)
  <2>1. agent_runs' = agent_runs /\ \A i \in Issues : locks'[i].run = locks[i].run
    BY <1>4 DEF Heartbeat, Owns, StoreInv, StoreTypeOK, Lock
  <2>2. QED
    BY <2>1, LeaseKept
<1>5. CASE \E r \in Runs, final \in FinalStatuses, tests, review \in Gates, ok \in BOOLEAN :
             Finish(r, final, tests, review, ok)
  <2>1. PICK r \in Runs, final \in FinalStatuses, tests \in Gates, review \in Gates, ok \in BOOLEAN :
          Finish(r, final, tests, review, ok)
    BY <1>5
  <2>2. CASE ok
    <3>1. agent_runs[r].status = "running"
      BY <2>1, <2>2, OpenIsRunning DEF Finish
    <3>2. /\ agent_runs' = [agent_runs EXCEPT ![r] = agent_runs'[r]]
          /\ agent_runs'[r].status \in FinalStatuses
          /\ locks' = [locks EXCEPT ![IssueOf[r]] = NoLock]
      BY <2>1, <2>2 DEF Finish, StoreInv, StoreTypeOK
    <3>3. QED
      BY <3>1, <3>2, RunEndIsReleaseOrPark
  <2>3. CASE ~ok
    BY <2>1, <2>3, LeaseKept DEF Finish
  <2>4. QED
    BY <2>2, <2>3
<1>6. CASE \E r \in Runs, kind \in WorkerEvents : PostEvent(r, kind)
  BY <1>6, LeaseKept DEF PostEvent
<1>7. CASE \E i \in Issues : OperatorRelease(i)
  BY <1>7, OperatorIsUnpark
<1>8. CASE \E i \in Issues, ok \in BOOLEAN : Recover(i, ok)
  <2>1. PICK i \in Issues, ok \in BOOLEAN : Recover(i, ok)
    BY <1>8
  <2>2. CASE ok
    <3> DEFINE q == locks[i].run
    <3>1. q \in Runs /\ IssueOf[q] = i /\ agent_runs[q].status = "running"
      BY <2>1, <2>2, LockedRun DEF Recover
    <3>2. /\ agent_runs' = [agent_runs EXCEPT ![q] = agent_runs'[q]]
          /\ agent_runs'[q].status \in FinalStatuses
          /\ locks' = [locks EXCEPT ![IssueOf[q]] = NoLock]
      BY <2>1, <2>2, <3>1 DEF Recover, StoreInv, StoreTypeOK, Row, FinalStatuses
    <3> HIDE DEF q
    <3>3. QED
      BY <3>1, <3>2, RunEndIsReleaseOrPark
  <2>3. CASE ~ok
    BY <2>1, <2>3, LeaseKept DEF Recover
  <2>4. QED
    BY <2>2, <2>3
<1>9. CASE Tick
  BY <1>9, LeaseKept DEF Tick
<1>10. QED
  <2>1. "completed" \in FinalStatuses /\ "missing" \in Gates
    BY DEF FinalStatuses, Gates
  <2>2. QED
    BY <1>1, <1>2, <1>3, <1>4, <1>5, <1>6, <1>7, <1>8, <1>9, <2>1 DEF StoreNext

(* The tables and their functions implement the abstract lease: a run gets *)
(* a free issue once, holds it until it ends or its lock expires, and a    *)
(* blocked run keeps the issue until the operator gives it back.           *)
THEOREM StoreImplementsLease == StoreSpec => ImplementsLease
<1>1. StoreInit => Lease!LeaseInit
  <2> SUFFICES ASSUME StoreInit PROVE Lease!LeaseInit
    OBVIOUS
  <2>1. \A i \in Issues : LeaseOf(i) = Lease!Free
    BY RunsAssumption DEF StoreInit, LeaseOf, Locked, RunsOf, Blocked, NoLock, NoRow, Lease!Free
  <2>2. Claimed = {}
    BY DEF StoreInit, Claimed, NoRow
  <2>3. QED
    BY <2>1, <2>2 DEF Lease!LeaseInit, LeaseView
<1>2. StoreInv /\ StoreInv' /\ [StoreNext]_storeVars => [Lease!LeaseNext]_Lease!leaseVars
  BY StoreStepIsLeaseStep
<1>3. QED
  BY StoreInvariant, <1>1, <1>2, PTL DEF StoreSpec, ImplementsLease, Lease!LeaseSpec

-------------------------------------------------------------------------------
(* A lost lock stays lost *)

(* Steps that change no lock's run give no lock to anybody. *)
LEMMA LockGoesToClaims ==
  ASSUME StoreInv, [StoreNext]_storeVars, NEW i \in Issues
  PROVE  \/ locks'[i].run \in {locks[i].run, NoRun}
         \/ \E r \in Runs : ClaimGranted(r) /\ IssueOf[r] = i /\ locks'[i].run = r
<1> USE RunsAssumption
<1>0. locks \in [Issues -> Lock]
  BY DEF StoreInv, StoreTypeOK
<1>1. CASE UNCHANGED locks
  BY <1>1
<1>2. ASSUME NEW r \in Runs, ClaimGranted(r)
      PROVE  \/ locks'[i].run \in {locks[i].run, NoRun}
             \/ ClaimGranted(r) /\ IssueOf[r] = i /\ locks'[i].run = r
  BY <1>0, <1>2 DEF ClaimGranted
<1>3. ASSUME NEW r \in Runs, NEW ok \in BOOLEAN, Heartbeat(r, ok)
      PROVE  locks'[i].run = locks[i].run
  BY <1>0, <1>3 DEF Heartbeat, Owns
<1>4. ASSUME NEW r \in Runs, NEW final, NEW tests, NEW review, NEW ok \in BOOLEAN,
             Finish(r, final, tests, review, ok)
      PROVE  locks'[i].run \in {locks[i].run, NoRun}
  <2>1. locks' = locks \/ locks' = [locks EXCEPT ![IssueOf[r]] = NoLock]
    BY <1>4, Zenon DEF Finish
  <2>2. QED
    BY <1>0, <2>1 DEF NoLock
<1>5. ASSUME NEW j \in Issues, NEW ok \in BOOLEAN, Recover(j, ok)
      PROVE  locks'[i].run \in {locks[i].run, NoRun}
  BY <1>0, <1>5 DEF Recover, NoLock
<1>6. CASE Tick
  BY <1>0, <1>6 DEF Tick
<1>7. CASE StoreNext
  <2>1. CASE \E r \in Runs, final \in FinalStatuses, tests, review \in Gates, ok \in BOOLEAN :
               Finish(r, final, tests, review, ok)
    BY <1>4, <2>1
  <2>2. "completed" \in FinalStatuses /\ "missing" \in Gates
    BY DEF FinalStatuses, Gates
  <2>3. QED
    BY <1>1, <1>2, <1>3, <1>5, <1>6, <1>7, <2>1, <2>2
    DEF StoreNext, ClaimRefused, ClaimReadsHolder, ClaimAudits, PostEvent, OperatorRelease
<1>8. QED
  BY <1>1, <1>7 DEF storeVars

(* A run that was claimed and has lost its lock never gets it back: no     *)
(* heartbeat, finish or recovery that comes late, and no claim of the same *)
(* run id, makes a run that was fenced out the holder again (sql 57-58,    *)
(* 96-97, 134-151).                                                        *)
LostStaysLost(r) ==
  agent_runs[r].status # "absent" /\ ~Owns(r) => locks'[IssueOf[r]].run # r
LostLocksStayLost == [][\A r \in Runs : LostStaysLost(r)]_storeVars

(* Whoever loses an issue has lost it for good. *)
THEOREM LostLocks == StoreSpec => LostLocksStayLost
<1>1. ASSUME StoreInv, [StoreNext]_storeVars, NEW r \in Runs
      PROVE  LostStaysLost(r)
  <2>1. IssueOf[r] \in Issues /\ r # NoRun
    BY RunsAssumption
  <2>2. agent_runs[r].status # "absent" => ~ClaimGranted(r)
    BY DEF ClaimGranted, UniqueViolation
  <2>3. QED
    BY <1>1, <2>1, <2>2, LockGoesToClaims DEF Owns, LostStaysLost
<1>2. StoreInv /\ [StoreNext]_storeVars => [\A r \in Runs : LostStaysLost(r)]_storeVars
  BY <1>1
<1>3. QED
  BY StoreInvariant, <1>2, PTL DEF StoreSpec, LostLocksStayLost

-------------------------------------------------------------------------------
(* Refused claims and the trail *)

(* No row is ever removed. *)
LEMMA RowsStay ==
  ASSUME StoreInv, [StoreNext]_storeVars, NEW r \in Runs, agent_runs[r].status # "absent"
  PROVE  agent_runs'[r].status # "absent"
<1>0. agent_runs \in [Runs -> Row]
  BY DEF StoreInv, StoreTypeOK
<1>1. CASE UNCHANGED agent_runs
  BY <1>1
<1>2. ASSUME NEW q \in Runs, ClaimGranted(q)
      PROVE  agent_runs'[r].status # "absent"
  BY <1>0, <1>2 DEF ClaimGranted, Row
<1>3. ASSUME NEW q \in Runs, NEW final \in FinalStatuses, NEW tests, NEW review,
             NEW ok \in BOOLEAN, Finish(q, final, tests, review, ok)
      PROVE  agent_runs'[r].status # "absent"
  <2>1. \/ agent_runs' = agent_runs
        \/ agent_runs' = [agent_runs EXCEPT ![q] =
             [status |-> final, tests |-> tests, review |-> review]]
    BY <1>3, Zenon DEF Finish
  <2>2. final # "absent"
    BY DEF FinalStatuses
  <2>3. QED
    BY <1>0, <2>1, <2>2
<1>4. ASSUME NEW i \in Issues, OperatorRelease(i)
      PROVE  agent_runs'[r].status # "absent"
  BY <1>0, <1>4 DEF OperatorRelease, Row
<1>5. ASSUME NEW i \in Issues, NEW ok \in BOOLEAN, Recover(i, ok)
      PROVE  agent_runs'[r].status # "absent"
  BY <1>0, <1>5 DEF Recover, Row
<1>6. CASE StoreNext
  <2>1. CASE \E q \in Runs, final \in FinalStatuses, tests, review \in Gates, ok \in BOOLEAN :
               Finish(q, final, tests, review, ok)
    BY <1>3, <2>1
  <2>2. "completed" \in FinalStatuses /\ "missing" \in Gates
    BY DEF FinalStatuses, Gates
  <2>3. QED
    BY <1>1, <1>2, <1>4, <1>5, <1>6, <2>1, <2>2
    DEF StoreNext, ClaimRefused, ClaimReadsHolder, ClaimAudits, Heartbeat, PostEvent, Tick
<1>7. QED
  BY <1>1, <1>6 DEF storeVars

(* The holder a refused claim reads is a run of its issue that has a row. *)
LEMMA HoldersStep ==
  ASSUME StoreInv, [StoreNext]_storeVars, NEW x \in rejecting',
         \A y \in rejecting : HolderOK(y)
  PROVE  HolderOK(x)'
<1> USE RunsAssumption
<1>1. CASE x \in rejecting
  <2>1. x.holder # NoRun => x.holder \in Runs
    BY <1>1 DEF StoreInv, StoreTypeOK, Rejection
  <2>2. QED
    BY <1>1, <2>1, RowsStay DEF HolderOK
<1>2. CASE x.holder = NoRun
  BY <1>2 DEF HolderOK
<1>3. ASSUME NEW r \in Runs, ClaimReadsHolder(r), x = [run |-> r, holder |-> Holder(r)],
             Holder(r) # NoRun
      PROVE  HolderOK(x)'
  <2>1. Holder(r) \in Runs /\ IssueOf[Holder(r)] = IssueOf[r]
    <3>1. CASE Locked(IssueOf[r])
      BY <3>1, LockedRun DEF Holder
    <3>2. CASE ~Locked(IssueOf[r])
      BY <1>3, <3>2 DEF Holder, RunsOf
    <3>3. QED
      BY <3>1, <3>2
  <2>2. agent_runs[Holder(r)].status # "absent"
    <3>1. CASE Locked(IssueOf[r])
      BY <3>1, LockedRun DEF Holder
    <3>2. CASE ~Locked(IssueOf[r])
      BY <1>3, <3>2 DEF Holder, Active, ActiveStatuses
    <3>3. QED
      BY <3>1, <3>2
  <2>3. agent_runs' = agent_runs
    BY <1>3 DEF ClaimReadsHolder
  <2>4. x.holder = Holder(r) /\ x.run = r
    BY <1>3
  <2>5. QED
    BY <2>1, <2>2, <2>3, <2>4 DEF HolderOK
<1>4. QED
  <2>1. CASE UNCHANGED rejecting
    BY <1>1, <2>1
  <2>2. ASSUME NEW r \in Runs, ClaimRefused(r)
        PROVE  x \in rejecting \/ x.holder = NoRun
    BY <2>2 DEF ClaimRefused
  <2>3. ASSUME NEW r \in Runs, ClaimReadsHolder(r)
        PROVE  HolderOK(x)'
    <3>1. \/ x \in rejecting
          \/ Holder(r) # NoRun /\ x = [run |-> r, holder |-> Holder(r)]
      BY <2>3 DEF ClaimReadsHolder
    <3>2. QED
      BY <1>1, <1>3, <2>3, <3>1
  <2>4. ASSUME NEW r \in Runs, ClaimAudits(r)
        PROVE  x \in rejecting
    BY <2>4 DEF ClaimAudits
  <2>5. QED
    BY <1>1, <1>2, <2>1, <2>2, <2>3, <2>4
    DEF StoreNext, storeVars, ClaimGranted, Heartbeat, Finish, PostEvent, OperatorRelease, Recover, Tick

(* A rejection is always written to a run that exists, and to the issue    *)
(* that was contended, whatever ends the holder meanwhile (sql 35-56).     *)
THEOREM RejectionsNameHolders == StoreSpec => []HoldersOK
<1>1. StoreInit => HoldersOK
  BY DEF StoreInit, HoldersOK
<1>2. StoreInv /\ HoldersOK /\ [StoreNext]_storeVars => HoldersOK'
  BY HoldersStep DEF HoldersOK
<1>3. QED
  BY StoreInvariant, <1>1, <1>2, PTL DEF StoreSpec

(* The events of a granted claim. *)
Opening == <<"run.created", "lock.acquired", "run.started">>

Opened(trail) ==
  /\ Len(trail) >= 3
  /\ \A k \in 1 .. 3 : trail[k] = Opening[k]
  /\ \A k \in 4 .. Len(trail) : trail[k] \notin {"run.created", "lock.acquired", "run.started"}

(* Any other event appended to an opened trail leaves it opened. *)
LEMMA OpenedGrows ==
  ASSUME NEW trail \in Seq(EventKinds), Opened(trail),
         NEW kind \in EventKinds \ {"run.created", "lock.acquired", "run.started"}
  PROVE  Append(trail, kind) \in Seq(EventKinds) /\ Opened(Append(trail, kind))
<1> DEFINE longer == Append(trail, kind)
<1>1. /\ longer \in Seq(EventKinds)
      /\ Len(longer) = Len(trail) + 1
      /\ Len(trail) \in Nat
      /\ \A k \in 1 .. Len(trail) : longer[k] = trail[k]
      /\ longer[Len(trail) + 1] = kind
  OBVIOUS
<1>2. QED
  BY <1>1 DEF Opened

LEMMA OpeningIsOpened ==
  Opened(Append(Append(Append(<<>>, "run.created"), "lock.acquired"), "run.started"))
BY DEF Opened, Opening

(* What a step does to the trail of a run that has a row. *)
LEMMA TrailGrows ==
  ASSUME StoreInv, HoldersOK, [StoreNext]_storeVars, NEW r \in Runs,
         agent_runs[r].status # "absent", Opened(agent_events[r])
  PROVE  Opened(agent_events'[r])
<1> USE RunsAssumption
<1>0. agent_events \in [Runs -> Seq(EventKinds)]
  BY DEF StoreInv, StoreTypeOK
<1> DEFINE Quiet == EventKinds \ {"run.created", "lock.acquired", "run.started"}
           trail == agent_events[r]
<1>1. ASSUME NEW kind \in Quiet, agent_events'[r] = Append(trail, kind)
      PROVE  Opened(agent_events'[r])
  BY <1>0, <1>1, OpenedGrows
<1>2. ASSUME NEW kind \in Quiet, NEW last \in Quiet,
             agent_events'[r] = Append(Append(trail, kind), last)
      PROVE  Opened(agent_events'[r])
  <2>1. Append(trail, kind) \in Seq(EventKinds) /\ Opened(Append(trail, kind))
    BY <1>0, OpenedGrows
  <2>2. QED
    BY <1>2, <2>1, OpenedGrows
<1>3. /\ WorkerEvents \subseteq Quiet
      /\ {"lock.rejected", "lock.expired", "lock.recovered", "lock.released"} \subseteq Quiet
      /\ \A final \in FinalStatuses : FinalEvent(final) \in Quiet
  BY DEF EventKinds, EndingEvents, WorkerEvents, FinalStatuses, FinalEvent
<1> HIDE DEF Quiet
<1>4. CASE agent_events'[r] = agent_events[r]
  BY <1>4
<1>5. ASSUME NEW q \in Runs, ClaimGranted(q)
      PROVE  agent_events'[r] = agent_events[r]
  BY <1>0, <1>5 DEF ClaimGranted, UniqueViolation
<1>6. ASSUME NEW q \in Runs, ClaimAudits(q)
      PROVE  agent_events'[r] \in {agent_events[r], Append(trail, "lock.rejected")}
  BY <1>0, <1>6 DEF ClaimAudits
<1>7. ASSUME NEW q \in Runs, NEW kind \in WorkerEvents, PostEvent(q, kind)
      PROVE  agent_events'[r] \in {agent_events[r], Append(trail, kind)}
  BY <1>0, <1>7 DEF PostEvent
<1>8. ASSUME NEW q \in Runs, NEW final \in FinalStatuses, NEW tests, NEW review,
             NEW ok \in BOOLEAN, Finish(q, final, tests, review, ok)
      PROVE  agent_events'[r] \in
               {agent_events[r], Append(Append(trail, FinalEvent(final)), "lock.released")}
  <2>1. \/ agent_events' = agent_events
        \/ agent_events' = [agent_events EXCEPT ![q] =
             Append(Append(@, FinalEvent(final)), "lock.released")]
    BY <1>8, Zenon DEF Finish
  <2>2. QED
    BY <1>0, <2>1
<1>9. ASSUME NEW i \in Issues, NEW ok \in BOOLEAN, Recover(i, ok)
      PROVE  agent_events'[r] \in
               {agent_events[r], Append(Append(trail, "lock.expired"), "lock.recovered")}
  BY <1>0, <1>9 DEF Recover
<1>10. CASE StoreNext
  <2>1. CASE \E q \in Runs, final \in FinalStatuses, tests, review \in Gates, ok \in BOOLEAN :
               Finish(q, final, tests, review, ok)
    BY <1>2, <1>3, <1>4, <1>8, <2>1
  <2>2. "completed" \in FinalStatuses /\ "missing" \in Gates
    BY DEF FinalStatuses, Gates
  <2>3. CASE \E q \in Runs : ClaimGranted(q) \/ ClaimAudits(q)
    BY <1>1, <1>3, <1>4, <1>5, <1>6, <2>3
  <2>4. CASE \E q \in Runs, kind \in WorkerEvents : PostEvent(q, kind)
    BY <1>1, <1>3, <1>4, <1>7, <2>4
  <2>5. CASE \E i \in Issues, ok \in BOOLEAN : Recover(i, ok)
    BY <1>2, <1>3, <1>4, <1>9, <2>5
  <2>6. QED
    BY <1>4, <1>10, <2>1, <2>2, <2>3, <2>4, <2>5
    DEF StoreNext, ClaimRefused, ClaimReadsHolder, Heartbeat, OperatorRelease, Tick
<1>11. QED
  BY <1>4, <1>10 DEF storeVars

===============================================================================
