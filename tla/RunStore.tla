------------------------------- MODULE RunStore -------------------------------
(***************************************************************************)
(* The Supabase side of the runtime: the tables agent_runs,                *)
(* agent_execution_locks and agent_events, and the four functions of       *)
(* sql/001_runtime_functions.sql that change them.  A function is one      *)
(* transaction and, thanks to the row lock on the issue's lock and the     *)
(* advisory lock of the issue, one step.  The exception is a refused       *)
(* claim: it reads the holder it audits only after the insert failed, and  *)
(* a finish may commit in between.                                         *)
(*                                                                         *)
(* Time is the number of ticks a lock has left: expires_at > now() is      *)
(* left > 0.                                                               *)
(***************************************************************************)
EXTENDS Integers, Sequences, FiniteSets

CONSTANTS
  Issues,      \* Linear issue identifiers
  Runs,        \* run ids; execute() makes a new one per call, so a run id
               \* is claimed once
  IssueOf,     \* the issue each run is for
  TTL,         \* ticks a claim or a heartbeat keeps the lock alive; a TTL the
               \* functions accept (10 to 86400 seconds)
  NoRun        \* no run

ASSUME RunsAssumption == IssueOf \in [Runs -> Issues] /\ NoRun \notin Runs
ASSUME TTLAssumption == TTL \in Nat \ {0}

VARIABLES
  agent_runs,    \* agent_runs[r]: the row of run r ("absent" without one)
  locks,         \* locks[i]: the agent_execution_locks row of issue i
  agent_events,  \* agent_events[r]: the events of run r in insertion order
  rejecting      \* claims whose insert failed and that still hold the
                 \* issue's advisory lock, with the holder read so far

storeVars == <<agent_runs, locks, agent_events, rejecting>>

(* The columns that decide anything. tests and review are the two gates:   *)
(* a value of tests_status is "passed" or anything else.                   *)
FinalStatuses == {"completed", "failed", "blocked", "canceled"}
OpenStatuses == {"running", "reviewing"}
(* Mutant: the partial unique index leaves blocked runs out. *)
MutantActiveStatuses == {"queued", "running", "reviewing"}
ActiveStatuses == {"queued", "running", "reviewing", "blocked"}
Statuses == {"absent"} \cup FinalStatuses \cup ActiveStatuses
Gates == {"missing", "ok"}

WorkerEvents == {"agent.dispatched", "kanban"}
FinalEvent(status) ==
  CASE status = "completed" -> "run.completed"
    [] status = "failed" -> "run.failed"
    [] status = "blocked" -> "run.blocked"
    [] status = "canceled" -> "run.canceled"
EndingEvents ==
  {"run.completed", "run.failed", "run.blocked", "run.canceled", "lock.expired"}
EventKinds == WorkerEvents \cup EndingEvents \cup
  {"run.created", "lock.acquired", "run.started", "lock.released",
   "lock.recovered", "lock.rejected"}

Row == [status : Statuses, tests : Gates, review : Gates]
NoRow == [status |-> "absent", tests |-> "missing", review |-> "missing"]
NoLock == [run |-> NoRun, left |-> 0]
Lock == [run : Runs \cup {NoRun}, left : 0 .. TTL]
Rejection == [run : Runs, holder : Runs \cup {NoRun}]

RunsOf(i) == {r \in Runs : IssueOf[r] = i}
Locked(i) == locks[i].run # NoRun
Owns(r) == locks[IssueOf[r]].run = r
Active(r) == agent_runs[r].status \in ActiveStatuses
Blocked(r) == agent_runs[r].status = "blocked"

(* The advisory lock of issue i is held by a claim that is being refused.  *)
Advised(i) == \E x \in rejecting : IssueOf[x.run] = i
Rejecting(r) == \E x \in rejecting : x.run = r

(* Mutant: nothing stops a run id from being inserted again. *)
MutantUniqueViolation(r) ==
  Locked(IssueOf[r]) \/ \E q \in RunsOf(IssueOf[r]) : Active(q)

(* uq_agent_runs_active_issue, the primary key of the locks and the one of *)
(* the runs: an insert that meets one of them is a unique_violation.       *)
UniqueViolation(r) ==
  \/ agent_runs[r].status # "absent"
  \/ Locked(IssueOf[r])
  \/ \E q \in RunsOf(IssueOf[r]) : Active(q)

StoreInit ==
  /\ agent_runs = [r \in Runs |-> NoRow]
  /\ locks = [i \in Issues |-> NoLock]
  /\ agent_events = [r \in Runs |-> <<>>]
  /\ rejecting = {}

(* hermes_claim_run that returns true. *)
ClaimGranted(r) ==
  /\ ~Advised(IssueOf[r])
  /\ ~UniqueViolation(r)
  /\ agent_runs' = [agent_runs EXCEPT ![r].status = "running"]
  /\ locks' = [locks EXCEPT ![IssueOf[r]] = [run |-> r, left |-> TTL]]
  /\ agent_events' = [agent_events EXCEPT ![r] =
       Append(Append(Append(@, "run.created"), "lock.acquired"), "run.started")]
  /\ UNCHANGED rejecting

(* hermes_claim_run up to the unique_violation: its own inserts are rolled *)
(* back, the advisory lock stays.                                          *)
ClaimRefused(r) ==
  /\ ~Advised(IssueOf[r])
  /\ UniqueViolation(r)
  /\ rejecting' = rejecting \cup {[run |-> r, holder |-> NoRun]}
  /\ UNCHANGED <<agent_runs, locks, agent_events>>

(* Mutant: without a lock any active run is taken for the holder. *)
MutantHolder(r) ==
  LET active == {q \in Runs : Active(q)}
  IN  IF Locked(IssueOf[r]) THEN locks[IssueOf[r]].run
      ELSE IF active # {} THEN CHOOSE q \in active : TRUE
      ELSE NoRun

(* The holder the refused claim of r finds: the run of the issue's lock,   *)
(* else an active run of the issue, else nobody.                           *)
Holder(r) ==
  LET i == IssueOf[r]
      active == {q \in RunsOf(i) : Active(q)}
  IN  IF Locked(i) THEN locks[i].run
      ELSE IF active # {} THEN CHOOSE q \in active : TRUE
      ELSE NoRun

(* The refused claim looks for the holder; when it finds none it returns   *)
(* false without an event.                                                 *)
ClaimReadsHolder(r) ==
  /\ [run |-> r, holder |-> NoRun] \in rejecting
  /\ rejecting' = (rejecting \ {[run |-> r, holder |-> NoRun]}) \cup
       {[run |-> r, holder |-> h] : h \in {Holder(r)} \ {NoRun}}
  /\ UNCHANGED <<agent_runs, locks, agent_events>>

(* It audits the holder it found and returns false. *)
ClaimAudits(r) ==
  \E x \in rejecting :
    /\ x.run = r
    /\ x.holder # NoRun
    /\ rejecting' = rejecting \ {x}
    /\ agent_events' = [agent_events EXCEPT ![x.holder] = Append(@, "lock.rejected")]
    /\ UNCHANGED <<agent_runs, locks>>

(* Mutant: the heartbeat is stamped, the expiry is not extended. *)
MutantHeartbeat(r, ok) ==
  /\ ok = (Owns(r) /\ locks[IssueOf[r]].left > 0 /\ agent_runs[r].status \in OpenStatuses)
  /\ UNCHANGED storeVars

(* hermes_heartbeat_run: renews a lock the run still owns and that has not *)
(* expired, and answers whether the run was open as well.                  *)
Heartbeat(r, ok) ==
  LET i == IssueOf[r]
      renews == Owns(r) /\ locks[i].left > 0
  IN  /\ ok = (renews /\ agent_runs[r].status \in OpenStatuses)
      /\ locks' = IF renews THEN [locks EXCEPT ![i] = [run |-> r, left |-> TTL]]
                  ELSE locks
      /\ UNCHANGED <<agent_runs, agent_events, rejecting>>

(* Mutant: a finish keeps the lock row. *)
MutantFinishKeepsLock(r, final, tests, review, ok) ==
  /\ ok = (Owns(r) /\ agent_runs[r].status \in OpenStatuses)
  /\ IF ok
     THEN /\ agent_runs' = [agent_runs EXCEPT ![r] =
               [status |-> final, tests |-> tests, review |-> review]]
          /\ agent_events' = [agent_events EXCEPT ![r] =
               Append(Append(@, FinalEvent(final)), "lock.released")]
     ELSE UNCHANGED <<agent_runs, agent_events>>
  /\ UNCHANGED <<locks, rejecting>>

(* Mutant: a finish of any run that exists goes through, lock or not. *)
MutantFinishUnfenced(r, final, tests, review, ok) ==
  /\ ok = (agent_runs[r].status # "absent")
  /\ IF ok
     THEN /\ agent_runs' = [agent_runs EXCEPT ![r] =
               [status |-> final, tests |-> tests, review |-> review]]
          /\ agent_events' = [agent_events EXCEPT ![r] =
               Append(Append(@, FinalEvent(final)), "lock.released")]
          /\ locks' = IF Owns(r) THEN [locks EXCEPT ![IssueOf[r]] = NoLock] ELSE locks
     ELSE UNCHANGED <<agent_runs, agent_events, locks>>
  /\ UNCHANGED rejecting

(* hermes_finish_run: fenced by the lock row and the row's status, not by  *)
(* the lock's expiry.                                                      *)
Finish(r, final, tests, review, ok) ==
  /\ ok = (Owns(r) /\ agent_runs[r].status \in OpenStatuses)
  /\ IF ok
     THEN /\ agent_runs' = [agent_runs EXCEPT ![r] =
               [status |-> final, tests |-> tests, review |-> review]]
          /\ agent_events' = [agent_events EXCEPT ![r] =
               Append(Append(@, FinalEvent(final)), "lock.released")]
          /\ locks' = [locks EXCEPT ![IssueOf[r]] = NoLock]
     ELSE UNCHANGED <<agent_runs, agent_events, locks>>
  /\ UNCHANGED rejecting

(* The insert into agent_events of SupabaseStore.event: nothing fences it. *)
PostEvent(r, kind) ==
  /\ agent_events' = [agent_events EXCEPT ![r] = Append(@, kind)]
  /\ UNCHANGED <<agent_runs, locks, rejecting>>

(* hermes_recover_expired_lock. *)
Recover(i, ok) ==
  LET q == locks[i].run
  IN  /\ ~Advised(i)
      /\ ok = (Locked(i) /\ locks[i].left = 0)
      /\ IF ok
         THEN /\ agent_runs' = IF agent_runs[q].status \in {"queued", "running", "reviewing"}
                               THEN [agent_runs EXCEPT ![q].status = "failed"]
                               ELSE agent_runs
              /\ agent_events' = [agent_events EXCEPT ![q] =
                   Append(Append(@, "lock.expired"), "lock.recovered")]
              /\ locks' = [locks EXCEPT ![i] = NoLock]
         ELSE UNCHANGED <<agent_runs, agent_events, locks>>
      /\ UNCHANGED rejecting

(* The operator's runbook: the update that gives a blocked issue back. *)
OperatorRelease(i) ==
  /\ \E r \in RunsOf(i) : Blocked(r)
  /\ agent_runs' = [r \in Runs |->
       IF IssueOf[r] = i /\ Blocked(r)
       THEN [agent_runs[r] EXCEPT !.status = "canceled"]
       ELSE agent_runs[r]]
  /\ UNCHANGED <<locks, agent_events, rejecting>>

(* Mutant: the time a lock has left goes below zero. *)
MutantTick ==
  /\ locks' = [i \in Issues |-> [run |-> locks[i].run, left |-> locks[i].left - 1]]
  /\ UNCHANGED <<agent_runs, agent_events, rejecting>>

(* The database clock. *)
Tick ==
  /\ locks' = [i \in Issues |->
       [run |-> locks[i].run,
        left |-> IF locks[i].left > 0 THEN locks[i].left - 1 ELSE 0]]
  /\ UNCHANGED <<agent_runs, agent_events, rejecting>>

StoreNext ==
  \/ \E r \in Runs :
       \/ ClaimGranted(r)
       \/ ClaimRefused(r)
       \/ ClaimReadsHolder(r)
       \/ ClaimAudits(r)
       \/ \E ok \in BOOLEAN : Heartbeat(r, ok)
       \/ \E tests, review \in Gates, ok \in BOOLEAN :
            Finish(r, "completed", tests, review, ok)
       \/ \E final \in FinalStatuses \ {"completed"}, ok \in BOOLEAN :
            Finish(r, final, "missing", "missing", ok)
       \/ \E kind \in WorkerEvents : PostEvent(r, kind)
  \/ \E i \in Issues : OperatorRelease(i) \/ \E ok \in BOOLEAN : Recover(i, ok)
  \/ Tick

StoreSpec == StoreInit /\ [][StoreNext]_storeVars

-------------------------------------------------------------------------------
(* Properties *)

(* Type correctness of the three tables and of the claims in progress. *)
StoreTypeOK ==
  /\ agent_runs \in [Runs -> Row]
  /\ locks \in [Issues -> Lock]
  /\ agent_events \in [Runs -> Seq(EventKinds)]
  /\ rejecting \in SUBSET Rejection

(* An issue has a lock row exactly while one of its runs is running, and   *)
(* the row names that run: claim inserts both, and finish and recovery     *)
(* end the run and delete the lock together (sql 57-58, 109-151, 170-181). *)
LockIffRunning ==
  \A i \in Issues, r \in Runs :
    locks[i].run = r <=> IssueOf[r] = i /\ agent_runs[r].status = "running"

(* At most one run of an issue is active, and a blocked run counts: the    *)
(* blocked run of an issue and a lock on it exclude each other.            *)
OneActiveRun ==
  \A q, r \in Runs : Active(q) /\ Active(r) /\ IssueOf[q] = IssueOf[r] => q = r

(* The holder that a refused claim audits is a run of the contended issue  *)
(* and has a row, so that the event has a run to belong to, although the   *)
(* holder may have finished, been recovered or been released since the     *)
(* insert failed and since it was read (sql 35-56).                        *)
HolderOK(x) ==
  x.holder # NoRun =>
    IssueOf[x.holder] = IssueOf[x.run] /\ agent_runs[x.holder].status # "absent"
HoldersOK == \A x \in rejecting : HolderOK(x)

Ended(r) == agent_runs[r].status \in FinalStatuses
Endings(trail) == {k \in DOMAIN trail : trail[k] \in EndingEvents}

(* The events that account for a final status.  Recovery writes            *)
(* lock.expired for failed; the operator's release of a blocked run writes *)
(* no event.                                                               *)
Explains(kind, status) ==
  \/ kind = FinalEvent(status)
  \/ kind = "lock.expired" /\ status = "failed"
  \/ kind = "run.blocked" /\ status = "canceled"

Accounts(trail, status) ==
  /\ status \in FinalStatuses => \E k \in Endings(trail) : Explains(trail[k], status)
  /\ status \notin FinalStatuses => Endings(trail) = {}
  /\ \A j, k \in Endings(trail) : j = k

(* The audit trail and the row tell the same story, whatever order         *)
(* finishes, recoveries, refused claims and late events come in: a run     *)
(* that has not ended has no ending event, and one that has ended has      *)
(* exactly one, which accounts for its status.                             *)
TrailMatchesRow == \A r \in Runs : Accounts(agent_events[r], agent_runs[r].status)

RowKept(r) ==
  Ended(r) =>
    \/ agent_runs'[r] = agent_runs[r]
    \/ Blocked(r) /\ agent_runs'[r] = [agent_runs[r] EXCEPT !.status = "canceled"]
EndedRowsKept == \A r \in Runs : RowKept(r)

(* An ended row is never rewritten, by a second finish, a recovery or a    *)
(* new claim; the one exception is the operator's release of a blocked     *)
(* run.                                                                    *)
RowsAreFinal == [][EndedRowsKept]_storeVars

(* A transaction never leaves a row queued, and nothing sets reviewing. *)
SettledRows == \A r \in Runs : agent_runs[r].status \notin {"queued", "reviewing"}

(* The inductive invariant of the store. *)
StoreInv ==
  /\ StoreTypeOK
  /\ SettledRows
  /\ LockIffRunning
  /\ OneActiveRun
  /\ TrailMatchesRow

(* The tables implement IssueLease: the lock row is the lease of a held    *)
(* issue, a blocked run parks the issue.                                   *)
LeaseOf(i) ==
  IF Locked(i) THEN [mode |-> "held", run |-> locks[i].run]
  ELSE IF \E r \in RunsOf(i) : Blocked(r)
  THEN [mode |-> "parked", run |-> CHOOSE r \in RunsOf(i) : Blocked(r)]
  ELSE [mode |-> "free", run |-> NoRun]
Claimed == {r \in Runs : agent_runs[r].status # "absent"}

LeaseView == [i \in Issues |-> LeaseOf(i)]

Lease == INSTANCE IssueLease WITH lease <- LeaseView, used <- Claimed

(* Every step of the store is a step of the lease or leaves it alone. *)
ImplementsLease == Lease!LeaseSpec
===============================================================================
