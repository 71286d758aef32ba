# Verification of the Hermes agent runtime

TLA+ models of the runtime in this repository, the TLC configurations that check
them on small instances, and TLAPS proofs of what matters most for instances of any
size. `src/` below is the root of the repository.

## 1. The system

A systemd timer starts a *tick* of the poller every minute. A tick reads the Todo
issues of Linear, drops those that policy excludes, and for each of the others calls
`AgentRuntime.execute`: claim the issue in Supabase, keep the claim alive with a
heartbeat thread, hand the work to the Kanban board and wait for the card, persist
what was observed, finish the run, move the issue in Linear. Several ticks, an
operator and humans in Linear act at the same time; every call may fail.

| component | source | state it keeps | operations | interacts with |
|---|---|---|---|---|
| run store | `sql/001_runtime_functions.sql`, `supabase.py` | tables `agent_runs`, `agent_execution_locks`, `agent_events`, the database clock, advisory locks | claim, heartbeat, finish, recover, event insert, operator release | called over HTTP by the runtime and the orchestrator |
| agent runtime | `runtime.py` | per call of `execute()`: the stage, the heartbeat thread and its recorded error, the dispatch result, the verdict | `execute`, `pulse`, `_persist_events`, `recover_expired_issue` | run store, dispatch adapter, Linear (`move_status`) |
| classification | `runtime.py` (`classify_issue`), `selector.py` | none | labels and status of an issue to eligible, blocked or ignored | poller, dispatch guard |
| payload contract | `payloads.py` | none | `validate_event_payload` | runtime and store, before any event insert |
| Kanban adapter | `kanban.py`, `adapter.py` | per dispatch: events observed, last status, deadline | start a card, poll it, turn it into a result or an error | board (start, read), runtime |
| orchestrator pass | `poller.py`, `orchestrator.py` | the list of decisions of one read | poll, recover, execute, record | runtime, selector |
| poller tick, dispatch guard | `runtime/poller/poller_tick.py`, `poller_dispatch_guard.py` | none across ticks (Linear, the board and the store are the state) | guarded read, start with rechecks, read task, move issue | Linear, board, orchestrator |
| unit, environment, scripts | `run_poller.sh`, `poller_env.py`, `smoke_lib.py`, `canary_readonly.py`, `probe_env.py`, `gen_pin.py`, the `.service` and `.timer` | per activation: the environment, what was read of the secrets, how long it has run; on the host: facts.json, secrets, extracted chain and its pin | resolve the interpreter, check and export the secrets, probe, canary, pin, kill after the deadline | systemd, operators, poller tick |

What is hard here: the lock of a worker that is still running may expire and be
recovered; HTTP calls may be applied without an answer, or late; a process may die
between any two steps; the secrets are read three times and the host changes between the
reads; three records of the same fact (row, audit trail, Linear)
are written by separate steps; ticks race with each other, with the operator and
with what they read at the start. Each hazard, at its line and with the properties
that cover it, is listed in `PROJECT.json`.

What makes each component correct:

* run store: an issue is in one run's hands at a time, a blocked run keeps it, and
  rows, locks and trails never disagree;
* agent runtime: what `execute()` answers is what the store holds; a run is completed
  only when it was earned; a lock outlives its call only until it expires; a
  pulse that is not too late keeps the issue; what is in the table of a dispatch is what was
  observed, in order, and whole when the run is completed;
* payload contract and adapter: the adapter's events pass the contract, and a result
  is reported as the card says;
* classification, guard: an issue that needs a human never reaches a worker;
* pass and tick: an eligible issue is eventually dispatched, and a crashed run is
  eventually recovered;
* unit and scripts: a pass begins only with the keys it needs, the checks an operator runs
  before foretell what the unit meets, and an activation ends.

What connects them: the timer's tick calls the poller, which classifies and selects; the
orchestrator calls the store (recovery) and `execute()`; `execute()` calls the store over
HTTP from two threads, Linear through `move_status`, and the adapter; the adapter calls
`start` and `read_task` of the board; the batch of events the adapter observed goes back
through `execute()` and the payload contract into the store. Nothing is kept in the
process between two ticks: the store, Linear and the board are the only memory.

## 2. The modules

```
IssueLease ◄──implements── RunStore ◄──EXTENDS── AgentRuntime ◄──EXTENDS───────────┐
    ▲                                                (execute, pulse, late calls)   ├─ Execution
    └──EXTENDS── PollerTick                      Payloads ◄─ KanbanAdapter ◄─EXTENDS┘  (one call and
                 (ticks, pass, people)           (contract)   (one dispatch)            its dispatch)
DispatchPolicy (guard, classify, start)          PollerUnit (wrapper, start of the tick, checks,
                                                             deadlines, host)
```

`<Module>Proofs` holds the theorems about `<Module>`; `MC<Module>` and the `.cfg` files
are the instances for TLC. Definitions named `Mutant...` are what a plausible bug would
make of the definition after them; nothing refers to them, and each makes a property of a
run fail.

| module | models | state | actions |
|---|---|---|---|
| `IssueLease` | what the store promises: an issue is free, held by one run, or parked by a blocked one | `lease`, `used` | `Grant`, `Release`, `Park`, `Unpark` |
| `RunStore` | the three tables and the four SQL functions, the unfenced event insert, the operator's update, the clock | `agent_runs`, `locks`, `agent_events`, `rejecting` | `ClaimGranted`; `ClaimRefused`, `ClaimReadsHolder`, `ClaimAudits`; `Heartbeat`; `Finish`; `PostEvent`; `Recover`; `OperatorRelease`; `Tick` |
| `AgentRuntime` | `execute()` with its pulse thread, `_persist_events`, calls without an answer, crashes, other processes | `pc`, `pulse`, `since`, `outcome`, `posted`, `verdict`, `moved`, `late` | one for each step between two calls, see the module |
| `Payloads` | the contract of every kind of event, value by value, the batch check and the removal of duplicates | none | none: operators |
| `KanbanAdapter` | one call of the adapter: start, polls, deadline, every exit with its event | `at`, `context`, `snapshot`, `last_status`, `events`, `left`, `result` | `Started`, `StartBlocked`, `BoardFails`, `Poll`, `RunFailed`, `TimesOut`, `ReturnsDone`, `ReturnsBlocked` |
| `Execution` | `execute()` with the adapter in the place of its dispatch: `AgentRuntime` and `KanbanAdapter` composed, and the events the table gets | both, and `stored` | `CallerDispatches`: a step of the adapter, and what its end means to the runtime; `Apart(A)`: any other step of the runtime, with what it inserts |
| `DispatchPolicy` | `gate_block_reason`, `classify_issue`, the recheck of `start` | `labels` | `Relabel` (people) |
| `PollerTick` | `main`, the guarded read, the pass with its recovery and exceptions, `start` on the board, the moves in Linear, people | `lease`, `used`, `linear`, `fit`, `board`, `expired`, `tick`, `wasted`, `faults`, `edits` | see the module: reads, a decision, the end of a run, what fails, people |
| `PollerUnit` | `run_poller.sh`, `main` up to its pass, the three reads of the secrets, the verdicts of probe and canary, the pin, the deadlines | `host`, `act`, `proved`, `probed`, `edits` | `Calls`; `Probe`, `Canary`; `ReadsSettings`, `ChecksSecrets`, `Exports`, `Connects`, `QueriesLinear`, `MakesStore`; `DispatchEnds`, `DispatchLate`, `PassRaises`, `PassEnds`, `Waits`, `Dawdles`, `Kills`; what operators and updates do |

### How the models correspond to the code

*RunStore.* A SQL function is one transaction and one step: `select ... for update` on
the lock row and the advisory lock of the issue keep two of them apart. The refused claim
is three steps, because in READ COMMITTED it reads the holder after its insert failed,
and a finish, which takes no advisory lock, may commit in between; `rejecting` holds the
claims between those steps, and claims and recoveries of the issue wait for them.
`expires_at > now()` is `left > 0`, and `Tick` is the clock. A TTL outside
10 .. 86400 seconds, which the functions refuse, is left out: the runtime passes a
constant.

*AgentRuntime* EXTENDS `RunStore`: its requests are the store's actions. A call may be
answered, or raise: then its request joins `late` and may be applied at any later time or
never (`Deliver`), which covers lost requests, lost answers and timeouts. `pulse` is the
thread, `"lost"` its recorded error; `StopPulse` is `stop.set()` with the `join()`.
`outcome` abstracts what a dispatch observed to the two gates, the number of distinct
events, and whether the contract accepts all of them. Linear is the `moved` of the run.

*Execution* gives the run `Caller` a real dispatch. While it is at `"dispatch"`, the adapter
takes its steps; when the adapter returns or raises, the runtime takes the step of
`DispatchReturns`, `DispatchRaisesEvents` or `DispatchRaises` with the outcome the batch
really has (`OutcomeOf`): the gates of its result, the number of its events without
duplicates, whether the contract accepts all of them. `stored` is the rows of the table
`agent_events` an insert of the caller has left: the next event of the batch when the
insert is applied, at once or late. The payloads the SQL functions write
themselves (`SqlPayload`) are there for the property that compares them with the contract.

*Payloads* gives each kind its required and optional fields and each field its check. A
value is the word itself where the contract lists words, and else the class the contract puts
it in: an identifier of the right format, an HTTPS URL, a number, a text with a forbidden
word, a text of no format.

*KanbanAdapter* reads any card at every poll: the board belongs to the Hermes dispatcher,
which is not in this repository. `context` is the `ExecutionContext` of the call: its run, its
issue and its agent, which with the assignee and the outcome of the card are in every event
(`EventOf` is `_event_payload`, all its fields). Any of the texts may hold a word the contract
forbids, except for the agent, which `classify` takes from the list `AGENTS`. The metadata of a
terminal card is read whatever the outcome of its run. Time is the number of poll-long ticks to the deadline, and a
poll may take several.

*PollerTick* uses `IssueLease` for the store, which the theorem `StoreImplementsLease`
allows, and one predicate `fit` for the policies, which the theorems about
`DispatchPolicy` allow: the guard decides and nothing later refuses what it let through.
The steps of `execute()` that only matter inside of it (the events, the gates) are a choice
between the three ways it may end. A card that is done or blocked is `"ended"`.
`expired` is the set of issues whose lock is past its expiry: `Expires` when no pulse
beats for the lock, `PulseFails` when a heartbeat of a working call failed. `Move` leaves
the issue where it is when `main` did not read it or its new status has no configured state
(`Movable`). What fails, within the bound `MaxFaults`: a call raises (`CallRaises`), the process
dies (`Crashes`), a heartbeat fails (`PulseFails`), Linear answers that it did not move an issue,
at which nobody looks (`MoveIgnored`), `main`'s query of Linear gives nothing without raising, so
that the tick can move no issue (`BeginsBlind`), and the store answers 409 to a call that is no
conflict (`StoreConflicts`): any such answer of `execute()` is a `RunConflict`, which fails the run
(the place `"clash"`) and lets the pass go on. `wasted` is history: the runs of an issue that a fault
ended before they had a card.

*PollerUnit* is one activation after the other, of the unit or of a shell. `act` is where
the process is, the environment it was given (`caller`) and has by now (`environ`), the key
`Linear()` read, and how long it has been running; when it is idle, how the last one
ended, which is its exit code and what led to it. `Missing` is `missing_required`, `Merged` the
precedence of the environment over the file; `LinearKey` is the read of `smoke_lib.py` 98-100,
which takes the shared file whatever the environment says. `QueriesLinear` may go on whatever the
key: `gql` gives `None` without raising for an answer without a body, and the pass that follows
reads the issues with the same key. A failing `grep` under `set -e` is an
end of its own (`"aborted"`). `proved` and `probed` are history: the canary, or the probe, has
passed, with what the unit uses, and the host has not changed since it began. `waited` is
the adapter's clock, `age` systemd's, both advance in `Waits`; `Dawdles` is time in the other
calls, at most `Slack` in all.

## 3. The runs

| run | instance | what it shows |
|---|---|---|
| `store` | two runs of one issue and one of another, TTL 2, one event or refused claim beyond the others | rows, locks and trails agree after every interleaving; an ended row stays; a refused claim is audited on an existing run of its issue; the store implements `IssueLease` |
| `execution` | one gated run, TTL 3, heartbeat period 1, deadline 1, three kinds of metadata, three faults, fairness | what the table has of a dispatch is a prefix of what was observed, whole when the run is completed, whole or empty when the call lost nothing; the gates of a completed run are in it; every row meets the contract; the composition implements `AgentRuntime`; a lock left behind expires; the call ends |
| `race` | two gated runs of one issue, TTL 3, heartbeat period 1, two faults | what `execute()` answers is true and what it completes was earned, also when a lock expires under a worker and the other call takes the issue; nobody takes the issue of a worker whose pulse beats, a whole period late at most; a row is blocked only when its issue shows as Blocked |
| `heartbeat_doc` | one gated run, six faults | finding 1 |
| `kanban` | every card at every read, deadline 3, two contexts, three assignees, fairness | reports follow the card; where the adapter and the contract agree; what the trail keeps; the dispatch ends |
| `timeout_doc` | as `kanban` | finding 2 |
| `policy` | every set over 15 labels, known, sensitive and unknown | the three policies agree; an issue that needs a human is kept out |
| `ticks` | two overlapping ticks, one issue, three runs, two faults, one edit | one card of the runtime |
| `served` | the timer's ticks, two issues in one pass, one fault, two edits, fairness | once a run has a card, an issue gets another run only after a card was archived; every tick ends; nobody waits for ever |
| `unit` | the unit with bounds of one and two and with unreadable or refused numbers, shells: clean, of a worker, with a file or keys of their own; the host changes twice; unit deadline 3, adapter deadline 1; fairness | a pass has the keys of its store, issues only with an accepted key of Linear, and without edits what the shared file says; the check of the secrets is enough without edits; canary and probe foretell the unit; the deadlines nest; an activation ends |
| `bound_doc` | as `served`, with the default bound of one, without faults | finding 3 |
| `fallback_doc` | as `unit` | finding 4 |

### Bounds, and why they are enough

* Runs and issues: what goes wrong in the store and the runtime goes wrong between two
  runs of one issue; a third run and a second issue (`store`) show that issues do not
  interfere. In `ticks` three runs let an issue be lost, taken by the other tick, lost
  and taken again.
* `TTL` 3 and `HB` 1 are the smallest pair the constructor accepts; 2 lets a lock be
  fresh, old and expired.
* `MaxFaults` counts calls without an answer, failed heartbeats and crashes. Three let one
  call of `execute()` lose its pulse, an insert and its finish, or die after two of them; two
  suffice for one worker to lose its lock and for a later request of it, or of the other one,
  to arrive late.
* `MaxExtras` bounds events and refused claims, which nothing else bounds, in `store`.
* In `execution` the deadline is 1: two reads of any card, so that a batch has a first
  event, a change, an end, and three inserts of which each may be lost. The metadata opens both
  gates or one, with a commit the contract accepts or refuses.
* In `kanban` the metadata is right, or wrong in one field (absent, or refused by the contract),
  as the contract looks at the fields one by one; the issue, or the assignee, may have a
  forbidden word in its text. The theorem has all contexts, assignees and metadata.
* In `unit` the deadlines are 3 and 1 with a slack of 1: with a bound of two a tick may be
  killed or end by its cards' deadlines, both of which `TimeoutsNest` needs. Two changes of
  the host let a pin be made of an edited chain, or a secret be taken away and be put back.
  The order of the two deadlines is the configuration's: the theorem has all of them.
* `Timeout` 3 gives a dispatch a first read, changes between reads, and a return to an
  earlier status.
* `MaxEdits` bounds what people change. After a run ended blocked, two let a person
  archive its card and move the issue back to Todo, the sequence of finding 3. In `bound_doc`
  nothing fails (`MaxFaults` 0), so that the trace is what people and a bound of one do by
  themselves. In `served` the one fault may come before a run has a card, which gives the issue
  its second run, or after, when a second run would violate `ArchivingReleases`.
* `Mapped` is the configuration of Linear's states: `ticks` has none for
  Blocked, which the tick tolerates by not moving the issue, `served` and `bound_doc` have all three.
* Run identifiers are finite: `RunLeft` stops claims when they are used up. A property about
  waiting (`Awaits`) asks only for issues with a run left.
* `race` compares states without the trails (`VIEW MCView`): events are
  written and never read, and the invariants checked there do not mention them. Both of its runs
  are gated and of one issue, so they can be exchanged (`SYMMETRY`).
* `CHECK_DEADLOCK` is never switched off: where a model ends (`AllOver`), it stutters
  explicitly.

### Fairness

Weak fairness of the steps of a started call: every request has a timeout
(`supabase.py`, `poller_tick.py`), every wait of the adapter a deadline. Weak fairness of
time: the database clock runs, a lock without pulse gets old. Weak fairness of the
beginning of a tick (`Begins(Timer)`): the systemd timer fires again after the oneshot
service ended. In `PollerUnit`, weak fairness of the calls of the start, of time, and of
systemd's kill; that a card ends, or a pass raises, is not assumed. Nothing is assumed of heartbeats, of late requests, of recovery, of people,
of the board, or of a tick started by hand; crashes and failures may happen and need not.

## 4. What is proved

TLAPS checks the following for every value of the constants. The assumptions are those the
modules name: runs have issues, `TTL` and `HB` are positive with `2 * HB < TTL` (the
constructor's check), what a dispatch returns has its types, the deadline is positive, a
value that stands for "absent" is no other value (nor a word the SQL writes), ranks differ, the unit's environment is the
one of its file.

* **Store** (`RunStoreProofs`). The invariants of the run are not inductive alone:
  `StoreInv` adds that no committed row is queued or reviewing, and that at most one run
  of an issue is active, blocked ones included (what the partial unique index keeps).
  With it: `LockIffRunning`, `TrailMatchesRow`, `RowsAreFinal`, and the refinement
  `StoreImplementsLease`: initial states map to initial states, and every action to a
  step of `IssueLease` or a stutter. A granted claim is a `Grant` because `OneActiveRun`
  excludes a parked issue; a finish is a `Release` or a `Park` of the issue it names
  because `LockIffRunning` ties the lock to it. `LostLocks`: a run that was claimed and has
  lost its lock is never the holder again, because only a granted claim gives a lock, and
  only to a run without a row. `RejectionsNameHolders` (`HoldersOK`): a refused claim writes
  to a run of the contended issue that exists, also when that run ended between the failed
  insert and the read of the holder. Lemmas: no row is ever
  removed (`RowsStay`), and no step adds the events of a claim to a trail that begins with
  them (`TrailGrows`).
* **Runtime** (`AgentRuntimeProofs`). `RuntimeInv` is `StoreInv`, the types, and
  `CallInv`: where a pulse can beat, that a completed row *or a late request to complete
  one* belongs to a run that earned it, and that an unclaimed or refused run has no row
  and no request in flight. From it `CompletedIsEarned` and `AnswersAreTrue`. `RuntimeUsesStore`
  says that every step is one of the store, so the theorems of the store hold of the
  runtime; `RuntimeImplementsLease` names those about the lease. `ParkedIsShown` needs
  `CloseInv`: whatever can block a row, the late finish included, was sent by a call that
  had moved its issue, and a run has no row until its one claim is applied. With
  `HoldersOK` of the store it gives `TrailsOpenWithTheirClaim` (`TrailInv`), whose content
  is that no event can overtake a claim that is still in flight, or be written twice by one.
  `BeatingHoldsLock` follows from `PulsesHold`: while the pulse beats, nothing of the
  run is in flight, and unless a TTL has passed since the heartbeat, the time the lock has
  left and the time since then make up the TTL. No assumption on the schedule is needed: the
  property asks only about a pulse that is at most a period late.
* **Adapter** (`KanbanAdapterProofs`). `ReportsFollowCard` and `BatchBounded` by an
  invariant of the loop (`LoopInv`), in which events and ticks left add up to at most the
  deadline; `ContractAgrees` field by field: every field `_event_payload` states, of any context,
  assignee, outcome and metadata, against what the contract has for the kind. `ExitInv` says what the exits leave. From it, and from
  lemmas about `Deduplicated` (its first event stays first, and its last stays last when its
  key is new), `TrailEndsAsCall` and `CompletionIsTraced`, for batches of any length.
* **Composition** (`ExecutionProofs`). `ExecutionUsesAdapter` and `ExecutionImplementsRuntime`
  are the two projections: every step is one of the adapter or leaves it alone, and one of the
  runtime or leaves it alone, for which the outcome of a batch has to be one the runtime is
  modelled with. All theorems of both hold of the composition; its own invariant, `ExecInv`,
  says where the call is while the adapter works and how far the inserts have come: an insert
  in doubt is the next one of the batch, and none follows it. From it `StoredInOrder`,
  `CompletedTrailIsWhole`, `TrailIsWholeOrAbsent` and, with `CompletionIsTraced` of the adapter,
  `GatesAreOnRecord`. `AuditMeetsContract` needs that an event of the trail is one of the
  batch (`Ranked`), which the contract accepted as a whole, that each payload SQL writes has the
  fields of its kind, and that a completed run's result has the fields of the
  `kanban.completed` that the contract looked at. `ExecutionIsSafe` and
  `ExecutionOnlyAdvances` name what the composition inherits.
* **Policy** (`DispatchPolicyProofs`). The three properties are theorems about one set
  of labels, for labels with any suffixes, not only those of the run.
* **Ticks** (`PollerTickProofs`). `TickInv` adds to the types that a tick at an issue
  knows it, and that the run it made is a run of that issue (`Sound`). From it
  `OneRuntimeCard` (a card is created only under the key of the issue and when no live
  card has it) and, action by action, `LeaseEndsWithItsRun`, which no run checks. `ArchivingReleases` is proved for
  a finite set of runs and no tick but the timer's, as in the run `served`, and any number of faults. Its invariant
  (`CountInv`, `CardInv`) says when the runs of an issue are paid for by archived cards and
  `wasted` runs alone: once a tick has decided for the issue, and whenever it has neither a live card
  nor a run that is about to get one. A claim spends that; the card it leads to, or the failure
  that prevents the card, restores it. A fault after the card pays for nothing.
  `WorkerInv` follows a worker: its run is its own, has no card before it is dispatched, and
  from then on the card is of its issue, and ended once the worker goes on from it. From it
  `OneWorkerOwns` (of the ticks at an issue at most one is the holder) and `OutcomesAreTold`
  (In Review and Blocked appear in Linear only after a card of that issue has ended).
  `HoldersInv` says that the holder of an issue was granted for it, from which
  `LostIssues`: a worker that lost its issue stays out until its call ends. `PassBounded`
  rests on a lemma about the first n of a list (`FirstBounded`), for which the ranks of the
  issues are counted. `TicksUseLease` shows that what the ticks do to the store is what
  `IssueLease` allows, and `StoreImplementsLease` that the store keeps it, so that the two
  models meet in that specification.
* **Unit** (`PollerUnitProofs`). `PassIsEntitled` follows the environment and the key of Linear
  from place to place, through an empty answer of Linear as well; what the shared file says is in
  both as long as nobody edits it after the check and the caller has no key or file of its own. `ChecksSuffice` needs that without an edit since the check what it
  found is still what the later reads find; `CanaryForetells` and `ProbeForetells` that since the
  verdict the host is the one it was given for, so that no end of the start is reachable but
  those the property names; `TimeoutsNest` that the age of an activation, with a whole
  wait for each dispatch it has left, is at most its bound of whole waits, its slack and the
  current wait, for all numbers.

**Why things end.** Liveness under fairness is out of this prover's reach; what it rests on
is not. For five of the six liveness properties the half that is safety is a theorem: a
variant, or an order of stages, which every step of the system respects, for any values of
the constants. What then remains is that enabled steps are taken, which is the fairness,
and which the runs check together with the property.

| liveness property (checked) | its safety half (proved) | what gets less |
|---|---|---|
| `CallsEnd` | `CallsAdvance` | the stage of the call, then the events left of a batch that no longer changes |
| `OrphanLockExpires` | `OrphanLocksRunOut` | the time left of a lock whose call is over, but for one heartbeat in flight |
| `DispatchEnds` | `DispatchesAdvance` | the time left to one deadline, whatever the card does |
| `EveryTickEnds` | `TicksAdvance` | the decisions left of a pass, then the stage of the one it is at |
| `ActivationEnds` | `ActivationsEndSoon` | the waits, places and slack left, a natural number that is 0 exactly between activations |
| `EveryoneServed` | none | it depends on what people do and on who is served first |

Only model-checked: the liveness properties of this table. Every invariant and every action
or refinement property of the passing runs is a theorem.

## 5. Findings

Four places where the code does something else than a document or comment says; each is
a run whose property is the sentence, and which TLC refutes.

1. `heartbeat_doc`: README.md 55-56 says that a failed heartbeat ends in a failed run while
   the worker owns the lock. When the dispatch raises `ExecutionBlocked`, the run ends
   blocked (`runtime.py` 194).
2. `timeout_doc`: `runtime.py` 43 says that the events of a failed or late dispatch are
   persisted first. When the first read or the timeout sees an outcome of the card, the
   contract refuses `kanban_outcome` there and with it the whole batch.
3. `bound_doc`: the guard (16-17) says that issues over the bound are picked up by the
   next tick. The bound cuts before the claim, so an issue that conflicts in every tick
   keeps the only slot. The trace: the card of the first issue ends without its gates, the run
   ends blocked and parks the issue, a person archives the card and moves the issue back to Todo;
   every tick then takes the first issue, gets a conflict, and ends, while the second one waits.
4. `fallback_doc`: `run_poller.sh` 48-50 says that the wrapper falls back to the pinned
   interpreter when the install cannot be resolved. A facts.json without an `"environment"`
   string makes the last `grep` of the pipe at line 58 fail, and `set -e` ends the wrapper with
   1, without a word, before it gets to the fallback.

Two more that are no runs, because what the documents say of them can be read in two ways.
README.md 43-45 says that the adapter returns only for a terminal outcome "with explicit"
gates: it returns for every done or blocked card, and a run of an agent without gates, or of a
blocked card with both gates, ends completed. And the fields of a blocked card's result
reach the row and `run.completed` without having been in an event the contract looked at
(`kanban.py` 147-152, `runtime.py` 181): a commit of no format is written, which
`AuditMeetsContract` excepts.

## 6. What is not modelled

* Logging, redaction, wording, the Supabase and fixture helpers of `smoke_lib.py`, the
  selftests, the RUNBOOK's manual procedures: I/O without state of its own.
* Texts: a text is the class a check puts it in; the match of an identifier in a card's
  text is the relation of a card to its issue.
* `LockRejectionSink`: `SupabaseStore` does not implement the hook.
* Linear, the board and PostgreSQL themselves; each is what the code sees of it.
* Of the scripts: the canary's optional call of Supabase, `--gates-test` and `--guard-test`,
  and overrides of `HERMES_ROOT`, `HERMES_CHECKOUT` and `CHAIN_ROOT`.

Limits of the abstractions: one RPC is one atomic transaction; the two clocks (the
worker's wait and the database's `now()`) advance together in `AgentRuntime`; requests
that are applied late are in `AgentRuntime` and `Execution` only: a call of `PollerTick` is
applied at once, with or without the tick surviving it, or not at all; an empty answer of Linear
to the second read of a tick, which then has nothing to do, is there a call that raises, with the same end; Linear's list keeps
its order in `PollerTick`, and `EveryoneServed` needs a page and a bound as large as the queue:
the query reads the first 50 issues, and fifty that need a human hide the others, which no
document denies. `PollerUnit` has one activation at a time (overlapping ticks are in
`PollerTick`), and the probe and the canary look at the host in one step; that units are
installed stands for all the canary checks of them, and what the board has left of smoke
tests, which it only prints, is left out.

## 7. Plan

The order was: the store first, since everything rests on it; the runtime on top of it;
the contract and the adapter, the source of what it persists; the policy; the tick that
puts them together; the composition of the runtime and the adapter; the unit around the
tick. All seven are written, checked and proved about. What is left:

1. *The tick as a refinement*: `execute()` of `AgentRuntime` implements the calls of
   `PollerTick` (claim, moves, dispatch, finish) with `lease` as the store's view. That both
   keep to `IssueLease` is proved (`RuntimeImplementsLease`, `TicksUseLease`); what is left
   is the order of the moves in Linear and of the finish.
2. *Long queues*: `Page` smaller than the queue, and which issues it may hide.
