------------------------------ MODULE PollerTick ------------------------------
(***************************************************************************)
(* Ticks of the poller: main of poller_tick.py, the guarded read, and the  *)
(* pass of the orchestrator over the issues that are left.                 *)
(*                                                                         *)
(* The run store is IssueLease, which RunStore implements; a call of       *)
(* execute(), which AgentRuntime has in full, is here its claim, its moves *)
(* of the issue in Linear, the dispatch and its finish.  An issue is fit   *)
(* when its labels pass the policy; by the theorems about DispatchPolicy   *)
(* the guard alone decides that, and start accepts what it let through.    *)
(*                                                                         *)
(* The service of the timer is one tick at a time; a tick started by hand  *)
(* may overlap it.  People, the board and time act on their own.           *)
(***************************************************************************)
EXTENDS IssueLease, Naturals, FiniteSets

CONSTANTS
  Ticks,       \* processes that run ticks, one after the other
  Timer,       \* the one the timer starts
  Rank,        \* Rank[i]: the place of issue i in the list that Linear returns
  Page,        \* how many Todo issues a read returns
  Bound,       \* POLLER_MAX_DISPATCH_PER_TICK
  Mapped,      \* the statuses with a state in Linear (LINEAR_STATUS_STATES)
  MaxFaults,   \* bound of the model: failures of calls, pulses and processes
  MaxEdits     \* bound of the model: what people change

ASSUME TickAssumption ==
  /\ Timer \in Ticks
  /\ Rank \in [Issues -> Nat] /\ \A i, j \in Issues : Rank[i] = Rank[j] => i = j
  /\ {Page, Bound} \subseteq Nat \ {0}
  /\ {"In Progress", "In Review"} \subseteq Mapped
  /\ {MaxFaults, MaxEdits} \subseteq Nat
  /\ IssueOf \in [Runs -> Issues]
  /\ Runs \cap Issues = {} /\ NoRun \notin Runs \cup Issues

VARIABLES
  linear,      \* linear[i]: the status of issue i in Linear
  fit,         \* fit[i]: its labels pass the policy
  board,       \* board[c]: the state of card c
  expired,     \* issues whose lock is past its expires_at
  tick,        \* tick[t]: what process t is doing
  wasted,      \* wasted[i]: the runs of issue i that failed before they had a
               \* card; a history variable, which no action reads
  faults, edits

world == <<linear, fit, board>>
counts == <<wasted, faults, edits>>
tickVars == <<lease, used, linear, fit, board, expired, tick, wasted, faults, edits>>

(* The card that a run creates is named after the run, the one that a      *)
(* person writes about an issue after the issue.                           *)
Cards == Runs \cup Issues
About(c) == IF c \in Runs THEN IssueOf[c] ELSE c

(* match_existing_cards: the cards that are not archived. *)
LiveCards(i) == {c \in Cards : About(c) = i /\ board[c] \notin {"none", "archived"}}

(* A tick: the issues it can move, its decisions that are not taken yet,   *)
(* and the issue, the run and the card of the one it is at.                *)
Idle == [at |-> "idle", known |-> {}, pass |-> {},
         issue |-> NoRun, run |-> NoRun, card |-> NoRun]
Current(t) == tick[t].issue
Owns(t) == lease[Current(t)] = Held(tick[t].run)

(* The pulse of execute() beats from the claim to the end of the dispatch. *)
(* At "fail" an exception fails the run; at "clash" it is a RunConflict.   *)
Cardless == {"move", "start", "create"}
Pulsing == Cardless \cup {"wait"}
Closing == {"review", "complete", "park", "block", "fail", "clash"}
Works(t, i) == tick[t].at \in Pulsing \cup Closing /\ Current(t) = i

GoTo(t, place) == tick' = [tick EXCEPT ![t].at = place]
Ends(t) == tick' = [tick EXCEPT ![t] = Idle]

(* The first n issues of a list. *)
First(n, list) == {i \in list : Cardinality({j \in list : Rank[j] < Rank[i]}) < n}

(* The tick is at place with the issues that are left, or has nothing to do. *)
Continues(t, list, place) ==
  tick' = [tick EXCEPT ![t] =
    IF list = {} THEN Idle ELSE [@ EXCEPT !.pass = list, !.at = place]]

(* Mutant: the pass goes on after its last decision. *)
MutantForward(t) == GoTo(t, "recover")

(* run_once goes on to the next decision. *)
Forward(t) == Continues(t, tick[t].pass, "recover")

Todo(i) == linear[i] = "Todo"

TickInit ==
  /\ LeaseInit
  /\ linear = [i \in Issues |-> "Todo"]
  /\ fit \in [Issues -> BOOLEAN]
  /\ board = [c \in Cards |-> "none"]
  /\ expired = {}
  /\ tick = [t \in Ticks |-> Idle]
  /\ wasted = [i \in Issues |-> 0]
  /\ faults = 0 /\ edits = 0

-------------------------------------------------------------------------------
(* The reads of a tick *)

(* main: the map of the issues it will be able to move. *)
Maps(t, known) ==
  /\ tick[t].at = "idle"
  /\ tick' = [tick EXCEPT ![t] = [Idle EXCEPT !.at = "read", !.known = known]]

Begins(t) ==
  /\ Maps(t, First(Page, {i \in Issues : Todo(i)}))
  /\ UNCHANGED <<leaseVars, world, expired, counts>>

(* read_issues, with the labels that the policy will look at. *)
ReadsIssues(t) ==
  /\ tick[t].at = "read"
  /\ LET page == First(Page, {i \in Issues : Todo(i)})
     IN  Continues(t, {i \in page : fit[i]}, "guard")
  /\ UNCHANGED <<leaseVars, world, expired, counts>>

(* Mutant: an issue that has a card is not left out. *)
MutantReadsBoard(t) ==
  /\ tick[t].at = "guard"
  /\ GoTo(t, "recover")
  /\ UNCHANGED <<leaseVars, world, expired, counts>>

(* existing_cards and select_with_guard: dedup and bound. *)
ReadsBoard(t) ==
  /\ tick[t].at = "guard"
  /\ LET candidates == {i \in tick[t].pass : LiveCards(i) = {}}
     IN  Continues(t, First(Bound, candidates), "recover")
  /\ UNCHANGED <<leaseVars, world, expired, counts>>

-------------------------------------------------------------------------------
(* A decision: recover, claim, dispatch *)

(* The next decision of the pass. *)
Takes(t, i) ==
  /\ tick[t].at = "recover"
  /\ i \in tick[t].pass /\ \A j \in tick[t].pass : Rank[i] =< Rank[j]
  /\ tick' = [tick EXCEPT ![t].at = "claim", ![t].pass = @ \ {i},
                          ![t].issue = i, ![t].run = NoRun, ![t].card = NoRun]

(* recover_expired_issue *)
Recovers(t) ==
  /\ \E i \in tick[t].pass :
       /\ Takes(t, i)
       /\ IF i \in expired
          THEN Release(i) /\ expired' = expired \ {i}
          ELSE UNCHANGED <<leaseVars, expired>>
  /\ UNCHANGED <<world, counts>>

(* execute() claims the issue for a fresh run. *)
Claims(t) ==
  /\ tick[t].at = "claim"
  /\ \E r \in Runs :
       /\ IssueOf[r] = Current(t)
       /\ Grant(r)
       /\ tick' = [tick EXCEPT ![t].at = "move", ![t].run = r]
  /\ UNCHANGED <<world, expired, counts>>

(* Bound of the model: the identifiers of runs are used up. *)
RunLeft(i) == \E r \in Runs \ used : IssueOf[r] = i

(* Mutant: a conflict is tried again. *)
MutantConflicts(t) ==
  /\ tick[t].at = "claim"
  /\ lease[Current(t)] # Free \/ ~RunLeft(Current(t))
  /\ GoTo(t, "claim")
  /\ UNCHANGED <<leaseVars, world, expired, counts>>

(* Mutant: a conflict ends the pass, as other exceptions do. *)
MutantConflictsEnd(t) ==
  /\ tick[t].at = "claim"
  /\ lease[Current(t)] # Free \/ ~RunLeft(Current(t))
  /\ Ends(t)
  /\ UNCHANGED <<leaseVars, world, expired, counts>>

(* RunConflict is recorded and the pass goes on. *)
Conflicts(t) ==
  /\ tick[t].at = "claim"
  /\ lease[Current(t)] # Free \/ ~RunLeft(Current(t))
  /\ Forward(t)
  /\ UNCHANGED <<leaseVars, world, expired, counts>>

(* move_issue_status: an issue that main did not read is not moved, nor is *)
(* one for whose new status no state is configured.                        *)
Movable(t, status) == Current(t) \in tick[t].known /\ status \in Mapped
Move(t, status) ==
  linear' = IF Movable(t, status) THEN [linear EXCEPT ![Current(t)] = status] ELSE linear
Moves(t, from, status, place) ==
  /\ tick[t].at = from
  /\ Move(t, status)
  /\ GoTo(t, place)
  /\ UNCHANGED <<leaseVars, fit, board, expired, counts>>

MovesInProgress(t) == Moves(t, "move", "In Progress", "start")

(* start looks at the board again. *)
StartFinds(t) ==
  /\ tick[t].at = "start"
  /\ IF LiveCards(Current(t)) = {} THEN GoTo(t, "create")
     ELSE \E c \in LiveCards(Current(t)) :
            tick' = [tick EXCEPT ![t].at = "wait", ![t].card = c]
  /\ UNCHANGED <<leaseVars, world, expired, counts>>

(* Mutant: the idempotency key has the run and not the issue. *)
MutantCreatesCard(t) ==
  /\ tick[t].at = "create"
  /\ board' = [board EXCEPT ![tick[t].run] = "open"]
  /\ tick' = [tick EXCEPT ![t].at = "wait", ![t].card = tick[t].run]
  /\ UNCHANGED <<leaseVars, linear, fit, expired, counts>>

(* create_task returns the card with the issue's key, if there is one. *)
CreatesCard(t) ==
  LET keyed == LiveCards(Current(t)) \cap Runs IN
  /\ tick[t].at = "create"
  /\ \E c \in IF keyed = {} THEN {tick[t].run} ELSE keyed :
       /\ board' = IF keyed = {} THEN [board EXCEPT ![c] = "open"] ELSE board
       /\ tick' = [tick EXCEPT ![t].at = "wait", ![t].card = c]
  /\ UNCHANGED <<leaseVars, linear, fit, expired, counts>>

(* While the pulse beats only a failed heartbeat lets the lock expire.     *)
PulseFailed(t) == ~Owns(t) \/ Current(t) \in expired

(* The card is done or blocked: its gates pass, or they do not, or the     *)
(* batch of its events or a heartbeat fails the run.                       *)
DispatchReturns(t) ==
  /\ tick[t].at = "wait"
  /\ board[tick[t].card] = "ended"
  /\ \E place \in IF PulseFailed(t) THEN {"fail"} ELSE {"review", "park", "fail"} :
       GoTo(t, place)
  /\ UNCHANGED <<leaseVars, world, expired, counts>>

(* The run of the card failed, it was not ended in time, or a read raised. *)
DispatchRaises(t) ==
  /\ tick[t].at = "wait"
  /\ GoTo(t, "fail")
  /\ UNCHANGED <<leaseVars, world, expired, counts>>

-------------------------------------------------------------------------------
(* The end of a run *)

MovesInReview(t) == Moves(t, "review", "In Review", "complete")
MovesBlocked(t) == Moves(t, "park", "Blocked", "block")

(* The owner's finish gives its issue up; a lock that expired but was not  *)
(* recovered still counts.                                                 *)
Finished(t) == Release(Current(t)) /\ expired' = expired \ {Current(t)}

(* finish completed; when it is refused the except clause takes over. *)
Completes(t) ==
  /\ tick[t].at = "complete"
  /\ IF Owns(t) THEN Finished(t) /\ Forward(t)
     ELSE GoTo(t, "fail") /\ UNCHANGED <<leaseVars, expired>>
  /\ UNCHANGED <<world, counts>>

(* finish blocked, and ExecutionBlocked is recorded. *)
Blocks(t) ==
  /\ tick[t].at = "block"
  /\ IF Owns(t)
     THEN Park(Current(t)) /\ expired' = expired \ {Current(t)} /\ Forward(t)
     ELSE Ends(t) /\ UNCHANGED <<leaseVars, expired>>
  /\ UNCHANGED <<world, counts>>

(* finish failed, and the exception is raised again: one that is no        *)
(* RunConflict ends the pass, and so does a finish that is refused.        *)
Fails(t) ==
  /\ tick[t].at \in {"fail", "clash"}
  /\ IF Owns(t) THEN Finished(t) ELSE UNCHANGED <<leaseVars, expired>>
  /\ IF Owns(t) /\ tick[t].at = "clash" THEN Forward(t) ELSE Ends(t)
  /\ UNCHANGED <<world, counts>>

-------------------------------------------------------------------------------
(* What fails *)

Fault == faults < MaxFaults /\ faults' = faults + 1 /\ UNCHANGED edits

(* The fault costs the issue a run if the run has no card yet. *)
Wastes(t) ==
  wasted' = IF tick[t].at \in Cardless THEN [wasted EXCEPT ![Current(t)] = @ + 1] ELSE wasted

(* Linear answers main without a body (a refusal, a fault of a proxy),     *)
(* which counts as no issues: the tick goes on and can move none.          *)
BeginsBlind(t) ==
  /\ Fault
  /\ Maps(t, {})
  /\ UNCHANGED <<leaseVars, world, expired, wasted>>

(* Linear answers that it did not move the issue: nobody looks at that.    *)
MoveIgnored(t) ==
  /\ Fault
  /\ \/ tick[t].at = "move" /\ GoTo(t, "start")
     \/ tick[t].at = "review" /\ GoTo(t, "complete")
     \/ tick[t].at = "park" /\ GoTo(t, "block")
  /\ UNCHANGED <<leaseVars, world, expired, wasted>>

(* A call raises: within the try of execute() the run fails, elsewhere the *)
(* exception ends the tick.                                                *)
CallRaises(t) ==
  /\ Fault /\ Wastes(t)
  /\ IF tick[t].at \in {"move", "start", "create", "review", "complete"}
     THEN GoTo(t, "fail")
     ELSE tick[t].at \notin {"idle", "wait"} /\ Ends(t)
  /\ UNCHANGED <<leaseVars, world, expired>>

(* The store answers a call of execute() with 409, whatever the call, and  *)
(* that is a RunConflict, with which the pass goes on: at once if it was   *)
(* the claim or the finish of a run that failed, else after such a finish. *)
StoreConflicts(t) ==
  /\ Fault /\ Wastes(t)
  /\ \/ /\ \/ tick[t].at \in {"start", "complete"}
           \/ tick[t].at = "wait" /\ board[tick[t].card] = "ended"
        /\ GoTo(t, "clash")
     \/ tick[t].at \in {"claim", "block", "fail", "clash"} /\ Forward(t)
  /\ UNCHANGED <<leaseVars, world, expired>>

(* The process dies: TimeoutStartSec, a reboot. *)
Crashes(t) ==
  /\ Fault /\ Wastes(t)
  /\ tick[t].at # "idle"
  /\ Ends(t)
  /\ UNCHANGED <<leaseVars, world, expired>>

Beats(i) == \E t \in Ticks : tick[t].at \in Pulsing /\ tick[t].run = lease[i].run

(* A lock without a pulse expires. *)
Expires(i) ==
  /\ lease[i].mode = "held" /\ i \notin expired /\ ~Beats(i)
  /\ expired' = expired \cup {i}
  /\ UNCHANGED <<leaseVars, world, tick, counts>>

(* The pulse of a worker ended at a failed heartbeat. *)
PulseFails(i) ==
  /\ Fault
  /\ lease[i].mode = "held" /\ i \notin expired /\ Beats(i)
  /\ expired' = expired \cup {i}
  /\ UNCHANGED <<leaseVars, world, tick, wasted>>

-------------------------------------------------------------------------------
(* What people and the workers of the board do *)

Edit ==
  /\ edits < MaxEdits /\ edits' = edits + 1
  /\ UNCHANGED <<expired, tick, wasted, faults>>

MovesIssue(i) ==
  /\ Edit
  /\ \E status \in {"Todo", "Done"} \ {linear[i]} : linear' = [linear EXCEPT ![i] = status]
  /\ UNCHANGED <<leaseVars, fit, board>>

Relabels(i) ==
  /\ Edit
  /\ fit' = [fit EXCEPT ![i] = ~fit[i]]
  /\ UNCHANGED <<leaseVars, linear, board>>

WritesCard(i) ==
  /\ Edit
  /\ board[i] = "none"
  /\ board' = [board EXCEPT ![i] = "open"]
  /\ UNCHANGED <<leaseVars, linear, fit>>

Archives(c) ==
  /\ Edit
  /\ board[c] \notin {"none", "archived"}
  /\ board' = [board EXCEPT ![c] = "archived"]
  /\ UNCHANGED <<leaseVars, linear, fit>>

GivesBack(i) ==
  /\ Edit
  /\ Unpark(i)
  /\ UNCHANGED world

CardEnds(c) ==
  /\ board[c] = "open"
  /\ board' = [board EXCEPT ![c] = "ended"]
  /\ UNCHANGED <<leaseVars, linear, fit, expired, tick, counts>>

-------------------------------------------------------------------------------
(* The specification *)

TickStep(t) ==
  \/ ReadsIssues(t) \/ ReadsBoard(t)
  \/ Recovers(t) \/ Claims(t) \/ Conflicts(t)
  \/ MovesInProgress(t) \/ StartFinds(t) \/ CreatesCard(t)
  \/ DispatchReturns(t) \/ DispatchRaises(t)
  \/ MovesInReview(t) \/ Completes(t)
  \/ MovesBlocked(t) \/ Blocks(t) \/ Fails(t)

TickNext ==
  \/ \E t \in Ticks :
       \/ Begins(t) \/ TickStep(t)
       \/ BeginsBlind(t) \/ MoveIgnored(t) \/ CallRaises(t) \/ StoreConflicts(t) \/ Crashes(t)
  \/ \E i \in Issues :
       \/ Expires(i) \/ PulseFails(i)
       \/ MovesIssue(i) \/ Relabels(i) \/ WritesCard(i) \/ GivesBack(i)
  \/ \E c \in Cards : Archives(c) \/ CardEnds(c)

TickSpec == TickInit /\ [][TickNext]_tickVars

(* The timer fires again after every tick, a tick goes on (every call of   *)
(* it has a timeout, the wait for a card too), and time passes.            *)
FairTickSpec ==
  /\ TickSpec
  /\ WF_tickVars(Begins(Timer))
  /\ \A t \in Ticks : WF_tickVars(TickStep(t))
  /\ \A i \in Issues : WF_tickVars(Expires(i))

-------------------------------------------------------------------------------
(* Properties *)

Places == {"idle", "read", "guard", "recover", "claim"} \cup Pulsing \cup Closing
Records == [at : Places, known : SUBSET Issues, pass : SUBSET Issues,
            issue : Issues \cup {NoRun}, run : Runs \cup {NoRun}, card : Cards \cup {NoRun}]

(* Type correctness of the ticks and of the world they act on; a tick has  *)
(* decisions to take for as long as it says so.                            *)
TickTypeOK ==
  /\ lease \in [Issues -> {Free} \cup {Held(r) : r \in Runs} \cup {Parked(r) : r \in Runs}]
  /\ used \subseteq Runs
  /\ linear \in [Issues -> {"Todo", "In Progress", "In Review", "Blocked", "Done"}]
  /\ fit \in [Issues -> BOOLEAN]
  /\ board \in [Cards -> {"none", "open", "ended", "archived"}]
  /\ expired \subseteq {i \in Issues : lease[i].mode = "held"}
  /\ tick \in [Ticks -> Records]
  /\ \A t \in Ticks : tick[t].at \in {"guard", "recover"} => tick[t].pass # {}
  /\ wasted \in [Issues -> Nat]
  /\ faults \in 0 .. MaxFaults /\ edits \in 0 .. MaxEdits

(* However many ticks work on an issue (its lock may have expired under    *)
(* one of them), the poller has at most one card for it on the board       *)
(* (poller_tick.py 153-156, 170-196).                                      *)
OneRuntimeCard ==
  \A r, s \in Runs :
    {r, s} \subseteq LiveCards(IssueOf[r]) => r = s

(* A held issue changes hands in two ways only: its own run finishes, or   *)
(* its lock had expired.  No conflict, no recovery by another tick and no  *)
(* late finish of a run that lost it takes it away (README.md 53-57).      *)
LeaseEndsWithItsRun ==
  [][\A i \in Issues :
       lease[i].mode = "held" /\ lease'[i] # lease[i] =>
         \/ i \in expired
         \/ \E t \in Ticks : /\ tick[t].at \in Closing /\ Current(t) = i
                             /\ tick[t].run = lease[i].run]_tickVars

Archived(i) == {c \in Cards : About(c) = i /\ board[c] = "archived"}
RunsUsed(i) == {r \in used : IssueOf[r] = i}

(* Without overlapping ticks, once a run has a card only archiving the     *)
(* card gives the issue another run, whatever happens after that in        *)
(* Linear, to the run, its lock or its tick.  A run that failed before it  *)
(* had one may be followed by another (guard 161-164).                     *)
ArchivingReleases ==
  \A i \in Issues :
    Cardinality(RunsUsed(i)) =< 1 + Cardinality(Archived(i)) + wasted[i]

(* A tick never waits for an issue it cannot have, or for a card that does *)
(* not end: every tick ends, and the timer can start the next one.         *)
EveryTickEnds == \A t \in Ticks : tick[t].at # "idle" ~> tick[t].at = "idle"

(* Issue i is one for the next tick: Todo, fit, without a card, and not    *)
(* in the hands of a worker or of an operator.                             *)
Awaits(i) ==
  /\ Todo(i) /\ fit[i] /\ LiveCards(i) = {}
  /\ lease[i].mode # "parked" /\ RunLeft(i)
  /\ ~ \E t \in Ticks : Works(t, i)

(* No issue waits for ever: neither the lock of a dead worker, nor an      *)
(* issue in front of it that conflicts in every tick, nor one that fails,  *)
(* keeps it from being dispatched.  The guard says of the issues over the  *)
(* bound that they are "picked up by the next tick" (guard 16-17).         *)
EveryoneServed == \A i \in Issues : []<>~Awaits(i)
===============================================================================
