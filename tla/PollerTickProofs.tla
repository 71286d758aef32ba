--------------------------- MODULE PollerTickProofs ---------------------------
(***************************************************************************)
(* Proofs about PollerTick, for any number of issues, runs, cards and      *)
(* overlapping ticks, and any bounds: types, one card of the runtime for   *)
(* an issue, no issue taken from the run that holds it, no run of an issue *)
(* that an archived card or a failure does not pay for; one owner among    *)
(* the ticks at an issue, which never gets back what it lost; a pass that  *)
(* keeps its bound and only goes on; what Linear is told; and that the     *)
(* ticks use the store as IssueLease allows.                               *)
(***************************************************************************)
EXTENDS PollerTick, FiniteSetTheorems, TLAPS

(* A tick that is at an issue knows it, and the run it made is for it.     *)
Sound(rec) ==
  /\ rec.at \in {"guard", "recover"} => rec.pass # {}
  /\ rec.at \in {"claim"} \cup Pulsing \cup Closing => rec.issue \in Issues
  /\ rec.at \in Pulsing \cup Closing => rec.run \in Runs /\ IssueOf[rec.run] = rec.issue

TicksOK == tick \in [Ticks -> Records] /\ \A t \in Ticks : Sound(tick[t])

Leases == {Free} \cup {Held(r) : r \in Runs} \cup {Parked(r) : r \in Runs}
LeasesOK ==
  /\ lease \in [Issues -> Leases]
  /\ used \subseteq Runs
  /\ expired \subseteq {i \in Issues : lease[i].mode = "held"}
WorldOK ==
  /\ linear \in [Issues -> {"Todo", "In Progress", "In Review", "Blocked", "Done"}]
  /\ fit \in [Issues -> BOOLEAN]
  /\ board \in [Cards -> {"none", "open", "ended", "archived"}]
  /\ wasted \in [Issues -> Nat]
  /\ faults \in 0 .. MaxFaults /\ edits \in 0 .. MaxEdits

(* The inductive invariant. *)
TickInv == TicksOK /\ LeasesOK /\ WorldOK /\ OneRuntimeCard

-------------------------------------------------------------------------------
(* What a tick does *)

LEMMA TickUpdates ==
  ASSUME TicksOK, NEW t \in Ticks, NEW rec \in Records, Sound(rec),
         tick' = [tick EXCEPT ![t] = rec]
  PROVE  TicksOK'
BY DEF TicksOK, Sound

(* A tick at work goes to another place of its work, with any card. *)
LEMMA WorkGoesOn ==
  ASSUME TicksOK, NEW t \in Ticks, tick[t].at \in Pulsing \cup Closing,
         NEW place \in Pulsing \cup Closing, NEW c \in Cards \cup {NoRun},
         \/ GoTo(t, place)
         \/ tick' = [tick EXCEPT ![t].at = place, ![t].card = c]
  PROVE  TicksOK'
<1> DEFINE card == IF GoTo(t, place) THEN tick[t].card ELSE c
           rec == [tick[t] EXCEPT !.at = place, !.card = card]
<1>1. tick[t] \in Records /\ Sound(tick[t])
  BY DEF TicksOK
<1>2. rec \in Records
  BY <1>1 DEF Records, Places
<1>3. Sound(rec)
  BY <1>1 DEF Sound, Records, Pulsing, Cardless, Closing
<1>4. tick' = [tick EXCEPT ![t] = rec]
  <2>1. CASE GoTo(t, place)
    BY <1>1, <2>1 DEF GoTo, TicksOK, Records
  <2>2. CASE ~ GoTo(t, place)
    BY <1>1, <2>2 DEF TicksOK, Records
  <2>3. QED
    BY <2>1, <2>2
<1>5. QED
  BY <1>2, <1>3, <1>4, TickUpdates

LEMMA IdleIsSound == Idle \in Records /\ Sound(Idle)
BY DEF Idle, Records, Places, Sound, Pulsing, Cardless, Closing

LEMMA EndIsSound ==
  ASSUME TicksOK, NEW t \in Ticks, Ends(t)
  PROVE  TicksOK'
BY IdleIsSound, TickUpdates DEF Ends

LEMMA ContinuesIsSound ==
  ASSUME TicksOK, NEW t \in Ticks, NEW list \in SUBSET Issues,
         NEW place \in {"guard", "recover"}, Continues(t, list, place)
  PROVE  TicksOK'
<1> DEFINE rec == IF list = {} THEN Idle ELSE [tick[t] EXCEPT !.pass = list, !.at = place]
<1>1. tick[t] \in Records
  BY DEF TicksOK
<1>2. rec \in Records /\ Sound(rec)
  BY <1>1, IdleIsSound DEF Records, Sound, Places, Pulsing, Cardless, Closing
<1>3. tick' = [tick EXCEPT ![t] = rec]
  BY DEF Continues, TicksOK
<1>4. QED
  BY <1>2, <1>3, TickUpdates

LEMMA ForwardIsSound ==
  ASSUME TicksOK, NEW t \in Ticks, Forward(t)
  PROVE  TicksOK'
<1>1. tick[t].pass \in SUBSET Issues
  BY DEF TicksOK, Records
<1>2. QED
  BY <1>1, ContinuesIsSound DEF Forward

LEMMA TakesIsSound ==
  ASSUME TicksOK, NEW t \in Ticks, NEW i \in Issues, Takes(t, i)
  PROVE  TicksOK'
<1> DEFINE rec == [tick[t] EXCEPT !.at = "claim", !.pass = @ \ {i}, !.issue = i,
                                  !.run = NoRun, !.card = NoRun]
<1>1. tick[t] \in Records
  BY DEF TicksOK
<1>2. rec \in Records /\ Sound(rec)
  BY <1>1 DEF Records, Sound, Places, Pulsing, Cardless, Closing
<1>3. tick' = [tick EXCEPT ![t] = rec]
  BY <1>1 DEF Takes, TicksOK, Records
<1>4. QED
  BY <1>2, <1>3, TickUpdates

(* main reads the issues it can move, or is told of none. *)
LEMMA ReadBegins ==
  ASSUME NEW t \in Ticks, Begins(t) \/ BeginsBlind(t)
  PROVE  /\ tick[t].at = "idle"
         /\ \E known \in SUBSET Issues :
              tick' = [tick EXCEPT ![t] = [Idle EXCEPT !.at = "read", !.known = known]]
<1>1. PICK known \in SUBSET Issues : Maps(t, known)
  BY DEF Begins, BeginsBlind, First
<1>2. QED
  BY <1>1 DEF Maps

LEMMA BeginIsSound ==
  ASSUME TicksOK, NEW t \in Ticks, Begins(t) \/ BeginsBlind(t)
  PROVE  TicksOK'
<1>1. PICK todo \in SUBSET Issues :
        tick' = [tick EXCEPT ![t] = [Idle EXCEPT !.at = "read", !.known = todo]]
  BY ReadBegins
<1> DEFINE rec == [Idle EXCEPT !.at = "read", !.known = todo]
<1>2. rec \in Records /\ Sound(rec)
  BY <1>1, IdleIsSound DEF Records, Sound, Places, Pulsing, Cardless, Closing
<1>3. tick' = [tick EXCEPT ![t] = rec]
  BY <1>1
<1>4. QED
  BY <1>2, <1>3, TickUpdates

LEMMA ClaimIsSound ==
  ASSUME TicksOK, NEW t \in Ticks, Claims(t)
  PROVE  TicksOK'
<1>1. PICK r \in Runs : /\ IssueOf[r] = Current(t)
                        /\ tick' = [tick EXCEPT ![t].at = "move", ![t].run = r]
  BY DEF Claims
<1> DEFINE rec == [tick[t] EXCEPT !.at = "move", !.run = r]
<1>2. tick[t] \in Records /\ Sound(tick[t])
  BY DEF TicksOK
<1>3. rec \in Records
  BY <1>2 DEF Records, Places, Pulsing, Cardless
<1>4. Sound(rec)
  BY <1>1, <1>2 DEF Claims, Current, Records, Sound, Pulsing, Cardless, Closing
<1>5. tick' = [tick EXCEPT ![t] = rec]
  BY <1>1, <1>2 DEF TicksOK, Records
<1>6. QED
  BY <1>3, <1>4, <1>5, TickUpdates

(* The steps of a call of execute() after its claim. *)
LEMMA WorkIsSound ==
  ASSUME TicksOK, NEW t \in Ticks,
         \/ MovesInProgress(t) \/ StartFinds(t) \/ CreatesCard(t)
         \/ DispatchReturns(t) \/ DispatchRaises(t)
         \/ MovesInReview(t) \/ MovesBlocked(t) \/ MoveIgnored(t)
  PROVE  TicksOK'
<1> USE DEF Pulsing, Cardless, Closing
<1>1. NoRun \in Cards \cup {NoRun}
  OBVIOUS
<1>2. CASE MovesInProgress(t) \/ MovesInReview(t) \/ MovesBlocked(t) \/ DispatchRaises(t)
  BY <1>1, <1>2, WorkGoesOn
  DEF MovesInProgress, MovesInReview, MovesBlocked, DispatchRaises, Moves
<1>3. CASE DispatchReturns(t)
  BY <1>1, <1>3, WorkGoesOn DEF DispatchReturns
<1>4. CASE StartFinds(t)
  <2>1. CASE GoTo(t, "create")
    BY <1>1, <1>4, <2>1, WorkGoesOn DEF StartFinds
  <2>2. CASE \E c \in LiveCards(Current(t)) :
               tick' = [tick EXCEPT ![t].at = "wait", ![t].card = c]
    BY <1>4, <2>2, WorkGoesOn DEF StartFinds, LiveCards
  <2>3. QED
    BY <1>4, <2>1, <2>2 DEF StartFinds
<1>5. CASE CreatesCard(t)
  <2>1. PICK c \in {tick[t].run} \cup LiveCards(Current(t)) :
          tick' = [tick EXCEPT ![t].at = "wait", ![t].card = c]
    BY <1>5 DEF CreatesCard
  <2>2. c \in Cards \cup {NoRun}
    BY <2>1 DEF TicksOK, Records, LiveCards, Cards
  <2>3. QED
    BY <1>5, <2>1, <2>2, WorkGoesOn DEF CreatesCard
<1>6. CASE MoveIgnored(t)
  BY <1>1, <1>6, WorkGoesOn DEF MoveIgnored
<1>7. QED
  BY <1>2, <1>3, <1>4, <1>5, <1>6

LEMMA TickStepIsSound ==
  ASSUME TicksOK, NEW t \in Ticks, TickStep(t)
  PROVE  TicksOK'
<1>1. CASE ReadsIssues(t)
  <2>1. PICK list \in SUBSET Issues : Continues(t, list, "guard")
    BY <1>1 DEF ReadsIssues, First
  <2>2. QED
    BY <2>1, ContinuesIsSound
<1>2. CASE ReadsBoard(t)
  <2>1. tick[t].pass \in SUBSET Issues
    BY DEF TicksOK, Records
  <2>2. PICK list \in SUBSET Issues : Continues(t, list, "recover")
    BY <1>2, <2>1 DEF ReadsBoard, First
  <2>3. QED
    BY <2>2, ContinuesIsSound
<1>3. CASE Recovers(t)
  <2>1. PICK i \in tick[t].pass : Takes(t, i)
    BY <1>3 DEF Recovers
  <2>2. i \in Issues
    BY <2>1 DEF TicksOK, Records
  <2>3. QED
    BY <2>1, <2>2, TakesIsSound
<1>4. CASE Claims(t)
  BY <1>4, ClaimIsSound
<1>5. CASE Conflicts(t)
  BY <1>5, ForwardIsSound DEF Conflicts
<1>6. CASE Completes(t)
  <2>1. CASE GoTo(t, "fail")
    BY <1>6, <2>1, WorkGoesOn DEF Completes, Pulsing, Cardless, Closing
  <2>2. CASE Forward(t)
    BY <2>2, ForwardIsSound
  <2>3. QED
    BY <1>6, <2>1, <2>2 DEF Completes
<1>7. CASE Blocks(t) \/ Fails(t)
  BY <1>7, ForwardIsSound, EndIsSound DEF Blocks, Fails
<1>8. QED
  BY <1>1, <1>2, <1>3, <1>4, <1>5, <1>6, <1>7, WorkIsSound DEF TickStep

LEMMA CallRaiseIsSound ==
  ASSUME TicksOK, NEW t \in Ticks, CallRaises(t)
  PROVE  TicksOK'
<1>1. CASE tick[t].at \in {"move", "start", "create", "review", "complete"}
  <2>1. tick[t].at \in Pulsing \cup Closing /\ "fail" \in Pulsing \cup Closing
    BY <1>1 DEF Pulsing, Cardless, Closing
  <2>2. GoTo(t, "fail")
    BY <1>1 DEF CallRaises
  <2>3. QED
    BY <2>1, <2>2, WorkGoesOn
<1>2. CASE ~ (tick[t].at \in {"move", "start", "create", "review", "complete"})
  BY <1>2, EndIsSound DEF CallRaises
<1>3. QED
  BY <1>1, <1>2

LEMMA ConflictIsSound ==
  ASSUME TicksOK, NEW t \in Ticks, StoreConflicts(t)
  PROVE  TicksOK'
<1>1. CASE GoTo(t, "clash") /\ tick[t].at \in {"start", "complete", "wait"}
  <2>1. NoRun \in Cards \cup {NoRun}
    OBVIOUS
  <2>2. tick[t].at \in Pulsing \cup Closing /\ "clash" \in Pulsing \cup Closing
    BY <1>1 DEF Pulsing, Cardless, Closing
  <2>3. QED
    BY <1>1, <2>1, <2>2, WorkGoesOn
<1>2. CASE Forward(t)
  BY <1>2, ForwardIsSound
<1>3. QED
  BY <1>1, <1>2 DEF StoreConflicts

-------------------------------------------------------------------------------
(* What happens to the leases *)

LEMMA LeaseModes ==
  /\ Free.mode = "free"
  /\ \A r : Held(r).mode = "held" /\ Parked(r).mode = "parked"
  /\ Free \in Leases
  /\ \A r \in Runs : Held(r) \in Leases /\ Parked(r) \in Leases
BY DEF Free, Held, Parked, Leases

LEMMA HolderIsRun ==
  ASSUME NEW l \in Leases, l.mode = "held"
  PROVE  l.run \in Runs
<1>1. \E r \in Runs : l = Held(r) \/ l = Parked(r)
  BY LeaseModes DEF Leases
<1>2. QED
  BY <1>1 DEF Held, Parked

(* A lease ends, and with it the expiry of its lock. *)
LEMMA ReleaseKeepsLeases ==
  ASSUME LeasesOK, NEW i \in Issues, Release(i), expired' = expired \ {i}
  PROVE  LeasesOK'
BY LeaseModes DEF LeasesOK, Release

LEMMA ParkKeepsLeases ==
  ASSUME LeasesOK, NEW i \in Issues, Park(i), expired' = expired \ {i}
  PROVE  LeasesOK'
<1>1. lease[i].run \in Runs
  BY HolderIsRun DEF LeasesOK, Park
<1>2. QED
  BY <1>1, LeaseModes DEF LeasesOK, Park

LEMMA UnparkKeepsLeases ==
  ASSUME LeasesOK, NEW i \in Issues, Unpark(i), UNCHANGED expired
  PROVE  LeasesOK'
BY LeaseModes DEF LeasesOK, Unpark

LEMMA GrantKeepsLeases ==
  ASSUME LeasesOK, NEW r \in Runs, Grant(r), UNCHANGED expired
  PROVE  LeasesOK'
<1>1. IssueOf[r] \in Issues
  BY TickAssumption
<1>2. IssueOf[r] \notin expired
  BY <1>1, LeaseModes DEF Grant, LeasesOK
<1>3. QED
  BY <1>1, <1>2, LeaseModes DEF LeasesOK, Grant

(* The actions that leave the leases alone. *)
LEMMA OthersKeepLeases ==
  ASSUME LeasesOK, UNCHANGED <<lease, used, expired>>
  PROVE  LeasesOK'
BY DEF LeasesOK

LEMMA ExpiryKeepsLeases ==
  ASSUME LeasesOK, NEW i \in Issues, Expires(i) \/ PulseFails(i)
  PROVE  LeasesOK'
BY DEF LeasesOK, Expires, PulseFails, leaseVars

LEMMA TickStepKeepsLeases ==
  ASSUME TicksOK, LeasesOK, NEW t \in Ticks, TickStep(t)
  PROVE  LeasesOK'
<1>1. CASE Recovers(t)
  <2>1. PICK i \in tick[t].pass :
          \/ Release(i) /\ expired' = expired \ {i}
          \/ UNCHANGED <<leaseVars, expired>>
    BY <1>1 DEF Recovers
  <2>2. i \in Issues
    BY <2>1 DEF TicksOK, Records
  <2>3. QED
    BY <2>1, <2>2, ReleaseKeepsLeases, OthersKeepLeases DEF leaseVars
<1>2. CASE Claims(t)
  BY <1>2, GrantKeepsLeases DEF Claims
<1>3. CASE Completes(t) \/ Blocks(t) \/ Fails(t)
  <2>1. Current(t) \in Issues
    BY <1>3 DEF Completes, Blocks, Fails, TicksOK, Sound, Current, Closing
  <2>2. \/ Finished(t)
        \/ Park(Current(t)) /\ expired' = expired \ {Current(t)}
        \/ UNCHANGED <<leaseVars, expired>>
    BY <1>3 DEF Completes, Blocks, Fails
  <2>3. QED
    BY <2>1, <2>2, ReleaseKeepsLeases, ParkKeepsLeases, OthersKeepLeases
    DEF Finished, leaseVars
<1>4. CASE UNCHANGED <<lease, used, expired>>
  BY <1>4, OthersKeepLeases
<1>5. QED
  BY <1>1, <1>2, <1>3, <1>4
  DEF TickStep, ReadsIssues, ReadsBoard, Conflicts, MovesInProgress, StartFinds,
      CreatesCard, DispatchReturns, DispatchRaises, MovesInReview, MovesBlocked,
      Moves, leaseVars

-------------------------------------------------------------------------------
(* What happens to the world *)

LEMMA Statuses ==
  ASSUME WorldOK, NEW i \in Issues,
         NEW s \in {"Todo", "In Progress", "In Review", "Blocked", "Done"}
  PROVE  [linear EXCEPT ![i] = s] \in
           [Issues -> {"Todo", "In Progress", "In Review", "Blocked", "Done"}]
BY DEF WorldOK

LEMMA CountsGo ==
  ASSUME WorldOK
  PROVE  /\ faults < MaxFaults => faults + 1 \in 0 .. MaxFaults
         /\ edits < MaxEdits => edits + 1 \in 0 .. MaxEdits
<1>1. MaxFaults \in Nat /\ MaxEdits \in Nat
  BY TickAssumption
<1>2. faults \in 0 .. MaxFaults /\ edits \in 0 .. MaxEdits
  BY DEF WorldOK
<1>3. QED
  BY <1>1, <1>2

(* A step that moves at most one issue. *)
LEMMA MoveKeepsWorld ==
  ASSUME WorldOK, TicksOK, NEW t \in Ticks,
         MovesInProgress(t) \/ MovesInReview(t) \/ MovesBlocked(t)
  PROVE  WorldOK'
<1>1. PICK status \in {"Todo", "In Progress", "In Review", "Blocked", "Done"} : Move(t, status)
  BY DEF MovesInProgress, MovesInReview, MovesBlocked, Moves
<1>3. linear' \in [Issues -> {"Todo", "In Progress", "In Review", "Blocked", "Done"}]
  <2>1. CASE linear' = [linear EXCEPT ![Current(t)] = status]
    BY <1>1, <2>1 DEF WorldOK
  <2>2. CASE UNCHANGED linear
    BY <2>2 DEF WorldOK
  <2>3. QED
    BY <1>1, <2>1, <2>2 DEF Move
<1>4. QED
  BY <1>3 DEF WorldOK, MovesInProgress, MovesInReview, MovesBlocked, Moves, counts

(* A step that opens, ends or archives at most one card. *)
LEMMA CardKeepsWorld ==
  ASSUME WorldOK, NEW c, NEW state \in {"none", "open", "ended", "archived"},
         board' = [board EXCEPT ![c] = state] \/ UNCHANGED board,
         UNCHANGED <<linear, fit>>,
         wasted' = wasted, faults' \in 0 .. MaxFaults, edits' \in 0 .. MaxEdits
  PROVE  WorldOK'
BY DEF WorldOK

LEMMA TickStepKeepsWorld ==
  ASSUME WorldOK, TicksOK, NEW t \in Ticks, TickStep(t)
  PROVE  WorldOK'
<1>1. CASE MovesInProgress(t) \/ MovesInReview(t) \/ MovesBlocked(t)
  BY <1>1, MoveKeepsWorld
<1>2. CASE CreatesCard(t)
  <2>1. PICK c : board' = [board EXCEPT ![c] = "open"] \/ UNCHANGED board
    BY <1>2 DEF CreatesCard
  <2>2. QED
    BY <1>2, <2>1, CardKeepsWorld DEF CreatesCard, counts, WorldOK
<1>3. CASE UNCHANGED <<linear, fit, board, wasted, faults, edits>>
  BY <1>3 DEF WorldOK
<1>4. QED
  BY <1>1, <1>2, <1>3
  DEF TickStep, ReadsIssues, ReadsBoard, Recovers, Claims, Conflicts, StartFinds,
      DispatchReturns, DispatchRaises, Completes, Blocks, Fails, world, counts

-------------------------------------------------------------------------------
(* One card of the runtime for an issue *)

LEMMA BoardFree ==
  ASSUME WorldOK, OneRuntimeCard, UNCHANGED board
  PROVE  OneRuntimeCard'
BY DEF OneRuntimeCard, LiveCards, Cards, About

(* A card that ends, is archived, or that a person opens. *)
LEMMA CardKeepsOne ==
  ASSUME WorldOK, OneRuntimeCard, NEW c \in Cards, NEW state,
         board' = [board EXCEPT ![c] = state],
         c \notin Runs \/ board[c] \notin {"none", "archived"}
  PROVE  OneRuntimeCard'
<1>1. \A r, s \in Runs : s \in LiveCards(IssueOf[r])' => s \in LiveCards(IssueOf[r])
  BY DEF LiveCards, Cards, About, WorldOK
<1>2. QED
  BY <1>1 DEF OneRuntimeCard

(* A new card, when the issue has none with its key. *)
LEMMA CreateKeepsOne ==
  ASSUME WorldOK, TicksOK, OneRuntimeCard, NEW t \in Ticks, CreatesCard(t)
  PROVE  OneRuntimeCard'
<1> DEFINE run == tick[t].run
           keyed == LiveCards(Current(t)) \cap Runs
<1>1. run \in Runs /\ IssueOf[run] = Current(t)
  BY DEF CreatesCard, TicksOK, Sound, Current, Pulsing, Cardless
<1>2. CASE keyed = {}
  <2>1. board' = [board EXCEPT ![run] = "open"]
    BY <1>2 DEF CreatesCard
  <2>2. \A r \in Runs : IssueOf[r] = IssueOf[run] => board[r] \in {"none", "archived"}
    BY <1>1, <1>2 DEF LiveCards, Cards, About
  <2>3. \A r, s \in Runs :
          s \in LiveCards(IssueOf[r])' =>
            s \in LiveCards(IssueOf[r]) \/ (s = run /\ IssueOf[r] = IssueOf[run])
    BY <1>1, <2>1 DEF LiveCards, Cards, About, WorldOK
  <2>4. \A r, s \in Runs :
          s \in LiveCards(IssueOf[r]) /\ IssueOf[r] = IssueOf[run] => FALSE
    BY <2>2 DEF LiveCards, Cards, About
  <2>5. QED
    BY <1>1, <2>3, <2>4 DEF OneRuntimeCard
<1>3. CASE keyed # {}
  BY <1>3, BoardFree DEF CreatesCard
<1>4. QED
  BY <1>2, <1>3

LEMMA TickStepKeepsOne ==
  ASSUME WorldOK, TicksOK, OneRuntimeCard, NEW t \in Ticks, TickStep(t)
  PROVE  OneRuntimeCard'
<1>1. CASE CreatesCard(t)
  BY <1>1, CreateKeepsOne
<1>2. CASE ~ CreatesCard(t)
  <2>1. UNCHANGED board
    BY <1>2
    DEF TickStep, ReadsIssues, ReadsBoard, Recovers, Claims, Conflicts, StartFinds,
        DispatchReturns, DispatchRaises, Completes, Blocks, Fails, Moves,
        MovesInProgress, MovesInReview, MovesBlocked, world
  <2>2. QED
    BY <2>1, BoardFree
<1>3. QED
  BY <1>1, <1>2

-------------------------------------------------------------------------------
(* The inductive invariant *)

LEMMA TickInvInit ==
  ASSUME TickInit
  PROVE  TickInv
<1>1. TicksOK
  BY IdleIsSound DEF TickInit, TicksOK
<1>2. LeasesOK
  BY LeaseModes DEF TickInit, LeaseInit, LeasesOK
<1>3. WorldOK
  <2>1. MaxFaults \in Nat /\ MaxEdits \in Nat
    BY TickAssumption
  <2>2. faults \in 0 .. MaxFaults /\ edits \in 0 .. MaxEdits
    BY <2>1 DEF TickInit
  <2>3. QED
    BY <2>2 DEF TickInit, WorldOK
<1>4. OneRuntimeCard
  BY DEF TickInit, OneRuntimeCard, LiveCards, Cards
<1>5. QED
  BY <1>1, <1>2, <1>3, <1>4 DEF TickInv

(* What people do in Linear, on the board and to parked runs. *)
LEMMA PeopleKeepInv ==
  ASSUME TickInv, NEW i \in Issues,
         MovesIssue(i) \/ Relabels(i) \/ WritesCard(i) \/ GivesBack(i)
  PROVE  TickInv'
<1> USE DEF TickInv
<1>1. TicksOK'
  BY DEF TicksOK, MovesIssue, Relabels, WritesCard, GivesBack, Edit
<1>2. LeasesOK'
  BY UnparkKeepsLeases, OthersKeepLeases
  DEF MovesIssue, Relabels, WritesCard, GivesBack, Edit, leaseVars
<1>3. wasted' = wasted /\ faults' \in 0 .. MaxFaults /\ edits' \in 0 .. MaxEdits
  BY CountsGo DEF WorldOK, MovesIssue, Relabels, WritesCard, GivesBack, Edit
<1>4. CASE MovesIssue(i)
  <2>1. PICK s \in {"Todo", "Done"} : linear' = [linear EXCEPT ![i] = s]
    BY <1>4 DEF MovesIssue
  <2>2. linear' \in [Issues -> {"Todo", "In Progress", "In Review", "Blocked", "Done"}]
    BY <2>1, Statuses
  <2>3. WorldOK' /\ OneRuntimeCard'
    BY <1>3, <1>4, <2>2, BoardFree DEF MovesIssue, WorldOK
  <2>4. QED
    BY <1>1, <1>2, <2>3
<1>5. CASE WritesCard(i)
  <2>1. i \in Cards /\ i \notin Runs
    BY TickAssumption DEF Cards
  <2>2. WorldOK'
    BY <1>3, <1>5, CardKeepsWorld DEF WritesCard
  <2>3. OneRuntimeCard'
    BY <1>5, <2>1, CardKeepsOne DEF WritesCard
  <2>4. QED
    BY <1>1, <1>2, <2>2, <2>3
<1>6. CASE Relabels(i) \/ GivesBack(i)
  <2>1. WorldOK' /\ OneRuntimeCard'
    BY <1>3, <1>6, BoardFree DEF Relabels, GivesBack, WorldOK, world
  <2>2. QED
    BY <1>1, <1>2, <2>1
<1>7. QED
  BY <1>4, <1>5, <1>6

LEMMA BoardKeepsInv ==
  ASSUME TickInv, NEW c \in Cards, Archives(c) \/ CardEnds(c)
  PROVE  TickInv'
<1>1. TicksOK'
  BY DEF TickInv, TicksOK, Archives, CardEnds, Edit
<1>2. LeasesOK'
  BY OthersKeepLeases DEF TickInv, Archives, CardEnds, Edit, leaseVars
<1>3. wasted' = wasted /\ faults' \in 0 .. MaxFaults /\ edits' \in 0 .. MaxEdits
  BY CountsGo DEF TickInv, WorldOK, Archives, CardEnds, Edit, counts
<1>4. WorldOK'
  BY <1>3, CardKeepsWorld DEF TickInv, Archives, CardEnds
<1>5. OneRuntimeCard'
  BY CardKeepsOne DEF TickInv, Archives, CardEnds
<1>6. QED
  BY <1>1, <1>2, <1>4, <1>5 DEF TickInv

(* A fault of tick t: it costs at most one run. *)
FaultOf(t) ==
  BeginsBlind(t) \/ MoveIgnored(t) \/ CallRaises(t) \/ StoreConflicts(t) \/ Crashes(t)

LEMMA WasteCounts ==
  ASSUME TickInv, NEW t \in Ticks, Wastes(t)
  PROVE  wasted' \in [Issues -> Nat]
<1>1. wasted \in [Issues -> Nat]
  BY DEF TickInv, WorldOK
<1>2. CASE tick[t].at \in Cardless
  <2>1. Current(t) \in Issues
    BY <1>2 DEF TickInv, TicksOK, Sound, Current, Pulsing
  <2>2. wasted[Current(t)] + 1 \in Nat
    BY <1>1, <2>1
  <2>3. wasted' = [wasted EXCEPT ![Current(t)] = wasted[Current(t)] + 1]
    BY <1>2 DEF Wastes
  <2>4. QED
    BY <1>1, <2>2, <2>3
<1>3. CASE tick[t].at \notin Cardless
  BY <1>1, <1>3 DEF Wastes
<1>4. QED
  BY <1>2, <1>3

LEMMA FaultsKeepInv ==
  ASSUME TickInv, NEW t \in Ticks, FaultOf(t)
  PROVE  TickInv'
<1>1. TicksOK'
  BY BeginIsSound, WorkIsSound, CallRaiseIsSound, ConflictIsSound, EndIsSound DEF FaultOf, TickInv, Crashes
<1>2. /\ UNCHANGED <<lease, used, expired, linear, fit, board, edits>>
      /\ faults < MaxFaults /\ faults' = faults + 1
      /\ Wastes(t) \/ UNCHANGED wasted
  BY DEF FaultOf, BeginsBlind, MoveIgnored, CallRaises, StoreConflicts, Crashes, Fault, leaseVars, world
<1>3. LeasesOK'
  BY <1>2, OthersKeepLeases DEF TickInv
<1>4. WorldOK'
  BY <1>2, CountsGo, WasteCounts DEF TickInv, WorldOK
<1>6. OneRuntimeCard'
  BY <1>2, BoardFree DEF TickInv
<1>7. QED
  BY <1>1, <1>3, <1>4, <1>6 DEF TickInv

LEMMA ExpiryKeepsInv ==
  ASSUME TickInv, NEW i \in Issues, Expires(i) \/ PulseFails(i)
  PROVE  TickInv'
<1>1. TicksOK'
  BY DEF TickInv, TicksOK, Expires, PulseFails
<1>2. LeasesOK'
  BY ExpiryKeepsLeases DEF TickInv
<1>3. WorldOK'
  BY CountsGo DEF TickInv, WorldOK, Expires, PulseFails, Fault, world, counts
<1>4. OneRuntimeCard'
  BY BoardFree DEF TickInv, Expires, PulseFails, world
<1>5. QED
  BY <1>1, <1>2, <1>3, <1>4 DEF TickInv

LEMMA TickInvNext ==
  ASSUME TickInv, [TickNext]_tickVars
  PROVE  TickInv'
<1>1. CASE UNCHANGED tickVars
  <2>1. TicksOK' /\ LeasesOK' /\ WorldOK'
    BY <1>1 DEF tickVars, TickInv, TicksOK, LeasesOK, WorldOK
  <2>2. OneRuntimeCard'
    BY <1>1, BoardFree DEF tickVars, TickInv
  <2>3. QED
    BY <2>1, <2>2 DEF TickInv
<1>2. ASSUME NEW t \in Ticks, Begins(t)
      PROVE  TickInv'
  BY <1>2, BeginIsSound, OthersKeepLeases, BoardFree
  DEF TickInv, Begins, WorldOK, leaseVars, world, counts
<1>3. ASSUME NEW t \in Ticks, TickStep(t)
      PROVE  TickInv'
  BY <1>3, TickStepIsSound, TickStepKeepsLeases, TickStepKeepsWorld, TickStepKeepsOne
  DEF TickInv
<1>4. ASSUME NEW t \in Ticks, FaultOf(t)
      PROVE  TickInv'
  BY <1>4, FaultsKeepInv
<1>5. ASSUME NEW i \in Issues,
             \/ Expires(i) \/ PulseFails(i)
             \/ MovesIssue(i) \/ Relabels(i) \/ WritesCard(i) \/ GivesBack(i)
      PROVE  TickInv'
  BY <1>5, ExpiryKeepsInv, PeopleKeepInv
<1>6. ASSUME NEW c \in Cards, Archives(c) \/ CardEnds(c)
      PROVE  TickInv'
  BY <1>6, BoardKeepsInv
<1>7. QED
  BY <1>1, <1>2, <1>3, <1>4, <1>5, <1>6 DEF TickNext, FaultOf

(* Whatever ticks overlap, fail or die: TickInv holds, ... *)
THEOREM TickInvariant == TickSpec => []TickInv
<1>1. TickInit => TickInv
  BY TickInvInit
<1>2. TickInv /\ [TickNext]_tickVars => TickInv'
  BY TickInvNext
<1>3. QED
  BY <1>1, <1>2, PTL DEF TickSpec

LEMMA TickInvTypes == TickInv => TickTypeOK
BY DEF TickInv, TicksOK, Sound, LeasesOK, Leases, WorldOK, TickTypeOK

(* ... the ticks and the world have their types, ... *)
THEOREM TickTypes == TickSpec => []TickTypeOK
BY TickInvariant, TickInvTypes, PTL

(* ... and the runtime has one card for an issue, for any number of        *)
(* overlapping ticks (poller_tick.py 153-156).                             *)
THEOREM OneCardPerIssue == TickSpec => []OneRuntimeCard
<1>1. TickInv => OneRuntimeCard
  BY DEF TickInv
<1>2. QED
  BY <1>1, TickInvariant, PTL

-------------------------------------------------------------------------------
(* Who ends a lease *)

(* The run of issue i finishes in tick t. *)
FinishesIn(t, i) ==
  tick[t].at \in Closing /\ Current(t) = i /\ tick[t].run = lease[i].run

LEMMA FinishIsOwn ==
  ASSUME TickInv, NEW t \in Ticks, Completes(t) \/ Blocks(t) \/ Fails(t),
         NEW i \in Issues, lease'[i] # lease[i]
  PROVE  FinishesIn(t, i)
<1>1. tick[t].at \in Closing
  BY DEF Completes, Blocks, Fails, Closing
<1>2. Current(t) \in Issues
  BY <1>1 DEF TickInv, TicksOK, Sound, Current
<1>3. Owns(t) /\ (Release(Current(t)) \/ Park(Current(t)))
  BY DEF Completes, Blocks, Fails, Finished, leaseVars
<1>4. Current(t) = i
  BY <1>3 DEF Release, Park, TickInv, LeasesOK
<1>5. tick[t].run = lease[i].run
  BY <1>3, <1>4 DEF Owns, Held
<1>6. QED
  BY <1>1, <1>4, <1>5 DEF FinishesIn

LEMMA LeaseEnds ==
  ASSUME TickInv, [TickNext]_tickVars, NEW i \in Issues,
         lease[i].mode = "held", lease'[i] # lease[i]
  PROVE  i \in expired \/ \E t \in Ticks : FinishesIn(t, i)
<1>1. CASE UNCHANGED lease
  BY <1>1
<1>2. ASSUME NEW t \in Ticks, Recovers(t)
      PROVE  i \in expired
  BY <1>2 DEF Recovers, Release, TickInv, LeasesOK, leaseVars
<1>3. ASSUME NEW t \in Ticks, Claims(t)
      PROVE  FALSE
  <2>1. PICK r \in Runs : Grant(r)
    BY <1>3 DEF Claims
  <2>2. IssueOf[r] = i
    BY <2>1 DEF Grant, TickInv, LeasesOK
  <2>3. QED
    BY <2>1, <2>2, LeaseModes DEF Grant
<1>4. ASSUME NEW j \in Issues, GivesBack(j)
      PROVE  FALSE
  BY <1>4 DEF GivesBack, Unpark, TickInv, LeasesOK
<1>5. ASSUME NEW t \in Ticks, Completes(t) \/ Blocks(t) \/ Fails(t)
      PROVE  FinishesIn(t, i)
  BY <1>5, FinishIsOwn
<1>6. ASSUME NEW t \in Ticks, TickStep(t) \/ Begins(t) \/ FaultOf(t),
             ~ (Recovers(t) \/ Claims(t) \/ Completes(t) \/ Blocks(t) \/ Fails(t))
      PROVE  UNCHANGED lease
  BY <1>6
  DEF TickStep, Begins, FaultOf, BeginsBlind, MoveIgnored, CallRaises, StoreConflicts, Crashes,
      ReadsIssues, ReadsBoard, Conflicts, StartFinds, CreatesCard, DispatchReturns, DispatchRaises, Moves, MovesInProgress,
      MovesInReview, MovesBlocked, leaseVars
<1>7. ASSUME NEW j \in Issues,
             \/ Expires(j) \/ PulseFails(j)
             \/ MovesIssue(j) \/ Relabels(j) \/ WritesCard(j)
      PROVE  UNCHANGED lease
  BY <1>7 DEF Expires, PulseFails, MovesIssue, Relabels, WritesCard, leaseVars
<1>8. ASSUME NEW c \in Cards, Archives(c) \/ CardEnds(c)
      PROVE  UNCHANGED lease
  BY <1>8 DEF Archives, CardEnds, leaseVars
<1>9. CASE UNCHANGED tickVars
  BY <1>9 DEF tickVars
<1>10. CASE TickNext
  <2>1. CASE \E t \in Ticks : Begins(t) \/ TickStep(t) \/ FaultOf(t)
    BY <2>1, <1>1, <1>2, <1>3, <1>5, <1>6 DEF TickStep
  <2>2. CASE \E j \in Issues :
               \/ Expires(j) \/ PulseFails(j)
               \/ MovesIssue(j) \/ Relabels(j) \/ WritesCard(j) \/ GivesBack(j)
    BY <2>2, <1>4, <1>7
  <2>3. CASE \E c \in Cards : Archives(c) \/ CardEnds(c)
    BY <2>3, <1>8
  <2>4. QED
    BY <1>10, <2>1, <2>2, <2>3 DEF TickNext, FaultOf
<1>11. QED
  BY <1>9, <1>10

(* A run keeps its issue until it finishes itself or its lock has expired. *)
THEOREM HolderKeepsIssue == TickSpec => LeaseEndsWithItsRun
<1> DEFINE Step ==
      \A i \in Issues :
        lease[i].mode = "held" /\ lease'[i] # lease[i] =>
          i \in expired \/ \E t \in Ticks : FinishesIn(t, i)
<1>1. TickInv /\ [TickNext]_tickVars => [Step]_tickVars
  BY LeaseEnds
<1>2. Step => \A i \in Issues :
                lease[i].mode = "held" /\ lease'[i] # lease[i] =>
                  \/ i \in expired
                  \/ \E t \in Ticks : /\ tick[t].at \in Closing /\ Current(t) = i
                                      /\ tick[t].run = lease[i].run
  BY DEF FinishesIn
<1>3. QED
  BY <1>1, <1>2, TickInvariant, PTL DEF TickSpec, LeaseEndsWithItsRun

-------------------------------------------------------------------------------
(* Runs and archived cards *)

(* The tick of the timer has decided for issue i and not claimed it yet; it *)
(* has claimed it and has no card yet; the runs of i are paid for by        *)
(* archived cards and by those that failed before they had one.             *)
Chosen(i) ==
  \/ /\ tick[Timer].at \in {"recover", "claim"} \cup Pulsing \cup Closing
     /\ i \in tick[Timer].pass
  \/ tick[Timer].at = "claim" /\ Current(Timer) = i
Fresh(i) == tick[Timer].at \in Cardless /\ Current(Timer) = i
Paid(i) == Cardinality(RunsUsed(i)) =< Cardinality(Archived(i)) + wasted[i]

(* One run more than that needs a live card, or a run that has none yet; a *)
(* decision is only taken when there is neither.                           *)
CountOK(i) ==
  /\ Cardinality(RunsUsed(i)) =< 1 + Cardinality(Archived(i)) + wasted[i]
  /\ Chosen(i) \/ (LiveCards(i) = {} /\ ~Fresh(i)) => Paid(i)
CountInv == \A i \in Issues : CountOK(i)

(* A decision is taken once, and the card of a run is new. *)
CardInv ==
  /\ \A r \in Runs : board[r] # "none" => r \in used
  /\ tick[Timer].at \in {"claim"} \cup Pulsing \cup Closing => Current(Timer) \notin tick[Timer].pass
  /\ tick[Timer].at \in Pulsing \cup Closing => tick[Timer].run \in used
  /\ tick[Timer].at \in Cardless => board[tick[Timer].run] = "none"

ArchiveInv == TickInv /\ CountInv /\ CardInv

LEMMA CountsFinite ==
  ASSUME IsFiniteSet(Runs), TickInv, NEW i \in Issues
  PROVE  /\ IsFiniteSet(Archived(i)) /\ Cardinality(Archived(i)) \in Nat
         /\ IsFiniteSet(RunsUsed(i)) /\ Cardinality(RunsUsed(i)) \in Nat
         /\ wasted \in [Issues -> Nat]
<1>1. Archived(i) \subseteq Runs \cup {i}
  BY DEF Archived, About, Cards
<1>2. IsFiniteSet(Runs \cup {i})
  BY FS_AddElement
<1>3. RunsUsed(i) \subseteq Runs
  BY DEF RunsUsed, TickInv, LeasesOK
<1>4. IsFiniteSet(Archived(i)) /\ IsFiniteSet(RunsUsed(i))
  BY <1>1, <1>2, <1>3, FS_Subset
<1>5. Cardinality(Archived(i)) \in Nat /\ Cardinality(RunsUsed(i)) \in Nat
  BY <1>4, FS_CardinalityType
<1>7. wasted \in [Issues -> Nat]
  BY DEF TickInv, WorldOK
<1>8. QED
  BY <1>4, <1>5, <1>7

(* A step that grants no run and archives no card of issue i. *)
LEMMA CountsKept ==
  ASSUME NEW i \in Issues, CountOK(i),
         RunsUsed(i)' = RunsUsed(i), Archived(i)' = Archived(i), wasted'[i] = wasted[i],
         Chosen(i)' => Chosen(i) \/ Paid(i),
         LiveCards(i)' = {} /\ ~Fresh(i)' => Paid(i) \/ (LiveCards(i) = {} /\ ~Fresh(i))
  PROVE  CountOK(i)'
BY DEF CountOK, Paid

(* A step that touches neither runs nor cards. *)
LEMMA QuietCounts ==
  ASSUME CountInv, used' = used, board' = board, wasted' = wasted,
         \A i \in Issues : Chosen(i)' => Chosen(i) \/ Paid(i),
         \A i \in Issues : Fresh(i) => Fresh(i)' \/ Paid(i) \/ LiveCards(i) # {}
  PROVE  CountInv'
<1> SUFFICES ASSUME NEW i \in Issues
             PROVE  CountOK(i)'
  BY DEF CountInv
<1>1. /\ RunsUsed(i)' = RunsUsed(i) /\ Archived(i)' = Archived(i)
      /\ LiveCards(i)' = LiveCards(i)
  BY DEF RunsUsed, Archived, LiveCards
<1>2. CountOK(i)
  BY DEF CountInv
<1>3. QED
  BY <1>1, <1>2, CountsKept

(* A fault that a run without a card meets pays for this run. *)
LEMMA FaultCounts ==
  ASSUME IsFiniteSet(Runs), TickInv, CountInv,
         NEW j \in Issues, wasted' = [wasted EXCEPT ![j] = @ + 1],
         used' = used, board' = board,
         \A i \in Issues \ {j} : (Chosen(i)' => Chosen(i)) /\ ~Fresh(i)
  PROVE  CountInv'
<1> SUFFICES ASSUME NEW i \in Issues
             PROVE  CountOK(i)'
  BY DEF CountInv
<1>1. /\ RunsUsed(i)' = RunsUsed(i) /\ Archived(i)' = Archived(i)
      /\ LiveCards(i)' = LiveCards(i)
  BY DEF RunsUsed, Archived, LiveCards
<1>2. /\ Cardinality(RunsUsed(i)) \in Nat /\ Cardinality(Archived(i)) \in Nat
      /\ wasted \in [Issues -> Nat]
  BY CountsFinite
<1>3. CountOK(i)
  BY DEF CountInv
<1>4. CASE i = j
  <2>1. wasted'[i] = wasted[i] + 1 /\ wasted[i] \in Nat
    BY <1>2, <1>4
  <2>2. Cardinality(RunsUsed(i)) =< Cardinality(Archived(i)) + wasted'[i]
    BY <1>2, <1>3, <2>1 DEF CountOK
  <2>3. QED
    BY <1>1, <1>2, <2>1, <2>2 DEF CountOK, Paid
<1>5. CASE i # j
  <2>1. wasted'[i] = wasted[i]
    BY <1>2, <1>5
  <2>2. QED
    BY <1>1, <1>3, <1>5, <2>1, CountsKept
<1>6. QED
  BY <1>4, <1>5

(* A card that did not exist is opened. *)
LEMMA OpensCard ==
  ASSUME TickInv, NEW c \in Cards, board[c] = "none", board' = [board EXCEPT ![c] = "open"]
  PROVE  /\ \A i \in Issues : Archived(i)' = Archived(i) /\ LiveCards(i) \subseteq LiveCards(i)'
         /\ c \in LiveCards(About(c))'
BY DEF TickInv, WorldOK, Archived, LiveCards, About

(* What the tick of the timer looks like. *)
LEMMA TimerRecord ==
  ASSUME TickInv, Ticks = {Timer}
  PROVE  /\ tick[Timer] \in Records /\ Sound(tick[Timer])
         /\ \A rec : tick' = [tick EXCEPT ![Timer] = rec] => tick'[Timer] = rec
         /\ \A place : GoTo(Timer, place) => tick'[Timer] = [tick[Timer] EXCEPT !.at = place]
BY DEF TickInv, TicksOK, GoTo

LEMMA ContinuesTimer ==
  ASSUME TickInv, Ticks = {Timer}, NEW list \in SUBSET Issues, NEW place, Continues(Timer, list, place)
  PROVE  /\ tick'[Timer].at \in {"idle", place}
         /\ tick'[Timer].at # "idle" => tick'[Timer].pass = list
<1>1. tick'[Timer] = IF list = {} THEN Idle ELSE [tick[Timer] EXCEPT !.pass = list, !.at = place]
  BY DEF Continues, TickInv, TicksOK
<1>2. QED
  BY <1>1, TimerRecord DEF Idle, Records

LEMMA ClaimCounts ==
  ASSUME IsFiniteSet(Runs), Ticks = {Timer}, ArchiveInv, Claims(Timer)
  PROVE  CountInv' /\ CardInv'
<1>0. tick[Timer] \in Records /\ Sound(tick[Timer]) /\ tick[Timer].at = "claim"
  BY TimerRecord DEF ArchiveInv, Claims
<1>j. PICK j \in Issues : j = Current(Timer)
  BY <1>0 DEF Sound, Current
<1>1. PICK r \in Runs : /\ IssueOf[r] = j /\ Grant(r)
                        /\ tick' = [tick EXCEPT ![Timer].at = "move", ![Timer].run = r]
  BY <1>j DEF Claims
<1>2. tick'[Timer] = [tick[Timer] EXCEPT !.at = "move", !.run = r]
  BY <1>1, <1>0 DEF ArchiveInv, TickInv, TicksOK, Records
<1>a. /\ tick'[Timer].at = "move" /\ tick'[Timer].run = r
      /\ tick'[Timer].pass = tick[Timer].pass /\ tick'[Timer].issue = tick[Timer].issue
  BY <1>0, <1>2 DEF Records
<1>b. Current(Timer)' = j /\ j \in Issues /\ j \notin tick[Timer].pass
  BY <1>0, <1>j, <1>a DEF Current, Sound, ArchiveInv, CardInv
<1>c. r \notin used /\ used' = used \cup {r} /\ board' = board /\ wasted' = wasted
  BY <1>1 DEF Grant, Claims, world, counts
<1>3. /\ tick'[Timer].at = "move" /\ tick'[Timer].run = r
      /\ tick'[Timer].pass = tick[Timer].pass /\ Current(Timer)' = j
      /\ r \notin used /\ used' = used \cup {r} /\ board' = board /\ wasted' = wasted
      /\ j \in Issues /\ j \notin tick[Timer].pass
  BY <1>a, <1>b, <1>c
<1>4. \A i \in Issues : Archived(i)' = Archived(i) /\ LiveCards(i)' = LiveCards(i)
  BY <1>3 DEF Archived, LiveCards
<1>5. ASSUME NEW i \in Issues, i # j
      PROVE  CountOK(i)'
  <2>1. RunsUsed(i)' = RunsUsed(i)
    BY <1>1, <1>3, <1>5 DEF RunsUsed
  <2>2. (Chosen(i)' => Chosen(i)) /\ ~Fresh(i)
    BY <1>0, <1>j, <1>3, <1>5 DEF Chosen, Fresh, Cardless, Pulsing
  <2>3. CountOK(i)
    BY DEF ArchiveInv, CountInv
  <2>4. QED
    BY <1>3, <1>4, <2>1, <2>2, <2>3, CountsKept
<1>6. CountOK(j)'
  <2>1. RunsUsed(j)' = RunsUsed(j) \cup {r} /\ r \notin RunsUsed(j)
    BY <1>1, <1>3 DEF RunsUsed
  <2>2. Chosen(j) /\ Paid(j)
    BY <1>0, <1>j, <1>3 DEF Chosen, ArchiveInv, CountInv, CountOK
  <2>3. /\ IsFiniteSet(RunsUsed(j)) /\ Cardinality(RunsUsed(j)) \in Nat
        /\ Cardinality(Archived(j)) \in Nat /\ wasted \in [Issues -> Nat]
    BY <1>3, CountsFinite DEF ArchiveInv
  <2>4. Cardinality(RunsUsed(j)') = Cardinality(RunsUsed(j)) + 1
    BY <2>1, <2>3, FS_AddElement
  <2>5. ~Chosen(j)' /\ Fresh(j)'
    BY <1>3 DEF Chosen, Fresh, Cardless
  <2>6. Archived(j)' = Archived(j)
    BY <1>3, <1>4
  <2>7. QED
    BY <1>3, <2>2, <2>3, <2>4, <2>5, <2>6 DEF CountOK, Paid
<1>7. CardInv'
  BY <1>1, <1>3 DEF ArchiveInv, CardInv, Pulsing, Closing, Cardless
<1>8. \A i \in Issues : CountOK(i)'
  BY <1>5, <1>6
<1>9. QED
  BY <1>7, <1>8 DEF CountInv

(* The tick has no run without a card, and goes on with decisions it had,  *)
(* or takes none.                                                          *)
LEMMA PassCounts ==
  ASSUME CountInv, CardInv, used' = used, board' = board, wasted' = wasted,
         tick[Timer].at \notin Cardless,
         tick'[Timer].at \in {"idle", "read", "guard", "recover"},
         tick'[Timer].at = "recover" =>
           \A i \in Issues : i \in tick'[Timer].pass => Chosen(i) \/ Paid(i)
  PROVE  CountInv' /\ CardInv'
<1>1. \A i \in Issues : Chosen(i)' => Chosen(i) \/ Paid(i)
  BY DEF Chosen, Pulsing, Cardless, Closing
<1>2. \A i \in Issues : ~Fresh(i)
  BY DEF Fresh
<1>3. CountInv'
  BY <1>1, <1>2, QuietCounts
<1>4. CardInv'
  BY DEF CardInv, Pulsing, Closing, Cardless
<1>5. QED
  BY <1>3, <1>4

(* The pass goes on after its decision, or ends. *)
LEMMA ForwardCounts ==
  ASSUME ArchiveInv, Ticks = {Timer}, used' = used, board' = board, wasted' = wasted,
         tick[Timer].at \in {"claim"} \cup Closing,
         Forward(Timer) \/ Ends(Timer)
  PROVE  CountInv' /\ CardInv'
<1>1. tick[Timer] \in Records /\ tick[Timer].at \notin Cardless
  BY TimerRecord DEF ArchiveInv, Cardless, Closing
<1>2. /\ tick'[Timer].at \in {"idle", "recover"}
      /\ tick'[Timer].at = "recover" => tick'[Timer].pass = tick[Timer].pass
  <2>1. CASE Forward(Timer)
    BY <1>1, <2>1, ContinuesTimer DEF Forward, ArchiveInv, Records
  <2>2. CASE Ends(Timer)
    <3>1. tick'[Timer] = Idle
      BY <2>2, TimerRecord DEF Ends, ArchiveInv
    <3>2. QED
      BY <3>1 DEF Idle
  <2>3. QED
    BY <2>1, <2>2
<1>3. tick'[Timer].at = "recover" =>
        \A i \in Issues : i \in tick'[Timer].pass => Chosen(i)
  BY <1>2 DEF Chosen
<1>4. QED
  BY <1>1, <1>2, <1>3, PassCounts DEF ArchiveInv

(* The call of execute() goes on with its issue and its run. *)
LEMMA WorkCounts ==
  ASSUME ArchiveInv, used' = used, board' = board, wasted' = wasted,
         tick[Timer].at \in Pulsing \cup Closing,
         tick'[Timer].at \in Pulsing \cup Closing,
         /\ tick'[Timer].pass = tick[Timer].pass
         /\ tick'[Timer].issue = tick[Timer].issue
         /\ tick'[Timer].run = tick[Timer].run,
         tick'[Timer].at \in Cardless => tick[Timer].at \in Cardless,
         tick[Timer].at \in Cardless =>
           tick'[Timer].at \in Cardless \/ LiveCards(Current(Timer)) # {}
  PROVE  CountInv' /\ CardInv'
<1>1. \A i \in Issues : Chosen(i)' => Chosen(i) \/ Paid(i)
  BY DEF Chosen, Pulsing, Cardless, Closing
<1>2. \A i \in Issues : Fresh(i) => Fresh(i)' \/ Paid(i) \/ LiveCards(i) # {}
  BY DEF Fresh, Current
<1>3. CountInv'
  BY <1>1, <1>2, QuietCounts DEF ArchiveInv
<1>4. CardInv'
  BY DEF ArchiveInv, CardInv, Current
<1>5. QED
  BY <1>3, <1>4

LEMMA ReadsCount ==
  ASSUME ArchiveInv, Ticks = {Timer},
         \/ Begins(Timer) \/ BeginsBlind(Timer)
         \/ ReadsIssues(Timer) \/ ReadsBoard(Timer)
  PROVE  CountInv' /\ CardInv'
<1>1. used' = used /\ board' = board /\ wasted' = wasted /\ tick[Timer].at \notin Cardless
  BY DEF Begins, BeginsBlind, Maps, ReadsIssues, ReadsBoard, leaseVars, world, counts,
         Cardless
<1>2. CASE Begins(Timer) \/ BeginsBlind(Timer)
  <2>1. PICK todo : tick' = [tick EXCEPT ![Timer] = [Idle EXCEPT !.at = "read", !.known = todo]]
    BY <1>2, ReadBegins
  <2>2. tick'[Timer].at = "read"
    BY <2>1, TimerRecord DEF Idle, ArchiveInv
  <2>3. QED
    BY <1>1, <2>2, PassCounts DEF ArchiveInv
<1>3. CASE ReadsIssues(Timer)
  <2>1. PICK list \in SUBSET Issues : Continues(Timer, list, "guard")
    BY <1>3 DEF ReadsIssues, First
  <2>2. tick'[Timer].at \in {"idle", "guard"}
    BY <2>1, ContinuesTimer DEF ArchiveInv
  <2>3. QED
    BY <1>1, <2>2, PassCounts DEF ArchiveInv
<1>4. CASE ReadsBoard(Timer)
  <2> DEFINE candidates == {i \in tick[Timer].pass : LiveCards(i) = {}}
             list == First(Bound, candidates)
  <2>1. tick[Timer].pass \in SUBSET Issues
    BY TimerRecord DEF ArchiveInv, Records
  <2>2. list \in SUBSET Issues /\ \A i \in list : LiveCards(i) = {}
    BY <2>1 DEF First
  <2>3. Continues(Timer, list, "recover")
    BY <1>4 DEF ReadsBoard
  <2> HIDE DEF list
  <2>4. /\ tick'[Timer].at \in {"idle", "recover"}
        /\ tick'[Timer].at = "recover" => tick'[Timer].pass = list
    BY <2>2, <2>3, ContinuesTimer DEF ArchiveInv
  <2>5. \A i \in Issues : i \in list => Paid(i)
    BY <1>1, <2>2 DEF ArchiveInv, CountInv, CountOK, Fresh
  <2>6. QED
    BY <1>1, <2>4, <2>5, PassCounts DEF ArchiveInv
<1>5. QED
  BY <1>2, <1>3, <1>4

LEMMA RecoverCounts ==
  ASSUME ArchiveInv, Ticks = {Timer}, Recovers(Timer)
  PROVE  CountInv' /\ CardInv'
<1>1. PICK i \in tick[Timer].pass : Takes(Timer, i)
  BY DEF Recovers
<1>2. tick[Timer] \in Records /\ tick[Timer].at = "recover"
  BY <1>1, TimerRecord DEF ArchiveInv, Takes
<1>3. tick'[Timer] = [tick[Timer] EXCEPT !.at = "claim", !.pass = @ \ {i}, !.issue = i,
                                        !.run = NoRun, !.card = NoRun]
  BY <1>1, <1>2 DEF Takes, ArchiveInv, TickInv, TicksOK, Records
<1>4. /\ tick'[Timer].at = "claim" /\ tick'[Timer].issue = i
      /\ tick'[Timer].pass = tick[Timer].pass \ {i}
  BY <1>2, <1>3 DEF Records
<1>5. used' = used /\ board' = board /\ wasted' = wasted
  BY DEF Recovers, Release, leaseVars, world, counts
<1>6. \A j \in Issues : Chosen(j)' => Chosen(j)
  BY <1>1, <1>2, <1>4 DEF Chosen, Current
<1>7. \A j \in Issues : ~Fresh(j)
  BY <1>2 DEF Fresh, Cardless
<1>8. CountInv'
  BY <1>5, <1>6, <1>7, QuietCounts DEF ArchiveInv
<1>9. CardInv'
  BY <1>4, <1>5 DEF ArchiveInv, CardInv, Current, Pulsing, Closing, Cardless
<1>10. QED
  BY <1>8, <1>9

(* The steps of a call of execute() after its claim, but for the new card. *)
LEMMA WorksCount ==
  ASSUME ArchiveInv, Ticks = {Timer},
         \/ MovesInProgress(Timer) \/ StartFinds(Timer)
         \/ DispatchReturns(Timer) \/ DispatchRaises(Timer)
         \/ MovesInReview(Timer) \/ MovesBlocked(Timer) \/ MoveIgnored(Timer)
  PROVE  CountInv' /\ CardInv'
<1>1. used' = used /\ board' = board /\ wasted' = wasted
  BY DEF MovesInProgress, MovesInReview, MovesBlocked, MoveIgnored, Moves, StartFinds,
         DispatchReturns, DispatchRaises, leaseVars, world, counts
<1>2. tick[Timer] \in Records
  BY TimerRecord DEF ArchiveInv
<1>3. /\ tick[Timer].at \in {"move", "start", "wait", "review", "park"}
      /\ tick'[Timer].at \in {"start", "create", "wait", "complete", "block",
                               "review", "park", "fail"}
      /\ tick[Timer].at = "move" => tick'[Timer].at = "start"
      /\ tick[Timer].at = "start" =>
           tick'[Timer].at = "create" \/ LiveCards(Current(Timer)) # {}
      /\ tick'[Timer].at = "start" => tick[Timer].at = "move"
      /\ tick'[Timer].at = "create" => tick[Timer].at = "start"
      /\ tick'[Timer].pass = tick[Timer].pass
      /\ tick'[Timer].issue = tick[Timer].issue
      /\ tick'[Timer].run = tick[Timer].run
  <2>1. CASE \/ MovesInProgress(Timer) \/ MovesInReview(Timer) \/ MovesBlocked(Timer)
             \/ DispatchReturns(Timer) \/ DispatchRaises(Timer) \/ MoveIgnored(Timer)
    <3>1. PICK place \in {"start", "complete", "block", "review", "park", "fail"} :
            /\ GoTo(Timer, place)
            /\ tick[Timer].at \in {"move", "wait", "review", "park"}
            /\ tick[Timer].at = "move" <=> place = "start"
      BY <2>1 DEF MovesInProgress, MovesInReview, MovesBlocked, MoveIgnored, Moves,
                  DispatchReturns, DispatchRaises
    <3>2. tick'[Timer] = [tick[Timer] EXCEPT !.at = place]
      BY <3>1, TimerRecord DEF ArchiveInv
    <3>3. QED
      BY <1>2, <3>1, <3>2 DEF Records
  <2>2. CASE StartFinds(Timer)
    <3>1. CASE LiveCards(Current(Timer)) = {}
      <4>1. tick'[Timer] = [tick[Timer] EXCEPT !.at = "create"]
        BY <2>2, <3>1, TimerRecord DEF ArchiveInv, StartFinds
      <4>2. QED
        BY <1>2, <2>2, <4>1 DEF Records, StartFinds
    <3>2. CASE LiveCards(Current(Timer)) # {}
      <4>1. PICK c : tick' = [tick EXCEPT ![Timer].at = "wait", ![Timer].card = c]
        BY <2>2, <3>2 DEF StartFinds
      <4>2. tick'[Timer] = [tick[Timer] EXCEPT !.at = "wait", !.card = c]
        BY <4>1, <1>2 DEF ArchiveInv, TickInv, TicksOK, Records
      <4>3. QED
        BY <1>2, <2>2, <3>2, <4>2 DEF Records, StartFinds
    <3>3. QED
      BY <3>1, <3>2
  <2>3. QED
    BY <2>1, <2>2
<1>4. QED
  BY <1>1, <1>3, WorkCounts DEF Pulsing, Closing, Cardless

(* The run gets a card: from now on the issue has one. *)
LEMMA CreateCounts ==
  ASSUME ArchiveInv, Ticks = {Timer}, CreatesCard(Timer)
  PROVE  CountInv' /\ CardInv'
<1> DEFINE keyed == LiveCards(Current(Timer)) \cap Runs
<1>1. used' = used /\ wasted' = wasted
  BY DEF CreatesCard, leaseVars, counts
<1>2. /\ tick[Timer] \in Records /\ tick[Timer].at = "create"
      /\ tick[Timer].run \in Runs /\ IssueOf[tick[Timer].run] = Current(Timer)
      /\ tick[Timer].run \in used /\ board[tick[Timer].run] = "none"
      /\ Current(Timer) \in Issues /\ Current(Timer) \notin tick[Timer].pass
  BY TimerRecord
  DEF ArchiveInv, CreatesCard, CardInv, Sound, Current, Pulsing, Closing, Cardless
<1>3. PICK c : /\ c \in IF keyed = {} THEN {tick[Timer].run} ELSE keyed
               /\ board' = IF keyed = {} THEN [board EXCEPT ![c] = "open"] ELSE board
               /\ tick' = [tick EXCEPT ![Timer].at = "wait", ![Timer].card = c]
  BY DEF CreatesCard
<1>4. tick'[Timer] = [tick[Timer] EXCEPT !.at = "wait", !.card = c]
  BY <1>2, <1>3 DEF ArchiveInv, TickInv, TicksOK, Records
<1>5. /\ tick'[Timer].at = "wait" /\ tick'[Timer].pass = tick[Timer].pass
      /\ tick'[Timer].issue = tick[Timer].issue /\ tick'[Timer].run = tick[Timer].run
  BY <1>2, <1>4 DEF Records
<1>6. CASE keyed = {}
  <2>1. c = tick[Timer].run /\ c \in Cards /\ About(c) = Current(Timer) /\ board[c] = "none"
    BY <1>2, <1>3, <1>6 DEF Cards, About
  <2>2. board' = [board EXCEPT ![c] = "open"]
    BY <1>3, <1>6
  <2>3. /\ \A i \in Issues : Archived(i)' = Archived(i) /\ LiveCards(i) \subseteq LiveCards(i)'
        /\ c \in LiveCards(About(c))'
    BY <2>1, <2>2, OpensCard DEF ArchiveInv
  <2>4. ASSUME NEW i \in Issues
        PROVE  CountOK(i)'
    <3>1. RunsUsed(i)' = RunsUsed(i)
      BY <1>1 DEF RunsUsed
    <3>2. Chosen(i)' => Chosen(i)
      BY <1>2, <1>5 DEF Chosen, Pulsing, Cardless
    <3>3. LiveCards(i)' = {} => LiveCards(i) = {} /\ ~Fresh(i)
      BY <1>2, <2>1, <2>3 DEF Fresh
    <3>4. CountOK(i)
      BY DEF ArchiveInv, CountInv
    <3>5. QED
      BY <1>1, <2>3, <3>1, <3>2, <3>3, <3>4, CountsKept
  <2>5. CardInv'
    <3>1. \A r \in Runs : board'[r] # "none" => board[r] # "none" \/ r = c
      BY <2>2 DEF ArchiveInv, TickInv, WorldOK, Cards
    <3>2. QED
      BY <1>1, <1>2, <1>5, <2>1, <3>1 DEF ArchiveInv, CardInv, Current, Pulsing, Cardless
  <2>6. QED
    BY <2>4, <2>5 DEF CountInv
<1>7. CASE keyed # {}
  <2>1. board' = board /\ LiveCards(Current(Timer)) # {}
    BY <1>3, <1>7
  <2>2. QED
    BY <1>1, <1>2, <1>5, <2>1, WorkCounts DEF Pulsing, Closing, Cardless
<1>8. QED
  BY <1>6, <1>7

LEMMA StepCounts ==
  ASSUME IsFiniteSet(Runs), ArchiveInv, Ticks = {Timer}, TickStep(Timer)
  PROVE  CountInv' /\ CardInv'
<1>1. CASE Conflicts(Timer) \/ Blocks(Timer) \/ Fails(Timer)
  <2>1. used' = used /\ board' = board /\ wasted' = wasted
    BY <1>1 DEF Conflicts, Blocks, Fails, Finished, Park, Release, leaseVars, world, counts
  <2>2. tick[Timer].at \in {"claim"} \cup Closing /\ (Forward(Timer) \/ Ends(Timer))
    BY <1>1 DEF Conflicts, Blocks, Fails, Closing
  <2>3. QED
    BY <2>1, <2>2, ForwardCounts
<1>2. CASE Completes(Timer)
  <2>1. used' = used /\ board' = board /\ wasted' = wasted /\ tick[Timer].at = "complete"
    BY <1>2 DEF Completes, Finished, Release, leaseVars, world, counts
  <2>2. CASE Forward(Timer)
    BY <2>1, <2>2, ForwardCounts DEF Closing
  <2>3. CASE GoTo(Timer, "fail")
    <3>1. tick[Timer] \in Records /\ tick'[Timer] = [tick[Timer] EXCEPT !.at = "fail"]
      BY <2>3, TimerRecord DEF ArchiveInv
    <3>2. /\ tick'[Timer].at = "fail" /\ tick'[Timer].pass = tick[Timer].pass
          /\ tick'[Timer].issue = tick[Timer].issue /\ tick'[Timer].run = tick[Timer].run
      BY <3>1 DEF Records
    <3>3. QED
      BY <2>1, <3>2, WorkCounts DEF Pulsing, Closing, Cardless
  <2>4. QED
    BY <1>2, <2>2, <2>3 DEF Completes
<1>3. QED
  BY <1>1, <1>2, ReadsCount, RecoverCounts, ClaimCounts, WorksCount, CreateCounts DEF TickStep

(* A call that raises or meets a conflict, or a process that dies. *)
LEMMA FailureCounts ==
  ASSUME IsFiniteSet(Runs), ArchiveInv, Ticks = {Timer},
         CallRaises(Timer) \/ StoreConflicts(Timer) \/ Crashes(Timer)
  PROVE  CountInv' /\ CardInv'
<1>1. used' = used /\ board' = board /\ Wastes(Timer)
  BY DEF CallRaises, StoreConflicts, Crashes, leaseVars, world
<1>2. tick[Timer] \in Records /\ Sound(tick[Timer])
  BY TimerRecord DEF ArchiveInv
<1>3. \/ Ends(Timer) /\ tick[Timer].at # "idle"
      \/ /\ GoTo(Timer, "fail") \/ GoTo(Timer, "clash")
         /\ tick[Timer].at \in Pulsing \cup Closing
      \/ Forward(Timer) /\ tick[Timer].at \in {"claim"} \cup Closing
  BY DEF CallRaises, StoreConflicts, Crashes, Pulsing, Cardless, Closing
<1>4. CASE tick[Timer].at \notin Cardless
  <2>1. wasted' = wasted
    BY <1>1, <1>4 DEF Wastes
  <2>2. CASE Ends(Timer)
    <3>1. tick'[Timer] = Idle
      BY <2>2, TimerRecord DEF Ends, ArchiveInv
    <3>2. tick'[Timer].at = "idle"
      BY <3>1 DEF Idle
    <3>3. QED
      BY <1>1, <1>4, <2>1, <3>2, PassCounts DEF ArchiveInv
  <2>3. CASE /\ GoTo(Timer, "fail") \/ GoTo(Timer, "clash")
             /\ tick[Timer].at \in Pulsing \cup Closing
    <3>1. PICK place \in {"fail", "clash"} : tick'[Timer] = [tick[Timer] EXCEPT !.at = place]
      BY <2>3, TimerRecord DEF ArchiveInv
    <3>2. /\ tick'[Timer].at = place /\ tick'[Timer].pass = tick[Timer].pass
          /\ tick'[Timer].issue = tick[Timer].issue /\ tick'[Timer].run = tick[Timer].run
      BY <1>2, <3>1 DEF Records
    <3>3. QED
      BY <1>1, <1>4, <2>1, <2>3, <3>2, WorkCounts DEF Pulsing, Closing, Cardless
  <2>4. CASE Forward(Timer) /\ tick[Timer].at \in {"claim"} \cup Closing
    BY <1>1, <2>1, <2>4, ForwardCounts
  <2>5. QED
    BY <1>3, <2>2, <2>3, <2>4
<1>5. CASE tick[Timer].at \in Cardless
  <2>1. PICK j \in Issues : j = Current(Timer)
    BY <1>2, <1>5 DEF Sound, Current, Pulsing
  <2>2. wasted' = [wasted EXCEPT ![j] = @ + 1]
    BY <1>1, <1>5, <2>1 DEF Wastes
  <2>3. \/ tick'[Timer].at = "idle"
        \/ /\ tick'[Timer].at \in {"fail", "clash"} /\ tick'[Timer].pass = tick[Timer].pass
           /\ tick'[Timer].issue = tick[Timer].issue /\ tick'[Timer].run = tick[Timer].run
    <3>1. CASE Ends(Timer)
      <4>1. tick'[Timer] = Idle
        BY <3>1, TimerRecord DEF Ends, ArchiveInv
      <4>2. QED
        BY <4>1 DEF Idle
    <3>2. CASE GoTo(Timer, "fail") \/ GoTo(Timer, "clash")
      <4>1. PICK place \in {"fail", "clash"} :
              tick'[Timer] = [tick[Timer] EXCEPT !.at = place]
        BY <3>2, TimerRecord DEF ArchiveInv
      <4>2. QED
        BY <1>2, <4>1 DEF Records
    <3>3. QED
      BY <1>3, <1>5, <3>1, <3>2 DEF Cardless, Closing
  <2>4. \A i \in Issues \ {j} : (Chosen(i)' => Chosen(i)) /\ ~Fresh(i)
    BY <1>5, <2>1, <2>3 DEF Chosen, Fresh, Current, Pulsing, Cardless, Closing
  <2>5. CountInv'
    BY <1>1, <2>2, <2>4, FaultCounts DEF ArchiveInv
  <2>6. CardInv'
    BY <1>1, <1>5, <2>3 DEF ArchiveInv, CardInv, Current, Pulsing, Closing, Cardless
  <2>7. QED
    BY <2>5, <2>6
<1>6. QED
  BY <1>4, <1>5

(* An action of people, of the board or of time that leaves cards alone. *)
LEMMA IdleCounts ==
  ASSUME ArchiveInv, UNCHANGED <<used, board, wasted, tick>>
  PROVE  CountInv' /\ CardInv'
<1>1. \A i \in Issues : (Chosen(i)' <=> Chosen(i)) /\ (Fresh(i)' <=> Fresh(i))
  BY DEF Chosen, Fresh, Current
<1>2. CountInv'
  BY <1>1, QuietCounts DEF ArchiveInv
<1>3. CardInv'
  BY DEF ArchiveInv, CardInv, Current
<1>4. QED
  BY <1>2, <1>3

LEMMA WriteCounts ==
  ASSUME ArchiveInv, NEW i \in Issues, WritesCard(i)
  PROVE  CountInv' /\ CardInv'
<1>1. UNCHANGED <<used, wasted, tick>> /\ board[i] = "none" /\ board' = [board EXCEPT ![i] = "open"]
  BY DEF WritesCard, Edit, leaseVars
<1>2. i \in Cards /\ i \notin Runs
  BY TickAssumption DEF Cards
<1>3. \A k \in Issues : Archived(k)' = Archived(k) /\ LiveCards(k) \subseteq LiveCards(k)'
  BY <1>1, <1>2, OpensCard DEF ArchiveInv
<1>4. ASSUME NEW k \in Issues
      PROVE  CountOK(k)'
  <2>1. RunsUsed(k)' = RunsUsed(k) /\ (Chosen(k)' <=> Chosen(k)) /\ (Fresh(k)' <=> Fresh(k))
    BY <1>1 DEF RunsUsed, Chosen, Fresh, Current
  <2>2. CountOK(k)
    BY DEF ArchiveInv, CountInv
  <2>3. QED
    BY <1>1, <1>3, <2>1, <2>2, CountsKept
<1>5. \A r \in Runs : board'[r] = board[r]
  BY <1>1, <1>2 DEF ArchiveInv, TickInv, WorldOK, Cards
<1>6. CardInv'
  <2>1. tick[Timer].at \in Cardless => tick[Timer].run \in Runs
    BY TickAssumption DEF ArchiveInv, TickInv, TicksOK, Sound, Cardless, Pulsing
  <2>2. QED
    BY <1>1, <1>5, <2>1 DEF ArchiveInv, CardInv, Current
<1>7. QED
  BY <1>4, <1>6 DEF CountInv

LEMMA EndCounts ==
  ASSUME ArchiveInv, NEW c \in Cards, CardEnds(c)
  PROVE  CountInv' /\ CardInv'
<1>1. /\ UNCHANGED <<used, wasted, tick>>
      /\ board[c] = "open" /\ board' = [board EXCEPT ![c] = "ended"]
  BY DEF CardEnds, leaseVars, counts
<1>2. \A d \in Cards : /\ board'[d] = "none" <=> board[d] = "none"
                       /\ board'[d] = "archived" <=> board[d] = "archived"
  BY <1>1 DEF ArchiveInv, TickInv, WorldOK
<1>3. ASSUME NEW k \in Issues
      PROVE  CountOK(k)'
  <2>1. RunsUsed(k)' = RunsUsed(k) /\ (Chosen(k)' <=> Chosen(k)) /\ (Fresh(k)' <=> Fresh(k))
    BY <1>1 DEF RunsUsed, Chosen, Fresh, Current
  <2>2. Archived(k)' = Archived(k) /\ LiveCards(k)' = LiveCards(k)
    BY <1>2 DEF Archived, LiveCards
  <2>3. CountOK(k)
    BY DEF ArchiveInv, CountInv
  <2>4. QED
    BY <1>1, <2>1, <2>2, <2>3, CountsKept
<1>4. CardInv'
  BY <1>1, <1>2 DEF ArchiveInv, CardInv, Current, Cards
<1>5. QED
  BY <1>3, <1>4 DEF CountInv

(* An archived card pays for the next run of its issue. *)
LEMMA ArchiveCounts ==
  ASSUME IsFiniteSet(Runs), ArchiveInv, NEW c \in Cards, Archives(c)
  PROVE  CountInv' /\ CardInv'
<1>1. /\ UNCHANGED <<used, wasted, tick>>
      /\ board[c] \notin {"none", "archived"} /\ board' = [board EXCEPT ![c] = "archived"]
  BY DEF Archives, Edit, leaseVars
<1>2. \A d \in Cards : /\ d # c => board'[d] = board[d]
                       /\ d = c => board'[d] = "archived"
  BY <1>1 DEF ArchiveInv, TickInv, WorldOK
<1>3. ASSUME NEW k \in Issues
      PROVE  CountOK(k)'
  <2>1. RunsUsed(k)' = RunsUsed(k) /\ (Chosen(k)' <=> Chosen(k)) /\ (Fresh(k)' <=> Fresh(k))
    BY <1>1 DEF RunsUsed, Chosen, Fresh, Current
  <2>2. CountOK(k)
    BY DEF ArchiveInv, CountInv
  <2>3. CASE About(c) = k
    <3>1. Archived(k)' = Archived(k) \cup {c} /\ c \notin Archived(k)
      BY <1>1, <1>2, <2>3 DEF Archived
    <3>2. /\ IsFiniteSet(Archived(k)) /\ Cardinality(Archived(k)) \in Nat
          /\ Cardinality(RunsUsed(k)) \in Nat /\ wasted \in [Issues -> Nat]
      BY CountsFinite DEF ArchiveInv
    <3>3. Cardinality(Archived(k)') = Cardinality(Archived(k)) + 1
      BY <3>1, <3>2, FS_AddElement
    <3>4. QED
      BY <1>1, <2>1, <2>2, <3>2, <3>3 DEF CountOK, Paid
  <2>4. CASE About(c) # k
    <3>1. Archived(k)' = Archived(k) /\ LiveCards(k)' = LiveCards(k)
      BY <1>2, <2>4 DEF Archived, LiveCards
    <3>2. QED
      BY <1>1, <2>1, <2>2, <3>1, CountsKept
  <2>5. QED
    BY <2>3, <2>4
<1>4. CardInv'
  BY <1>1, <1>2 DEF ArchiveInv, CardInv, Current, Cards
<1>5. QED
  BY <1>3, <1>4 DEF CountInv

LEMMA ArchiveInvInit ==
  ASSUME IsFiniteSet(Runs), TickInit
  PROVE  ArchiveInv
<1>1. TickInv
  BY TickInvInit
<1>2. tick[Timer].at = "idle" /\ tick[Timer].run = NoRun
  BY TickAssumption DEF TickInit, Idle
<1>3. ASSUME NEW i \in Issues
      PROVE  CountOK(i)
  <2>1. RunsUsed(i) = {} /\ Archived(i) = {} /\ wasted[i] = 0
    BY DEF TickInit, LeaseInit, RunsUsed, Archived
  <2>2. Cardinality({}) = 0
    BY FS_EmptySet
  <2>3. QED
    BY <2>1, <2>2 DEF CountOK, Paid
<1>4. CardInv
  BY <1>2 DEF CardInv, TickInit, Cards, Pulsing, Closing, Cardless
<1>5. QED
  BY <1>1, <1>3, <1>4 DEF ArchiveInv, CountInv

LEMMA ArchiveInvNext ==
  ASSUME IsFiniteSet(Runs), Ticks = {Timer}, ArchiveInv, [TickNext]_tickVars
  PROVE  ArchiveInv'
<1>1. TickInv'
  BY TickInvNext DEF ArchiveInv
<1>2. CountInv' /\ CardInv'
  <2>1. CASE UNCHANGED tickVars
    BY <2>1, IdleCounts DEF tickVars
  <2>2. CASE Begins(Timer) \/ TickStep(Timer) \/ FaultOf(Timer)
    BY <2>2, ReadsCount, StepCounts, WorksCount, FailureCounts DEF FaultOf
  <2>3. ASSUME NEW i \in Issues,
               \/ Expires(i) \/ PulseFails(i)
               \/ MovesIssue(i) \/ Relabels(i) \/ WritesCard(i) \/ GivesBack(i)
        PROVE  CountInv' /\ CardInv'
    <3>1. CASE Expires(i) \/ PulseFails(i) \/ MovesIssue(i) \/ Relabels(i) \/ GivesBack(i)
      BY <3>1, IdleCounts
      DEF Expires, PulseFails, MovesIssue, Relabels, GivesBack, Unpark, Edit, leaseVars, world, counts
    <3>2. QED
      BY <2>3, <3>1, WriteCounts
  <2>4. ASSUME NEW c \in Cards, Archives(c) \/ CardEnds(c)
        PROVE  CountInv' /\ CardInv'
    BY <2>4, ArchiveCounts, EndCounts
  <2>5. QED
    BY <2>1, <2>2, <2>3, <2>4 DEF TickNext, FaultOf
<1>3. QED
  BY <1>1, <1>2 DEF ArchiveInv

(* Where ticks do not overlap an issue is dispatched again only after one  *)
(* of its cards was archived, or when its run failed before it had a card: *)
(* a fault after that gives it none (poller_dispatch_guard.py 161-164).    *)
THEOREM ArchivingFreesIssue ==
  ASSUME IsFiniteSet(Runs), Ticks = {Timer}
  PROVE  TickSpec => []ArchivingReleases
<1>1. TickInit => ArchiveInv
  BY ArchiveInvInit
<1>2. ArchiveInv /\ [TickNext]_tickVars => ArchiveInv'
  BY ArchiveInvNext
<1>3. ArchiveInv => ArchivingReleases
  BY DEF ArchiveInv, CountInv, CountOK, ArchivingReleases
<1>4. QED
  BY <1>1, <1>2, <1>3, PTL DEF TickSpec

-------------------------------------------------------------------------------
(* The tick that takes a step, and the others *)

(* A step of tick t, made by it or by a failure. *)
StepOf(t) == Begins(t) \/ TickStep(t) \/ FaultOf(t)

LEMMA TickIsSound ==
  ASSUME TicksOK, NEW t \in Ticks
  PROVE  /\ tick[t] \in Records /\ Sound(tick[t])
         /\ tick[t].pass \subseteq Issues
BY DEF TicksOK, Records

(* What a tick becomes when its place, its card or its pass changes. *)
LEMMA PlaceChanges ==
  ASSUME TicksOK, NEW t \in Ticks, NEW place, GoTo(t, place)
  PROVE  /\ tick'[t] = [tick[t] EXCEPT !.at = place]
         /\ tick'[t].at = place /\ tick'[t].pass = tick[t].pass
         /\ tick'[t].issue = tick[t].issue /\ tick'[t].run = tick[t].run
         /\ tick'[t].card = tick[t].card /\ tick'[t].known = tick[t].known
         /\ \A u \in Ticks \ {t} : tick'[u] = tick[u]
<1>1. tick[t] \in Records
  BY TickIsSound
<1>2. tick'[t] = [tick[t] EXCEPT !.at = place]
  BY DEF GoTo, TicksOK
<1>3. \A u \in Ticks \ {t} : tick'[u] = tick[u]
  BY DEF GoTo, TicksOK
<1>4. QED
  BY <1>1, <1>2, <1>3 DEF Records

LEMMA CardChanges ==
  ASSUME TicksOK, NEW t \in Ticks, NEW c,
         tick' = [tick EXCEPT ![t].at = "wait", ![t].card = c]
  PROVE  /\ tick'[t].at = "wait" /\ tick'[t].pass = tick[t].pass
         /\ tick'[t].issue = tick[t].issue /\ tick'[t].run = tick[t].run
         /\ tick'[t].card = c
         /\ \A u \in Ticks \ {t} : tick'[u] = tick[u]
<1>1. tick[t] \in Records
  BY TickIsSound
<1>2. tick'[t] = [tick[t] EXCEPT !.at = "wait", !.card = c]
  BY <1>1 DEF TicksOK, Records
<1>3. \A u \in Ticks \ {t} : tick'[u] = tick[u]
  BY DEF TicksOK
<1>4. /\ tick'[t].at = "wait" /\ tick'[t].pass = tick[t].pass
      /\ tick'[t].issue = tick[t].issue /\ tick'[t].run = tick[t].run
      /\ tick'[t].card = c
  BY <1>1, <1>2 DEF Records
<1>5. QED
  BY <1>3, <1>4

LEMMA TickEnds ==
  ASSUME TicksOK, NEW t \in Ticks, Ends(t)
  PROVE  tick'[t].at = "idle" /\ \A u \in Ticks \ {t} : tick'[u] = tick[u]
<1>1. tick'[t] = Idle /\ \A u \in Ticks \ {t} : tick'[u] = tick[u]
  BY DEF Ends, TicksOK
<1>2. QED
  BY <1>1 DEF Idle

LEMMA PassChanges ==
  ASSUME TicksOK, NEW t \in Ticks, NEW list, NEW place, Continues(t, list, place)
  PROVE  /\ \/ tick'[t].at = "idle"
            \/ list # {} /\ tick'[t].at = place /\ tick'[t].pass = list
         /\ \A u \in Ticks \ {t} : tick'[u] = tick[u]
<1>1. tick[t] \in Records
  BY TickIsSound
<1>2. tick'[t] = IF list = {} THEN Idle ELSE [tick[t] EXCEPT !.pass = list, !.at = place]
  BY DEF Continues, TicksOK
<1>3. \A u \in Ticks \ {t} : tick'[u] = tick[u]
  BY DEF Continues, TicksOK
<1>4. QED
  BY <1>1, <1>2, <1>3 DEF Records, Idle

LEMMA DecisionTaken ==
  ASSUME TicksOK, NEW t \in Ticks, NEW i \in Issues, Takes(t, i)
  PROVE  /\ tick'[t].at = "claim" /\ tick'[t].pass = tick[t].pass \ {i}
         /\ tick'[t].issue = i
         /\ \A u \in Ticks \ {t} : tick'[u] = tick[u]
<1>1. tick[t] \in Records
  BY TickIsSound
<1>2. tick'[t] = [tick[t] EXCEPT !.at = "claim", !.pass = @ \ {i}, !.issue = i,
                                 !.run = NoRun, !.card = NoRun]
  BY <1>1 DEF Takes, TicksOK, Records
<1>3. \A u \in Ticks \ {t} : tick'[u] = tick[u]
  BY DEF Takes, TicksOK
<1>4. QED
  BY <1>1, <1>2, <1>3 DEF Records

LEMMA RunTaken ==
  ASSUME TicksOK, NEW t \in Ticks, NEW r,
         tick' = [tick EXCEPT ![t].at = "move", ![t].run = r]
  PROVE  /\ tick'[t].at = "move" /\ tick'[t].run = r
         /\ tick'[t].pass = tick[t].pass /\ tick'[t].issue = tick[t].issue
         /\ \A u \in Ticks \ {t} : tick'[u] = tick[u]
<1>1. tick[t] \in Records
  BY TickIsSound
<1>2. tick'[t] = [tick[t] EXCEPT !.at = "move", !.run = r]
  BY <1>1 DEF TicksOK, Records
<1>3. \A u \in Ticks \ {t} : tick'[u] = tick[u]
  BY DEF TicksOK
<1>4. /\ tick'[t].at = "move" /\ tick'[t].run = r
      /\ tick'[t].pass = tick[t].pass /\ tick'[t].issue = tick[t].issue
  BY <1>1, <1>2 DEF Records
<1>5. QED
  BY <1>3, <1>4

LEMMA TickBegins ==
  ASSUME TicksOK, NEW t \in Ticks, Begins(t) \/ BeginsBlind(t)
  PROVE  /\ tick[t].at = "idle" /\ tick'[t].at = "read" /\ tick'[t].pass = {}
         /\ \A u \in Ticks \ {t} : tick'[u] = tick[u]
<1>1. PICK todo \in SUBSET Issues :
        tick' = [tick EXCEPT ![t] = [Idle EXCEPT !.at = "read", !.known = todo]]
  BY ReadBegins
<1>2. /\ tick'[t] = [Idle EXCEPT !.at = "read", !.known = todo]
      /\ \A u \in Ticks \ {t} : tick'[u] = tick[u]
  BY <1>1 DEF TicksOK
<1>3. tick'[t].at = "read" /\ tick'[t].pass = {}
  BY <1>2 DEF Idle
<1>4. QED
  BY <1>2, <1>3, ReadBegins

-------------------------------------------------------------------------------
(* Every worker has a run of its own *)

Working(t) == tick[t].at \in Pulsing \cup Closing
Carded == {"wait", "review", "complete", "park", "block"}
Served == {"review", "complete", "park", "block"}

(* The run a tick works for has been granted; it has no card before it is  *)
(* dispatched; then the tick waits for a card of its issue, and goes on    *)
(* from there when that card has ended.                                    *)
WorkerOK(t) ==
  /\ Working(t) => tick[t].run \in used
  /\ tick[t].at \in Cardless => board[tick[t].run] = "none"
  /\ tick[t].at \in Carded =>
       /\ tick[t].card \in Cards /\ About(tick[t].card) = Current(t)
       /\ board[tick[t].card] # "none"
  /\ tick[t].at \in Served => board[tick[t].card] \in {"ended", "archived"}

(* No two ticks work for one run, and a card is of a run that was granted. *)
WorkersDiffer ==
  \A t, u \in Ticks : Working(t) /\ Working(u) /\ tick[t].run = tick[u].run => t = u
CardsGranted == \A r \in Runs : board[r] # "none" => r \in used

WorkerInv == WorkersDiffer /\ CardsGranted /\ \A t \in Ticks : WorkerOK(t)


(* A step that grants no run and opens no card: the tick that takes it goes *)
(* on with its run and its issue, or stops to work.                         *)
LEMMA WorkGoesAlong ==
  ASSUME WorkerInv, NEW t \in Ticks, UNCHANGED <<used, board>>,
         \A u \in Ticks \ {t} : tick'[u] = tick[u],
         Working(t)' => /\ Working(t)
                        /\ tick'[t].run = tick[t].run /\ tick'[t].issue = tick[t].issue,
         tick'[t].at \in Cardless => tick[t].at \in Cardless,
         tick'[t].at \in Carded =>
           \/ tick[t].at \in Carded /\ tick'[t].card = tick[t].card
           \/ tick'[t].at = "wait" /\ tick'[t].card \in LiveCards(Current(t)),
         tick'[t].at \in Served =>
           tick[t].at \in Served \/ board[tick[t].card] = "ended"
  PROVE  WorkerInv'
<1>1. CardsGranted'
  BY DEF WorkerInv, CardsGranted
<1>2. ASSUME NEW u \in Ticks, u # t
      PROVE  WorkerOK(u)' /\ (Working(u)' <=> Working(u)) /\ tick'[u].run = tick[u].run
  <2>1. tick'[u] = tick[u] /\ WorkerOK(u)
    BY <1>2 DEF WorkerInv
  <2>2. QED
    BY <2>1 DEF WorkerOK, Working, Current
<1>3. WorkersDiffer'
  BY <1>2 DEF WorkerInv, WorkersDiffer
<1>4. WorkerOK(t)'
  <2>1. WorkerOK(t)
    BY DEF WorkerInv
  <2>2. (tick[t].run \in used)' \/ ~Working(t)'
    BY <2>1 DEF WorkerOK
  <2>3. tick'[t].at \in Cardless => board'[tick'[t].run] = "none"
    BY <2>1 DEF WorkerOK, Working, Cardless, Pulsing
  <2>4. tick'[t].at \in Carded => Current(t)' = Current(t)
    BY DEF Working, Carded, Pulsing, Cardless, Closing, Current
  <2>5. tick'[t].at \in Carded =>
          /\ tick'[t].card \in Cards /\ About(tick'[t].card) = Current(t)
          /\ board[tick'[t].card] # "none"
    BY <2>1 DEF WorkerOK, LiveCards
  <2>6. tick'[t].at \in Served => board[tick'[t].card] \in {"ended", "archived"}
    <3>1. CASE tick'[t].card = tick[t].card
      BY <2>1, <3>1 DEF WorkerOK
    <3>2. tick'[t].at \in Served => tick'[t].card = tick[t].card
      BY DEF Served, Carded
    <3>3. QED
      BY <3>1, <3>2
  <2>7. QED
    BY <2>2, <2>3, <2>4, <2>5, <2>6 DEF WorkerOK, About
<1>5. QED
  BY <1>1, <1>2, <1>3, <1>4 DEF WorkerInv

(* A tick that is not at work after the step. *)
LEMMA WorkStops ==
  ASSUME WorkerInv, NEW t \in Ticks, UNCHANGED <<used, board>>,
         \A u \in Ticks \ {t} : tick'[u] = tick[u],
         tick'[t].at \in {"idle", "read", "guard", "recover", "claim"}
  PROVE  WorkerInv'
BY WorkGoesAlong DEF Working, Cardless, Carded, Served, Pulsing, Closing

LEMMA ClaimWorks ==
  ASSUME TickInv, WorkerInv, NEW t \in Ticks, Claims(t)
  PROVE  WorkerInv'
<1>1. PICK r \in Runs : /\ Grant(r)
                        /\ tick' = [tick EXCEPT ![t].at = "move", ![t].run = r]
  BY DEF Claims
<1>2. r \notin used /\ used' = used \cup {r} /\ board' = board
  BY <1>1 DEF Grant, Claims, world
<1>3. /\ tick'[t].at = "move" /\ tick'[t].run = r
      /\ \A u \in Ticks \ {t} : tick'[u] = tick[u]
  BY <1>1, RunTaken DEF TickInv
<1>4. board[r] = "none" /\ CardsGranted'
  BY <1>1, <1>2 DEF WorkerInv, CardsGranted
<1>5. ASSUME NEW u \in Ticks, u # t
      PROVE  /\ WorkerOK(u)' /\ (Working(u)' <=> Working(u)) /\ tick'[u].run = tick[u].run
             /\ Working(u) => tick[u].run # r
  <2>1. tick'[u] = tick[u] /\ WorkerOK(u)
    BY <1>3, <1>5 DEF WorkerInv
  <2>2. QED
    BY <1>2, <2>1 DEF WorkerOK, Working, Current
<1>6. WorkerOK(t)'
  BY <1>2, <1>3, <1>4 DEF WorkerOK, Cardless, Carded, Served
<1>7. WorkersDiffer'
  BY <1>3, <1>5 DEF WorkerInv, WorkersDiffer
<1>8. QED
  BY <1>4, <1>5, <1>6, <1>7 DEF WorkerInv

LEMMA CreateWorks ==
  ASSUME TickInv, WorkerInv, NEW t \in Ticks, CreatesCard(t)
  PROVE  WorkerInv'
<1> DEFINE keyed == LiveCards(Current(t)) \cap Runs
<1>1. PICK c : /\ c \in IF keyed = {} THEN {tick[t].run} ELSE keyed
               /\ board' = IF keyed = {} THEN [board EXCEPT ![c] = "open"] ELSE board
               /\ tick' = [tick EXCEPT ![t].at = "wait", ![t].card = c]
  BY DEF CreatesCard
<1>2. /\ tick'[t].at = "wait" /\ tick'[t].card = c
      /\ tick'[t].run = tick[t].run /\ tick'[t].issue = tick[t].issue
      /\ \A u \in Ticks \ {t} : tick'[u] = tick[u]
  <2>1. TicksOK /\ tick' = [tick EXCEPT ![t].at = "wait", ![t].card = c]
    BY <1>1 DEF TickInv
  <2>2. QED
    BY <2>1, CardChanges
<1>3. /\ used' = used /\ tick[t].at = "create" /\ Working(t) /\ Working(t)'
      /\ tick[t].run \in Runs /\ IssueOf[tick[t].run] = Current(t)
  BY <1>2 DEF CreatesCard, leaseVars, Working, Pulsing, Cardless, TickInv, TicksOK, Sound, Current
<1>4. CASE keyed # {}
  <2>1. board' = board /\ c \in LiveCards(Current(t))
    BY <1>1, <1>4
  <2>2. QED
    BY <1>2, <1>3, <2>1, WorkGoesAlong DEF Cardless, Served
<1>5. CASE keyed = {}
  <2>1. c = tick[t].run /\ c \in Cards /\ About(c) = Current(t)
    BY <1>1, <1>3, <1>5 DEF Cards, About
  <2>2. c \in used /\ board[c] = "none"
    BY <1>3, <2>1 DEF WorkerInv, WorkerOK, Cardless
  <2>3. board'[c] = "open" /\ \A d \in Cards \ {c} : board'[d] = board[d]
    BY <1>1, <1>5, <2>1 DEF TickInv, WorldOK
  <2>4. CardsGranted'
    BY <1>3, <2>2, <2>3 DEF WorkerInv, CardsGranted, Cards
  <2>5. ASSUME NEW u \in Ticks, u # t
        PROVE  WorkerOK(u)' /\ (Working(u)' <=> Working(u)) /\ tick'[u].run = tick[u].run
    <3>1. tick'[u] = tick[u] /\ WorkerOK(u)
      BY <1>2, <2>5 DEF WorkerInv
    <3>2. Working(u) => tick[u].run \in Runs /\ tick[u].run # c
      BY <1>3, <2>1, <2>5 DEF WorkerInv, WorkersDiffer, Working, TickInv, TicksOK, Sound
    <3>3. tick[u].at \in Cardless => board'[tick[u].run] = "none"
      BY <2>3, <3>1, <3>2 DEF WorkerOK, Working, Cardless, Pulsing, Cards
    <3>4. tick[u].at \in Carded => board'[tick[u].card] = board[tick[u].card]
      BY <2>2, <2>3, <3>1 DEF WorkerOK
    <3>5. QED
      BY <1>3, <3>1, <3>3, <3>4 DEF WorkerOK, Working, Current, About, Carded, Served
  <2>6. WorkerOK(t)'
    BY <1>2, <1>3, <2>1, <2>2, <2>3 DEF WorkerOK, Cardless, Served, Current, About
  <2>7. WorkersDiffer'
    BY <1>2, <1>3, <2>5 DEF WorkerInv, WorkersDiffer
  <2>8. QED
    BY <2>4, <2>5, <2>6, <2>7 DEF WorkerInv
<1>6. QED
  BY <1>4, <1>5

(* What people and workers do to the board. *)
LEMMA BoardWorks ==
  ASSUME TickInv, WorkerInv, UNCHANGED <<used, tick>>,
         \A r \in Runs : board[r] = "none" <=> board'[r] = "none",
         \A c \in Cards : /\ board[c] # "none" => board'[c] # "none"
                          /\ board[c] \in {"ended", "archived"} =>
                               board'[c] \in {"ended", "archived"}
  PROVE  WorkerInv'
<1>1. CardsGranted' /\ WorkersDiffer'
  BY DEF WorkerInv, CardsGranted, WorkersDiffer, Working
<1>2. ASSUME NEW u \in Ticks
      PROVE  WorkerOK(u)'
  <2>1. WorkerOK(u) /\ (tick[u].at \in Cardless => tick[u].run \in Runs)
    BY DEF WorkerInv, TickInv, TicksOK, Sound, Cardless, Pulsing
  <2>2. QED
    BY <2>1 DEF WorkerOK, Working, Current, About, Served, Carded
<1>3. QED
  BY <1>1, <1>2 DEF WorkerInv

LEMMA WorkerInvInit ==
  ASSUME TickInit
  PROVE  WorkerInv
<1>1. \A t \in Ticks : tick[t].at = "idle"
  BY DEF TickInit, Idle
<1>2. QED
  BY <1>1 DEF TickInit, WorkerInv, WorkersDiffer, CardsGranted, WorkerOK, Working, Cards,
              Pulsing, Closing, Cardless, Carded, Served

(* A step of the call of execute(): the places it leads to. *)
LEMMA WorkerSteps ==
  ASSUME TickInv, NEW t \in Ticks,
         \/ MovesInProgress(t) \/ StartFinds(t) \/ DispatchReturns(t) \/ DispatchRaises(t)
         \/ MovesInReview(t) \/ MovesBlocked(t) \/ MoveIgnored(t)
         \/ Completes(t) /\ GoTo(t, "fail")
         \/ CallRaises(t) /\ GoTo(t, "fail")
         \/ GoTo(t, "clash") /\ tick[t].at \in {"start", "complete", "wait"}
  PROVE  /\ Working(t) /\ Working(t)'
         /\ tick'[t].run = tick[t].run /\ tick'[t].issue = tick[t].issue
         /\ tick'[t].pass = tick[t].pass
         /\ \A u \in Ticks \ {t} : tick'[u] = tick[u]
         /\ tick'[t].at \in Cardless => tick[t].at \in Cardless
         /\ tick'[t].at \in Carded =>
              \/ tick[t].at \in Carded /\ tick'[t].card = tick[t].card
              \/ tick'[t].at = "wait" /\ tick'[t].card \in LiveCards(Current(t))
         /\ tick'[t].at \in Served =>
              tick[t].at \in Served \/ board[tick[t].card] = "ended"
<1> USE DEF Working, Pulsing, Closing, Cardless, Carded, Served
<1>0. TicksOK
  BY DEF TickInv
<1>1. ASSUME NEW place \in {"start", "create", "complete", "block", "review", "park", "fail", "clash"},
             GoTo(t, place),
             tick[t].at \in {"move", "start", "create", "wait", "review", "complete", "park"},
             place = "start" => tick[t].at = "move",
             place = "create" => tick[t].at = "start",
             place \in {"complete", "block"} => tick[t].at \in {"review", "park"},
             place \in {"review", "park"} =>
               tick[t].at = "wait" /\ board[tick[t].card] = "ended"
      PROVE  /\ Working(t) /\ Working(t)'
             /\ tick'[t].run = tick[t].run /\ tick'[t].issue = tick[t].issue
             /\ tick'[t].pass = tick[t].pass
             /\ \A u \in Ticks \ {t} : tick'[u] = tick[u]
             /\ tick'[t].at \in Cardless => tick[t].at \in Cardless
             /\ tick'[t].at \in Carded =>
                  tick[t].at \in Carded /\ tick'[t].card = tick[t].card
             /\ tick'[t].at \in Served =>
                  tick[t].at \in Served \/ board[tick[t].card] = "ended"
  <2>1. /\ tick'[t].at = place /\ tick'[t].pass = tick[t].pass
        /\ tick'[t].issue = tick[t].issue /\ tick'[t].run = tick[t].run
        /\ tick'[t].card = tick[t].card
        /\ \A u \in Ticks \ {t} : tick'[u] = tick[u]
    BY <1>0, <1>1, PlaceChanges
  <2>2. QED
    BY <1>1, <2>1
<1>2. CASE \/ MovesInProgress(t) \/ MovesInReview(t) \/ MovesBlocked(t)
           \/ MoveIgnored(t) \/ DispatchRaises(t)
  BY <1>1, <1>2
  DEF MovesInProgress, MovesInReview, MovesBlocked, Moves, MoveIgnored, DispatchRaises
<1>3. CASE DispatchReturns(t)
  BY <1>1, <1>3 DEF DispatchReturns
<1>4. CASE Completes(t) /\ GoTo(t, "fail")
  BY <1>1, <1>4 DEF Completes
<1>5. CASE CallRaises(t) /\ GoTo(t, "fail")
  <2>1. tick[t].at \in {"move", "start", "create", "review", "complete"}
    <3>1. CASE Ends(t)
      <4>1. tick'[t].at = "idle" /\ tick'[t].at = "fail"
        BY <1>0, <1>5, <3>1, TickEnds, PlaceChanges
      <4>2. QED
        BY <4>1
    <3>2. QED
      BY <1>5, <3>1 DEF CallRaises
  <2>2. QED
    BY <1>1, <1>5, <2>1
<1>6. CASE StartFinds(t)
  <2>1. CASE LiveCards(Current(t)) = {}
    BY <1>1, <1>6, <2>1 DEF StartFinds
  <2>2. CASE LiveCards(Current(t)) # {}
    <3>1. PICK c \in LiveCards(Current(t)) :
            tick' = [tick EXCEPT ![t].at = "wait", ![t].card = c]
      BY <1>6, <2>2 DEF StartFinds
    <3>2. /\ tick'[t].at = "wait" /\ tick'[t].card = c /\ tick'[t].pass = tick[t].pass
          /\ tick'[t].run = tick[t].run /\ tick'[t].issue = tick[t].issue
          /\ \A u \in Ticks \ {t} : tick'[u] = tick[u]
      BY <1>0, <3>1, CardChanges
    <3>3. QED
      BY <1>6, <3>1, <3>2 DEF StartFinds
  <2>3. QED
    BY <2>1, <2>2
<1>7. CASE GoTo(t, "clash") /\ tick[t].at \in {"start", "complete", "wait"}
  BY <1>1, <1>7
<1>8. QED
  BY <1>2, <1>3, <1>4, <1>5, <1>6, <1>7

(* A step after which the tick is not at work. *)
LEMMA RestSteps ==
  ASSUME TickInv, NEW t \in Ticks,
         \/ Begins(t) \/ BeginsBlind(t)
         \/ ReadsIssues(t) \/ ReadsBoard(t) \/ Recovers(t)
         \/ Forward(t) \/ Ends(t)
  PROVE  /\ tick'[t].at \in {"idle", "read", "guard", "recover", "claim"}
         /\ \A u \in Ticks \ {t} : tick'[u] = tick[u]
<1>0. TicksOK
  BY DEF TickInv
<1>1. CASE Begins(t) \/ BeginsBlind(t)
  BY <1>0, <1>1, TickBegins
<1>2. CASE ReadsIssues(t) \/ ReadsBoard(t) \/ Forward(t)
  <2>1. \E list : Continues(t, list, "guard") \/ Continues(t, list, "recover")
    BY <1>2 DEF ReadsIssues, ReadsBoard, Forward
  <2>2. QED
    BY <1>0, <2>1, PassChanges
<1>3. CASE Recovers(t)
  <2>1. PICK i \in tick[t].pass : Takes(t, i)
    BY <1>3 DEF Recovers
  <2>2. i \in Issues
    BY <1>0, <2>1, TickIsSound
  <2>3. QED
    BY <1>0, <2>1, <2>2, DecisionTaken
<1>4. CASE Ends(t)
  BY <1>0, <1>4, TickEnds
<1>5. QED
  BY <1>1, <1>2, <1>3, <1>4

LEMMA WorkerInvNext ==
  ASSUME TickInv, WorkerInv, [TickNext]_tickVars
  PROVE  WorkerInv'
<1>1. CASE UNCHANGED tickVars
  BY <1>1, BoardWorks DEF tickVars
<1>2. ASSUME NEW t \in Ticks, StepOf(t)
      PROVE  WorkerInv'
  <2>1. CASE Claims(t) \/ CreatesCard(t)
    BY <2>1, ClaimWorks, CreateWorks
  <2>2. CASE ~ (Claims(t) \/ CreatesCard(t))
    <3>1. UNCHANGED <<used, board>>
      BY <1>2, <2>2
      DEF StepOf, TickStep, Begins, FaultOf, BeginsBlind, MoveIgnored, CallRaises, StoreConflicts,
          Crashes, ReadsIssues, ReadsBoard, Recovers, Conflicts, MovesInProgress, StartFinds, DispatchReturns, DispatchRaises,
          MovesInReview, MovesBlocked, Moves, Completes, Blocks, Fails, Finished,
          Release, Park, leaseVars, world
    <3>2. CASE \/ Begins(t) \/ BeginsBlind(t)
               \/ ReadsIssues(t) \/ ReadsBoard(t) \/ Recovers(t)
               \/ Forward(t) \/ Ends(t)
      BY <3>1, <3>2, RestSteps, WorkStops
    <3>3. CASE \/ MovesInProgress(t) \/ StartFinds(t) \/ DispatchReturns(t)
               \/ DispatchRaises(t) \/ MovesInReview(t) \/ MovesBlocked(t) \/ MoveIgnored(t)
               \/ Completes(t) /\ GoTo(t, "fail")
               \/ CallRaises(t) /\ GoTo(t, "fail")
               \/ GoTo(t, "clash") /\ tick[t].at \in {"start", "complete", "wait"}
      BY <3>1, <3>3, WorkerSteps, WorkGoesAlong
    <3>4. QED
      BY <1>2, <2>2, <3>2, <3>3
      DEF StepOf, TickStep, FaultOf, CallRaises, StoreConflicts, Crashes, Conflicts,
          Completes, Blocks, Fails
  <2>3. QED
    BY <2>1, <2>2
<1>3. ASSUME NEW i \in Issues,
             \/ Expires(i) \/ PulseFails(i)
             \/ MovesIssue(i) \/ Relabels(i) \/ WritesCard(i) \/ GivesBack(i)
      PROVE  WorkerInv'
  <2>1. CASE WritesCard(i)
    <3>1. /\ UNCHANGED <<used, tick>>
          /\ board[i] = "none" /\ board' = [board EXCEPT ![i] = "open"]
      BY <2>1 DEF WritesCard, Edit, leaseVars
    <3>2. i \in Cards /\ i \notin Runs
      BY TickAssumption DEF Cards
    <3>3. \A c \in Cards : IF c = i THEN board'[c] = "open" ELSE board'[c] = board[c]
      BY <3>1 DEF TickInv, WorldOK
    <3>4. \A r \in Runs : board[r] = "none" <=> board'[r] = "none"
      BY <3>2, <3>3 DEF Cards
    <3>5. QED
      BY <3>1, <3>3, <3>4, BoardWorks
  <2>2. CASE ~ WritesCard(i)
    <3>1. UNCHANGED <<used, board, tick>>
      BY <1>3, <2>2
      DEF Expires, PulseFails, MovesIssue, Relabels, GivesBack, Unpark, Edit,
          leaseVars, world
    <3>2. QED
      BY <3>1, BoardWorks
  <2>3. QED
    BY <2>1, <2>2
<1>4. ASSUME NEW c \in Cards, Archives(c) \/ CardEnds(c)
      PROVE  WorkerInv'
  <2>1. UNCHANGED <<used, tick>> /\ board[c] # "none"
    BY <1>4 DEF Archives, CardEnds, Edit, leaseVars
  <2>2. PICK s \in {"ended", "archived"} : board' = [board EXCEPT ![c] = s]
    BY <1>4 DEF Archives, CardEnds
  <2>3. \A d \in Cards : IF d = c THEN board'[d] = s ELSE board'[d] = board[d]
    BY <2>2 DEF TickInv, WorldOK
  <2>4. QED
    BY <2>1, <2>3, BoardWorks DEF Cards
<1>5. QED
  BY <1>1, <1>2, <1>3, <1>4 DEF TickNext, StepOf, FaultOf

(* No two ticks work for one run; a run that has no card yet has none on   *)
(* the board; what a worker waits for, and what it goes on from, is a card *)
(* of its issue (runtime.py 143-173, kanban.py 99-133).                    *)
THEOREM WorkersInvariant == TickSpec => []WorkerInv
<1>1. TickInit => WorkerInv
  BY WorkerInvInit
<1>2. TickInv /\ WorkerInv /\ [TickNext]_tickVars => WorkerInv'
  BY WorkerInvNext
<1>3. QED
  BY <1>1, <1>2, TickInvariant, PTL DEF TickSpec

(* Two ticks that are at one issue: only one of them holds its lease. *)
OneOwner ==
  \A t, u \in Ticks :
    /\ Working(t) /\ Owns(t) /\ Working(u) /\ Owns(u) /\ Current(t) = Current(u)
    => t = u

(* Of the ticks that work on an issue, one at most may still finish it: a  *)
(* tick whose lock was recovered is not the owner that the store lets in   *)
(* (README.md 53-57).                                                      *)
THEOREM OneWorkerOwns == TickSpec => []OneOwner
<1>1. WorkerInv => OneOwner
  BY DEF WorkerInv, WorkersDiffer, OneOwner, Owns, Held
<1>2. QED
  BY <1>1, WorkersInvariant, PTL

-------------------------------------------------------------------------------
(* The bound of a pass *)

(* The first n issues of a list are at most n: the ranks of issues differ, *)
(* so that each has another number of issues in front of it.               *)
LEMMA FirstBounded ==
  ASSUME IsFiniteSet(Issues), NEW n \in Nat, NEW list \in SUBSET Issues
  PROVE  /\ First(n, list) \subseteq list /\ IsFiniteSet(First(n, list))
         /\ Cardinality(First(n, list)) \in Nat /\ Cardinality(First(n, list)) =< n
<1> DEFINE Before(i) == {j \in list : Rank[j] < Rank[i]}
           first == First(n, list)
           front == [i \in first |-> Cardinality(Before(i))]
<1>1. first \subseteq list /\ IsFiniteSet(list) /\ IsFiniteSet(first)
  BY FS_Subset DEF First
<1>2. Cardinality(first) \in Nat
  BY <1>1, FS_CardinalityType
<1>3. \A i : /\ IsFiniteSet(Before(i)) /\ Cardinality(Before(i)) \in Nat
  <2>1. \A i : Before(i) \in SUBSET list
    OBVIOUS
  <2>2. QED
    BY <1>1, <2>1, FS_Subset, FS_CardinalityType
<1>4. front \in [first -> 0 .. n - 1]
  <2>1. \A i \in first : Cardinality(Before(i)) < n
    BY DEF First
  <2>2. \A i \in first : Cardinality(Before(i)) \in 0 .. n - 1
    BY <1>3, <2>1
  <2>3. QED
    BY <2>2
<1>5. ASSUME NEW i \in first, NEW j \in first, Rank[i] < Rank[j]
      PROVE  front[i] < front[j]
  <2>1. Rank[i] \in Nat /\ Rank[j] \in Nat /\ \A k \in list : Rank[k] \in Nat
    BY <1>1, TickAssumption
  <2>2. Before(i) \in SUBSET Before(j)
    BY <1>5, <2>1
  <2>3. i \in Before(j) /\ i \notin Before(i)
    BY <1>1, <1>5, <2>1
  <2>4. Cardinality(Before(i)) =< Cardinality(Before(j))
        /\ Cardinality(Before(i)) # Cardinality(Before(j))
    <3>1. Before(i) # Before(j)
      BY <2>3
    <3> HIDE DEF Before
    <3>2. QED
      BY <1>3, <2>2, <3>1, FS_Subset
  <2>5. front[i] = Cardinality(Before(i)) /\ front[j] = Cardinality(Before(j))
    OBVIOUS
  <2> HIDE DEF front, Before
  <2>6. QED
    BY <1>3, <2>4, <2>5
<1>6. \A i, j \in first : i # j => front[i] # front[j]
  <2> SUFFICES ASSUME NEW i \in first, NEW j \in first, i # j
               PROVE  front[i] # front[j]
    OBVIOUS
  <2>1. Rank[i] \in Nat /\ Rank[j] \in Nat /\ Rank[i] # Rank[j]
    BY <1>1, TickAssumption
  <2>2. Rank[i] < Rank[j] \/ Rank[j] < Rank[i]
    BY <2>1
  <2>3. front[i] \in Nat /\ front[j] \in Nat
    BY <1>3
  <2>4. QED
    BY <1>5, <2>2, <2>3
<1>7. Cardinality(first) =< n
  <2>1. IsFiniteSet(0 .. n - 1) /\ Cardinality(0 .. n - 1) = n
    <3>1. 0 \in Int /\ n - 1 \in Int
      OBVIOUS
    <3>2. /\ IsFiniteSet(0 .. n - 1)
          /\ Cardinality(0 .. n - 1) = IF 0 > n - 1 THEN 0 ELSE (n - 1) - 0 + 1
      BY <3>1, FS_Interval
    <3>3. QED
      BY <3>2
  <2> HIDE DEF front, first
  <2>2. CASE ~ (Cardinality(first) =< n)
    <3>1. Cardinality(0 .. n - 1) < Cardinality(first)
      BY <1>2, <2>1, <2>2
    <3>2. \E i, j \in first : i # j /\ front[i] = front[j]
      BY <1>1, <1>4, <2>1, <3>1, FS_PigeonHole
    <3>3. QED
      BY <1>6, <3>2
  <2>3. QED
    BY <2>2
<1>8. QED
  BY <1>1, <1>2, <1>7

(* The decisions of tick t that are left, and how many they may be. *)
Left(t) == Cardinality(tick[t].pass)
PassOK(t) ==
  /\ tick[t].at = "guard" => Left(t) =< Page
  /\ tick[t].at = "recover" => Left(t) =< Bound
  /\ tick[t].at \in {"claim"} \cup Pulsing \cup Closing => Left(t) + 1 =< Bound
PassInv == \A t \in Ticks : PassOK(t)

(* How far a tick still has to go: first through its decisions, then to    *)
(* the end of the one it is at.                                            *)
Stage(place) ==
  CASE place = "guard" -> 12
    [] place = "claim" -> 10
    [] place = "move" -> 9
    [] place = "start" -> 8
    [] place = "create" -> 7
    [] place = "wait" -> 6
    [] place \in {"review", "park"} -> 5
    [] place \in {"complete", "block"} -> 4
    [] place \in {"fail", "clash"} -> 3
    [] OTHER -> 1
Distance(t) ==
  CASE tick[t].at = "idle" -> 0
    [] tick[t].at = "read" -> 12 * Page + 13
    [] OTHER -> 12 * Left(t) + Stage(tick[t].at)

LEMMA LeftCounts ==
  ASSUME IsFiniteSet(Issues), TicksOK, NEW t \in Ticks
  PROVE  IsFiniteSet(tick[t].pass) /\ Left(t) \in Nat
BY TickIsSound, FS_Subset, FS_CardinalityType DEF Left

LEMMA Bounds == Page \in Nat \ {0} /\ Bound \in Nat \ {0}
BY TickAssumption

(* The end of a tick is as near as can be. *)
LEMMA EndIsNear ==
  ASSUME IsFiniteSet(Issues), TickInv, NEW t \in Ticks, tick[t].at # "idle",
         tick'[t].at = "idle"
  PROVE  PassOK(t)' /\ Distance(t)' < Distance(t)
<1>1. Left(t) \in Nat
  BY LeftCounts DEF TickInv
<1>2. Distance(t) > 0
  BY <1>1, Bounds DEF Distance, Stage
<1>3. Distance(t)' = 0
  BY DEF Distance
<1>4. PassOK(t)'
  BY DEF PassOK, Pulsing, Cardless, Closing
<1>5. QED
  BY <1>2, <1>3, <1>4

(* A step to a later stage of the decision, or on to the next decision. *)
LEMMA StageAdvances ==
  ASSUME IsFiniteSet(Issues), TickInv, NEW t \in Ticks, PassOK(t),
         tick'[t].pass = tick[t].pass,
         tick[t].at \in {"claim"} \cup Pulsing \cup Closing,
         tick'[t].at \in {"recover"} \cup Pulsing \cup Closing,
         Stage(tick'[t].at) < Stage(tick[t].at)
  PROVE  PassOK(t)' /\ Distance(t)' < Distance(t)
<1>1. Left(t) \in Nat /\ Left(t)' = Left(t) /\ Left(t) + 1 =< Bound
  BY LeftCounts DEF TickInv, PassOK, Left
<1>2. Distance(t) = 12 * Left(t) + Stage(tick[t].at)
  BY DEF Distance, Pulsing, Cardless, Closing
<1>3. Distance(t)' = 12 * Left(t) + Stage(tick'[t].at)
  BY <1>1 DEF Distance, Pulsing, Cardless, Closing
<1>4. Stage(tick'[t].at) \in Nat /\ Stage(tick[t].at) \in Nat
  BY DEF Stage
<1>5. PassOK(t)'
  BY <1>1, Bounds DEF PassOK, Pulsing, Cardless, Closing
<1>6. QED
  BY <1>1, <1>2, <1>3, <1>4, <1>5

LEMMA WorkerAdvances ==
  ASSUME TickInv, NEW t \in Ticks,
         \/ MovesInProgress(t) \/ StartFinds(t) \/ CreatesCard(t)
         \/ DispatchReturns(t) \/ DispatchRaises(t)
         \/ MovesInReview(t) \/ MovesBlocked(t) \/ MoveIgnored(t)
         \/ Completes(t) /\ GoTo(t, "fail")
         \/ CallRaises(t) /\ GoTo(t, "fail") /\ ~Ends(t)
         \/ GoTo(t, "clash") /\ tick[t].at \in {"start", "complete", "wait"}
  PROVE  /\ tick'[t].pass = tick[t].pass
         /\ tick[t].at \in Pulsing \cup Closing /\ tick'[t].at \in Pulsing \cup Closing
         /\ Stage(tick'[t].at) < Stage(tick[t].at)
<1> USE DEF Pulsing, Cardless, Closing
<1>0. TicksOK
  BY DEF TickInv
<1>1. ASSUME NEW place \in {"start", "create", "complete", "block", "review", "park", "fail", "clash"},
             GoTo(t, place),
             \/ tick[t].at = "move" /\ place \in {"start", "fail"}
             \/ tick[t].at = "start" /\ place \in {"create", "fail", "clash"}
             \/ tick[t].at = "create" /\ place = "fail"
             \/ tick[t].at = "wait" /\ place \in {"review", "park", "fail", "clash"}
             \/ tick[t].at = "review" /\ place \in {"complete", "fail"}
             \/ tick[t].at = "park" /\ place = "block"
             \/ tick[t].at = "complete" /\ place \in {"fail", "clash"}
      PROVE  /\ tick'[t].pass = tick[t].pass
             /\ tick[t].at \in Pulsing \cup Closing /\ tick'[t].at \in Pulsing \cup Closing
             /\ Stage(tick'[t].at) < Stage(tick[t].at)
  <2>1. tick'[t].at = place /\ tick'[t].pass = tick[t].pass
    BY <1>0, <1>1, PlaceChanges
  <2>2. QED
    BY <1>1, <2>1 DEF Stage
<1>2. CASE \/ MovesInProgress(t) \/ MovesInReview(t) \/ MovesBlocked(t)
           \/ MoveIgnored(t) \/ DispatchRaises(t)
  BY <1>1, <1>2
  DEF MovesInProgress, MovesInReview, MovesBlocked, Moves, MoveIgnored, DispatchRaises
<1>3. CASE DispatchReturns(t)
  BY <1>1, <1>3 DEF DispatchReturns
<1>4. CASE Completes(t) /\ GoTo(t, "fail")
  BY <1>1, <1>4 DEF Completes
<1>5. CASE CallRaises(t) /\ GoTo(t, "fail") /\ ~Ends(t)
  BY <1>1, <1>5 DEF CallRaises
<1>6. CASE StartFinds(t) /\ LiveCards(Current(t)) = {}
  BY <1>1, <1>6 DEF StartFinds
<1>7. ASSUME NEW c, tick' = [tick EXCEPT ![t].at = "wait", ![t].card = c],
             tick[t].at \in {"start", "create"}
      PROVE  /\ tick'[t].pass = tick[t].pass
             /\ tick[t].at \in Pulsing \cup Closing /\ tick'[t].at \in Pulsing \cup Closing
             /\ Stage(tick'[t].at) < Stage(tick[t].at)
  <2>1. tick'[t].at = "wait" /\ tick'[t].pass = tick[t].pass
    BY <1>0, <1>7, CardChanges
  <2>2. QED
    BY <1>7, <2>1 DEF Stage
<1>8. CASE StartFinds(t) /\ LiveCards(Current(t)) # {}
  BY <1>7, <1>8 DEF StartFinds
<1>9. CASE CreatesCard(t)
  BY <1>7, <1>9 DEF CreatesCard
<1>10. CASE GoTo(t, "clash") /\ tick[t].at \in {"start", "complete", "wait"}
  BY <1>1, <1>10
<1>11. QED
  BY <1>2, <1>3, <1>4, <1>5, <1>6, <1>8, <1>9, <1>10

(* A read leaves a list that is no longer than it may be. *)
LEMMA ReadAdvances ==
  ASSUME IsFiniteSet(Issues), TickInv, NEW t \in Ticks, PassOK(t),
         ReadsIssues(t) \/ ReadsBoard(t), tick'[t].at # "idle"
  PROVE  PassOK(t)' /\ Distance(t)' < Distance(t)
<1>0. TicksOK /\ IsFiniteSet(tick[t].pass) /\ tick[t].pass \subseteq Issues /\ Left(t) \in Nat
  BY LeftCounts, TickIsSound DEF TickInv
<1>1. CASE ReadsIssues(t)
  <2> DEFINE page == First(Page, {i \in Issues : Todo(i)})
             list == {i \in page : fit[i]}
  <2>1. IsFiniteSet(page) /\ Cardinality(page) =< Page /\ Cardinality(page) \in Nat
    BY FirstBounded, Bounds
  <2>2. IsFiniteSet(list) /\ Cardinality(list) =< Cardinality(page) /\ Cardinality(list) \in Nat
    <3>1. list \in SUBSET page
      OBVIOUS
    <3> HIDE DEF page, list
    <3>2. QED
      BY <2>1, <3>1, FS_Subset, FS_CardinalityType
  <2>3. Continues(t, list, "guard")
    BY <1>1 DEF ReadsIssues
  <2> HIDE DEF list
  <2>4. tick'[t].at = "guard" /\ tick'[t].pass = list
    BY <1>0, <2>3, PassChanges
  <2>5. Left(t)' \in Nat /\ Left(t)' =< Page
    BY <2>1, <2>2, <2>4, Bounds DEF Left
  <2>6. PassOK(t)'
    BY <2>4, <2>5 DEF PassOK, Pulsing, Cardless, Closing
  <2>7. Distance(t) = 12 * Page + 13 /\ Distance(t)' = 12 * Left(t)' + 12
    BY <1>1, <2>4 DEF Distance, Stage, ReadsIssues
  <2>8. QED
    BY <2>5, <2>6, <2>7, Bounds
<1>2. CASE ReadsBoard(t)
  <2> DEFINE candidates == {i \in tick[t].pass : LiveCards(i) = {}}
             list == First(Bound, candidates)
  <2>1. candidates \in SUBSET tick[t].pass /\ candidates \in SUBSET Issues
    BY <1>0
  <2>2. Continues(t, list, "recover")
    BY <1>2 DEF ReadsBoard
  <2>3. /\ list \subseteq candidates /\ Cardinality(list) \in Nat /\ Cardinality(list) =< Bound
    <3> HIDE DEF candidates
    <3>1. QED
      BY <2>1, FirstBounded, Bounds
  <2>4. Cardinality(list) =< Left(t)
    <3>1. list \in SUBSET tick[t].pass
      BY <2>1, <2>3
    <3> HIDE DEF list
    <3>2. QED
      BY <1>0, <3>1, FS_Subset DEF Left
  <2> HIDE DEF list
  <2>5. tick'[t].at = "recover" /\ tick'[t].pass = list
    BY <1>0, <2>2, PassChanges
  <2>6. Left(t)' \in Nat /\ Left(t)' =< Bound /\ Left(t)' =< Left(t)
    BY <2>3, <2>4, <2>5 DEF Left
  <2>7. PassOK(t)'
    BY <2>5, <2>6 DEF PassOK, Pulsing, Cardless, Closing
  <2>8. Distance(t) = 12 * Left(t) + 12 /\ Distance(t)' = 12 * Left(t)' + 1
    BY <1>2, <2>5 DEF Distance, Stage, ReadsBoard
  <2>9. QED
    BY <1>0, <2>6, <2>7, <2>8
<1>3. QED
  BY <1>1, <1>2

(* A decision that is taken is not left. *)
LEMMA TakeAdvances ==
  ASSUME IsFiniteSet(Issues), TickInv, NEW t \in Ticks, PassOK(t), Recovers(t)
  PROVE  PassOK(t)' /\ Distance(t)' < Distance(t)
<1>0. TicksOK /\ IsFiniteSet(tick[t].pass) /\ tick[t].pass \subseteq Issues /\ Left(t) \in Nat
  BY LeftCounts, TickIsSound DEF TickInv
<1>1. PICK i \in tick[t].pass : Takes(t, i)
  BY DEF Recovers
<1>2. tick[t].at = "recover" /\ tick'[t].at = "claim" /\ tick'[t].pass = tick[t].pass \ {i}
  BY <1>0, <1>1, DecisionTaken DEF Takes
<1>3. Left(t)' = Left(t) - 1
  <2>1. Cardinality(tick[t].pass \ {i}) = Cardinality(tick[t].pass) - 1
    BY <1>0, <1>1, FS_RemoveElement
  <2>2. QED
    BY <1>2, <2>1 DEF Left
<1>4. Left(t) =< Bound
  BY <1>2 DEF PassOK
<1>5. PassOK(t)'
  BY <1>0, <1>2, <1>3, <1>4, Bounds DEF PassOK, Pulsing, Cardless, Closing
<1>6. Distance(t) = 12 * Left(t) + 1 /\ Distance(t)' = 12 * Left(t)' + 10
  BY <1>2 DEF Distance, Stage
<1>7. QED
  BY <1>0, <1>3, <1>5, <1>6

(* Every step of a tick brings it nearer to its end. *)
LEMMA StepAdvances ==
  ASSUME IsFiniteSet(Issues), TickInv, NEW t \in Ticks, PassOK(t),
         TickStep(t) \/ MoveIgnored(t) \/ CallRaises(t) \/ StoreConflicts(t) \/ Crashes(t)
  PROVE  PassOK(t)' /\ Distance(t)' < Distance(t) /\ tick[t].at # "idle"
<1>0. TicksOK /\ tick[t].at # "idle"
  <2>1. TicksOK
    BY DEF TickInv
  <2>2. tick[t].at # "idle"
    BY DEF TickStep, MoveIgnored, CallRaises, StoreConflicts, Crashes, ReadsIssues, ReadsBoard,
           Recovers, Takes, Claims,
           Conflicts, MovesInProgress, StartFinds, CreatesCard, DispatchReturns,
           DispatchRaises, MovesInReview, Completes, MovesBlocked, Moves, Blocks, Fails
  <2>3. QED
    BY <2>1, <2>2
<1>1. CASE tick'[t].at = "idle"
  BY <1>0, <1>1, EndIsNear
<1>2. CASE tick'[t].at # "idle"
  <2>1. CASE ReadsIssues(t) \/ ReadsBoard(t) \/ Recovers(t)
    BY <1>0, <1>2, <2>1, ReadAdvances, TakeAdvances
  <2>2. CASE Ends(t)
    BY <1>0, <1>2, <2>2, TickEnds
  <2>3. CASE Claims(t)
    <3>1. PICK r : tick' = [tick EXCEPT ![t].at = "move", ![t].run = r]
      BY <2>3 DEF Claims
    <3>2. tick'[t].at = "move" /\ tick'[t].pass = tick[t].pass
      BY <1>0, <3>1, RunTaken
    <3>3. tick[t].at = "claim"
      BY <2>3 DEF Claims
    <3>4. Stage(tick'[t].at) < Stage(tick[t].at)
      BY <3>2, <3>3 DEF Stage
    <3>5. QED
      BY <1>0, <3>2, <3>3, <3>4, StageAdvances DEF Pulsing, Cardless
  <2>4. CASE Forward(t) /\ tick[t].at \in {"claim"} \cup Closing
    <3>1. tick'[t].at = "recover" /\ tick'[t].pass = tick[t].pass
      BY <1>0, <1>2, <2>4, PassChanges DEF Forward
    <3>2. Stage(tick'[t].at) < Stage(tick[t].at)
      BY <2>4, <3>1 DEF Stage, Closing
    <3>3. QED
      BY <1>0, <2>4, <3>1, <3>2, StageAdvances DEF Closing
  <2>5. CASE \/ MovesInProgress(t) \/ StartFinds(t) \/ CreatesCard(t)
             \/ DispatchReturns(t) \/ DispatchRaises(t)
             \/ MovesInReview(t) \/ MovesBlocked(t) \/ MoveIgnored(t)
             \/ Completes(t) /\ GoTo(t, "fail")
             \/ CallRaises(t) /\ GoTo(t, "fail") /\ ~Ends(t)
             \/ GoTo(t, "clash") /\ tick[t].at \in {"start", "complete", "wait"}
    BY <1>0, <2>5, WorkerAdvances, StageAdvances
  <2>6. QED
    BY <2>1, <2>2, <2>3, <2>4, <2>5
    DEF TickStep, CallRaises, StoreConflicts, Crashes, Conflicts, Completes, Blocks, Fails,
        Closing
<1>3. QED
  BY <1>0, <1>1, <1>2

(* A tick is nearer to its end after every step of its own, a failed call  *)
(* and a crash included, and no other step touches it.  With the fairness  *)
(* of its calls this is why it ends (orchestrator.py 54-78,                *)
(* poller_tick.py 240-283).                                                *)
TickAdvances(t) ==
  tick[t].at # "idle" =>
    Distance(t)' < Distance(t) \/ (tick'[t] = tick[t] /\ ~TickStep(t))
TicksOnlyAdvance == [][\A t \in Ticks : TickAdvances(t)]_tickVars

LEMMA OtherTicks ==
  ASSUME TickInv, NEW t \in Ticks, StepOf(t), NEW u \in Ticks, u # t
  PROVE  tick'[u] = tick[u]
<1>1. CASE Claims(t)
  <2>1. PICK r : tick' = [tick EXCEPT ![t].at = "move", ![t].run = r]
    BY <1>1 DEF Claims
  <2>2. QED
    BY <2>1, RunTaken DEF TickInv
<1>2. CASE CreatesCard(t)
  <2>1. PICK c : tick' = [tick EXCEPT ![t].at = "wait", ![t].card = c]
    BY <1>2 DEF CreatesCard
  <2>2. QED
    BY <2>1, CardChanges DEF TickInv
<1>3. QED
  BY <1>1, <1>2, RestSteps, WorkerSteps
  DEF StepOf, TickStep, FaultOf, CallRaises, StoreConflicts, Crashes, Conflicts,
      Completes, Blocks, Fails

(* What a step does to a tick. *)
LEMMA StepOfTicks ==
  ASSUME TickInv, [TickNext]_tickVars, NEW t \in Ticks
  PROVE  StepOf(t) \/ tick'[t] = tick[t]
<1>1. ASSUME NEW u \in Ticks, StepOf(u)
      PROVE  StepOf(t) \/ tick'[t] = tick[t]
  BY <1>1, OtherTicks
<1>2. ASSUME NEW i \in Issues,
             \/ Expires(i) \/ PulseFails(i)
             \/ MovesIssue(i) \/ Relabels(i) \/ WritesCard(i) \/ GivesBack(i)
      PROVE  UNCHANGED tick
  BY <1>2 DEF Expires, PulseFails, MovesIssue, Relabels, WritesCard, GivesBack, Edit
<1>3. ASSUME NEW c \in Cards, Archives(c) \/ CardEnds(c)
      PROVE  UNCHANGED tick
  BY <1>3 DEF Archives, CardEnds, Edit
<1>4. QED
  BY <1>1, <1>2, <1>3 DEF TickNext, tickVars, StepOf, FaultOf

LEMMA PassInvNext ==
  ASSUME IsFiniteSet(Issues), TickInv, PassInv, [TickNext]_tickVars, NEW t \in Ticks
  PROVE  PassOK(t)' /\ TickAdvances(t)
<1>0. PassOK(t)
  BY DEF PassInv
<1>1. CASE TickStep(t) \/ MoveIgnored(t) \/ CallRaises(t) \/ StoreConflicts(t) \/ Crashes(t)
  BY <1>0, <1>1, StepAdvances DEF TickAdvances
<1>2. CASE Begins(t) \/ BeginsBlind(t)
  BY <1>2, TickBegins DEF TickInv, TickAdvances, PassOK, Pulsing, Cardless, Closing
<1>3. CASE tick'[t] = tick[t] /\ ~TickStep(t)
  BY <1>0, <1>3 DEF TickAdvances, PassOK, Left
<1>4. QED
  BY <1>1, <1>2, <1>3, StepOfTicks DEF StepOf, FaultOf

LEMMA PassInvInit ==
  ASSUME TickInit
  PROVE  PassInv
<1>1. \A t \in Ticks : tick[t].at = "idle"
  BY DEF TickInit, Idle
<1>2. QED
  BY <1>1 DEF PassInv, PassOK, Pulsing, Cardless, Closing

(* A pass never has more decisions than POLLER_MAX_DISPATCH_PER_TICK, the  *)
(* one it is at included, and the guard never more candidates than a read  *)
(* returns (poller_dispatch_guard.py 194-214).                             *)
THEOREM PassBounded ==
  ASSUME IsFiniteSet(Issues)
  PROVE  TickSpec => []PassInv
<1>1. TickInit => PassInv
  BY PassInvInit
<1>2. TickInv /\ PassInv /\ [TickNext]_tickVars => PassInv'
  BY PassInvNext DEF PassInv
<1>3. QED
  BY <1>1, <1>2, TickInvariant, PTL DEF TickSpec

(* The safety half of EveryTickEnds, for any list, page and bound.         *)
THEOREM TicksAdvance ==
  ASSUME IsFiniteSet(Issues)
  PROVE  TickSpec => TicksOnlyAdvance
<1>1. TickInv /\ PassInv /\ [TickNext]_tickVars => [\A t \in Ticks : TickAdvances(t)]_tickVars
  BY PassInvNext
<1>2. QED
  BY <1>1, TickInvariant, PassBounded, PTL DEF TickSpec, TicksOnlyAdvance

-------------------------------------------------------------------------------
(* The ticks and the store *)

LEMMA LeaseSteps ==
  ASSUME TickInv, [TickNext]_tickVars
  PROVE  [LeaseNext]_leaseVars
<1>1. ASSUME NEW t \in Ticks, Recovers(t)
      PROVE  [LeaseNext]_leaseVars
  <2>1. PICK i \in tick[t].pass : Release(i) \/ UNCHANGED leaseVars
    BY <1>1 DEF Recovers
  <2>2. i \in Issues
    BY <2>1, TickIsSound DEF TickInv
  <2>3. QED
    BY <2>1, <2>2 DEF LeaseNext
<1>2. ASSUME NEW t \in Ticks, Claims(t)
      PROVE  [LeaseNext]_leaseVars
  BY <1>2 DEF Claims, LeaseNext
<1>3. ASSUME NEW t \in Ticks, Completes(t) \/ Blocks(t) \/ Fails(t)
      PROVE  [LeaseNext]_leaseVars
  <2>1. Current(t) \in Issues
    BY <1>3 DEF Completes, Blocks, Fails, TickInv, TicksOK, Sound, Current, Closing
  <2>2. Release(Current(t)) \/ Park(Current(t)) \/ UNCHANGED leaseVars
    BY <1>3 DEF Completes, Blocks, Fails, Finished
  <2>3. QED
    BY <2>1, <2>2 DEF LeaseNext
<1>4. ASSUME NEW t \in Ticks, StepOf(t),
             ~ (Recovers(t) \/ Claims(t) \/ Completes(t) \/ Blocks(t) \/ Fails(t))
      PROVE  UNCHANGED leaseVars
  BY <1>4
  DEF StepOf, TickStep, Begins, FaultOf, BeginsBlind, MoveIgnored, CallRaises, StoreConflicts, Crashes,
      ReadsIssues, ReadsBoard, Conflicts, StartFinds, CreatesCard, DispatchReturns, DispatchRaises, Moves, MovesInProgress,
      MovesInReview, MovesBlocked
<1>5. ASSUME NEW i \in Issues,
             \/ Expires(i) \/ PulseFails(i)
             \/ MovesIssue(i) \/ Relabels(i) \/ WritesCard(i) \/ GivesBack(i)
      PROVE  [LeaseNext]_leaseVars
  BY <1>5 DEF Expires, PulseFails, MovesIssue, Relabels, WritesCard, GivesBack, LeaseNext
<1>6. ASSUME NEW c \in Cards, Archives(c) \/ CardEnds(c)
      PROVE  UNCHANGED leaseVars
  BY <1>6 DEF Archives, CardEnds
<1>7. QED
  BY <1>1, <1>2, <1>3, <1>4, <1>5, <1>6 DEF TickNext, tickVars, leaseVars, StepOf, FaultOf

(* Whatever ticks do to the store is what IssueLease allows: they take an  *)
(* issue that is free for a run that had none, and leave it by finishing,  *)
(* parking or recovering the run that holds it.  RunStore keeps the same   *)
(* promise to its clients (StoreImplementsLease), so that the ticks and    *)
(* the store meet in it.                                                   *)
THEOREM TicksUseLease == TickSpec => LeaseSpec
<1>1. TickInit => LeaseInit
  BY DEF TickInit
<1>2. TickInv /\ [TickNext]_tickVars => [LeaseNext]_leaseVars
  BY LeaseSteps
<1>3. QED
  BY <1>1, <1>2, TickInvariant, PTL DEF TickSpec, LeaseSpec

-------------------------------------------------------------------------------
(* What Linear is told *)

(* Issue i is moved by a tick that works on it and whose card has ended.   *)
ToldBy(t, i, place) ==
  /\ tick[t].at = place /\ Current(t) = i /\ i \in tick[t].known
  /\ tick[t].run \in used
  /\ tick[t].card \in Cards /\ About(tick[t].card) = i
  /\ board[tick[t].card] \in {"ended", "archived"}

(* An issue is in review, or blocked, only because a tick says so at the   *)
(* end of its dispatch: a card of that very issue has ended, and the issue *)
(* is one the tick read (poller_tick.py 85-95, runtime.py 173-200).        *)
Told(i) ==
  linear'[i] # linear[i] =>
    /\ linear'[i] = "In Review" => \E t \in Ticks : ToldBy(t, i, "review")
    /\ linear'[i] = "Blocked" => \E t \in Ticks : ToldBy(t, i, "park")
LinearIsTold == [][\A i \in Issues : Told(i)]_tickVars

LEMMA MoveTold ==
  ASSUME TickInv, WorkerInv, NEW t \in Ticks, NEW i \in Issues,
         MovesInProgress(t) \/ MovesInReview(t) \/ MovesBlocked(t)
  PROVE  Told(i)
<1> SUFFICES ASSUME linear'[i] # linear[i]
             PROVE  Told(i)
  BY DEF Told
<1>1. PICK status : Move(t, status) /\ status = CASE tick[t].at = "move" -> "In Progress"
                                                  [] tick[t].at = "review" -> "In Review"
                                                  [] tick[t].at = "park" -> "Blocked"
  BY DEF MovesInProgress, MovesInReview, MovesBlocked, Moves
<1>2. Current(t) \in tick[t].known /\ linear' = [linear EXCEPT ![Current(t)] = status]
  BY <1>1 DEF Move, Movable
<1>3. Current(t) = i /\ linear'[i] = status
  BY <1>2 DEF TickInv, WorldOK
<1>4. WorkerOK(t) /\ tick[t].at \in {"move", "review", "park"}
  BY DEF WorkerInv, MovesInProgress, MovesInReview, MovesBlocked, Moves
<1>5. tick[t].at # "move" => ToldBy(t, i, tick[t].at)
  BY <1>2, <1>3, <1>4 DEF ToldBy, WorkerOK, Working, Carded, Served, Closing
<1>6. CASE tick[t].at = "move"
  BY <1>1, <1>3, <1>6 DEF Told
<1>7. CASE tick[t].at = "review"
  BY <1>1, <1>3, <1>5, <1>7 DEF Told
<1>8. CASE tick[t].at = "park"
  BY <1>1, <1>3, <1>5, <1>8 DEF Told
<1>9. QED
  BY <1>4, <1>6, <1>7, <1>8

LEMMA LinearSteps ==
  ASSUME TickInv, WorkerInv, [TickNext]_tickVars, NEW i \in Issues
  PROVE  Told(i)
<1>1. ASSUME NEW t \in Ticks, MovesInProgress(t) \/ MovesInReview(t) \/ MovesBlocked(t)
      PROVE  Told(i)
  BY <1>1, MoveTold
<1>2. ASSUME NEW t \in Ticks, StepOf(t),
             ~ (MovesInProgress(t) \/ MovesInReview(t) \/ MovesBlocked(t))
      PROVE  UNCHANGED linear
  BY <1>2
  DEF StepOf, TickStep, Begins, FaultOf, BeginsBlind, MoveIgnored, CallRaises, StoreConflicts, Crashes,
      ReadsIssues, ReadsBoard, Recovers,
      Claims, Conflicts, StartFinds, CreatesCard, DispatchReturns, DispatchRaises,
      Completes, Blocks, Fails, world
<1>3. ASSUME NEW j \in Issues, MovesIssue(j)
      PROVE  Told(i)
  <2>1. PICK s \in {"Todo", "Done"} : linear' = [linear EXCEPT ![j] = s]
    BY <1>3 DEF MovesIssue
  <2>2. linear'[i] \in {"Todo", "Done"} \/ linear'[i] = linear[i]
    BY <2>1 DEF TickInv, WorldOK
  <2>3. QED
    BY <2>2 DEF Told
<1>4. ASSUME NEW j \in Issues,
             Expires(j) \/ PulseFails(j) \/ Relabels(j) \/ WritesCard(j) \/ GivesBack(j)
      PROVE  UNCHANGED linear
  BY <1>4 DEF Expires, PulseFails, Relabels, WritesCard, GivesBack, world
<1>5. ASSUME NEW c \in Cards, Archives(c) \/ CardEnds(c)
      PROVE  UNCHANGED linear
  BY <1>5 DEF Archives, CardEnds
<1>6. UNCHANGED linear => Told(i)
  BY DEF Told
<1>7. QED
  BY <1>1, <1>2, <1>3, <1>4, <1>5, <1>6 DEF TickNext, tickVars, StepOf, FaultOf

(* Linear shows an outcome only of a card that ended, whatever ticks       *)
(* overlap or die.                                                         *)
THEOREM OutcomesAreTold == TickSpec => LinearIsTold
<1>1. TickInv /\ WorkerInv /\ [TickNext]_tickVars => [\A i \in Issues : Told(i)]_tickVars
  BY LinearSteps
<1>2. QED
  BY <1>1, TickInvariant, WorkersInvariant, PTL DEF TickSpec, LinearIsTold

(* A lease is of a run for that issue, which was granted once; a run that  *)
(* lost its issue does not get it again.                                   *)
Holder(i) ==
  lease[i].mode # "free" => lease[i].run \in used /\ IssueOf[lease[i].run] = i
HoldersInv == \A i \in Issues : Holder(i)
NotRegained(i) == \A r \in used : lease'[i] = Held(r) => lease[i] = Held(r)

LEMMA LeaseKeepsHolders ==
  ASSUME LeasesOK, HoldersInv, [LeaseNext]_leaseVars, NEW i \in Issues
  PROVE  Holder(i)' /\ NotRegained(i)
<1>0. lease \in [Issues -> Leases] /\ Holder(i)
  BY DEF LeasesOK, HoldersInv
<1>1. ASSUME NEW r \in Runs, Grant(r)
      PROVE  Holder(i)' /\ NotRegained(i)
  <2>1. /\ r \notin used /\ used' = used \cup {r}
        /\ lease'[i] = IF IssueOf[r] = i THEN Held(r) ELSE lease[i]
    BY <1>0, <1>1, TickAssumption DEF Grant
  <2>2. QED
    BY <1>0, <2>1 DEF Holder, NotRegained, Held
<1>2. ASSUME NEW j \in Issues, Release(j) \/ Park(j) \/ Unpark(j)
      PROVE  Holder(i)' /\ NotRegained(i)
  <2>1. /\ used' = used
        /\ \/ lease'[i] = lease[i]
           \/ lease'[i] = Free
           \/ lease[i].mode = "held" /\ lease'[i] = Parked(lease[i].run)
    BY <1>0, <1>2 DEF Release, Park, Unpark
  <2>2. QED
    BY <1>0, <2>1 DEF Holder, NotRegained, Free, Held, Parked
<1>3. CASE UNCHANGED leaseVars
  BY <1>0, <1>3 DEF leaseVars, Holder, NotRegained
<1>4. QED
  BY <1>1, <1>2, <1>3 DEF LeaseNext

LEMMA HoldersStep ==
  ASSUME TickInv, HoldersInv, [TickNext]_tickVars
  PROVE  HoldersInv' /\ \A i \in Issues : NotRegained(i)
<1>1. LeasesOK /\ [LeaseNext]_leaseVars
  BY LeaseSteps DEF TickInv
<1>2. QED
  BY <1>1, LeaseKeepsHolders DEF HoldersInv

(* The store names, for an issue that is taken, a run that was made for    *)
(* this issue (sql 29-34).                                                 *)
THEOREM HoldersAreForIssue == TickSpec => []HoldersInv
<1>1. TickInit => HoldersInv
  BY LeaseModes DEF TickInit, LeaseInit, HoldersInv, Holder
<1>2. TickInv /\ HoldersInv /\ [TickNext]_tickVars => HoldersInv'
  BY HoldersStep
<1>3. QED
  BY <1>1, <1>2, TickInvariant, PTL DEF TickSpec

(* A worker whose issue was taken from it, after its lock expired, does    *)
(* not own it again, whatever becomes of the run that took over: its       *)
(* finish stays refused until its call ends.                               *)
StaysOut(t) ==
  Working(t) /\ ~Owns(t) /\ Working(t)' /\ tick'[t].run = tick[t].run => ~Owns(t)'
LostIssueStaysLost == [][\A t \in Ticks : StaysOut(t)]_tickVars

LEMMA WorkerStaysOut ==
  ASSUME TickInv, HoldersInv, WorkerInv, [TickNext]_tickVars, NEW t \in Ticks
  PROVE  StaysOut(t)
<1> SUFFICES ASSUME Working(t), ~Owns(t), Working(t)', tick'[t].run = tick[t].run
             PROVE  ~Owns(t)'
  BY DEF StaysOut
<1>1. tick[t].run \in used
  BY DEF WorkerInv, WorkerOK
<1>2. Current(t) \in Issues /\ IssueOf[tick[t].run] = Current(t)
  BY DEF TickInv, TicksOK, Sound, Working, Current
<1>3. IssueOf[tick'[t].run] = Current(t)'
  <2>1. TicksOK'
    BY TickInvNext DEF TickInv
  <2>2. QED
    BY <2>1 DEF TicksOK, Sound, Working, Current
<1>4. NotRegained(Current(t))
  <2>1. \A i \in Issues : NotRegained(i)
    BY HoldersStep
  <2>2. QED
    BY <1>2, <2>1
<1>5. Current(t)' = Current(t)
  BY <1>2, <1>3
<1>6. QED
  BY <1>1, <1>4, <1>5 DEF NotRegained, Owns

(* For any number of ticks that overlap on an issue.                       *)
THEOREM LostIssues == TickSpec => LostIssueStaysLost
<1>1. TickInv /\ HoldersInv /\ WorkerInv /\ [TickNext]_tickVars
        => [\A t \in Ticks : StaysOut(t)]_tickVars
  BY WorkerStaysOut
<1>2. QED
  BY <1>1, TickInvariant, HoldersAreForIssue, WorkersInvariant, PTL
  DEF TickSpec, LostIssueStaysLost

===============================================================================
