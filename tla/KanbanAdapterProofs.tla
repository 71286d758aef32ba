-------------------------- MODULE KanbanAdapterProofs --------------------------
(***************************************************************************)
(* Proofs about KanbanAdapter, for every deadline and every text a card    *)
(* may hold, and for every run: the batch follows the card, it is bounded  *)
(* by the deadline, and the adapter and the payload contract agree but for *)
(* the cases the property names.                                           *)
(***************************************************************************)
EXTENDS KanbanAdapter, FiniteSetTheorems, TLAPS

Observed == {EventOf(x, kind, c) : x \in Contexts, kind \in KanbanKinds, c \in Readable}

(* The inductive invariant, with events that were all made from a card. *)
ProofInv ==
  /\ at \in {"start", "poll"} \cup DispatchEnded
  /\ context \in Contexts
  /\ snapshot \in Readable
  /\ last_status \in CardStatuses
  /\ events \in Seq(Observed)
  /\ left \in 0 .. Timeout
  /\ result \in Metadata \cup {NoMetadata}
  /\ LoopInv
  /\ ReportsFollowCard
  /\ BatchBounded

(* What a card that was read holds. *)
LEMMA CardFacts ==
  ASSUME NEW c \in Readable
  PROVE  /\ c.status \in CardStatuses
         /\ c.kanban_task_id = "task"
         /\ c.kanban_outcome \in CardOutcomes
         /\ ResultOf(c) \in Metadata \cup {NoMetadata}
         /\ DOMAIN c = {"kanban_task_id", "status", "assignee", "kanban_outcome",
                        "tests_status", "review_status", "commit_sha"}
<1>1. PICK s \in CardStatuses, a \in Assignees \cup {NoValue}, o \in CardOutcomes,
           m \in Metadata \cup {NoMetadata} :
        c = CardOf(s, a, o, m)
  BY DEF Readable, Unread, CardStatuses, CardOutcomes
<1>2. m = [tests_status |-> m.tests_status, review_status |-> m.review_status,
           commit_sha |-> m.commit_sha]
  BY MetadataAssumption DEF NoMetadata
<1>3. ResultOf(c) = [tests_status |-> m.tests_status, review_status |-> m.review_status,
                     commit_sha |-> m.commit_sha]
  BY <1>1 DEF CardOf, ResultOf
<1>4. QED
  BY <1>1, <1>2, <1>3 DEF CardOf, CardFields

(* What the adapter knows of a run and a card. *)
LEMMA KnownFacts ==
  ASSUME NEW x \in Contexts, NEW c \in Readable
  PROVE  /\ DOMAIN Known(x, c) = DOMAIN c \cup {"run_id", "linear_issue_id", "agent"}
         /\ \A f \in DOMAIN c : Known(x, c)[f] = c[f]
         /\ Known(x, c)["run_id"] = x.run_id
         /\ Known(x, c)["linear_issue_id"] = x.linear_issue_id
         /\ Known(x, c)["agent"] = x.agent
<1>1. DOMAIN c = {"kanban_task_id", "status", "assignee", "kanban_outcome", "tests_status",
                  "review_status", "commit_sha"}
  BY CardFacts
<1>2. x = [run_id |-> x.run_id, linear_issue_id |-> x.linear_issue_id, agent |-> x.agent]
  BY ContextAssumption
<1>3. QED
  BY <1>1, <1>2 DEF Known

(* What a payload made from a card holds. *)
LEMMA EventFacts ==
  ASSUME NEW x \in Contexts, NEW kind \in KanbanKinds, NEW c \in Readable
  PROVE  /\ EventOf(x, kind, c) \in Observed
         /\ EventOf(x, kind, c).kind = kind
         /\ CardFields \subseteq DOMAIN EventOf(x, kind, c).payload
         /\ DOMAIN EventOf(x, kind, c).payload \subseteq Stated(kind)
         /\ EventOf(x, kind, c).payload["status"] = c.status
         /\ \A f \in DOMAIN EventOf(x, kind, c).payload :
              /\ EventOf(x, kind, c).payload[f] = Known(x, c)[f]
              /\ Known(x, c)[f] # NoValue
<1>1. c.status \in CardStatuses /\ c.kanban_task_id = "task"
  BY CardFacts
<1>2. c.status # NoValue /\ c.kanban_task_id # NoValue
  BY <1>1, NoValueAssumption
<1>0. \A f \in DOMAIN c : Known(x, c)[f] = c[f]
  BY KnownFacts
<1>3. /\ Known(x, c)["status"] = c.status /\ Known(x, c)["status"] # NoValue
      /\ Known(x, c)["kanban_task_id"] # NoValue
  BY <1>0, <1>2, CardFacts
<1> DEFINE fields == Stated(kind)
           known == Known(x, c)
<1>4. EventOf(x, kind, c).payload = [f \in {g \in fields : known[g] # NoValue} |-> known[f]]
  BY DEF EventOf, Payload
<1>5. "status" \in fields /\ "kanban_task_id" \in fields
  BY DEF Stated
<1>9. known["status"] = c.status /\ known["status"] # NoValue /\ known["kanban_task_id"] # NoValue
  BY <1>3
<1> HIDE DEF fields, known
<1>6. /\ "status" \in DOMAIN EventOf(x, kind, c).payload
      /\ "kanban_task_id" \in DOMAIN EventOf(x, kind, c).payload
      /\ DOMAIN EventOf(x, kind, c).payload \subseteq fields
      /\ EventOf(x, kind, c).payload["status"] = c.status
      /\ \A f \in DOMAIN EventOf(x, kind, c).payload :
           EventOf(x, kind, c).payload[f] = known[f] /\ known[f] # NoValue
  BY <1>9, <1>4, <1>5
<1>7. EventOf(x, kind, c) \in Observed /\ EventOf(x, kind, c).kind = kind
  <2>1. EventOf(x, kind, c) \in
          {EventOf(y, k, d) : y \in Contexts, k \in KanbanKinds, d \in Readable}
    OBVIOUS
  <2>2. QED
    BY <2>1 DEF Observed, EventOf
<1>8. QED
  BY <1>6, <1>7 DEF CardFields, fields, known

(* One more event about the card just read keeps the reports in order. *)
LEMMA ObserveReports ==
  ASSUME ProofInv, NEW kind \in KanbanKinds, NEW c \in Readable,
         kind = "kanban.status_changed" =>
           events # <<>> /\ snapshot.status # c.status,
         snapshot' = c, Observe(kind, c)
  PROVE  /\ events' \in Seq(Observed) /\ events' # <<>>
         /\ Len(events') = Len(events) + 1
         /\ ReportsFollowCard'
<1> DEFINE e == EventOf(context, kind, c)
<1>1. e \in Observed /\ e.kind = kind /\ e.payload["status"] = c.status
  BY EventFacts DEF ProofInv
<1>2. events' = Append(events, e) /\ events \in Seq(Observed)
  BY DEF Observe, ProofInv
<1> HIDE DEF e
<1>3. /\ events' \in Seq(Observed) /\ events' # <<>>
      /\ Len(events') = Len(events) + 1
      /\ events'[Len(events')] = e
      /\ \A k \in 1 .. Len(events) : events'[k] = events[k]
  BY <1>1, <1>2
<1>4. ASSUME NEW k \in 2 .. Len(events'), events'[k].kind = "kanban.status_changed"
      PROVE  events'[k].payload["status"] # events'[k - 1].payload["status"]
  <2>0. Len(events) \in Nat
    BY <1>2
  <2>1. CASE k = Len(events')
    <3>1. kind = "kanban.status_changed" /\ events # <<>>
      BY <1>1, <1>3, <1>4, <2>1
    <3>2. events[Len(events)].payload["status"] = snapshot.status
      BY <3>1 DEF ProofInv, ReportsFollowCard
    <3>3. k - 1 = Len(events) /\ k - 1 \in 1 .. Len(events)
      BY <1>3, <1>4, <2>0, <2>1
    <3>4. events'[k - 1] = events[Len(events)]
      BY <1>3, <3>3
    <3>5. QED
      BY <1>1, <1>3, <2>1, <3>1, <3>2, <3>4
  <2>2. CASE k # Len(events')
    <3>1. k \in 2 .. Len(events) /\ k - 1 \in 1 .. Len(events) /\ k \in 1 .. Len(events)
      BY <1>3, <1>4, <2>0, <2>2
    <3>2. events'[k] = events[k] /\ events'[k - 1] = events[k - 1]
      BY <1>3, <3>1
    <3>3. QED
      BY <1>4, <3>1, <3>2 DEF ProofInv, ReportsFollowCard
  <2>3. QED
    BY <2>1, <2>2
<1>5. events'[Len(events')].payload["status"] = snapshot'.status
  BY <1>1, <1>3
<1>6. QED
  BY <1>3, <1>4, <1>5 DEF ReportsFollowCard

(* A step that observes nothing and reads the same status. *)
LEMMA NothingObserved ==
  ASSUME ReportsFollowCard, events' = events,
         snapshot'.status = snapshot.status \/ events = <<>>
  PROVE  ReportsFollowCard'
BY DEF ReportsFollowCard

LEMMA AdapterInitInv ==
  ASSUME AdapterInit
  PROVE  ProofInv
<1>1. Unread \in Readable /\ "missing" \in CardStatuses
  BY DEF Unread, Readable, CardStatuses, CardOutcomes
<1>2. QED
  BY <1>1, TimeoutAssumption
  DEF AdapterInit, ProofInv, LoopInv, ReportsFollowCard, BatchBounded

LEMMA KindsKnown ==
  {"kanban.dispatched", "kanban.status_changed", "kanban.completed", "kanban.blocked",
   "kanban.failed", "kanban.timeout"} = KanbanKinds
BY DEF KanbanKinds

LEMMA AdapterStepInv ==
  ASSUME ProofInv, [AdapterNext]_adapterVars
  PROVE  ProofInv'
<1> USE KindsKnown
<1>0. /\ events \in Seq(Observed) /\ Len(events) \in Nat /\ left \in 0 .. Timeout
      /\ ReportsFollowCard /\ Timeout \in Nat \ {0}
  BY TimeoutAssumption DEF ProofInv
<1>9. context' = context /\ context' \in Contexts
  BY DEF AdapterNext, AdapterStep, DispatchOver, adapterVars, Started, StartBlocked, BoardFails,
         RunFailed, TimesOut, Poll, ReturnsDone, ReturnsBlocked, ProofInv
<1>1. CASE Started
  <2>1. events = <<>> /\ left = Timeout /\ Len(events) = 0
    BY <1>1 DEF Started, ProofInv, LoopInv
  <2>2. PICK c \in Readable : snapshot' = c
    BY <1>1 DEF Started
  <2>3. /\ events' \in Seq(Observed) /\ events' # <<>> /\ Len(events') = Len(events) + 1
        /\ ReportsFollowCard'
    BY <1>1, <2>2, ObserveReports DEF Started
  <2>4. last_status' = snapshot'.status /\ last_status' \in CardStatuses
    BY <1>1, <2>2, CardFacts DEF Started
  <2>5. QED
    BY <1>0, <1>1, <1>9, <2>1, <2>2, <2>3, <2>4 DEF Started, ProofInv, LoopInv, BatchBounded
<1>2. CASE StartBlocked \/ BoardFails
  <2>1. ReportsFollowCard'
    BY <1>0, <1>2, NothingObserved DEF StartBlocked, BoardFails
  <2>2. QED
    BY <1>0, <1>2, <1>9, <2>1 DEF StartBlocked, BoardFails, ProofInv, LoopInv, BatchBounded, DispatchEnded
<1>3. CASE RunFailed \/ TimesOut \/ ReturnsDone \/ ReturnsBlocked
  <2>1. at = "poll" /\ snapshot \in Readable /\ Len(events) + left =< Timeout + 1
    BY <1>3 DEF RunFailed, TimesOut, Waits, ReturnsDone, ReturnsBlocked, ProofInv, LoopInv
  <2>2. /\ snapshot' = snapshot /\ UNCHANGED <<left, last_status>> /\ at' \in DispatchEnded
        /\ result' \in {result, ResultOf(snapshot)}
        /\ \E kind \in KanbanKinds \ {"kanban.status_changed"} : Observe(kind, snapshot)
    BY <1>3 DEF RunFailed, TimesOut, ReturnsDone, ReturnsBlocked, DispatchEnded
  <2>0. result' \in Metadata \cup {NoMetadata}
    BY <2>1, <2>2, CardFacts DEF ProofInv
  <2>3. /\ events' \in Seq(Observed) /\ Len(events') = Len(events) + 1
        /\ ReportsFollowCard'
    BY <2>1, <2>2, ObserveReports
  <2>4. at' \notin {"start", "poll"}
    BY <2>2 DEF DispatchEnded
  <2>5. QED
    BY <1>0, <1>9, <2>0, <2>1, <2>2, <2>3, <2>4 DEF ProofInv, LoopInv, BatchBounded
<1>4. CASE Poll
  <2>1. /\ at = "poll" /\ at' = "poll" /\ left' \in 0 .. left - 1
        /\ events # <<>> /\ last_status = snapshot.status
        /\ Len(events) + left =< Timeout + 1
    BY <1>4 DEF Poll, Waits, ProofInv, LoopInv
  <2>2. PICK c \in Readable : snapshot' = c
    BY <1>4 DEF Poll
  <2>3. /\ events' \in Seq(Observed) /\ events' # <<>> /\ Len(events') =< Len(events) + 1
        /\ Len(events') \in Nat
        /\ ReportsFollowCard' /\ last_status' = snapshot'.status
    <3>1. CASE c.status # last_status
      <4>1. Observe("kanban.status_changed", c) /\ last_status' = snapshot'.status
        BY <1>4, <2>2, <3>1 DEF Poll
      <4>2. QED
        BY <1>0, <2>1, <2>2, <3>1, <4>1, ObserveReports
    <3>2. CASE c.status = last_status
      <4>1. events' = events /\ last_status' = last_status
        BY <1>4, <2>2, <3>2 DEF Poll
      <4>2. QED
        BY <1>0, <2>1, <2>2, <3>2, <4>1, NothingObserved
    <3>3. QED
      BY <3>1, <3>2
  <2>4. last_status' \in CardStatuses
    BY <2>2, <2>3, CardFacts
  <2>5. left' \in 0 .. Timeout /\ Len(events') + left' =< Timeout + 1
    BY <1>0, <2>1, <2>3
  <2>6. snapshot' \in Readable /\ result' \in Metadata \cup {NoMetadata}
    BY <1>4, <2>2 DEF Poll, ProofInv
  <2>7. BatchBounded'
    BY <1>0, <2>3, <2>5 DEF BatchBounded
  <2>8. QED
    BY <1>0, <1>9, <2>1, <2>3, <2>4, <2>5, <2>6, <2>7 DEF ProofInv, LoopInv
<1>5. CASE DispatchOver \/ UNCHANGED adapterVars
  BY <1>5 DEF DispatchOver, adapterVars, ProofInv, LoopInv, ReportsFollowCard, BatchBounded
<1>6. QED
  BY <1>1, <1>2, <1>3, <1>4, <1>5 DEF AdapterNext, AdapterStep

LEMMA AdapterInvariant == AdapterSpec => []ProofInv
<1>1. AdapterInit => ProofInv
  BY AdapterInitInv
<1>2. ProofInv /\ [AdapterNext]_adapterVars => ProofInv'
  BY AdapterStepInv
<1>3. QED
  BY <1>1, <1>2, PTL DEF AdapterSpec

(* The call is well typed. *)
THEOREM AdapterTypes == AdapterSpec => []AdapterTypeOK
<1>1. ASSUME ProofInv
      PROVE  AdapterTypeOK
  <2>1. ASSUME NEW e \in Observed
        PROVE  e.kind \in KanbanKinds /\ CardFields \subseteq DOMAIN e.payload
    <3>1. PICK x \in Contexts, kind \in KanbanKinds, c \in Readable : e = EventOf(x, kind, c)
      BY DEF Observed
    <3>2. QED
      BY <3>1, EventFacts
  <2>2. \A k \in DOMAIN events : events[k] \in Observed
    BY <1>1 DEF ProofInv
  <2>3. QED
    BY <1>1, <2>1, <2>2 DEF ProofInv, AdapterTypeOK
<1>2. QED
  BY AdapterInvariant, <1>1, PTL

(* The batch follows the card. *)
THEOREM ReportsFollow == AdapterSpec => []ReportsFollowCard
<1>1. ProofInv => ReportsFollowCard
  BY DEF ProofInv
<1>2. QED
  BY AdapterInvariant, <1>1, PTL

(* A batch has at most Timeout + 2 events. *)
THEOREM BatchesBounded == AdapterSpec => []BatchBounded
<1>1. ProofInv => BatchBounded
  BY DEF ProofInv
<1>2. QED
  BY AdapterInvariant, <1>1, PTL

-------------------------------------------------------------------------------
(* The contract *)

(* What ContractAgrees allows an invalid event to be. *)
Excused(e) ==
  \/ /\ e.kind \in {"kanban.dispatched", "kanban.timeout"}
     /\ "kanban_outcome" \in DOMAIN e.payload
  \/ /\ e.kind = "kanban.completed"
     /\ \E f \in GateFields \cup {"commit_sha"} :
          f \in DOMAIN e.payload /\ ~ValidValue(e.kind, f, e.payload[f])
  \/ \E f \in {"run_id", "linear_issue_id", "assignee"} :
       f \in DOMAIN e.payload /\ e.payload[f] \in Forbidden

(* The fields an event of any kind states. *)
PlainFieldNames == CardFields \cup ContextFields \cup {"kanban_outcome"}

(* The values that are not metadata have nothing to check but the format   *)
(* of an identifier, unless one of the three that others choose holds a    *)
(* forbidden word.                                                         *)
LEMMA PlainFields ==
  ASSUME NEW x \in Contexts, NEW kind \in KanbanKinds, NEW c \in Readable,
         NEW f \in PlainFieldNames, Known(x, c)[f] # NoValue
  PROVE  \/ ValidValue(kind, f, Known(x, c)[f])
         \/ f \in {"run_id", "linear_issue_id", "assignee"} /\ Known(x, c)[f] \in Forbidden
<1> DEFINE known == Known(x, c)
<1>1. /\ c["status"] \notin {"list", "empty", "secret"}
      /\ c["kanban_outcome"] \notin {"list", "empty", "secret"} \/ c["kanban_outcome"] = NoValue
      /\ c["kanban_task_id"] = "task"
  BY CardFacts DEF CardStatuses, Terminal, TERMINAL_DONE_STATUSES, TERMINAL_BLOCKED_STATUSES,
                   CardOutcomes, TERMINAL_FAILED_OUTCOMES
<1>2. \A g \in DOMAIN c : known[g] = c[g]
  BY KnownFacts
<1>3. /\ known["status"] = c["status"] /\ known["kanban_outcome"] = c["kanban_outcome"]
      /\ known["kanban_task_id"] = c["kanban_task_id"]
  BY <1>2, CardFacts
<1>4. known["run_id"] \in {"run", "secret"} /\ known["agent"] \notin Forbidden
  BY KnownFacts, ContextAssumption
<1>7. known[f] # NoValue
  OBVIOUS
<1> HIDE DEF known
<1>5. \/ ValidValue(kind, f, known[f])
      \/ f \in {"run_id", "linear_issue_id", "assignee"} /\ known[f] \in Forbidden
  <2>1. CASE f \in CardFields \cup {"kanban_outcome"}
    BY <1>1, <1>3, <1>7, <2>1
    DEF CardFields, ValidValue, Forbidden, IntFields, Enums, IdPatterns, UrlFields
  <2>2. CASE f \in ContextFields
    BY <1>4, <2>2 DEF ContextFields, ValidValue, Forbidden, IntFields, Enums, IdPatterns, UrlFields
  <2>3. QED
    BY <2>1, <2>2 DEF PlainFieldNames
<1>6. QED
  BY <1>5 DEF known

(* The fields of every kind. *)
LEMMA FieldsOfKinds ==
  /\ \A kind \in {"kanban.dispatched", "kanban.timeout"} :
       EventFields(kind) = Fields(CardFields, ContextFields)
  /\ EventFields("kanban.status_changed") =
       Fields(CardFields, ContextFields \cup {"kanban_outcome"})
  /\ EventFields("kanban.completed") =
       Fields(CardFields, ContextFields \cup GateFields \cup ReferenceFields \cup {"kanban_outcome"})
  /\ EventFields("kanban.blocked") =
       Fields(CardFields, ContextFields \cup GateFields \cup {"kanban_outcome"})
  /\ EventFields("kanban.failed") = Fields(CardFields \cup {"kanban_outcome"}, ContextFields)
<1>1. \A kind \in KanbanKinds : EventFields(kind) = KanbanFields(kind)
  BY DEF EventFields, KanbanKinds, RunKinds, LockKinds, DeployKinds
<1>2. QED
  BY <1>1 DEF KanbanFields, KanbanKinds

(* An event made from a card is valid or excused; a failure needs the      *)
(* outcome the adapter has just looked at.                                 *)
LEMMA EventAgrees ==
  ASSUME NEW x \in Contexts, NEW kind \in KanbanKinds, NEW c \in Readable,
         kind = "kanban.failed" => c.kanban_outcome \in TERMINAL_FAILED_OUTCOMES
  PROVE  ValidEvent(EventOf(x, kind, c)) \/ Excused(EventOf(x, kind, c))
<1> DEFINE e == EventOf(x, kind, c)
<1> SUFFICES ASSUME ~Excused(e)
             PROVE  ValidEvent(e)
  OBVIOUS
<1>1. /\ e.kind = kind /\ CardFields \subseteq DOMAIN e.payload
      /\ DOMAIN e.payload \subseteq Stated(kind)
      /\ \A f \in DOMAIN e.payload : e.payload[f] = Known(x, c)[f] /\ Known(x, c)[f] # NoValue
  BY EventFacts
<1>8. /\ kind # "kanban.completed" => Stated(kind) = PlainFieldNames
      /\ kind = "kanban.completed" =>
           Stated(kind) = PlainFieldNames \cup GateFields \cup {"commit_sha"}
  BY DEF Stated, PlainFieldNames, CardFields, ContextFields, GateFields
<1>2. kind = "kanban.failed" => "kanban_outcome" \in DOMAIN e.payload
  <2> SUFFICES ASSUME kind = "kanban.failed"
               PROVE  "kanban_outcome" \in DOMAIN e.payload
    OBVIOUS
  <2>1. c.kanban_outcome # NoValue
    BY NoValueAssumption
  <2>2. Known(x, c)["kanban_outcome"] # NoValue
    <3>1. \A f \in DOMAIN c : Known(x, c)[f] = c[f]
      BY KnownFacts
    <3>2. QED
      BY <2>1, <3>1, CardFacts
  <2>3. QED
    BY <2>2 DEF EventOf, Payload, Stated
<1> HIDE DEF e
<1> DEFINE Valid == \A f \in DOMAIN e.payload : ValidValue(kind, f, e.payload[f])
<1>3. ASSUME NEW required, NEW optional, EventFields(kind) = Fields(required, optional),
             DOMAIN e.payload \subseteq required \cup optional,
             required \subseteq DOMAIN e.payload, Valid
      PROVE  ValidEvent(e)
  <2>1. Present(e.payload) = DOMAIN e.payload
    BY <1>1 DEF Present
  <2>2. kind # "agent.dispatched"
    BY DEF KanbanKinds
  <2>3. QED
    BY <1>1, <1>3, <2>1, <2>2 DEF ValidEvent, Fields
<1>0. \A f \in DOMAIN e.payload \cap PlainFieldNames : ValidValue(kind, f, e.payload[f])
  BY <1>1, PlainFields DEF Excused
<1>9. Valid
  <2>1. \A f \in DOMAIN e.payload \ PlainFieldNames :
          kind = "kanban.completed" /\ f \in GateFields \cup {"commit_sha"}
    BY <1>1, <1>8
  <2>2. QED
    BY <1>0, <1>1, <2>1 DEF Excused
<1> HIDE DEF Valid
<1>4. CASE kind = "kanban.completed"
  BY <1>1, <1>3, <1>4, <1>8, <1>9, FieldsOfKinds DEF ReferenceFields, PlainFieldNames
<1>5. CASE kind \in {"kanban.dispatched", "kanban.timeout"}
  <2>1. "kanban_outcome" \notin DOMAIN e.payload
    BY <1>1, <1>5 DEF Excused
  <2>2. DOMAIN e.payload \subseteq CardFields \cup ContextFields
    BY <1>1, <1>5, <1>8, <2>1 DEF PlainFieldNames
  <2>3. QED
    BY <1>1, <1>3, <1>5, <1>9, <2>2, FieldsOfKinds
<1>6. CASE kind \in {"kanban.status_changed", "kanban.blocked", "kanban.failed"}
  <2>1. DOMAIN e.payload \subseteq CardFields \cup ContextFields \cup {"kanban_outcome"}
    BY <1>1, <1>6, <1>8 DEF PlainFieldNames
  <2>3. CASE kind = "kanban.failed"
    <3>1. CardFields \cup {"kanban_outcome"} \subseteq DOMAIN e.payload
      BY <1>1, <1>2, <2>3
    <3>2. QED
      BY <1>3, <1>9, <2>1, <2>3, <3>1, FieldsOfKinds
  <2>4. CASE kind = "kanban.status_changed"
    BY <1>1, <1>3, <1>9, <2>1, <2>4, FieldsOfKinds
  <2>5. CASE kind = "kanban.blocked"
    BY <1>1, <1>3, <1>9, <2>1, <2>5, FieldsOfKinds
  <2>6. QED
    BY <1>6, <2>3, <2>4, <2>5
<1>7. QED
  BY <1>4, <1>5, <1>6, KindsKnown

(* A step leaves the batch alone or adds an event of a card it has read. *)
LEMMA StepObserves ==
  ASSUME ProofInv, [AdapterNext]_adapterVars
  PROVE  \/ events' = events
         \/ \E kind \in KanbanKinds, c \in Readable :
              /\ kind = "kanban.failed" => c.kanban_outcome \in TERMINAL_FAILED_OUTCOMES
              /\ Observe(kind, c)
<1> USE KindsKnown
<1>1. snapshot \in Readable
  BY DEF ProofInv
<1>2. CASE Started
  BY <1>2 DEF Started
<1>3. CASE Poll
  BY <1>3 DEF Poll
<1>4. CASE RunFailed
  BY <1>1, <1>4 DEF RunFailed
<1>5. CASE TimesOut \/ ReturnsDone \/ ReturnsBlocked
  BY <1>1, <1>5 DEF TimesOut, Waits, ReturnsDone, ReturnsBlocked
<1>6. CASE StartBlocked \/ BoardFails \/ DispatchOver \/ UNCHANGED adapterVars
  BY <1>6 DEF StartBlocked, BoardFails, DispatchOver, adapterVars
<1>7. QED
  BY <1>2, <1>3, <1>4, <1>5, <1>6 DEF AdapterNext, AdapterStep

LEMMA ContractStep ==
  ASSUME ProofInv, ContractAgrees, [AdapterNext]_adapterVars
  PROVE  ContractAgrees'
<1>1. CASE events' = events
  BY <1>1 DEF ContractAgrees
<1>2. ASSUME NEW kind \in KanbanKinds, NEW c \in Readable, Observe(kind, c),
             kind = "kanban.failed" => c.kanban_outcome \in TERMINAL_FAILED_OUTCOMES
      PROVE  ContractAgrees'
  <2> DEFINE e == EventOf(context, kind, c)
  <2>1. e \in Observed /\ (ValidEvent(e) \/ Excused(e))
    BY <1>2, EventFacts, EventAgrees DEF ProofInv
  <2>2. events' = Append(events, e) /\ events \in Seq(Observed)
    BY <1>2 DEF Observe, ProofInv
  <2> HIDE DEF e
  <2>3. \A k \in DOMAIN events' : events'[k] = e \/ (k \in DOMAIN events /\ events'[k] = events[k])
    BY <2>1, <2>2
  <2>4. \A k \in DOMAIN events : ValidEvent(events[k]) \/ Excused(events[k])
    BY DEF ContractAgrees, Excused
  <2>5. \A k \in DOMAIN events' : ValidEvent(events'[k]) \/ Excused(events'[k])
    BY <2>1, <2>3, <2>4
  <2>6. QED
    BY <2>5 DEF ContractAgrees, Excused
<1>3. QED
  BY <1>1, <1>2, StepObserves

(* The adapter and the contract agree but for the cases the property       *)
(* names, whatever the run, the issue, the card and its metadata say.      *)
THEOREM AdapterMeetsContract == AdapterSpec => []ContractAgrees
<1>1. AdapterInit => ContractAgrees
  BY DEF AdapterInit, ContractAgrees
<1>2. ProofInv /\ ContractAgrees /\ [AdapterNext]_adapterVars => ContractAgrees'
  BY ContractStep
<1>3. QED
  BY AdapterInvariant, <1>1, <1>2, PTL DEF AdapterSpec

-------------------------------------------------------------------------------
(* How a dispatch ends *)

(* The first event of a batch is kept, and so is the last one if its key   *)
(* is new; they stay at the two ends.                                      *)
LEMMA DeduplicatedEnds ==
  ASSUME NEW S, NEW batch \in Seq(S), batch # <<>>
  PROVE  /\ Len(Deduplicated(batch)) = Cardinality(Firsts(batch))
         /\ Cardinality(Firsts(batch)) \in Nat \ {0}
         /\ DOMAIN Deduplicated(batch) = 1 .. Cardinality(Firsts(batch))
         /\ Deduplicated(batch)[1] = batch[1]
         /\ Len(batch) \in Firsts(batch) =>
              Deduplicated(batch)[Cardinality(Firsts(batch))] = batch[Len(batch)]
<1> DEFINE n == Len(batch)
           F == Firsts(batch)
           UpTo(k) == {j \in F : j =< k}
           Nth(m) == CHOOSE k \in F : Cardinality(UpTo(k)) = m
<1>1. n \in Nat \ {0} /\ F \subseteq 1 .. n /\ 1 \in F
  BY DEF Firsts
<1>0. \A j \in F : j \in Nat /\ 1 =< j /\ j =< n
  BY <1>1
<1>2. IsFiniteSet(F) /\ Cardinality(F) \in Nat
  <2>1. IsFiniteSet(1 .. n)
    BY <1>1, FS_Interval
  <2>2. QED
    BY <1>1, <2>1, FS_Subset, FS_CardinalityType
<1>3. Deduplicated(batch) = [m \in 1 .. Cardinality(F) |-> batch[Nth(m)]]
  BY DEF Deduplicated
<1> HIDE DEF F
<1>4. \A k \in F : IsFiniteSet(UpTo(k)) /\ Cardinality(UpTo(k)) \in Nat
  BY <1>2, FS_Subset, FS_CardinalityType
<1>5. Cardinality(F) # 0
  BY <1>1, <1>2, FS_EmptySet
<1>6. /\ Len(Deduplicated(batch)) = Cardinality(F)
      /\ DOMAIN Deduplicated(batch) = 1 .. Cardinality(F)
  BY <1>2, <1>3
<1>7. Nth(1) = 1
  <2>1. UpTo(1) = {1}
    <3>1. 1 \in UpTo(1)
      BY <1>1
    <3>2. ASSUME NEW j \in UpTo(1)
          PROVE  j = 1
      <4>1. j \in F /\ j =< 1
        OBVIOUS
      <4>2. QED
        BY <1>0, <4>1
    <3>3. QED
      BY <3>1, <3>2
  <2>2. Cardinality(UpTo(1)) = 1
    BY <2>1, FS_Singleton
  <2>3. ASSUME NEW k \in F, Cardinality(UpTo(k)) = 1
        PROVE  k = 1
    <3>1. PICK x : UpTo(k) = {x}
      BY <1>4, <2>3, FS_Singleton
    <3>2. 1 \in UpTo(k) /\ k \in UpTo(k)
      BY <1>1
    <3>3. QED
      BY <3>1, <3>2
  <2> HIDE DEF UpTo
  <2>4. QED
    BY <1>1, <2>2, <2>3
<1>8. ASSUME n \in F
      PROVE  Nth(Cardinality(F)) = n
  <2>1. UpTo(n) = F
    BY <1>0
  <2>2. ASSUME NEW k \in F, Cardinality(UpTo(k)) = Cardinality(F)
        PROVE  k = n
    <3>1. UpTo(k) = F
      BY <1>2, <2>2, FS_Subset
    <3>2. n \in UpTo(k)
      BY <1>8, <3>1
    <3>3. QED
      BY <1>1, <3>2
  <2> HIDE DEF UpTo
  <2>3. QED
    BY <1>8, <2>1, <2>2
<1> HIDE DEF Nth
<1>9. /\ Deduplicated(batch)[1] = batch[1]
      /\ n \in F => Deduplicated(batch)[Cardinality(F)] = batch[n]
  BY <1>2, <1>3, <1>5, <1>7, <1>8
<1>10. QED
  BY <1>2, <1>5, <1>6, <1>9 DEF F

(* Every step preserves what the exits leave. *)
LEMMA ExitStep ==
  ASSUME ProofInv, ExitInv, [AdapterNext]_adapterVars
  PROVE  ExitInv'
<1>0. /\ events \in Seq(Observed) /\ Len(events) \in Nat /\ snapshot \in Readable
      /\ at = "poll" => events # <<>>
  BY DEF ProofInv, LoopInv
<1>1. CASE DispatchOver \/ UNCHANGED adapterVars
  BY <1>1 DEF DispatchOver, adapterVars, ExitInv, EndingKind
<1>2. CASE StartBlocked \/ BoardFails
  BY <1>2 DEF StartBlocked, BoardFails, ExitInv
<1>3. ASSUME NEW kind \in KanbanKinds, NEW c \in Readable, Observe(kind, c)
      PROVE  /\ events' # <<>> /\ Len(events') = Len(events) + 1
             /\ events'[Len(events')] = EventOf(context, kind, c)
             /\ events'[Len(events')].kind = kind
             /\ \A k \in 1 .. Len(events) : events'[k] = events[k]
  <2> DEFINE e == EventOf(context, kind, c)
  <2>1. e \in Observed /\ e.kind = kind
    BY EventFacts DEF ProofInv
  <2>2. events' = Append(events, e)
    BY <1>3 DEF Observe
  <2> HIDE DEF e
  <2>3. QED
    BY <1>0, <2>1, <2>2 DEF e
<1>4. CASE Started
  <2>1. events = <<>> /\ at' = "poll"
    BY <1>4 DEF Started, ProofInv, LoopInv
  <2>2. PICK c \in Readable : Observe("kanban.dispatched", c)
    BY <1>4 DEF Started
  <2>3. Len(events') = 1 /\ events'[1].kind = "kanban.dispatched"
    BY <1>3, <2>1, <2>2 DEF KanbanKinds
  <2>4. events' \in Seq(Observed)
    BY <1>4, AdapterStepInv DEF ProofInv, AdapterNext, AdapterStep
  <2>5. QED
    BY <2>1, <2>3, <2>4 DEF ExitInv, Going
<1>5. CASE Poll
  <2>1. at = "poll" /\ at' = "poll"
    BY <1>5 DEF Poll, Waits
  <2>2. CASE events' = events
    BY <2>1, <2>2 DEF ExitInv
  <2>3. CASE \E c \in Readable : Observe("kanban.status_changed", c)
    <3>1. /\ events' # <<>> /\ Len(events') = Len(events) + 1
          /\ events'[Len(events')].kind = "kanban.status_changed"
          /\ \A k \in 1 .. Len(events) : events'[k] = events[k]
      BY <1>3, <2>3 DEF KanbanKinds
    <3>2. events' \in Seq(Observed)
      BY <1>5, AdapterStepInv DEF ProofInv, AdapterNext, AdapterStep
    <3>3. \A k \in DOMAIN events' : k \in 1 .. Len(events) \/ k = Len(events')
      BY <1>0, <3>1, <3>2
    <3>4. events'[1].kind = "kanban.dispatched"
      BY <1>0, <2>1, <3>1 DEF ExitInv
    <3>5. \A k \in DOMAIN events' : events'[k].kind \in Going
      BY <1>0, <2>1, <3>1, <3>3 DEF ExitInv, Going
    <3>6. QED
      BY <2>1, <3>4, <3>5 DEF ExitInv
  <2>4. QED
    BY <1>5, <2>2, <2>3 DEF Poll
<1>6. CASE RunFailed \/ TimesOut \/ ReturnsDone \/ ReturnsBlocked
  <2>1. at = "poll" /\ snapshot' = snapshot /\ at' \in {"returned", "failed", "timeout"}
    BY <1>6 DEF RunFailed, TimesOut, Waits, ReturnsDone, ReturnsBlocked
  <2>2. Observe(EndingKind', snapshot) /\ EndingKind' \in KanbanKinds
    <3>1. CASE RunFailed
      BY <3>1 DEF RunFailed, EndingKind, KanbanKinds, Terminal,
                  TERMINAL_DONE_STATUSES, TERMINAL_BLOCKED_STATUSES
    <3>2. CASE TimesOut
      BY <3>2 DEF TimesOut, Waits, EndingKind, KanbanKinds, Terminal,
                  TERMINAL_DONE_STATUSES, TERMINAL_BLOCKED_STATUSES
    <3>3. CASE ReturnsDone
      BY <3>3 DEF ReturnsDone, EndingKind, KanbanKinds, TERMINAL_DONE_STATUSES
    <3>4. CASE ReturnsBlocked
      BY <3>4 DEF ReturnsBlocked, EndingKind, KanbanKinds, TERMINAL_BLOCKED_STATUSES
    <3>5. QED
      BY <1>6, <3>1, <3>2, <3>3, <3>4
  <2>3. /\ events' # <<>> /\ Len(events') = Len(events) + 1
        /\ events'[Len(events')] = EventOf(context, EndingKind', snapshot)
        /\ \A k \in 1 .. Len(events) : events'[k] = events[k]
    BY <1>0, <1>3, <2>2
  <2>4. events'[1].kind = "kanban.dispatched"
    BY <1>0, <2>1, <2>3 DEF ExitInv
  <2>5. \A k \in 1 .. Len(events') - 1 : events'[k].kind \in Going
    BY <1>0, <2>1, <2>3 DEF ExitInv
  <2>6. at' = "returned" => result' = ResultOf(snapshot') /\ snapshot'.status \in Terminal
    BY <1>6, <2>1 DEF RunFailed, TimesOut, ReturnsDone, ReturnsBlocked, Terminal
  <2>7. EventOf(context, EndingKind', snapshot) = EventOf(context, EndingKind, snapshot)'
    <3>1. context' = context
      BY <1>6 DEF RunFailed, TimesOut, ReturnsDone, ReturnsBlocked
    <3>2. QED
      BY <2>1, <3>1 DEF EventOf, Payload, Known
  <2>8. QED
    BY <2>1, <2>3, <2>4, <2>5, <2>6, <2>7 DEF ExitInv
<1>7. QED
  BY <1>1, <1>2, <1>4, <1>5, <1>6 DEF AdapterNext, AdapterStep

LEMMA ExitInvariant == AdapterSpec => []ExitInv
<1>1. AdapterInit => ExitInv
  BY DEF AdapterInit, ExitInv
<1>2. ProofInv /\ ExitInv /\ [AdapterNext]_adapterVars => ExitInv'
  BY ExitStep
<1>3. QED
  BY AdapterInvariant, <1>1, <1>2, PTL DEF AdapterSpec

(* The trail of a dispatch that ended begins with the first event and ends *)
(* with the last one.                                                      *)
LEMMA TrailEnds ==
  ASSUME ProofInv, ExitInv, at \in {"returned", "failed", "timeout"}
  PROVE  LET trail == Deduplicated(events)
         IN  /\ Len(trail) \in Nat \ {0} /\ DOMAIN trail = 1 .. Len(trail)
             /\ trail[1] = events[1] /\ trail[1].kind = "kanban.dispatched"
             /\ trail[Len(trail)] = EventOf(context, EndingKind, snapshot)
<1>1. /\ events \in Seq(Observed) /\ events # <<>> /\ snapshot \in Readable
      /\ events[1].kind = "kanban.dispatched"
      /\ events[Len(events)] = EventOf(context, EndingKind, snapshot)
      /\ \A k \in 1 .. Len(events) - 1 : events[k].kind \in Going
  BY DEF ProofInv, ExitInv
<1>2. EndingKind \in KanbanKinds \ Going
  BY DEF EndingKind, KanbanKinds, Going
<1>3. events[Len(events)].kind \notin Going
  BY <1>1, <1>2, EventFacts DEF ProofInv
<1>4. \A j \in 1 .. Len(events) - 1 : EventKey(events[j]) # EventKey(events[Len(events)])
  BY <1>1, <1>3 DEF EventKey
<1>5. Len(events) \in Firsts(events)
  BY <1>1, <1>4 DEF Firsts
<1>6. QED
  BY <1>1, <1>5, DeduplicatedEnds

(* Removing duplicates never removes how the dispatch began or ended. *)
THEOREM TrailsEndAsCalls == AdapterSpec => []TrailEndsAsCall
<1>1. ASSUME ProofInv, ExitInv
      PROVE  TrailEndsAsCall
  <2> SUFFICES ASSUME at \in {"returned", "failed", "timeout"}
               PROVE  LET trail == Deduplicated(events)
                      IN  /\ trail[1] = events[1] /\ trail[1].kind = "kanban.dispatched"
                          /\ trail[Len(trail)].kind = EndingKind
                          /\ trail[Len(trail)].payload["status"] = snapshot.status
    BY DEF TrailEndsAsCall
  <2>1. EndingKind \in KanbanKinds /\ snapshot \in Readable
    BY <1>1 DEF EndingKind, KanbanKinds, ProofInv
  <2>2. /\ EventOf(context, EndingKind, snapshot).kind = EndingKind
        /\ EventOf(context, EndingKind, snapshot).payload["status"] = snapshot.status
    BY <1>1, <2>1, EventFacts DEF ProofInv
  <2>3. QED
    BY <1>1, <2>2, TrailEnds
<1>2. QED
  BY AdapterInvariant, ExitInvariant, <1>1, PTL

(* A gated run that completes from a done card shows its gates in its trail. *)
THEOREM CompletionsAreTraced == AdapterSpec => []CompletionIsTraced
<1>1. ASSUME ProofInv, ExitInv, Completes(TRUE), snapshot.status = "done"
      PROVE  LET trail == Persistable(events)
             IN  \E k \in DOMAIN trail :
                   /\ Get(trail[k].payload, "tests_status") = "passed"
                   /\ Get(trail[k].payload, "review_status") = "approved"
  <2> DEFINE trail == Deduplicated(events)
             e == EventOf(context, "kanban.completed", snapshot)
  <2>1. at = "returned" /\ Accepted(events) /\ GatesPassed
    BY <1>1 DEF Completes
  <2>2. EndingKind = "kanban.completed"
    BY <1>1, <2>1 DEF EndingKind
  <2>3. /\ Len(trail) \in Nat \ {0} /\ DOMAIN trail = 1 .. Len(trail)
        /\ trail[Len(trail)] = e
    BY <1>1, <2>1, <2>2, TrailEnds
  <2>4. /\ Known(context, snapshot)["tests_status"] = "passed"
        /\ Known(context, snapshot)["review_status"] = "approved"
    <3>1. snapshot["tests_status"] = "passed" /\ snapshot["review_status"] = "approved"
      BY <1>1, <2>1 DEF ExitInv, GatesPassed, ResultOf
    <3>2. context \in Contexts /\ snapshot \in Readable
      BY <1>1 DEF ProofInv
    <3>3. \A f \in DOMAIN snapshot : Known(context, snapshot)[f] = snapshot[f]
      BY <3>2, KnownFacts
    <3>4. QED
      BY <3>1, <3>2, <3>3, CardFacts
  <2>5. NoValue \notin {"passed", "approved"}
    BY NoValueAssumption
  <2>6. /\ Get(e.payload, "tests_status") = "passed"
        /\ Get(e.payload, "review_status") = "approved"
    BY <2>4, <2>5 DEF EventOf, Payload, Get, Stated
  <2>7. Len(trail) \in DOMAIN trail
    BY <2>3
  <2>8. Persistable(events) = trail
    BY <2>1 DEF Persistable
  <2> HIDE DEF trail, e
  <2>9. QED
    BY <2>3, <2>6, <2>7, <2>8
<1>2. ProofInv /\ ExitInv => CompletionIsTraced
  BY <1>1 DEF CompletionIsTraced
<1>3. QED
  BY AdapterInvariant, ExitInvariant, <1>2, PTL

-------------------------------------------------------------------------------
(* Every step of a dispatch brings it nearer to its end *)

(* A dispatch that has ended stays as it is, with its batch and its        *)
(* result; until then a step ends it, is the first read, or takes time     *)
(* from the one deadline it was given, so a card that keeps changing       *)
(* cannot keep a dispatch alive (kanban.py 117-135).                       *)
DispatchAdvances ==
  /\ at \in DispatchEnded => UNCHANGED adapterVars
  /\ \/ at' \in DispatchEnded
     \/ at = "start" /\ at' = "poll" /\ left' = Timeout
     \/ at = "poll" /\ at' = "poll" /\ left' < left
DispatchOnlyAdvances == [][DispatchAdvances]_adapterVars

(* The safety half of DispatchEnds, for every timeout. *)
THEOREM DispatchesAdvance == AdapterSpec => DispatchOnlyAdvances
<1>1. ProofInv /\ [AdapterNext]_adapterVars => [DispatchAdvances]_adapterVars
  <2> SUFFICES ASSUME ProofInv, AdapterNext, adapterVars' # adapterVars
               PROVE  DispatchAdvances
    OBVIOUS
  <2>1. left \in 0 .. Timeout /\ Timeout \in Nat /\ (at = "start" => left = Timeout)
    BY TimeoutAssumption DEF ProofInv, LoopInv
  <2>2. AdapterStep /\ at \in {"start", "poll"}
    BY DEF AdapterNext, DispatchOver, AdapterStep, Started, StartBlocked, BoardFails, RunFailed,
           TimesOut, Poll, ReturnsDone, ReturnsBlocked, Waits
  <2>3. \/ at' \in DispatchEnded
        \/ at = "start" /\ at' = "poll" /\ left' = left
        \/ at = "poll" /\ at' = "poll" /\ left > 0 /\ left' \in 0 .. left - 1
    BY <2>2 DEF AdapterStep, Started, StartBlocked, BoardFails,
                RunFailed, TimesOut, Poll, ReturnsDone, ReturnsBlocked, Waits, DispatchEnded
  <2>4. QED
    BY <2>1, <2>2, <2>3 DEF DispatchAdvances, DispatchEnded
<1>2. QED
  BY AdapterInvariant, <1>1, PTL DEF AdapterSpec, DispatchOnlyAdvances
===============================================================================
