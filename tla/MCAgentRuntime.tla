---------------------------- MODULE MCAgentRuntime ----------------------------
(***************************************************************************)
(* Small instances of AgentRuntime for TLC: one run of a gated agent, or   *)
(* two runs for one issue.  MaxFaults bounds the calls that stay without   *)
(* an answer, the failed heartbeats and the crashes of a behaviour.        *)
(***************************************************************************)
EXTENDS AgentRuntime, TLC

CONSTANTS r1, r2, i1, MaxFaults

MCTwoRuns == {r1, r2}
MCTwoIssueOf == (r1 :> i1) @@ (r2 :> i1)
MCOneRun == {r1}
MCOneIssueOf == r1 :> i1

Result(tests, review, events, valid) ==
  [tests |-> tests, review |-> review, events |-> events, valid |-> valid]
MCOutcomes ==
  { Result("ok", "ok", 2, TRUE),          \* all is well
    Result("ok", "missing", 1, TRUE),     \* a gate is missing
    Result("missing", "ok", 0, TRUE),
    Result("ok", "ok", 2, FALSE) }        \* the payload contract refuses
MCFewOutcomes ==
  { Result("ok", "ok", 1, TRUE), Result("ok", "missing", 0, TRUE) }

VARIABLE faults

Faulty ==
  \E r \in Runs : CallFails(r) \/ CallEscapes(r) \/ BeatFails(r) \/ Crash(r)

MCInit == Init /\ faults = 0
MCFaults ==
  /\ faults' = IF Faulty THEN faults + 1 ELSE faults
  /\ faults' =< MaxFaults
MCNext == Next /\ MCFaults
MCVars == <<vars, faults>>

(* The trails are written and never read: no action depends on them.  The  *)
(* runs on calls and locks compare states without them.                    *)
MCView == <<agent_runs, locks, rejecting, workerVars, faults>>
(* Two gated runs of one issue can be exchanged. *)
MCSymmetry == Permutations({r1, r2})

MCSpec == MCInit /\ [][MCNext]_MCVars
===============================================================================
