------------------------------ MODULE MCExecution ------------------------------
(***************************************************************************)
(* Execution for TLC: one gated run, a card with the metadata that opens   *)
(* both gates, with a commit of the right format or not, or only one of    *)
(* them, and at most MaxFaults lost calls, failed heartbeats and crashes.  *)
(***************************************************************************)
EXTENDS Execution, TLC

CONSTANTS r1, i1, MaxFaults

MCIssueOf == r1 :> i1

Says(tests, review, commit) ==
  [tests_status |-> tests, review_status |-> review, commit_sha |-> commit]
MCMetadata ==
  { Says("passed", "approved", "sha"),
    Says("passed", "approved", "odd"),
    Says("passed", NoValue, NoValue) }

MCContexts == {[run_id |-> "run", linear_issue_id |-> "issue", agent |-> "agent"]}
MCAssignees == {"worker"}

VARIABLE faults

Faulty ==
  \E r \in Runs : CallFails(r) \/ CallEscapes(r) \/ BeatFails(r) \/ Crash(r)

MCInit == ExecInit /\ faults = 0
MCFaults ==
  /\ faults' = IF Faulty THEN faults + 1 ELSE faults
  /\ faults' =< MaxFaults
MCNext == ExecNext /\ MCFaults
MCSpec == MCInit /\ [][MCNext]_<<execVars, faults>>
MCFairSpec == MCSpec /\ ExecFairness
===============================================================================
