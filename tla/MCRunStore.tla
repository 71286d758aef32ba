------------------------------ MODULE MCRunStore ------------------------------
(***************************************************************************)
(* Small instances of RunStore for TLC: three runs, two of them for one    *)
(* issue.  Worker events and refused claims are the only steps that can go *)
(* on for ever; MaxExtras bounds how many there are in a behaviour.        *)
(***************************************************************************)
EXTENDS RunStore, TLC

CONSTANTS r1, r2, r3, i1, i2, MaxExtras

MCRuns == {r1, r2, r3}
MCIssues == {i1, i2}
MCIssueOf == (r1 :> i1) @@ (r2 :> i1) @@ (r3 :> i2)

Extras(trail) ==
  {k \in DOMAIN trail : trail[k] \in WorkerEvents \cup {"lock.rejected"}}
CountExtras ==
  Cardinality(UNION {{r} \X Extras(agent_events[r]) : r \in Runs})
    + Cardinality(rejecting)

MCNext == StoreNext /\ CountExtras' =< MaxExtras
MCSpec == StoreInit /\ [][MCNext]_storeVars
===============================================================================
