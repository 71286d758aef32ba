----------------------------- MODULE MCPollerTick -----------------------------
(* Instances of PollerTick for TLC: the issue of each run and the order of  *)
(* the issues.                                                              *)
EXTENDS PollerTick

CONSTANTS i1, i2, a1, a2, a3, b1, b2

MCRank == [i \in Issues |-> IF i = i1 THEN 1 ELSE 2]
MCIssueOf == [r \in Runs |-> IF r \in {a1, a2, a3} THEN i1 ELSE i2]
===============================================================================
