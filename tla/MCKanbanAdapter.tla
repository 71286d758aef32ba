---------------------------- MODULE MCKanbanAdapter ----------------------------
(***************************************************************************)
(* KanbanAdapter with a deadline of a few polls, and metadata that opens   *)
(* both gates and refers to a commit, or differs from that in one field:   *)
(* nothing, or what the contract refuses ("odd").                          *)
(***************************************************************************)
EXTENDS KanbanAdapter

Good == [tests_status |-> "passed", review_status |-> "approved", commit_sha |-> "sha"]
MCMetadata == {Good} \cup {[Good EXCEPT ![f] = v] : f \in DOMAIN Good, v \in {NoValue, "odd"}}

(* A run like any other, and one whose issue has a forbidden word in its   *)
(* identifier.                                                             *)
MCContexts == [run_id : {"run"}, linear_issue_id : {"issue", "secret"}, agent : {"agent"}]
MCAssignees == {NoValue, "worker", "secret"}
===============================================================================
