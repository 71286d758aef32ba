--------------------------- MODULE MCDispatchPolicy ---------------------------
(* The labels TLC combines: known, sensitive and unknown ones of each kind. *)
EXTENDS DispatchPolicy

MCAlphabet ==
  [agent |-> {"backend", "qa", "unknown"},
   risk |-> {"low", "medium", "high", "critical", "unknown"},
   execution |-> {"auto", "human", "blocked", "unknown"},
   env |-> {"local", "production", "unknown"}]
===============================================================================
