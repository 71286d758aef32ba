---------------------------- MODULE DispatchPolicy ----------------------------
(***************************************************************************)
(* Which issues may be dispatched.  Three places decide, and none of them  *)
(* calls another: classify_issue of the runtime, gate_block_reason of the  *)
(* tick's guard, and the recheck that start makes of the context.          *)
(*                                                                         *)
(* The labels of an issue are four sets, the suffixes of its agent:*,      *)
(* risk:*, execution:* and env:* labels; people change them in Linear.     *)
(* Labels with another prefix are looked at by nobody.                     *)
(***************************************************************************)
CONSTANT Alphabet    \* the suffixes in use, a set for each of the four

VARIABLE labels      \* the labels of a Todo issue

(* The agents of the runtime, with their assignees, and of the guard.      *)
AGENTS ==
  [orchestrator |-> "orchestrator", backend |-> "dev-backend", frontend |-> "dev-frontend",
   devops |-> "devops", qa |-> "qualidade", review |-> "code-reviewer",
   github |-> "github-profile"]
KNOWN_AGENTS ==
  {"orchestrator", "backend", "frontend", "devops", "qa", "review", "github"}

The(values) == CHOOSE v \in values : TRUE
Single(values) == \E v \in values : values = {v}

-------------------------------------------------------------------------------
(* classify_issue *)

(* one(): at most one label, and a default.                                *)
Unambiguous(values) == values = {} \/ Single(values)
One(values, default) == IF values = {} THEN default ELSE The(values)

(* What execute() puts into the context of the run. *)
Context(l) ==
  [agent |-> AGENTS[The(l.agent)],
   risk |-> One(l.risk, "low"),
   execution |-> One(l.execution, "auto"),
   env |-> One(l.env, "local")]

(* Mutant: an environment that is not known is let through. *)
MutantClassified(l) ==
  /\ l.agent \subseteq DOMAIN AGENTS /\ Single(l.agent)
  /\ Unambiguous(l.risk) /\ Unambiguous(l.execution) /\ Unambiguous(l.env)
  /\ One(l.risk, "low") \in {"low", "medium", "high"}
  /\ One(l.execution, "auto") = "auto"
  /\ One(l.env, "local") # "production"

(* classify_issue does not raise. *)
Classified(l) ==
  /\ l.agent \subseteq DOMAIN AGENTS /\ Single(l.agent)
  /\ Unambiguous(l.risk) /\ Unambiguous(l.execution) /\ Unambiguous(l.env)
  /\ One(l.risk, "low") \in {"low", "medium", "high", "critical"} \ {"critical"}
  /\ One(l.execution, "auto") = "auto"
  /\ One(l.env, "local") \in {"local", "preview", "staging", "production"} \ {"production"}

-------------------------------------------------------------------------------
(* gate_block_reason and start *)

(* Mutant: the first of several labels decides. *)
MutantGateOpen(l) ==
  /\ l.agent \subseteq KNOWN_AGENTS /\ Single(l.agent)
  /\ l.risk # {} /\ One(l.risk, "") \in {"low", "medium"}
  /\ l.execution # {} /\ One(l.execution, "") = "auto"
  /\ l.env # {} /\ One(l.env, "") \in {"local", "preview", "staging"}

(* gate_block_reason finds none: each gate has its one label, a known one  *)
(* that needs no human.                                                    *)
GateOpen(l) ==
  /\ l.agent \subseteq KNOWN_AGENTS /\ Single(l.agent)
  /\ \E risk \in {"low", "medium", "high", "critical"} \ {"high", "critical"} :
       l.risk = {risk}
  /\ l.execution = {"auto"}
  /\ \E env \in {"local", "preview", "staging", "production"} \ {"production"} :
       l.env = {env}

(* Mutant: the recheck refuses what the guard accepts. *)
MutantStartBlocks(context) ==
  \/ context.execution # "auto"
  \/ context.risk # "low"
  \/ context.env = "production"

(* start raises ExecutionBlocked. *)
StartBlocks(context) ==
  \/ context.execution # "auto"
  \/ context.risk \in {"high", "critical"}
  \/ context.env = "production"

-------------------------------------------------------------------------------
(* People add and remove labels. *)

PolicyInit == labels = [gate \in DOMAIN Alphabet |-> {}]

Relabel ==
  \E gate \in DOMAIN Alphabet : \E v \in Alphabet[gate] :
    labels' = [labels EXCEPT ![gate] = IF v \in @ THEN @ \ {v} ELSE @ \cup {v}]

PolicySpec == PolicyInit /\ [][Relabel]_labels

-------------------------------------------------------------------------------
(* Properties *)

(* The labels with what classify_issue assumes of a missing gate. *)
Filled(l) ==
  LET Default(values, v) == IF values = {} THEN {v} ELSE values
  IN  [agent |-> l.agent, risk |-> Default(l.risk, "low"),
       execution |-> Default(l.execution, "auto"), env |-> Default(l.env, "local")]

(* An issue that passes the guard is never refused later: the selector     *)
(* and execute() classify it, start accepts its context, and the run is    *)
(* for what the labels say and not for a default                           *)
(* (guard 111-150, runtime.py 51-80, poller_tick.py 163-168).              *)
GuardIsStricter ==
  GateOpen(labels) =>
    /\ Classified(labels)
    /\ ~StartBlocks(Context(labels))
    /\ labels.risk = {Context(labels).risk}
    /\ labels.execution = {Context(labels).execution}
    /\ labels.env = {Context(labels).env}

(* The three places draw the same line: without the guard, an issue gets   *)
(* through classification and start exactly if the guard would accept it   *)
(* with the defaults written out.                                          *)
PoliciesAgree ==
  (Classified(labels) /\ ~StartBlocks(Context(labels))) <=> GateOpen(Filled(labels))

(* Guard 12-15: whatever other labels it has, an issue marked for a human  *)
(* is never dispatched, nor one that lacks a gate; and the runtime alone   *)
(* keeps critical, human and production issues out.                        *)
SensitiveKeptOut ==
  /\ \/ labels.risk \cap {"high", "critical"} # {}
     \/ labels.execution \cap {"human", "blocked"} # {}
     \/ "production" \in labels.env
     \/ labels.agent = {} \/ labels.risk = {} \/ labels.execution = {} \/ labels.env = {}
     => ~GateOpen(labels)
  /\ \/ "critical" \in labels.risk
     \/ labels.execution \cap {"human", "blocked"} # {}
     \/ "production" \in labels.env
     => ~Classified(labels)
===============================================================================
