-------------------------- MODULE DispatchPolicyProofs --------------------------
(***************************************************************************)
(* The three policies agree for every set of labels, whatever suffixes     *)
(* people invent.                                                          *)
(***************************************************************************)
EXTENDS DispatchPolicy, TLAPS

(* What one() finds in a single label. *)
LEMMA OneOfSingle ==
  ASSUME NEW v, NEW default
  PROVE  /\ One({v}, default) = v
         /\ Single({v}) /\ Unambiguous({v})
BY DEF One, The, Single, Unambiguous

(* A gate with at most one label: the value that counts is the one that    *)
(* the label, or the default written out, has.                             *)
LEMMA OneIsFilled ==
  ASSUME NEW values, Unambiguous(values), NEW default
  PROVE  (IF values = {} THEN {default} ELSE values) = {One(values, default)}
<1>1. CASE values = {}
  BY <1>1 DEF One
<1>2. CASE Single(values)
  <2>1. PICK v \in values : values = {v}
    BY <1>2 DEF Single
  <2>. QED  BY <2>1, OneOfSingle
<1>. QED  BY <1>1, <1>2 DEF Unambiguous

(* The guard and the runtime know the same agents (runtime.py 16-24, guard *)
(* 41-49).                                                                 *)
LEMMA SameAgents == KNOWN_AGENTS = DOMAIN AGENTS
BY DEF KNOWN_AGENTS, AGENTS

(* An open gate is never refused later. *)
LEMMA GateOpenIsClassified ==
  GuardIsStricter
<1>. SUFFICES ASSUME GateOpen(labels)
              PROVE  /\ Classified(labels)
                     /\ ~StartBlocks(Context(labels))
                     /\ labels.risk = {Context(labels).risk}
                     /\ labels.execution = {Context(labels).execution}
                     /\ labels.env = {Context(labels).env}
  BY DEF GuardIsStricter
<1>1. PICK risk \in {"low", "medium"} : labels.risk = {risk}
  BY DEF GateOpen
<1>2. PICK env \in {"local", "preview", "staging"} : labels.env = {env}
  BY DEF GateOpen
<1>3. labels.execution = {"auto"}
  BY DEF GateOpen
<1>4. /\ Context(labels).risk = risk
      /\ Context(labels).execution = "auto"
      /\ Context(labels).env = env
  BY <1>1, <1>2, <1>3, OneOfSingle DEF Context
<1>5. Classified(labels)
  <2>1. labels.agent \subseteq DOMAIN AGENTS /\ Single(labels.agent)
    BY SameAgents DEF GateOpen
  <2>2. Unambiguous(labels.risk) /\ Unambiguous(labels.execution) /\ Unambiguous(labels.env)
    BY <1>1, <1>2, <1>3, OneOfSingle
  <2>3. /\ One(labels.risk, "low") = risk
        /\ One(labels.execution, "auto") = "auto"
        /\ One(labels.env, "local") = env
    BY <1>1, <1>2, <1>3, OneOfSingle
  <2>. QED  BY <2>1, <2>2, <2>3 DEF Classified
<1>6. ~StartBlocks(Context(labels))
  BY <1>4 DEF StartBlocks
<1>. QED  BY <1>1, <1>2, <1>3, <1>4, <1>5, <1>6

(* The chain without the guard draws the guard's line. *)
LEMMA ChainIsGuardOfFilled ==
  PoliciesAgree
<1>. DEFINE full == Filled(labels)
<1>1. ASSUME Classified(labels), ~StartBlocks(Context(labels))
      PROVE  GateOpen(full)
  <2>1. /\ full.agent = labels.agent
        /\ full.risk = {One(labels.risk, "low")}
        /\ full.execution = {One(labels.execution, "auto")}
        /\ full.env = {One(labels.env, "local")}
    BY <1>1, OneIsFilled DEF Classified, Filled
  <2>2. One(labels.risk, "low") \in {"low", "medium"}
    BY <1>1 DEF Classified, StartBlocks, Context
  <2>3. /\ One(labels.execution, "auto") = "auto"
        /\ One(labels.env, "local") \in {"local", "preview", "staging"}
    BY <1>1 DEF Classified
  <2>4. full.agent \subseteq KNOWN_AGENTS /\ Single(full.agent)
    BY <1>1, <2>1, SameAgents DEF Classified
  <2>. HIDE DEF full
  <2>. QED  BY <2>1, <2>2, <2>3, <2>4 DEF GateOpen
<1>2. ASSUME GateOpen(full)
      PROVE  Classified(labels) /\ ~StartBlocks(Context(labels))
  <2>1. /\ full.agent = labels.agent
        /\ full.risk = IF labels.risk = {} THEN {"low"} ELSE labels.risk
        /\ full.execution = IF labels.execution = {} THEN {"auto"} ELSE labels.execution
        /\ full.env = IF labels.env = {} THEN {"local"} ELSE labels.env
    BY DEF Filled
  <2>. HIDE DEF full
  <2>2. PICK risk \in {"low", "medium"} : full.risk = {risk}
    BY <1>2 DEF GateOpen
  <2>3. PICK env \in {"local", "preview", "staging"} : full.env = {env}
    BY <1>2 DEF GateOpen
  <2>4. full.execution = {"auto"}
    BY <1>2 DEF GateOpen
  <2>5. Unambiguous(labels.risk) /\ One(labels.risk, "low") = risk
    BY <2>1, <2>2, OneOfSingle DEF Unambiguous, One
  <2>6. Unambiguous(labels.env) /\ One(labels.env, "local") = env
    BY <2>1, <2>3, OneOfSingle DEF Unambiguous, One
  <2>7. Unambiguous(labels.execution) /\ One(labels.execution, "auto") = "auto"
    BY <2>1, <2>4, OneOfSingle DEF Unambiguous, One
  <2>8. Classified(labels)
    BY <1>2, <2>1, <2>5, <2>6, <2>7, SameAgents DEF Classified, GateOpen
  <2>9. ~StartBlocks(Context(labels))
    BY <2>5, <2>6, <2>7 DEF StartBlocks, Context
  <2>. QED  BY <2>8, <2>9
<1>. QED  BY <1>1, <1>2 DEF PoliciesAgree

(* No label set lets a sensitive issue through. *)
LEMMA SensitiveStaysOut ==
  SensitiveKeptOut
<1>1. ASSUME GateOpen(labels)
      PROVE  /\ labels.risk \cap {"high", "critical"} = {}
             /\ labels.execution \cap {"human", "blocked"} = {}
             /\ "production" \notin labels.env
             /\ labels.agent # {} /\ labels.risk # {} /\ labels.execution # {} /\ labels.env # {}
  BY <1>1 DEF GateOpen, Single
<1>2. ASSUME Classified(labels)
      PROVE  /\ "critical" \notin labels.risk
             /\ labels.execution \cap {"human", "blocked"} = {}
             /\ "production" \notin labels.env
  <2>1. ASSUME NEW values, NEW default, Unambiguous(values)
        PROVE  \A v \in values : v = One(values, default)
    BY <2>1, OneIsFilled
  <2>2. /\ \A v \in labels.risk : v = One(labels.risk, "low")
        /\ \A v \in labels.execution : v = One(labels.execution, "auto")
        /\ \A v \in labels.env : v = One(labels.env, "local")
    BY <1>2, <2>1 DEF Classified
  <2>3. /\ One(labels.risk, "low") # "critical"
        /\ One(labels.execution, "auto") \notin {"human", "blocked"}
        /\ One(labels.env, "local") # "production"
    BY <1>2 DEF Classified
  <2>. QED  BY <2>2, <2>3
<1>. QED  BY <1>1, <1>2 DEF SensitiveKeptOut

-------------------------------------------------------------------------------

(* Whatever people do to the labels of an issue: if the guard accepts it,  *)
(* classification and start accept it too, with the values the labels say. *)
THEOREM GuardStricter == PolicySpec => []GuardIsStricter
BY GateOpenIsClassified, PTL

(* The guard, classification and start never drift apart (the contract     *)
(* test compares the agents only).                                         *)
THEOREM PoliciesNeverDrift == PolicySpec => []PoliciesAgree
BY ChainIsGuardOfFilled, PTL

(* An issue marked for a human never passes, whatever else it is marked.   *)
THEOREM HumansKeepTheirIssues == PolicySpec => []SensitiveKeptOut
BY SensitiveStaysOut, PTL
===============================================================================
