--------------------------- MODULE PollerUnitProofs ---------------------------
(***************************************************************************)
(* The theorems about PollerUnit.  Each property but the first has an      *)
(* invariant of its own over the places of a tick; the types are shared.   *)
(* The last theorem is about what an activation still has before it.       *)
(***************************************************************************)
EXTENDS PollerUnit, TLAPS

(* The actions that only move the activation on, or end it. *)
LEMMA EndsTypes ==
  ASSUME UnitTypeOK, NEW e \in Ends, EndsAs(e)
  PROVE  UnitTypeOK'
BY DEF UnitTypeOK, EndsAs, Ended, Activations, verdicts, DispatchBound, Places

LEMMA GoesTypes ==
  ASSUME UnitTypeOK, NEW p \in Places, Goes(p)
  PROVE  UnitTypeOK'
BY DEF UnitTypeOK, Goes, GoTo, Activations, verdicts, DispatchBound

LEMMA BoundIsPositive ==
  ASSUME NEW c \in Callers
  PROVE  DispatchBound(c) \in Nat \ {0}
BY UnitAssumption DEF DispatchBound, Environments

LEMMA InitTypes == UnitInit => UnitTypeOK
<1> SUFFICES ASSUME UnitInit PROVE UnitTypeOK
  OBVIOUS
<1>1. PICK c \in Callers :
        act = [at |-> "idle", caller |-> c, command |-> "none", end |-> "none",
               environ |-> NoSecrets, linear |-> "absent", stale |-> FALSE,
               left |-> 0, waited |-> 0, age |-> 0, spare |-> 0]
  BY DEF UnitInit
<1>2. NoSecrets \in Secrets /\ GoodSecrets \in Secrets
  BY DEF NoSecrets, GoodSecrets, Secrets, Values
<1>3. act \in Activations
  BY <1>1, <1>2, UnitAssumption DEF Activations, Places, Commands, Ends, Values
<1>4. host \in Hosts
  BY <1>2 DEF UnitInit, Hosts, Files, Trees
<1>5. act.left =< DispatchBound(act.caller)
  BY <1>1, BoundIsPositive
<1>6. edits \in 0 .. MaxEdits
  BY UnitAssumption DEF UnitInit
<1>7. proved \in BOOLEAN /\ probed \in BOOLEAN
  BY DEF UnitInit
<1> QED
  BY <1>3, <1>4, <1>5, <1>6, <1>7 DEF UnitTypeOK

LEMMA CallsTypes ==
  ASSUME UnitTypeOK, NEW c \in Callers, NEW command \in Commands, Calls(c, command)
  PROVE  UnitTypeOK'
<1>1. c.keys \in Secrets
  BY UnitAssumption DEF Environments
<1>2. PICK p \in {"idle", "import", "canary", "probe"},
           e \in {"aborted", "usage", "confined", "notfound", "none"} : Leaves(c, command, p, e)
  BY DEF Calls, Commands, Executes
<1>3. act' \in Activations /\ act'.left = 0 /\ act'.caller = c
  BY <1>1, <1>2, UnitAssumption DEF Leaves, Activations, Places, Starting, Ends, Values
<1>4. UNCHANGED <<host, verdicts, edits>>
  BY DEF Calls
<1> QED
  BY <1>3, <1>4, BoundIsPositive DEF UnitTypeOK, verdicts

LEMMA EditTypes ==
  ASSUME UnitTypeOK, Edit, host' \in Hosts
  PROVE  UnitTypeOK'
<1>1. act' \in Activations /\ act'.left = act.left /\ act'.caller = act.caller
  BY DEF UnitTypeOK, Edit, Activations
<1>2. edits' \in 0 .. MaxEdits
  BY UnitAssumption DEF UnitTypeOK, Edit
<1>3. proved' \in BOOLEAN /\ probed' \in BOOLEAN
  BY DEF Edit
<1>4. act'.left =< DispatchBound(act'.caller)
  BY <1>1 DEF UnitTypeOK
<1> QED
  BY <1>1, <1>2, <1>3, <1>4 DEF UnitTypeOK

(* The steps of the host keep its type. *)
LEMMA HostTypes ==
  ASSUME UnitTypeOK,
         UpdatesHermes \/ EditsSecrets \/ EditsChain \/ GeneratesPin \/ EditsRest
  PROVE  host' \in Hosts
<1>0. host \in Hosts
  BY DEF UnitTypeOK
<1>1. CASE UpdatesHermes
  BY <1>0, <1>1 DEF UpdatesHermes, Hosts
<1>2. CASE EditsSecrets
  <2>1. PICK f \in Files, s \in Secrets \cup {NoFile} : host' = [host EXCEPT !.files[f] = s]
    <3>1. CASE \E f \in Files : host' = [host EXCEPT !.files[f] = NoFile]
      BY <3>1
    <3>2. ASSUME NEW f \in Files, NEW k \in Keys, NEW v \in Values, host.files[f] # NoFile,
                 host' = [host EXCEPT !.files[f] = [host.files[f] EXCEPT ![k] = v]]
          PROVE  \E g \in Files, s \in Secrets \cup {NoFile} : host' = [host EXCEPT !.files[g] = s]
      <4>1. host.files[f] \in Secrets
        BY <1>0, <3>2 DEF Hosts
      <4>2. [host.files[f] EXCEPT ![k] = v] \in Secrets
        BY <4>1 DEF Secrets
      <4> QED
        BY <3>2, <4>2
    <3> QED
      BY <1>2, <3>1, <3>2 DEF EditsSecrets
  <2> QED
    BY <1>0, <2>1 DEF Hosts
<1>3. CASE EditsChain
  BY <1>0, <1>3 DEF EditsChain, Hosts
<1>4. CASE GeneratesPin
  BY <1>0, <1>4 DEF GeneratesPin, Hosts
<1>5. CASE EditsRest
  BY <1>0, <1>5 DEF EditsRest, Hosts
<1> QED
  BY <1>1, <1>2, <1>3, <1>4, <1>5

(* What a tick loads is of the type of secrets. *)
LEMMA MergedTypes ==
  ASSUME UnitTypeOK, NEW e \in Secrets, NEW f \in Files
  PROVE  /\ [k \in Keys |-> Merged(e, f, k)] \in Secrets
         /\ \A k \in Keys : InFile(f, k) \in Values
<1>1. host.files[f] \in Secrets \cup {NoFile}
  BY DEF UnitTypeOK, Hosts
<1>2. \A k \in Keys : InFile(f, k) \in Values
  BY <1>1 DEF InFile, Secrets, Values
<1> QED
  BY <1>2 DEF Merged, Secrets

LEMMA StepTypes ==
  ASSUME UnitTypeOK, UnitStep \/ DispatchEnds \/ PassRaises \/ Waits \/ Dawdles \/ Kills
  PROVE  UnitTypeOK'
<1>0. /\ act \in Activations /\ host \in Hosts
      /\ act.caller \in Callers /\ act.caller.file \in Files
  BY UnitAssumption DEF UnitTypeOK, Activations, Environments
<1>1. CASE Probe
  BY <1>0, <1>1 DEF Probe, UnitTypeOK, Ended, Activations, Places, Ends, DispatchBound
<1>2. CASE Canary
  BY <1>0, <1>2 DEF Canary, UnitTypeOK, Ended, Activations, Places, Ends, DispatchBound
<1>3. CASE ReadsSettings
  <2>1. "settings" \in Ends /\ "check" \in Places
    BY DEF Ends, Places, Starting
  <2> QED
    BY <1>3, <2>1, EndsTypes, GoesTypes DEF ReadsSettings
<1>4. CASE ChecksSecrets
  <2>1. {"failed", "config"} \subseteq Ends /\ "export" \in Places
    BY DEF Ends, Places, Starting
  <2>2. CASE /\ act' = [act EXCEPT !.at = "export", !.stale = FALSE]
             /\ UNCHANGED <<host, verdicts, edits>>
    BY <2>1, <2>2 DEF UnitTypeOK, Activations, verdicts, DispatchBound
  <2> QED
    BY <1>4, <2>1, <2>2, EndsTypes DEF ChecksSecrets
<1>5. CASE Exports
  <2>1. "secret" \in Ends /\ "connect" \in Places
    BY DEF Ends, Places, Starting
  <2>2. [k \in Keys |-> Merged(act.environ, act.caller.file, k)] \in Secrets
    BY <1>0, MergedTypes DEF Activations
  <2>3. CASE /\ act' = [act EXCEPT !.at = "connect",
                   !.environ = [k \in Keys |-> Merged(act.environ, act.caller.file, k)]]
             /\ UNCHANGED <<host, verdicts, edits>>
    BY <2>1, <2>2, <2>3 DEF UnitTypeOK, Activations, verdicts, DispatchBound
  <2> QED
    BY <1>5, <2>1, <2>3, EndsTypes DEF Exports
<1>6. CASE Connects
  <2>1. {"secret", "import"} \subseteq Ends /\ "query" \in Places
    BY DEF Ends, Places, Starting
  <2>2. InFile("shared", "LINEAR_API_KEY") \in Values
    BY MergedTypes, <1>0 DEF Activations, Files, Keys
  <2>3. CASE /\ act' = [act EXCEPT !.at = "query", !.linear = InFile("shared", "LINEAR_API_KEY")]
             /\ UNCHANGED <<host, verdicts, edits>>
    BY <2>1, <2>2, <2>3 DEF UnitTypeOK, Activations, verdicts, DispatchBound
  <2> QED
    BY <1>6, <2>1, <2>3, EndsTypes DEF Connects, LinearKey
<1>7. CASE QueriesLinear
  <2>1. {"secret", "linear"} \subseteq Ends /\ "store" \in Places
    BY DEF Ends, Places, Starting
  <2> QED
    BY <1>7, <2>1, EndsTypes, GoesTypes DEF QueriesLinear
<1>8. CASE MakesStore
  <2>1. {"secret", "settings"} \subseteq Ends /\ "pass" \in Places
    BY DEF Ends, Places
  <2>2. ASSUME NEW n \in 0 .. DispatchBound(act.caller),
               act' = [act EXCEPT !.at = "pass", !.left = n],
               UNCHANGED <<host, verdicts, edits>>
        PROVE  UnitTypeOK'
    <3>0. n \in Nat
      BY <1>0, BoundIsPositive
    <3>1. act' \in Activations /\ act'.left = n /\ act'.caller = act.caller
      BY <1>0, <2>1, <2>2, <3>0 DEF Activations
    <3>2. act'.left =< DispatchBound(act'.caller)
      BY <1>0, <3>1, BoundIsPositive
    <3> QED
      BY <2>2, <3>1, <3>2 DEF UnitTypeOK, verdicts
  <2> QED
    BY <1>8, <2>1, <2>2, EndsTypes DEF MakesStore
<1>9. CASE DispatchLate \/ PassEnds \/ PassRaises \/ Kills
  <2>1. {"late", "done", "chain", "killed"} \subseteq Ends
    BY DEF Ends
  <2> QED
    BY <1>9, <2>1, EndsTypes DEF DispatchLate, PassEnds, PassRaises, Kills
<1>10. CASE DispatchEnds
  <2>0. act.left - 1 \in Nat /\ 0 \in 0 .. RunTimeout
    BY <1>0, <1>10, UnitAssumption DEF DispatchEnds, Activations
  <2>1. act' \in Activations /\ act'.left = act.left - 1 /\ act'.caller = act.caller
    BY <1>0, <1>10, <2>0 DEF DispatchEnds, Activations
  <2>2. act'.left =< DispatchBound(act'.caller)
    BY <1>0, <2>1, BoundIsPositive DEF UnitTypeOK, Activations
  <2> QED
    BY <1>10, <2>1, <2>2 DEF DispatchEnds, UnitTypeOK, verdicts
<1>11. CASE Waits \/ Dawdles
  <2>1. Older \in 0 .. StartTimeout
    BY <1>0, <1>11, UnitAssumption DEF Waits, Dawdles, TimeLeft, Older, InUnit, Activations
  <2> QED
    <3>0. /\ Waits => act.waited + 1 \in 0 .. RunTimeout
          /\ Dawdles => act.spare + 1 \in 0 .. Slack
      BY <1>0, UnitAssumption DEF Waits, Dawdles, Activations
    <3>1. act' \in Activations /\ act'.left = act.left /\ act'.caller = act.caller
      BY <1>0, <1>11, <2>1, <3>0 DEF Waits, Dawdles, Activations
    <3> QED
      BY <1>11, <3>1 DEF Waits, Dawdles, UnitTypeOK, verdicts
<1> QED
  BY <1>1, <1>2, <1>3, <1>4, <1>5, <1>6, <1>7, <1>8, <1>9, <1>10, <1>11 DEF UnitStep

LEMMA TypesKept == UnitTypeOK /\ [UnitNext]_unitVars => UnitTypeOK'
<1> SUFFICES ASSUME UnitTypeOK, [UnitNext]_unitVars PROVE UnitTypeOK'
  OBVIOUS
<1>1. CASE UNCHANGED unitVars
  BY <1>1 DEF unitVars, UnitTypeOK, DispatchBound
<1>2. CASE UpdatesHermes \/ EditsSecrets \/ EditsChain \/ GeneratesPin \/ EditsRest
  BY <1>2, EditTypes, HostTypes DEF UpdatesHermes, EditsSecrets, EditsChain, GeneratesPin, EditsRest
<1> QED
  BY <1>1, <1>2, CallsTypes, StepTypes DEF UnitNext

(* An activation and the host always have their types (PollerUnit). *)
THEOREM UnitTypes == UnitSpec => []UnitTypeOK
BY InitTypes, TypesKept, PTL DEF UnitSpec

-------------------------------------------------------------------------------
(* What a step does to the fields of the activation *)

Frame == UNCHANGED <<host, verdicts, edits>>

LEMMA EndsFields ==
  ASSUME UnitTypeOK, NEW e, EndsAs(e)
  PROVE  /\ act'.at = "idle" /\ act'.end = e /\ Frame
         /\ act'.caller = act.caller /\ act'.stale = act.stale
BY DEF UnitTypeOK, EndsAs, Ended, Activations, Frame

LEMMA GoesFields ==
  ASSUME UnitTypeOK, NEW p, Goes(p)
  PROVE  /\ act'.at = p /\ Frame
         /\ act'.caller = act.caller /\ act'.stale = act.stale /\ act'.command = act.command
         /\ act'.environ = act.environ /\ act'.linear = act.linear /\ act'.end = act.end
         /\ act'.left = act.left /\ act'.waited = act.waited
         /\ act'.age = act.age /\ act'.spare = act.spare
BY DEF UnitTypeOK, Goes, GoTo, Activations, Frame

LEMMA EditFields ==
  ASSUME UnitTypeOK, Edit
  PROVE  /\ act'.stale = TRUE /\ ~proved' /\ ~probed'
         /\ act'.at = act.at /\ act'.caller = act.caller /\ act'.command = act.command
         /\ act'.environ = act.environ /\ act'.linear = act.linear /\ act'.end = act.end
         /\ act'.left = act.left /\ act'.waited = act.waited
         /\ act'.age = act.age /\ act'.spare = act.spare
BY DEF UnitTypeOK, Edit, Activations

HostStep == UpdatesHermes \/ EditsSecrets \/ EditsChain \/ GeneratesPin \/ EditsRest

LEMMA HostStepEdits == HostStep => Edit
BY DEF HostStep, UpdatesHermes, EditsSecrets, EditsChain, GeneratesPin, EditsRest

(* A call begins an activation. *)
LEMMA CallFields ==
  ASSUME NEW c \in Callers, NEW command \in Commands, Calls(c, command)
  PROVE  /\ Frame
         /\ act'.caller = c /\ act'.command = command /\ act'.environ = c.keys
         /\ act'.stale = FALSE /\ act'.left = 0 /\ act'.waited = 0 /\ act'.age = 0
         /\ act'.spare = 0
         /\ \/ /\ act'.at = "idle"
               /\ \/ act'.end = "aborted" /\ Interpreter(c) = "aborted"
                  \/ act'.end = "usage" /\ command = "usage"
                  \/ act'.end = "confined" /\ command = "tick" /\ c.confined
                  \/ act'.end = "notfound" /\ Interpreter(c) = "notfound"
            \/ /\ act'.at = IF command = "tick" THEN "import" ELSE command
               /\ act'.end = "none"
               /\ command # "usage" /\ Interpreter(c) \notin {"aborted", "notfound"}
               /\ command = "tick" => ~c.confined
         /\ c.origin = "unit" => command = "tick"
BY DEF Calls, Leaves, Executes, Frame

-------------------------------------------------------------------------------
(* A pass is entitled *)

(* Whose call it is, and what a pass may do. *)
CallInv ==
  /\ act.at \in Starting \cup {"pass"} => ~act.caller.confined
  /\ act.at = "pass" => \A k \in StoreKeys : Usable(act.environ[k])
  /\ act.at = "pass" => (act.left > 0 => act.linear = "good")

(* What has been read of the secrets by a caller without any of its own,   *)
(* if nothing was edited since the check.                                  *)
ReadsInv ==
  ~HasOwn(act.caller) =>
    /\ act.at \in {"import", "check", "export"} => \A k \in Keys : act.environ[k] = "absent"
    /\ ~act.stale =>
         /\ act.at \in {"connect", "query", "store", "pass"} =>
              \A k \in Keys : act.environ[k] = InFile("shared", k)
         /\ act.at \in {"query", "store", "pass"} => act.linear = LinearKey

EntitledInv == CallInv /\ ReadsInv

LEMMA CallKept == UnitTypeOK /\ CallInv /\ [UnitNext]_unitVars => CallInv'
<1> SUFFICES ASSUME UnitTypeOK, CallInv, [UnitNext]_unitVars PROVE CallInv'
  OBVIOUS
<1>0. ASSUME NEW e, EndsAs(e) PROVE CallInv'
  BY <1>0, EndsFields DEF CallInv, Starting
<1>1. CASE UNCHANGED unitVars
  BY <1>1 DEF unitVars, CallInv
<1>2. CASE HostStep
  BY <1>2, HostStepEdits, EditFields DEF CallInv
<1>3. ASSUME NEW c \in Callers, NEW command \in Commands, Calls(c, command) PROVE CallInv'
  BY <1>3, CallFields DEF CallInv, Commands, Starting
<1>4. CASE Probe \/ Canary
  BY <1>4 DEF Probe, Canary, Ended, CallInv, UnitTypeOK, Activations, Starting
<1>5. CASE ReadsSettings
  BY <1>0, <1>5, GoesFields DEF ReadsSettings, CallInv, Starting
<1>6. CASE ChecksSecrets
  BY <1>0, <1>6 DEF ChecksSecrets, CallInv, Starting, UnitTypeOK, Activations
<1>7. CASE Exports
  BY <1>0, <1>7 DEF Exports, CallInv, Starting, UnitTypeOK, Activations
<1>8. CASE Connects
  BY <1>0, <1>8 DEF Connects, LinearKey, CallInv, Starting, UnitTypeOK, Activations
<1>9. CASE QueriesLinear
  BY <1>0, <1>9, GoesFields DEF QueriesLinear, CallInv, Starting
<1>10. CASE MakesStore
  BY <1>0, <1>10 DEF MakesStore, CallInv, Starting, UnitTypeOK, Activations
<1>11. CASE DispatchLate \/ PassEnds \/ PassRaises \/ Kills
  BY <1>0, <1>11 DEF DispatchLate, PassEnds, PassRaises, Kills
<1>12. CASE DispatchEnds \/ Waits \/ Dawdles
  BY <1>12 DEF DispatchEnds, Waits, Dawdles, CallInv, UnitTypeOK, Activations
<1> QED
  BY <1>1, <1>2, <1>3, <1>4, <1>5, <1>6, <1>7, <1>8, <1>9, <1>10, <1>11, <1>12
     DEF UnitNext, UnitStep, HostStep

LEMMA ReadsKept == UnitTypeOK /\ ReadsInv /\ [UnitNext]_unitVars => ReadsInv'
<1> SUFFICES ASSUME UnitTypeOK, ReadsInv, [UnitNext]_unitVars PROVE ReadsInv'
  OBVIOUS
<1>0. ASSUME NEW e, EndsAs(e) PROVE ReadsInv'
  BY <1>0, EndsFields DEF ReadsInv
<1>1. CASE UNCHANGED unitVars
  BY <1>1 DEF unitVars, ReadsInv, LinearKey, InFile
<1>2. CASE HostStep
  BY <1>2, HostStepEdits, EditFields DEF ReadsInv
<1>3. ASSUME NEW c \in Callers, NEW command \in Commands, Calls(c, command) PROVE ReadsInv'
  <2>1. /\ act'.caller = c /\ act'.environ = c.keys
        /\ act'.at \in {"idle", "import", "canary", "probe"}
    BY <1>3, CallFields DEF Commands
  <2> QED
    BY <2>1 DEF ReadsInv, HasOwn
<1>4. CASE Probe \/ Canary
  BY <1>4 DEF Probe, Canary, Ended, ReadsInv, UnitTypeOK, Activations
<1>5. CASE ReadsSettings
  BY <1>0, <1>5, GoesFields DEF ReadsSettings, ReadsInv
<1>6. CASE ChecksSecrets
  BY <1>0, <1>6 DEF ChecksSecrets, ReadsInv, UnitTypeOK, Activations
<1>7. CASE Exports
  <2>1. CASE EndsAs("secret")
    BY <1>0, <2>1
  <2>2. CASE /\ act' = [act EXCEPT !.at = "connect",
                  !.environ = [k \in Keys |-> Merged(act.environ, act.caller.file, k)]]
             /\ UNCHANGED host
    <3>1. /\ act'.at = "connect" /\ act'.caller = act.caller /\ act'.stale = act.stale
          /\ \A k \in Keys : act'.environ[k] = Merged(act.environ, act.caller.file, k)
      BY <2>2 DEF UnitTypeOK, Activations
    <3>2. ~HasOwn(act.caller) => \A k \in Keys : act'.environ[k] = InFile("shared", k)
      BY <1>7, <3>1 DEF Exports, ReadsInv, HasOwn, Merged
    <3> QED
      BY <2>2, <3>1, <3>2 DEF ReadsInv, InFile
  <2> QED
    BY <1>7, <2>1, <2>2 DEF Exports
<1>8. CASE Connects
  <2>1. CASE \E e : EndsAs(e)
    BY <1>0, <2>1
  <2>2. CASE act' = [act EXCEPT !.at = "query", !.linear = LinearKey] /\ UNCHANGED host
    <3>1. /\ act'.at = "query" /\ act'.caller = act.caller /\ act'.stale = act.stale
          /\ act'.environ = act.environ /\ act'.linear = LinearKey /\ LinearKey' = LinearKey
      BY <2>2 DEF UnitTypeOK, Activations, LinearKey, InFile
    <3> QED
      BY <1>8, <2>2, <3>1 DEF Connects, ReadsInv, InFile
  <2> QED
    BY <1>8, <2>1, <2>2 DEF Connects
<1>9. CASE QueriesLinear
  BY <1>0, <1>9, GoesFields DEF QueriesLinear, ReadsInv, Frame, LinearKey, InFile
<1>10. CASE MakesStore
  BY <1>0, <1>10 DEF MakesStore, ReadsInv, UnitTypeOK, Activations, LinearKey, InFile
<1>11. CASE DispatchLate \/ PassEnds \/ PassRaises \/ Kills
  BY <1>0, <1>11 DEF DispatchLate, PassEnds, PassRaises, Kills
<1>12. CASE DispatchEnds \/ Waits \/ Dawdles
  <2>1. /\ act'.at = act.at /\ act'.caller = act.caller /\ act'.stale = act.stale
        /\ act'.environ = act.environ /\ act'.linear = act.linear /\ UNCHANGED host
    BY <1>12 DEF DispatchEnds, Waits, Dawdles, UnitTypeOK, Activations
  <2> QED
    BY <2>1 DEF ReadsInv, LinearKey, InFile
<1> QED
  BY <1>1, <1>2, <1>3, <1>4, <1>5, <1>6, <1>7, <1>8, <1>9, <1>10, <1>11, <1>12
     DEF UnitNext, UnitStep, HostStep

(* What a pass has: usable keys of the store, issues only with a key that  *)
(* Linear accepts, a caller outside of a worker, and, if nothing was       *)
(* edited since the check, what the shared file says (poller_tick.py       *)
(* 241-256).                                                               *)
THEOREM PassesAreEntitled == UnitSpec => []PassIsEntitled
<1>1. UnitInit => EntitledInv
  BY DEF UnitInit, EntitledInv, CallInv, ReadsInv, Starting
<1>2. UnitTypeOK /\ EntitledInv /\ [UnitNext]_unitVars => EntitledInv'
  BY CallKept, ReadsKept DEF EntitledInv
<1>3. EntitledInv => PassIsEntitled
  BY DEF EntitledInv, CallInv, ReadsInv, PassIsEntitled, LinearKey
<1> QED
  BY <1>1, <1>2, <1>3, UnitTypes, PTL DEF UnitSpec

-------------------------------------------------------------------------------
(* The check suffices *)

(* Nothing was edited since the check, and what Linear() reads is what the *)
(* check looked at.                                                        *)
Trusted ==
  ~act.stale /\ act.caller.file = "shared" /\ act.caller.keys["LINEAR_API_KEY"] = "absent"

TrustInv ==
  /\ act.at # "idle" => act.end = "none"
  /\ act.at \in {"import", "check", "export"} => act.environ = act.caller.keys
  /\ Trusted =>
       /\ act.at = "export" => /\ host.files["shared"] # NoFile
                               /\ \A k \in Keys : Usable(Merged(act.environ, "shared", k))
       /\ act.at = "connect" => Usable(InFile("shared", "LINEAR_API_KEY"))
       /\ act.at = "query" => Usable(act.linear)
       /\ act.at \in {"connect", "query", "store"} =>
            \A k \in StoreKeys : Usable(act.environ[k])
  /\ ChecksSuffice

LEMMA TrustKept == UnitTypeOK /\ TrustInv /\ [UnitNext]_unitVars => TrustInv'
<1> SUFFICES ASSUME UnitTypeOK, TrustInv, [UnitNext]_unitVars PROVE TrustInv'
  OBVIOUS
<1> USE DEF ChecksSuffice
<1>t. act \in Activations
  BY DEF UnitTypeOK
<1>0. ASSUME NEW e, EndsAs(e), e = "secret" => ~Trusted
      PROVE  TrustInv'
  BY <1>0, EndsFields DEF TrustInv, Trusted
<1>1. CASE UNCHANGED unitVars
  BY <1>1 DEF unitVars, TrustInv, Trusted, Merged, InFile
<1>2. CASE HostStep
  BY <1>2, HostStepEdits, EditFields DEF TrustInv, Trusted
<1>3. ASSUME NEW c \in Callers, NEW command \in Commands, Calls(c, command) PROVE TrustInv'
  BY <1>3, CallFields DEF TrustInv, Commands
<1>4. CASE Probe \/ Canary
  BY <1>4, <1>t DEF Probe, Canary, Ended, TrustInv, Activations
<1>5. CASE ReadsSettings
  BY <1>0, <1>5, GoesFields DEF ReadsSettings, TrustInv
<1>6. CASE ChecksSecrets
  <2>1. CASE /\ host.files[act.caller.file] # NoFile /\ Missing = {}
             /\ act' = [act EXCEPT !.at = "export", !.stale = FALSE]
             /\ UNCHANGED <<host, verdicts, edits>>
    <3>1. \A k \in Keys : Usable(Merged(act.environ, act.caller.file, k))
      BY <2>1 DEF Missing
    <3>2. /\ act'.at = "export" /\ act'.environ = act.environ /\ act'.caller = act.caller
          /\ act'.end = act.end
      BY <2>1, <1>t DEF Activations
    <3>3. Trusted' => \A k \in Keys : Usable(Merged(act.environ, "shared", k))
      BY <3>1, <3>2 DEF Trusted
    <3>4. act.environ = act.caller.keys
      BY <1>6 DEF ChecksSecrets, TrustInv
    <3>5. act'.end = "none"
      BY <1>6, <3>2 DEF ChecksSecrets, TrustInv
    <3>6. host'.files["shared"] # NoFile \/ ~Trusted'
      BY <2>1, <3>2 DEF Trusted
    <3>7. \A k \in Keys : Merged(act.environ, "shared", k)' = Merged(act.environ, "shared", k)
      BY <2>1, <3>2 DEF Merged, InFile
    <3> QED
      BY <3>2, <3>3, <3>4, <3>5, <3>6, <3>7 DEF TrustInv
  <2> QED
    BY <1>0, <1>6, <2>1 DEF ChecksSecrets
<1>7. CASE Exports
  <2>1. Trusted => host.files[act.caller.file] # NoFile
    BY <1>7 DEF Exports, TrustInv, Trusted
  <2>2. CASE /\ act' = [act EXCEPT !.at = "connect",
                   !.environ = [k \in Keys |-> Merged(act.environ, act.caller.file, k)]]
             /\ UNCHANGED <<host, verdicts, edits>>
    <3>1. /\ act'.at = "connect" /\ act'.caller = act.caller /\ act'.stale = act.stale
          /\ act'.end = act.end
          /\ act'.environ = [k \in Keys |-> Merged(act.environ, act.caller.file, k)]
      BY <2>2, <1>t DEF Activations
    <3>2. act.end = "none"
      BY <1>7 DEF Exports, TrustInv
    <3>3. ASSUME Trusted
          PROVE  /\ \A k \in StoreKeys : Usable(Merged(act.environ, act.caller.file, k))
                 /\ Usable(InFile("shared", "LINEAR_API_KEY"))
      <4>1. /\ \A k \in Keys : Usable(Merged(act.environ, "shared", k))
            /\ act.caller.file = "shared" /\ act.environ["LINEAR_API_KEY"] = "absent"
        BY <1>7, <3>3 DEF Exports, TrustInv, Trusted
      <4> QED
        BY <4>1 DEF Keys, Merged
    <3>4. InFile("shared", "LINEAR_API_KEY")' = InFile("shared", "LINEAR_API_KEY")
      BY <2>2 DEF InFile
    <3>5. Trusted' <=> Trusted
      BY <3>1 DEF Trusted
    <3> QED
      BY <3>1, <3>2, <3>3, <3>4, <3>5 DEF TrustInv, Keys
  <2> QED
    BY <1>0, <1>7, <2>1, <2>2 DEF Exports
<1>8. CASE Connects
  <2>1. CASE /\ act' = [act EXCEPT !.at = "query", !.linear = InFile("shared", "LINEAR_API_KEY")]
             /\ UNCHANGED <<host, verdicts, edits>>
    BY <1>8, <2>1, <1>t DEF Connects, LinearKey, TrustInv, Trusted, Activations
  <2>2. Trusted => InFile("shared", "LINEAR_API_KEY") # "absent"
    BY <1>8 DEF Connects, LinearKey, TrustInv, Usable
  <2> QED
    BY <1>0, <1>8, <2>1, <2>2 DEF Connects, LinearKey
<1>9. CASE QueriesLinear
  <2>1. Trusted => act.linear # "blank"
    BY <1>9 DEF QueriesLinear, TrustInv, Usable
  <2>2. CASE Goes("store")
    BY <1>9, <2>2, GoesFields DEF QueriesLinear, TrustInv, Trusted
  <2> QED
    BY <1>0, <1>9, <2>1, <2>2 DEF QueriesLinear
<1>10. CASE MakesStore
  <2>1. Trusted => \A k \in StoreKeys : Usable(act.environ[k])
    BY <1>10 DEF MakesStore, TrustInv
  <2>2. ASSUME NEW n, act' = [act EXCEPT !.at = "pass", !.left = n],
               UNCHANGED <<host, verdicts, edits>>
        PROVE  TrustInv'
    BY <1>10, <2>2, <1>t DEF MakesStore, TrustInv, Trusted, Activations
  <2> QED
    BY <1>0, <1>10, <2>1, <2>2 DEF MakesStore
<1>11. CASE DispatchLate \/ PassEnds \/ PassRaises \/ Kills
  BY <1>0, <1>11 DEF DispatchLate, PassEnds, PassRaises, Kills
<1>12. CASE DispatchEnds \/ Waits \/ Dawdles
  <2>1. /\ act'.at = act.at /\ act'.caller = act.caller /\ act'.stale = act.stale
        /\ act'.end = act.end /\ act'.environ = act.environ /\ act'.linear = act.linear
        /\ host' = host
    BY <1>12, <1>t DEF DispatchEnds, Waits, Dawdles, Activations
  <2> QED
    BY <2>1 DEF TrustInv, Trusted, Merged, InFile
<1> QED
  BY <1>1, <1>2, <1>3, <1>4, <1>5, <1>6, <1>7, <1>8, <1>9, <1>10, <1>11, <1>12
     DEF UnitNext, UnitStep, HostStep

(* What missing_required accepts is what the tick uses, unless the files   *)
(* were edited in between or the caller brought its own.                   *)
THEOREM ChecksSufficient == UnitSpec => []ChecksSuffice
<1>1. UnitInit => TrustInv
  BY DEF UnitInit, TrustInv, ChecksSuffice
<1>2. TrustInv => ChecksSuffice
  BY DEF TrustInv
<1> QED
  BY <1>1, <1>2, TrustKept, UnitTypes, PTL DEF UnitSpec

-------------------------------------------------------------------------------
(* The canary and the probe speak for the unit *)

Resolves == host.facts = "venv" \/ (host.facts = "useless" /\ host.fallback)

SharedHas(k) == host.files["shared"][k]

Defect == act.caller.numbers # "fine" \/ \E k \in Keys : SharedHas(k) \in {"blank", "wrong"}

SpeaksInv ==
  /\ InUnit => act.at \notin {"canary", "probe"}
  /\ act.at \in {"canary", "probe"} /\ ~act.stale /\ act.caller.python = "unset" => Resolves
  /\ proved => /\ Resolves /\ host.chain # "broken" /\ host.files["shared"] # NoFile
               /\ \A k \in Keys : SharedHas(k) # "absent"
  /\ probed => Resolves /\ host.chain # "broken"
  /\ proved /\ InUnit =>
       /\ act.at \in {"connect", "query", "store"} =>
            \A k \in StoreKeys : act.environ[k] = SharedHas(k)
       /\ act.at = "query" => act.linear = SharedHas("LINEAR_API_KEY")
  /\ CanaryForetells /\ ProbeForetells

(* In the unit, on a host the canary passed on, the file is what is used. *)
LEMMA UnitReadsShared ==
  ASSUME UnitTypeOK, TrustInv, SpeaksInv, InUnit, proved
  PROVE  /\ act.caller.file = "shared" /\ ~act.caller.confined
         /\ \A k \in Keys : InFile("shared", k) = SharedHas(k)
         /\ act.at \in {"check", "export"} =>
              \A k \in Keys : Merged(act.environ, act.caller.file, k) = SharedHas(k)
<1>1. act.caller \in Callers
  BY DEF UnitTypeOK, Activations
<1>2. /\ act.caller.file = "shared" /\ ~act.caller.confined
      /\ \A k \in Keys : act.caller.keys[k] = "absent"
  BY <1>1, UnitAssumption DEF InUnit
<1>3. \A k \in Keys : InFile("shared", k) = SharedHas(k)
  BY DEF InFile, SharedHas, SpeaksInv
<1>4. act.at \in {"check", "export"} => act.environ = act.caller.keys
  BY DEF TrustInv
<1> QED
  BY <1>2, <1>3, <1>4 DEF Merged

(* How the unit may end on such a host. *)
Harmless == {"done", "chain", "late", "killed", "linear"}

LEMMA EndSpeaks ==
  ASSUME UnitTypeOK, SpeaksInv, NEW e, EndsAs(e),
         proved /\ InUnit => e \in Harmless \/ Defect,
         probed /\ InUnit => e \notin {"aborted", "notfound", "import"}
  PROVE  SpeaksInv'
<1>1. /\ act'.at = "idle" /\ act'.end = e /\ act'.caller = act.caller
      /\ UNCHANGED <<host, proved, probed>>
  BY EndsFields DEF Frame, verdicts
<1>2. CanaryForetells'
  BY <1>1 DEF CanaryForetells, InUnit, Defect, Harmless, SharedHas
<1>3. ProbeForetells'
  BY <1>1 DEF ProbeForetells, InUnit
<1> QED
  BY <1>1, <1>2, <1>3 DEF SpeaksInv, Resolves, SharedHas, InUnit

(* A step that goes on to a place of the tick. *)
LEMMA GoesOnSpeaks ==
  ASSUME SpeaksInv, UNCHANGED <<host, verdicts>>,
         act'.caller = act.caller, act'.at \in Starting \cup {"pass"},
         proved /\ InUnit =>
           /\ act'.at \in {"connect", "query", "store"} =>
                \A k \in StoreKeys : act'.environ[k] = SharedHas(k)
           /\ act'.at = "query" => act'.linear = SharedHas("LINEAR_API_KEY")
  PROVE  SpeaksInv'
BY DEF SpeaksInv, Resolves, SharedHas, InUnit, CanaryForetells, ProbeForetells, verdicts, Starting

LEMMA SpeaksKept ==
  UnitTypeOK /\ TrustInv /\ SpeaksInv /\ [UnitNext]_unitVars => SpeaksInv'
<1> SUFFICES ASSUME UnitTypeOK, TrustInv, SpeaksInv, [UnitNext]_unitVars PROVE SpeaksInv'
  OBVIOUS
<1>t. act \in Activations /\ host \in Hosts /\ act.caller \in Environments
  BY UnitAssumption DEF UnitTypeOK, Activations
<1>r. proved /\ InUnit =>
        /\ act.caller.file = "shared" /\ host.files["shared"] # NoFile /\ host.chain # "broken"
  BY UnitReadsShared DEF SpeaksInv
<1>s. ASSUME proved, InUnit, NEW k \in Keys
      PROVE  /\ InFile("shared", k) = SharedHas(k) /\ SharedHas(k) # "absent"
             /\ ~Usable(SharedHas(k)) => Defect
  <2>1. InFile("shared", k) = SharedHas(k)
    BY <1>s, UnitReadsShared
  <2>2. SharedHas(k) # "absent"
    BY <1>s DEF SpeaksInv
  <2>3. ~Usable(SharedHas(k)) => SharedHas(k) = "blank"
    BY <2>2 DEF Usable
  <2> QED
    BY <2>1, <2>2, <2>3 DEF Defect
<1>k. "LINEAR_API_KEY" \in Keys /\ StoreKeys \subseteq Keys
  BY DEF Keys
<1>1. CASE UNCHANGED unitVars
  BY <1>1 DEF unitVars, SpeaksInv, Resolves, SharedHas, InUnit, CanaryForetells, ProbeForetells
<1>2. CASE HostStep
  BY <1>2, HostStepEdits, EditFields
     DEF SpeaksInv, InUnit, CanaryForetells, ProbeForetells
<1>3. ASSUME NEW c \in Callers, NEW command \in Commands, Calls(c, command) PROVE SpeaksInv'
  <2>1. host' = host /\ (proved' <=> proved) /\ (probed' <=> probed)
    BY <1>3, CallFields DEF Frame, verdicts
  <2>2. c.python = "unset" /\ Resolves => Interpreter(c) \notin {"aborted", "notfound"}
    BY DEF Resolves, Interpreter
  <2>3. c.python = "unset" /\ Interpreter(c) \notin {"aborted", "notfound"} => Resolves
    BY <1>t DEF Resolves, Interpreter, Hosts
  <2>4. c.origin = "unit" => c.python = "unset" /\ ~c.confined
    BY UnitAssumption
  <2>5. act'.caller = c /\ (InUnit' <=> c.origin = "unit")
    BY <1>3, CallFields DEF InUnit
  <2>6. act'.at = "idle" /\ c.origin = "unit" /\ Resolves => FALSE
    BY <1>3, CallFields, <2>2, <2>4
  <2>7. proved \/ probed => Resolves
    BY DEF SpeaksInv
  <2>8. CanaryForetells' /\ ProbeForetells'
    BY <2>1, <2>5, <2>6, <2>7 DEF CanaryForetells, ProbeForetells
  <2>9. act'.at \in {"canary", "probe"} =>
          c.origin # "unit" /\ Interpreter(c) \notin {"aborted", "notfound"}
    BY <1>3, CallFields
  <2>10. act'.at \notin {"connect", "query", "store"}
    BY <1>3, CallFields DEF Commands
  <2> QED
    BY <2>1, <2>3, <2>5, <2>8, <2>9, <2>10 DEF SpeaksInv, Resolves, SharedHas
<1>4. CASE Probe
  <2>1. act'.at = "idle" /\ act'.caller = act.caller /\ ~InUnit /\ host' = host
    BY <1>4, <1>t DEF Probe, Ended, Activations, SpeaksInv
  <2>2. probed' => Resolves /\ host.chain # "broken"
    BY <1>4 DEF Probe, ProbePasses, Imports, SpeaksInv
  <2>3. proved' <=> proved
    BY <1>4 DEF Probe
  <2> QED
    BY <2>1, <2>2, <2>3
       DEF SpeaksInv, Resolves, SharedHas, InUnit, CanaryForetells, ProbeForetells
<1>5. CASE Canary
  <2>1. act'.at = "idle" /\ act'.caller = act.caller /\ ~InUnit /\ host' = host
    BY <1>5, <1>t DEF Canary, Ended, Activations, SpeaksInv
  <2>2. CanaryPasses(act.caller) => act.caller.python = "unset"
    BY <1>t DEF CanaryPasses, Interpreter, Environments
  <2>3. proved' => /\ Resolves /\ host.chain # "broken" /\ host.files["shared"] # NoFile
                   /\ \A k \in Keys : SharedHas(k) # "absent"
    BY <1>5, <2>2 DEF Canary, CanaryPasses, Imports, SpeaksInv, SharedHas
  <2>4. probed' <=> probed
    BY <1>5 DEF Canary
  <2> QED
    BY <2>1, <2>3, <2>4
       DEF SpeaksInv, Resolves, SharedHas, InUnit, CanaryForetells, ProbeForetells
<1>6. CASE ReadsSettings
  <2>1. CASE act.caller.numbers = "unreadable"
    BY <1>6, <2>1, EndSpeaks DEF ReadsSettings, Defect
  <2>2. CASE Goes("check")
    BY <2>2, GoesFields, GoesOnSpeaks DEF Frame, Starting
  <2> QED
    BY <1>6, <2>1, <2>2 DEF ReadsSettings
<1>7. CASE ChecksSecrets
  <2>1. CASE EndsAs("failed") /\ host.files[act.caller.file] = NoFile
    BY <1>r, <2>1, EndSpeaks
  <2>2. CASE EndsAs("config") /\ Missing # {}
    <3>1. ASSUME proved, InUnit PROVE Defect
      <4>1. \A k \in Keys : Merged(act.environ, act.caller.file, k) = SharedHas(k)
        BY <1>7, <3>1, UnitReadsShared DEF ChecksSecrets
      <4>2. PICK k \in Keys : ~Usable(Merged(act.environ, act.caller.file, k))
        BY <2>2 DEF Missing
      <4>3. ~Usable(SharedHas(k))
        BY <4>1, <4>2
      <4> QED
        BY <1>s, <3>1, <4>3
    <3> QED
      BY <2>2, <3>1, EndSpeaks
  <2>3. CASE /\ act' = [act EXCEPT !.at = "export", !.stale = FALSE]
             /\ UNCHANGED <<host, verdicts, edits>>
    <3>1. act'.at = "export" /\ act'.caller = act.caller
      BY <1>t, <2>3 DEF Activations
    <3> QED
      BY <2>3, <3>1, GoesOnSpeaks DEF Starting
  <2> QED
    BY <1>7, <2>1, <2>2, <2>3 DEF ChecksSecrets
<1>8. CASE Exports
  <2>1. CASE EndsAs("secret") /\ host.files[act.caller.file] = NoFile
    BY <1>r, <2>1, EndSpeaks
  <2>2. CASE /\ act' = [act EXCEPT !.at = "connect",
                   !.environ = [k \in Keys |-> Merged(act.environ, act.caller.file, k)]]
             /\ UNCHANGED <<host, verdicts, edits>>
    <3>1. /\ act'.at = "connect" /\ act'.caller = act.caller
          /\ \A k \in StoreKeys : act'.environ[k] = Merged(act.environ, act.caller.file, k)
      BY <1>t, <2>2 DEF Activations, Keys
    <3>2. proved /\ InUnit => \A k \in StoreKeys : act'.environ[k] = SharedHas(k)
      BY <1>8, <3>1, UnitReadsShared DEF Exports, Keys
    <3> QED
      BY <2>2, <3>1, <3>2, GoesOnSpeaks DEF Starting
  <2> QED
    BY <1>8, <2>1, <2>2 DEF Exports
<1>9. CASE Connects
  <2>1. CASE EndsAs("import") /\ host.chain = "broken"
    BY <1>r, <2>1, EndSpeaks DEF SpeaksInv
  <2>2. CASE EndsAs("secret") /\ InFile("shared", "LINEAR_API_KEY") = "absent"
    <3>1. ~(proved /\ InUnit)
      BY <1>k, <1>s, <2>2
    <3> QED
      BY <2>2, <3>1, EndSpeaks
  <2>3. CASE /\ act' = [act EXCEPT !.at = "query", !.linear = InFile("shared", "LINEAR_API_KEY")]
             /\ UNCHANGED <<host, verdicts, edits>>
    <3>1. /\ act'.at = "query" /\ act'.caller = act.caller /\ act'.environ = act.environ
          /\ act'.linear = InFile("shared", "LINEAR_API_KEY")
      BY <1>t, <2>3 DEF Activations
    <3>2. proved /\ InUnit => /\ act'.linear = SharedHas("LINEAR_API_KEY")
                              /\ \A k \in StoreKeys : act'.environ[k] = SharedHas(k)
      <4>1. proved /\ InUnit => InFile("shared", "LINEAR_API_KEY") = SharedHas("LINEAR_API_KEY")
        BY <1>k, <1>s
      <4>2. proved /\ InUnit => \A k \in StoreKeys : act.environ[k] = SharedHas(k)
        BY <1>9 DEF Connects, LinearKey, SpeaksInv
      <4> QED
        BY <3>1, <4>1, <4>2
    <3> QED
      BY <2>3, <3>1, <3>2, GoesOnSpeaks DEF Starting
  <2> QED
    BY <1>9, <2>1, <2>2, <2>3 DEF Connects, LinearKey
<1>10. CASE QueriesLinear
  <2>1. CASE EndsAs("linear")
    BY <2>1, EndSpeaks DEF Harmless
  <2>2. CASE EndsAs("secret") /\ act.linear = "blank"
    <3>1. proved /\ InUnit => Defect
      BY <1>10, <2>2 DEF QueriesLinear, SpeaksInv, Defect, Keys
    <3> QED
      BY <2>2, <3>1, EndSpeaks
  <2>3. CASE Goes("store")
    BY <1>10, <2>3, GoesFields, GoesOnSpeaks DEF Frame, Starting, QueriesLinear, SpeaksInv
  <2> QED
    BY <1>10, <2>1, <2>2, <2>3 DEF QueriesLinear
<1>11. CASE MakesStore
  <2>0. proved /\ InUnit => \A k \in StoreKeys : act.environ[k] = SharedHas(k)
    BY <1>11 DEF MakesStore, SpeaksInv
  <2>1. CASE EndsAs("secret") /\ \E k \in StoreKeys : ~Usable(act.environ[k])
    <3>1. ASSUME proved, InUnit PROVE Defect
      <4>1. PICK k \in StoreKeys : ~Usable(act.environ[k])
        BY <2>1
      <4>2. ~Usable(SharedHas(k)) /\ k \in Keys
        BY <1>k, <2>0, <3>1, <4>1
      <4> QED
        BY <1>s, <3>1, <4>2
    <3> QED
      BY <2>1, <3>1, EndSpeaks
  <2>2. CASE /\ EndsAs("settings")
             /\ act.environ["SUPABASE_URL"] = "wrong" \/ act.caller.numbers = "refused"
    <3>1. proved /\ InUnit => Defect
      BY <2>0, <2>2 DEF Defect, Keys, StoreKeys
    <3> QED
      BY <2>2, <3>1, EndSpeaks
  <2>3. ASSUME NEW n, act' = [act EXCEPT !.at = "pass", !.left = n],
               UNCHANGED <<host, verdicts, edits>>
        PROVE  SpeaksInv'
    <3>1. act'.at = "pass" /\ act'.caller = act.caller
      BY <1>t, <2>3 DEF Activations
    <3> QED
      BY <2>3, <3>1, GoesOnSpeaks
  <2> QED
    BY <1>11, <2>1, <2>2, <2>3 DEF MakesStore
<1>12. CASE DispatchLate \/ PassEnds \/ PassRaises \/ Kills
  BY <1>12, EndSpeaks DEF DispatchLate, PassEnds, PassRaises, Kills, Harmless
<1>13. CASE DispatchEnds \/ Waits \/ Dawdles
  <2>1. /\ act'.at = act.at /\ act'.caller = act.caller
        /\ act'.environ = act.environ /\ act'.linear = act.linear
        /\ act.at \in Starting \cup {"pass"} /\ UNCHANGED <<host, verdicts>>
    BY <1>13, <1>t DEF DispatchEnds, Waits, Dawdles, Activations
  <2> QED
    BY <2>1, GoesOnSpeaks DEF SpeaksInv
<1> QED
  BY <1>1, <1>2, <1>3, <1>4, <1>5, <1>6, <1>7, <1>8, <1>9, <1>10, <1>11, <1>12, <1>13
     DEF UnitNext, UnitStep, HostStep

LEMMA SpeaksAlways == UnitSpec => []SpeaksInv
<1>1. UnitInit => TrustInv
  BY DEF UnitInit, TrustInv, ChecksSuffice
<1>2. UnitInit => SpeaksInv
  BY DEF UnitInit, SpeaksInv, CanaryForetells, ProbeForetells
<1> QED
  BY <1>1, <1>2, TrustKept, SpeaksKept, UnitTypes, PTL DEF UnitSpec

(* The unit gets to its pass on a host the canary passed on, but for what  *)
(* the canary does not look at.                                            *)
THEOREM CanarySpeaks == UnitSpec => []CanaryForetells
<1>1. SpeaksInv => CanaryForetells
  BY DEF SpeaksInv
<1> QED
  BY <1>1, SpeaksAlways, PTL

(* The unit finds its interpreter and imports the chain on a host the      *)
(* probe passed on.                                                        *)
THEOREM ProbeSpeaks == UnitSpec => []ProbeForetells
<1>1. SpeaksInv => ProbeForetells
  BY DEF SpeaksInv
<1> QED
  BY <1>1, SpeaksAlways, PTL

-------------------------------------------------------------------------------
(* The deadlines *)

(* What the dispatches of the bound may take together. *)
Allowance == DispatchBound(act.caller) * RunTimeout

(* Before the pass the age is what the calls took.  In the pass the        *)
(* dispatches left have their time ahead of them, but for the current one, *)
(* which has waited.                                                       *)
DeadlineInv ==
  /\ TimeoutsNest
  /\ act.at \in Starting => act.waited = 0 /\ (InUnit => act.age =< act.spare)
  /\ InUnit => act.at \notin {"canary", "probe"}
  /\ act.at = "pass" =>
       /\ act.left = 0 => act.waited = 0
       /\ InUnit => /\ act.waited =< act.age
                    /\ act.age + act.left * RunTimeout =< act.spare + Allowance + act.waited

LEMMA Products ==
  ASSUME NEW a \in Nat, NEW b \in Nat, NEW t \in Nat
  PROVE  /\ a * t \in Nat
         /\ a =< b => a * t =< b * t
         /\ a > 0 => (a - 1) * t = a * t - t /\ t =< a * t
<1>1. a * t \in Nat
  OBVIOUS
<1>2. a =< b => a * t =< b * t
  <2> SUFFICES ASSUME a =< b PROVE a * t =< b * t
    OBVIOUS
  <2>1. PICK d \in Nat : b = a + d
    BY b - a \in Nat
  <2>2. b * t = a * t + d * t /\ d * t \in Nat
    BY <2>1
  <2> QED
    BY <1>1, <2>2
<1>3. a > 0 => (a - 1) * t = a * t - t /\ t =< a * t
  <2> SUFFICES ASSUME a > 0 PROVE (a - 1) * t = a * t - t /\ t =< a * t
    OBVIOUS
  <2>1. (a - 1) * t = a * t - t
    OBVIOUS
  <2>2. (a - 1) * t \in Nat
    OBVIOUS
  <2> QED
    BY <1>1, <2>1, <2>2
<1> QED
  BY <1>1, <1>2, <1>3

LEMMA DeadlineKept == UnitTypeOK /\ DeadlineInv /\ [UnitNext]_unitVars => DeadlineInv'
<1> SUFFICES ASSUME UnitTypeOK, DeadlineInv, [UnitNext]_unitVars PROVE DeadlineInv'
  OBVIOUS
<1>t. /\ act \in Activations /\ act.caller \in Callers
      /\ act.left \in Nat /\ act.waited \in Nat /\ act.waited =< RunTimeout
      /\ act.age \in Nat /\ act.age =< StartTimeout
      /\ act.spare \in Nat /\ act.spare =< Slack
      /\ RunTimeout \in Nat /\ StartTimeout \in Nat /\ Slack \in Nat
  BY UnitAssumption DEF UnitTypeOK, Activations
<1>b. DispatchBound(act.caller) \in Nat /\ Allowance \in Nat
  BY <1>t, BoundIsPositive, Products DEF Allowance
<1>0. ASSUME NEW e, EndsAs(e), e \notin {"killed", "late"} PROVE DeadlineInv'
  BY <1>0, EndsFields DEF DeadlineInv, TimeoutsNest, Starting
<1>1. CASE UNCHANGED unitVars
  BY <1>1 DEF unitVars, DeadlineInv, TimeoutsNest, InUnit, Allowance
<1>2. CASE HostStep
  BY <1>2, HostStepEdits, EditFields DEF DeadlineInv, TimeoutsNest, InUnit, Allowance
<1>3. ASSUME NEW c \in Callers, NEW command \in Commands, Calls(c, command) PROVE DeadlineInv'
  <2>1. /\ act'.caller = c /\ act'.waited = 0 /\ act'.age = 0 /\ act'.spare = 0
        /\ act'.end \notin {"killed", "late"} /\ act'.at # "pass"
        /\ act'.at \in {"canary", "probe"} => c.origin # "unit"
    BY <1>3, CallFields DEF Commands
  <2>2. act'.age =< act'.spare
    BY <2>1
  <2>3. TimeoutsNest'
    BY <2>1 DEF TimeoutsNest
  <2> QED
    BY <2>1, <2>2, <2>3 DEF DeadlineInv, InUnit
<1>4. CASE Probe \/ Canary
  BY <1>4, <1>t DEF Probe, Canary, Ended, DeadlineInv, TimeoutsNest, Activations, Starting
<1>5. CASE ReadsSettings
  BY <1>0, <1>5, GoesFields DEF ReadsSettings, DeadlineInv, TimeoutsNest, InUnit, Starting
<1>6. CASE ChecksSecrets
  BY <1>0, <1>6, <1>t
     DEF ChecksSecrets, DeadlineInv, TimeoutsNest, InUnit, Starting, Activations
<1>7. CASE Exports
  BY <1>0, <1>7, <1>t DEF Exports, DeadlineInv, TimeoutsNest, InUnit, Starting, Activations
<1>8. CASE Connects
  BY <1>0, <1>8, <1>t DEF Connects, LinearKey, DeadlineInv, TimeoutsNest, InUnit, Starting, Activations
<1>9. CASE QueriesLinear
  BY <1>0, <1>9, GoesFields DEF QueriesLinear, DeadlineInv, TimeoutsNest, InUnit, Starting
<1>10. CASE MakesStore
  <2>1. ASSUME NEW n \in 0 .. DispatchBound(act.caller),
               act' = [act EXCEPT !.at = "pass", !.left = n],
               UNCHANGED <<host, verdicts, edits>>
        PROVE  DeadlineInv'
    <3>1. /\ act'.at = "pass" /\ act'.left = n /\ act'.caller = act.caller
          /\ act'.waited = act.waited /\ act'.age = act.age /\ act'.spare = act.spare
          /\ act'.end = act.end
      BY <1>t, <2>1 DEF Activations
    <3>2. n \in Nat /\ n * RunTimeout =< Allowance /\ n * RunTimeout \in Nat
      BY <1>t, <1>b, Products DEF Allowance
    <3>3. act.waited = 0 /\ (InUnit => act.age =< act.spare)
      BY <1>10 DEF MakesStore, DeadlineInv, Starting
    <3>4. Allowance' = Allowance /\ (InUnit' <=> InUnit)
      BY <3>1 DEF Allowance, InUnit
    <3>5. InUnit => act.age + n * RunTimeout =< act.spare + Allowance + 0
      BY <1>t, <1>b, <3>2, <3>3
    <3>6. TimeoutsNest'
      BY <3>1, <3>4 DEF DeadlineInv, TimeoutsNest
    <3> QED
      BY <1>t, <3>1, <3>3, <3>4, <3>5, <3>6 DEF DeadlineInv, Starting
  <2> QED
    BY <1>0, <1>10, <2>1 DEF MakesStore
<1>11. CASE PassEnds \/ PassRaises
  BY <1>0, <1>11 DEF PassEnds, PassRaises
<1>12. CASE Kills
  <2>1. act.age = StartTimeout /\ InUnit /\ act.at \in Starting \cup {"pass"} /\ EndsAs("killed")
    BY <1>12, <1>t DEF Kills, DeadlineInv, Activations, Places
  <2>2. StartTimeout =< Allowance + Slack
    <3>1. CASE act.at \in Starting
      BY <1>t, <1>b, <2>1, <3>1 DEF DeadlineInv
    <3>2. CASE act.at = "pass"
      <4>1. act.age + act.left * RunTimeout =< act.spare + Allowance + act.waited
        BY <2>1, <3>2 DEF DeadlineInv
      <4>2. act.waited =< act.left * RunTimeout /\ act.left * RunTimeout \in Nat
        BY <1>t, <3>2, Products DEF DeadlineInv
      <4> QED
        BY <1>t, <1>b, <2>1, <4>1, <4>2
    <3> QED
      BY <2>1, <3>1, <3>2
  <2>3. act'.at = "idle" /\ act'.end = "killed" /\ act'.caller = act.caller
    BY <2>1, EndsFields
  <2> QED
    BY <2>2, <2>3 DEF DeadlineInv, TimeoutsNest, Starting, Allowance
<1>13. CASE DispatchLate
  <2>1. InUnit => RunTimeout =< StartTimeout
    BY <1>13, <1>t DEF DispatchLate, DeadlineInv
  <2>2. act'.at = "idle" /\ act'.end = "late" /\ act'.caller = act.caller
    BY <1>13, EndsFields DEF DispatchLate
  <2> QED
    BY <2>1, <2>2 DEF DeadlineInv, TimeoutsNest, Starting, InUnit
<1>14. CASE DispatchEnds
  <2>1. /\ act'.at = "pass" /\ act'.left = act.left - 1 /\ act'.caller = act.caller
        /\ act'.waited = 0 /\ act'.age = act.age /\ act'.spare = act.spare
        /\ act'.end = act.end /\ act.at = "pass" /\ act.left > 0
    BY <1>14, <1>t DEF DispatchEnds, Activations
  <2>2. Allowance' = Allowance /\ (InUnit' <=> InUnit)
    BY <2>1 DEF Allowance, InUnit
  <2>3. InUnit => act.age + (act.left - 1) * RunTimeout =< act.spare + Allowance + 0
    <3>1. (act.left - 1) * RunTimeout = act.left * RunTimeout - RunTimeout
      BY <1>t, <2>1, Products
    <3>2. InUnit => act.age + act.left * RunTimeout =< act.spare + Allowance + act.waited
      BY <2>1 DEF DeadlineInv
    <3>3. act.left * RunTimeout \in Nat
      BY <1>t, Products
    <3> QED
      BY <1>t, <1>b, <3>1, <3>2, <3>3
  <2>4. TimeoutsNest'
    BY <2>1, <2>2 DEF DeadlineInv, TimeoutsNest
  <2> QED
    BY <1>t, <2>1, <2>2, <2>3, <2>4 DEF DeadlineInv, Starting
<1>15. CASE Waits
  <2>1. /\ act'.at = "pass" /\ act'.left = act.left /\ act'.caller = act.caller
        /\ act'.waited = act.waited + 1 /\ act'.spare = act.spare
        /\ act'.end = act.end /\ act.at = "pass" /\ act.left > 0
        /\ InUnit => act'.age = act.age + 1
    BY <1>15, <1>t DEF Waits, Activations, Older
  <2>2. Allowance' = Allowance /\ (InUnit' <=> InUnit)
    BY <2>1 DEF Allowance, InUnit
  <2>3. act.left * RunTimeout \in Nat
    BY <1>t, Products
  <2>4. InUnit => /\ act'.age + act.left * RunTimeout =< act.spare + Allowance + act'.waited
                  /\ act'.waited =< act'.age
    BY <1>t, <1>b, <2>1, <2>3 DEF DeadlineInv
  <2>5. TimeoutsNest'
    BY <2>1, <2>2 DEF DeadlineInv, TimeoutsNest
  <2> QED
    BY <1>t, <2>1, <2>2, <2>4, <2>5 DEF DeadlineInv, Starting
<1>16. CASE Dawdles
  <2>1. /\ act'.at = act.at /\ act'.left = act.left /\ act'.caller = act.caller
        /\ act'.waited = act.waited /\ act'.spare = act.spare + 1
        /\ act'.end = act.end /\ act.at \in Starting \cup {"pass"}
        /\ InUnit => act'.age = act.age + 1
    BY <1>16, <1>t DEF Dawdles, Activations, Older
  <2>2. Allowance' = Allowance /\ (InUnit' <=> InUnit)
    BY <2>1 DEF Allowance, InUnit
  <2>3. act.left * RunTimeout \in Nat
    BY <1>t, Products
  <2>4. act.at = "pass" /\ InUnit =>
          /\ act'.age + act.left * RunTimeout =< act'.spare + Allowance + act.waited
          /\ act.waited =< act'.age
    BY <1>t, <1>b, <2>1, <2>3 DEF DeadlineInv
  <2>5. act.at \in Starting /\ InUnit => act'.age =< act'.spare
    BY <1>t, <2>1 DEF DeadlineInv
  <2>6. TimeoutsNest'
    BY <2>1, <2>2 DEF DeadlineInv, TimeoutsNest
  <2> QED
    BY <2>1, <2>2, <2>4, <2>5, <2>6 DEF DeadlineInv, Starting
<1> QED
  BY <1>1, <1>2, <1>3, <1>4, <1>5, <1>6, <1>7, <1>8, <1>9, <1>10, <1>11, <1>12, <1>13,
     <1>14, <1>15, <1>16
     DEF UnitNext, UnitStep, HostStep

(* systemd only kills a tick whose bound leaves too much to wait for, and  *)
(* the adapter's deadline only passes in the unit when systemd's is not    *)
(* before it.                                                              *)
THEOREM DeadlinesNest == UnitSpec => []TimeoutsNest
<1>1. UnitInit => DeadlineInv
  BY DEF UnitInit, DeadlineInv, TimeoutsNest, Starting
<1>2. DeadlineInv => TimeoutsNest
  BY DEF DeadlineInv
<1> QED
  BY <1>1, <1>2, DeadlineKept, UnitTypes, PTL DEF UnitSpec

-------------------------------------------------------------------------------
(* The end of an activation *)

StartStage(place) ==
  CASE place = "import" -> 7
    [] place = "check" -> 6
    [] place = "export" -> 5
    [] place = "connect" -> 4
    [] place = "query" -> 3
    [] OTHER -> 2

(* What an activation has before it at most: the steps of its start, then  *)
(* for each dispatch that is left its wait and its end, and the time that  *)
(* its calls may still take.                                               *)
Wait == RunTimeout + 1
Remaining ==
  CASE act.at = "idle" -> 0
    [] act.at \in {"probe", "canary"} -> 1
    [] act.at = "pass" -> act.left * Wait - act.waited + 1 + (Slack - act.spare)
    [] OTHER -> DispatchBound(act.caller) * Wait + StartStage(act.at) + (Slack - act.spare)

(* Every step of an activation, the passing of time included, shortens     *)
(* what it has before it; what happens to the host leaves that alone.  No  *)
(* card has to end for it.  With fairness this is why an activation ends   *)
(* (poller_tick.py 240-283, kanban.py 117-133).                            *)
Shortens ==
  act.at # "idle" => Remaining' < Remaining \/ (HostStep /\ Remaining' = Remaining)
ActivationsShorten == [][Shortens]_unitVars

LEMMA RemainingIsNatural ==
  ASSUME UnitTypeOK, DeadlineInv
  PROVE  /\ Remaining \in Nat /\ (Remaining = 0 <=> act.at = "idle")
         /\ act.left * Wait \in Nat /\ DispatchBound(act.caller) * Wait \in Nat
<1>t. /\ act \in Activations /\ act.left \in Nat /\ act.waited \in Nat
      /\ act.waited =< RunTimeout
      /\ act.spare \in Nat /\ act.spare =< Slack
      /\ RunTimeout \in Nat /\ Slack \in Nat /\ Wait \in Nat
      /\ DispatchBound(act.caller) \in Nat
  BY UnitAssumption, BoundIsPositive DEF UnitTypeOK, Activations, Wait
<1>1. act.left * Wait \in Nat /\ DispatchBound(act.caller) * Wait \in Nat
  BY <1>t, Products
<1>2. act.left > 0 => Wait =< act.left * Wait
  BY <1>t, Products
<1>3. act.at = "pass" /\ act.left = 0 => act.waited = 0
  BY DEF DeadlineInv
<1>4. act.at = "pass" => Remaining \in Nat /\ Remaining > 0
  <2> SUFFICES ASSUME act.at = "pass" PROVE Remaining \in Nat /\ Remaining > 0
    OBVIOUS
  <2>1. Remaining = act.left * Wait - act.waited + 1 + (Slack - act.spare)
    BY DEF Remaining
  <2>2. act.waited =< act.left * Wait
    BY <1>t, <1>1, <1>2, <1>3 DEF Wait
  <2> QED
    BY <1>t, <1>1, <2>1, <2>2
<1>5. act.at \in Starting => Remaining \in Nat /\ Remaining > 0
  <2> SUFFICES ASSUME act.at \in Starting PROVE Remaining \in Nat /\ Remaining > 0
    OBVIOUS
  <2>1. Remaining = DispatchBound(act.caller) * Wait + StartStage(act.at) + (Slack - act.spare)
    BY DEF Remaining, Starting
  <2>2. StartStage(act.at) \in Nat /\ StartStage(act.at) > 0
    BY DEF StartStage
  <2> QED
    BY <1>t, <1>1, <2>1, <2>2
<1>6. act.at \in {"idle", "canary", "probe", "pass"} \cup Starting
  BY <1>t DEF Activations, Places
<1>7. act.at \in {"idle", "canary", "probe"} =>
        Remaining \in Nat /\ (Remaining = 0 <=> act.at = "idle")
  BY DEF Remaining
<1> QED
  BY <1>1, <1>4, <1>5, <1>6, <1>7 DEF Starting

LEMMA UnitShortens ==
  ASSUME UnitTypeOK, DeadlineInv, [UnitNext]_unitVars, act.at # "idle"
  PROVE  Remaining' < Remaining \/ (HostStep /\ Remaining' = Remaining) \/ UNCHANGED unitVars
<1>t. /\ act \in Activations /\ act.caller \in Callers
      /\ act.left \in Nat /\ act.waited \in Nat /\ act.waited =< RunTimeout
      /\ act.spare \in Nat /\ act.spare =< Slack
      /\ RunTimeout \in Nat /\ Slack \in Nat /\ Wait \in Nat
      /\ DispatchBound(act.caller) \in Nat
  BY UnitAssumption, BoundIsPositive DEF UnitTypeOK, Activations, Wait
<1>r. /\ Remaining \in Nat /\ Remaining > 0
      /\ act.left * Wait \in Nat /\ DispatchBound(act.caller) * Wait \in Nat
  BY RemainingIsNatural
<1>0. ASSUME NEW e, Ended(e) PROVE Remaining' < Remaining
  <2>1. act'.at = "idle"
    BY <1>0, <1>t DEF Ended, Activations
  <2>2. Remaining' = 0
    BY <2>1 DEF Remaining
  <2> QED
    BY <1>r, <2>2
<1>1. ASSUME NEW place \in Starting, act.at \in Starting, act'.at = place,
             act'.caller = act.caller, act'.spare = act.spare,
             StartStage(place) < StartStage(act.at)
      PROVE  Remaining' < Remaining
  <2>1. /\ Remaining = DispatchBound(act.caller) * Wait + StartStage(act.at) + (Slack - act.spare)
        /\ Remaining' = DispatchBound(act.caller) * Wait + StartStage(place) + (Slack - act.spare)
    BY <1>1 DEF Remaining, Starting
  <2>2. StartStage(place) \in Nat /\ StartStage(act.at) \in Nat
    BY DEF StartStage
  <2> QED
    BY <1>t, <1>r, <1>1, <2>1, <2>2
<1>2. CASE HostStep
  <2>1. act' = [act EXCEPT !.stale = TRUE]
    BY <1>2, HostStepEdits DEF Edit
  <2>2. /\ act'.at = act.at /\ act'.caller = act.caller /\ act'.left = act.left
        /\ act'.waited = act.waited /\ act'.spare = act.spare
    BY <1>t, <2>1 DEF Activations
  <2>3. Remaining' = Remaining
    BY <2>2 DEF Remaining
  <2> QED
    BY <1>2, <2>3
<1>3. CASE Probe \/ Canary \/ PassEnds \/ PassRaises \/ Kills \/ DispatchLate
  BY <1>0, <1>3 DEF Probe, Canary, PassEnds, PassRaises, Kills, DispatchLate, EndsAs
<1>4. CASE ReadsSettings \/ ChecksSecrets \/ Exports \/ Connects \/ QueriesLinear
  <2>1. CASE \E e : Ended(e)
    BY <1>0, <2>1
  <2>2. CASE ~ \E e : Ended(e)
    <3>1. \/ act.at = "import" /\ act'.at = "check"
          \/ act.at = "check" /\ act'.at = "export"
          \/ act.at = "export" /\ act'.at = "connect"
          \/ act.at = "connect" /\ act'.at = "query"
          \/ act.at = "query" /\ act'.at = "store"
      BY <1>t, <1>4, <2>2
         DEF ReadsSettings, ChecksSecrets, Exports, Connects, QueriesLinear, EndsAs, Goes, GoTo,
             Activations
    <3>2. act'.caller = act.caller /\ act'.spare = act.spare
      BY <1>t, <1>4, <2>2
         DEF ReadsSettings, ChecksSecrets, Exports, Connects, QueriesLinear, EndsAs, Goes, GoTo,
             Activations
    <3> QED
      BY <1>1, <3>1, <3>2 DEF StartStage, Starting
  <2> QED
    BY <2>1, <2>2
<1>5. CASE MakesStore
  <2>1. CASE \E e : Ended(e)
    BY <1>0, <2>1
  <2>2. CASE ~ \E e : Ended(e)
    <3>1. PICK n \in 0 .. DispatchBound(act.caller) :
            act' = [act EXCEPT !.at = "pass", !.left = n]
      BY <1>5, <2>2 DEF MakesStore, EndsAs
    <3>2. /\ act'.at = "pass" /\ act'.left = n /\ act'.spare = act.spare
          /\ act'.waited = act.waited /\ act.at = "store"
      BY <1>t, <1>5, <3>1 DEF Activations, MakesStore
    <3>3. n \in Nat /\ n * Wait \in Nat /\ n * Wait =< DispatchBound(act.caller) * Wait
      BY <1>t, Products
    <3>4. /\ Remaining = DispatchBound(act.caller) * Wait + 2 + (Slack - act.spare)
          /\ Remaining' = n * Wait - act.waited + 1 + (Slack - act.spare)
      BY <3>2 DEF Remaining, StartStage
    <3> QED
      BY <1>t, <1>r, <3>3, <3>4
  <2> QED
    BY <2>1, <2>2
<1>6. CASE DispatchEnds
  <2>1. /\ act'.at = "pass" /\ act'.left = act.left - 1 /\ act'.spare = act.spare
        /\ act'.waited = 0 /\ act.at = "pass" /\ act.left > 0
    BY <1>t, <1>6 DEF DispatchEnds, Activations
  <2>2. (act.left - 1) * Wait = act.left * Wait - Wait
    BY <1>t, <2>1, Products
  <2>3. /\ Remaining = act.left * Wait - act.waited + 1 + (Slack - act.spare)
        /\ Remaining' = (act.left - 1) * Wait - 0 + 1 + (Slack - act.spare)
    BY <2>1 DEF Remaining
  <2>4. act.waited < Wait
    BY <1>t DEF Wait
  <2> QED
    BY <1>t, <1>r, <2>2, <2>3, <2>4
<1>7. CASE Waits
  <2>1. /\ act'.at = "pass" /\ act'.left = act.left /\ act'.spare = act.spare
        /\ act'.waited = act.waited + 1 /\ act.at = "pass"
    BY <1>t, <1>7 DEF Waits, Activations
  <2>2. /\ Remaining = act.left * Wait - act.waited + 1 + (Slack - act.spare)
        /\ Remaining' = act.left * Wait - (act.waited + 1) + 1 + (Slack - act.spare)
    BY <2>1 DEF Remaining
  <2> QED
    BY <1>t, <1>r, <2>2
<1>8. CASE Dawdles
  <2>1. /\ act'.at = act.at /\ act'.left = act.left /\ act'.caller = act.caller
        /\ act'.waited = act.waited /\ act'.spare = act.spare + 1
        /\ act.at \in Starting \cup {"pass"}
    BY <1>t, <1>8 DEF Dawdles, Activations
  <2>2. CASE act.at = "pass"
    <3>1. /\ Remaining = act.left * Wait - act.waited + 1 + (Slack - act.spare)
          /\ Remaining' = act.left * Wait - act.waited + 1 + (Slack - (act.spare + 1))
      BY <2>1, <2>2 DEF Remaining
    <3> QED
      BY <1>t, <1>r, <3>1
  <2>3. CASE act.at \in Starting
    <3>1. /\ Remaining = DispatchBound(act.caller) * Wait + StartStage(act.at) + (Slack - act.spare)
          /\ Remaining' = DispatchBound(act.caller) * Wait + StartStage(act.at)
                            + (Slack - (act.spare + 1))
      BY <2>1, <2>3 DEF Remaining, Starting
    <3>2. StartStage(act.at) \in Nat
      BY DEF StartStage
    <3> QED
      BY <1>t, <1>r, <3>1, <3>2
  <2> QED
    BY <2>1, <2>2, <2>3
<1>9. CASE \E c \in Callers, command \in Commands : Calls(c, command)
  BY <1>9 DEF Calls
<1> QED
  BY <1>2, <1>3, <1>4, <1>5, <1>6, <1>7, <1>8, <1>9 DEF UnitNext, UnitStep, HostStep

(* The safety half of ActivationEnds, for any bound and any timeouts; what *)
(* is shortened is a natural number, and 0 only between activations.       *)
THEOREM ActivationsEndSoon ==
  UnitSpec => ActivationsShorten /\ [](Remaining \in Nat /\ (Remaining = 0 <=> act.at = "idle"))
<1>1. UnitInit => DeadlineInv
  BY DEF UnitInit, DeadlineInv, TimeoutsNest, Starting
<1>2. UnitTypeOK /\ DeadlineInv /\ [UnitNext]_unitVars => [Shortens]_unitVars
  BY UnitShortens DEF Shortens
<1>3. UnitTypeOK /\ DeadlineInv => Remaining \in Nat /\ (Remaining = 0 <=> act.at = "idle")
  BY RemainingIsNatural
<1> QED
  BY <1>1, <1>2, <1>3, DeadlineKept, UnitTypes, PTL DEF UnitSpec, ActivationsShorten
===============================================================================
