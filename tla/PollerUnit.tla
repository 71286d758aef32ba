------------------------------ MODULE PollerUnit ------------------------------
(***************************************************************************)
(* One activation of the poller after the other: run_poller.sh, which      *)
(* picks an interpreter and executes the probe, the canary or the tick;    *)
(* the start of the tick, main of poller_tick.py up to its pass, with its  *)
(* three reads of the secrets; the pass itself only with its deadlines,    *)
(* since PollerTick has the rest.  The unit of systemd calls the tick and  *)
(* ends it after TimeoutStartSec; a shell calls what it likes.  Operators  *)
(* and updates of Hermes change the host between any two steps.            *)
(***************************************************************************)
EXTENDS Naturals

CONSTANTS
  Callers,       \* the environments run_poller.sh is called from
  StartTimeout,  \* TimeoutStartSec of the service
  RunTimeout,    \* POLLER_RUN_TIMEOUT_SECONDS
  Slack,         \* what the calls outside of the waits may take together
  MaxEdits,      \* bound of the model: changes of the host
  NoFile         \* a file that does not exist

(* REQUIRED_KEYS, and what may stand for one in a file or an environment:  *)
(* a "wrong" URL is not https, a wrong key is one that Linear refuses.     *)
StoreKeys == {"SUPABASE_URL", "SUPABASE_SERVICE_ROLE_KEY"}
Keys == StoreKeys \cup {"LINEAR_API_KEY"}
Values == {"absent", "blank", "wrong", "good"}
Usable(v) == v \notin {"absent", "blank"}
Secrets == [Keys -> Values]
Files == {"shared", "other"}

(* python: POLLER_PYTHON; file: POLLER_ENV_FILE; bound:                    *)
(* POLLER_MAX_DISPATCH_PER_TICK, 0 for what is no number; numbers: the     *)
(* other POLLER_ variables.                                                *)
Environments == [
  origin : {"unit", "shell"}, confined : BOOLEAN, python : {"unset", "other"},
  file : Files, keys : Secrets, numbers : {"fine", "unreadable", "refused"}, bound : Nat]

ASSUME UnitAssumption ==
  /\ {StartTimeout, RunTimeout} \subseteq Nat \ {0} /\ {Slack, MaxEdits} \subseteq Nat
  /\ NoFile \notin Secrets
  /\ Callers \subseteq Environments
  /\ \A c \in Callers : c.origin = "unit" =>
       /\ ~c.confined /\ c.python = "unset" /\ c.file = "shared"
       /\ \A k \in Keys : c.keys[k] = "absent"

(* The host: the install of Hermes and its facts.json, the secrets, the    *)
(* extracted chain and what PIN.json was made of, the old worktree, the    *)
(* board, the unit files.                                                  *)
Trees == {"merged", "edited", "broken"}
Hosts == [
  facts : {"venv", "useless", "silent"}, fallback : BOOLEAN, hermes : BOOLEAN,
  files : [Files -> Secrets \cup {NoFile}], private : BOOLEAN,
  chain : Trees, pin : Trees \cup {"none"}, worktree : BOOLEAN,
  board : {"tasks", "empty", "unreadable"}, units : BOOLEAN]

VARIABLES
  host,
  act,      \* the activation, or what is left of the last one
  proved,   \* the canary passed with the file of the unit, and no edit since its start
  probed,   \* the same of the probe with the interpreter of the unit
  edits

unitVars == <<host, act, proved, probed, edits>>
verdicts == <<proved, probed>>

Starting == {"import", "check", "export", "connect", "query", "store"}
Places == {"idle", "canary", "probe", "pass"} \cup Starting

(* How an activation ends: with 0, with 1 in a check, in the wrapper, at a *)
(* setting, an import, a secret, a call of Linear, a failed pass or a late *)
(* card, with 2, 3, 78 and 127, or killed by systemd.                      *)
Ends == {"done", "failed", "aborted", "settings", "import", "secret", "linear",
         "chain", "late", "usage", "confined", "config", "notfound", "killed", "none"}

NoSecrets == [k \in Keys |-> "absent"]
GoodSecrets == [k \in Keys |-> "good"]

UnitInit ==
  /\ host = [facts |-> "venv", fallback |-> TRUE, hermes |-> TRUE,
             files |-> [f \in Files |-> GoodSecrets], private |-> TRUE,
             chain |-> "merged", pin |-> "merged", worktree |-> TRUE,
             board |-> "tasks", units |-> TRUE]
  /\ \E c \in Callers :
       act = [at |-> "idle", caller |-> c, command |-> "none", end |-> "none",
              environ |-> NoSecrets, linear |-> "absent", stale |-> FALSE,
              left |-> 0, waited |-> 0, age |-> 0, spare |-> 0]
  /\ proved = FALSE /\ probed = FALSE
  /\ edits = 0

Ended(e) == act' = [act EXCEPT !.at = "idle", !.end = e]
GoTo(place) == act' = [act EXCEPT !.at = place]
EndsAs(e) == Ended(e) /\ UNCHANGED <<host, verdicts, edits>>
Goes(place) == GoTo(place) /\ UNCHANGED <<host, verdicts, edits>>

-------------------------------------------------------------------------------
(* run_poller.sh *)

(* resolve_interpreter.  Under set -e a facts.json that names no           *)
(* environment ends the wrapper: the last grep of the pipe fails.          *)
Interpreter(c) ==
  IF c.python # "unset" THEN c.python
  ELSE [venv |-> "venv", silent |-> "aborted",
        useless |-> IF host.fallback THEN "fallback" ELSE "notfound"][host.facts]

Commands == {"canary", "probe", "tick", "usage"}

(* The wrapper refuses a call without arguments, and a tick in the shell   *)
(* of a worker.                                                            *)
Executes(c, command) == command # "usage" /\ ~(command = "tick" /\ c.confined)

(* The wrapper leaves the new process at a place, or ends. *)
Leaves(c, command, place, end) ==
  act' = [at |-> place, caller |-> c, command |-> command, end |-> end,
          environ |-> c.keys, linear |-> "absent", stale |-> FALSE,
          left |-> 0, waited |-> 0, age |-> 0, spare |-> 0]

Calls(c, command) ==
  /\ act.at = "idle"
  /\ c.origin = "unit" => command = "tick"
  /\ \/ Interpreter(c) = "aborted" /\ Leaves(c, command, "idle", "aborted")
     \/ /\ Interpreter(c) # "aborted"
        /\ \/ command = "usage" /\ Leaves(c, command, "idle", "usage")
           \/ command = "tick" /\ ~Executes(c, command) /\ Leaves(c, command, "idle", "confined")
           \/ /\ Executes(c, command)
              /\ IF Interpreter(c) = "notfound" THEN Leaves(c, command, "idle", "notfound")
                 ELSE Leaves(c, command, IF command = "tick" THEN "import" ELSE command, "none")
  /\ UNCHANGED <<host, verdicts, edits>>

-------------------------------------------------------------------------------
(* The probe and the canary *)

(* Neither the live checkout nor the chain fails to import. *)
Imports == host.hermes /\ host.chain # "broken"

(* Mutant: an import that fails is reported and not counted. *)
MutantProbePasses == host.worktree /\ host.board # "unreadable"

(* probe_env.main: what it imports is the chain of PYTHONPATH, but the     *)
(* commit it looks at is the one of the old worktree.                      *)
ProbePasses == Imports /\ host.worktree /\ host.board # "unreadable"

(* Mutant: the file is looked for, and not what is in it. *)
MutantCanaryPasses(c) ==
  /\ Interpreter(c) # "other"
  /\ host.pin = host.chain
  /\ Imports
  /\ host.board = "tasks" /\ host.units /\ host.private
  /\ host.files[c.file] # NoFile

(* canary_readonly.main, without its optional call of Supabase: every      *)
(* check is made, and the result is that none failed.                      *)
CanaryPasses(c) ==
  /\ Interpreter(c) # "other"
  /\ host.pin = host.chain
  /\ Imports
  /\ host.board = "tasks"
  /\ host.units
  /\ host.private /\ host.files[c.file] # NoFile
  /\ \A k \in Keys : host.files[c.file][k] # "absent"

Probe ==
  /\ act.at = "probe"
  /\ Ended(IF ProbePasses THEN "done" ELSE "failed")
  /\ probed' = (probed \/ (ProbePasses /\ ~act.stale /\ act.caller.python = "unset"))
  /\ UNCHANGED <<host, proved, edits>>

Canary ==
  /\ act.at = "canary"
  /\ Ended(IF CanaryPasses(act.caller) THEN "done" ELSE "failed")
  /\ proved' = (proved \/ (CanaryPasses(act.caller) /\ ~act.stale /\ act.caller.file = "shared"))
  /\ UNCHANGED <<host, probed, edits>>

-------------------------------------------------------------------------------
(* The start of a tick *)

(* The constants of poller_tick are read when the module is imported. *)
ReadsSettings ==
  /\ act.at = "import"
  /\ IF act.caller.numbers = "unreadable" THEN EndsAs("settings") ELSE Goes("check")

(* load_env: what the file gives for a key. *)
InFile(f, k) == IF host.files[f] = NoFile THEN "absent" ELSE host.files[f][k]

(* The environment wins over the file, blank or not. *)
Merged(e, f, k) == IF e[k] # "absent" THEN e[k] ELSE InFile(f, k)

(* Mutant: a blank value counts as one. *)
MutantMissing == {k \in Keys : Merged(act.environ, act.caller.file, k) = "absent"}

(* missing_required *)
Missing == {k \in Keys : ~Usable(Merged(act.environ, act.caller.file, k))}

ChecksSecrets ==
  /\ act.at = "check"
  /\ IF host.files[act.caller.file] = NoFile THEN EndsAs("failed")
     ELSE IF Missing # {} THEN EndsAs("config")
     ELSE /\ act' = [act EXCEPT !.at = "export", !.stale = FALSE]
          /\ UNCHANGED <<host, verdicts, edits>>

(* export_into_environ, which reads the file again. *)
Exports ==
  /\ act.at = "export"
  /\ IF host.files[act.caller.file] = NoFile THEN EndsAs("secret")
     ELSE /\ act' = [act EXCEPT !.at = "connect",
               !.environ = [k \in Keys |-> Merged(act.environ, act.caller.file, k)]]
          /\ UNCHANGED <<host, verdicts, edits>>

(* Mutant: the key of Linear is read from another file. *)
MutantLinearKey == InFile("other", "LINEAR_API_KEY")

(* Linear() reads its key from the shared file, whatever POLLER_ENV_FILE   *)
(* and the environment say.                                                *)
LinearKey == InFile("shared", "LINEAR_API_KEY")

(* The chain is imported, and Linear() made. *)
Connects ==
  /\ act.at = "connect"
  /\ IF host.chain = "broken" THEN EndsAs("import")
     ELSE IF LinearKey = "absent" THEN EndsAs("secret")
     ELSE /\ act' = [act EXCEPT !.at = "query", !.linear = LinearKey]
          /\ UNCHANGED <<host, verdicts, edits>>

(* gql of main, outside of the try.  A refusal or a fault raises, if the   *)
(* answer has a body: one without is taken for a Linear without issues,    *)
(* whatever its status and whatever the key, and the tick goes on.         *)
QueriesLinear ==
  /\ act.at = "query"
  /\ \/ Goes("store")
     \/ act.linear = "blank" /\ EndsAs("secret")
     \/ act.linear # "blank" /\ EndsAs("linear")

(* max_dispatch_per_tick, and the fallback of _resolve_bound. *)
DispatchBound(c) == IF c.bound >= 1 THEN c.bound ELSE 1

(* Mutant: one issue more than the bound. *)
MutantMakesStore ==
  /\ act.at = "store"
  /\ IF \E k \in StoreKeys : ~Usable(act.environ[k]) THEN EndsAs("secret")
     ELSE \E n \in 0 .. DispatchBound(act.caller) + 1 :
            /\ n > 0 => act.linear = "good"
            /\ act' = [act EXCEPT !.at = "pass", !.left = n]
            /\ UNCHANGED <<host, verdicts, edits>>

(* SupabaseStore.from_environment, the constructor of AgentRuntime, and a  *)
(* pass over at most as many issues as the bound.  The pass asks Linear    *)
(* again with the same key, and only a key it accepts gets issues.         *)
MakesStore ==
  /\ act.at = "store"
  /\ IF \E k \in StoreKeys : ~Usable(act.environ[k]) THEN EndsAs("secret")
     ELSE IF act.environ["SUPABASE_URL"] = "wrong" \/ act.caller.numbers = "refused"
     THEN EndsAs("settings")
     ELSE \E n \in 0 .. DispatchBound(act.caller) :
            /\ n > 0 => act.linear = "good"
            /\ act' = [act EXCEPT !.at = "pass", !.left = n]
            /\ UNCHANGED <<host, verdicts, edits>>

-------------------------------------------------------------------------------
(* The pass and its deadlines *)

(* A dispatch ends in time, and run_once goes on. *)
DispatchEnds ==
  /\ act.at = "pass" /\ act.left > 0
  /\ act' = [act EXCEPT !.left = @ - 1, !.waited = 0]
  /\ UNCHANGED <<host, verdicts, edits>>

(* run_once raises anywhere. *)
PassRaises == act.at = "pass" /\ EndsAs("chain")

(* Mutant: a late card is waited for once more. *)
MutantDispatchLate ==
  /\ act.at = "pass" /\ act.left > 0 /\ act.waited = RunTimeout
  /\ act' = [act EXCEPT !.waited = 0]
  /\ UNCHANGED <<host, verdicts, edits>>

(* The adapter's own deadline; the exception ends the pass. *)
DispatchLate ==
  /\ act.at = "pass" /\ act.left > 0 /\ act.waited = RunTimeout
  /\ EndsAs("late")

PassEnds ==
  /\ act.at = "pass" /\ act.left = 0
  /\ EndsAs("done")

InUnit == act.caller.origin = "unit"

(* systemd ends the service. *)
Kills ==
  /\ act.at # "idle" /\ InUnit /\ act.age = StartTimeout
  /\ EndsAs("killed")

(* Time passes, while a tick waits for a card or in a call; it is up for   *)
(* the unit only.                                                          *)
TimeLeft == InUnit => act.age < StartTimeout
Older == IF InUnit THEN act.age + 1 ELSE act.age

(* Mutant: the wait has no deadline. *)
MutantWaits ==
  /\ act.at = "pass" /\ act.left > 0 /\ TimeLeft
  /\ act' = [act EXCEPT !.waited = IF @ < RunTimeout THEN @ + 1 ELSE @, !.age = Older]
  /\ UNCHANGED <<host, verdicts, edits>>

Waits ==
  /\ act.at = "pass" /\ act.left > 0 /\ act.waited < RunTimeout /\ TimeLeft
  /\ act' = [act EXCEPT !.waited = @ + 1, !.age = Older]
  /\ UNCHANGED <<host, verdicts, edits>>

Dawdles ==
  /\ act.at \in Starting \cup {"pass"} /\ act.spare < Slack /\ TimeLeft
  /\ act' = [act EXCEPT !.spare = @ + 1, !.age = Older]
  /\ UNCHANGED <<host, verdicts, edits>>

-------------------------------------------------------------------------------
(* What happens to the host *)

(* An edit makes every verdict and every earlier read out of date. *)
Edit ==
  /\ edits < MaxEdits /\ edits' = edits + 1
  /\ proved' = FALSE /\ probed' = FALSE
  /\ act' = [act EXCEPT !.stale = TRUE]

(* hermes update, or an edit of the live checkout. *)
UpdatesHermes ==
  /\ Edit
  /\ \E facts \in {"venv", "useless", "silent"}, fallback, hermes \in BOOLEAN :
       host' = [host EXCEPT !.facts = facts, !.fallback = fallback, !.hermes = hermes]

EditsSecrets ==
  /\ Edit
  /\ \E f \in Files :
       \/ host' = [host EXCEPT !.files[f] = NoFile]
       \/ \E k \in Keys, v \in Values :
            /\ host.files[f] # NoFile
            /\ host' = [host EXCEPT !.files[f] = [@ EXCEPT ![k] = v]]

EditsChain ==
  /\ Edit
  /\ \E tree \in Trees : host' = [host EXCEPT !.chain = tree, !.pin = "none"]

(* gen_pin.main: PIN.json says the merged commit of whatever is there. *)
GeneratesPin ==
  /\ Edit
  /\ host' = [host EXCEPT !.pin = host.chain]

EditsRest ==
  /\ Edit
  /\ \/ \E board \in {"tasks", "empty", "unreadable"} : host' = [host EXCEPT !.board = board]
     \/ \E private, units, worktree \in BOOLEAN :
          host' = [host EXCEPT !.private = private, !.units = units, !.worktree = worktree]

-------------------------------------------------------------------------------
(* The specification *)

UnitStep ==
  \/ Probe \/ Canary
  \/ ReadsSettings \/ ChecksSecrets \/ Exports \/ Connects \/ QueriesLinear \/ MakesStore
  \/ DispatchLate \/ PassEnds

UnitNext ==
  \/ \E c \in Callers, command \in Commands : Calls(c, command)
  \/ UnitStep \/ DispatchEnds \/ PassRaises \/ Waits \/ Dawdles \/ Kills
  \/ UpdatesHermes \/ EditsSecrets \/ EditsChain \/ GeneratesPin \/ EditsRest

UnitSpec == UnitInit /\ [][UnitNext]_unitVars

(* Every call of the start has a timeout, time passes, and systemd acts.   *)
(* That a card ends is not assumed.                                        *)
FairUnitSpec ==
  /\ UnitSpec
  /\ WF_unitVars(UnitStep)
  /\ WF_unitVars(Waits)
  /\ WF_unitVars(Kills)

-------------------------------------------------------------------------------
(* Properties *)

Activations == [
  at : Places, caller : Callers, command : Commands \cup {"none"}, end : Ends,
  environ : Secrets, linear : Values, stale : BOOLEAN,
  left : Nat, waited : 0 .. RunTimeout, age : 0 .. StartTimeout, spare : 0 .. Slack]

(* Type correctness; a pass has at most as many dispatches left as the     *)
(* bound.                                                                  *)
UnitTypeOK ==
  /\ host \in Hosts
  /\ act \in Activations
  /\ act.left =< DispatchBound(act.caller)
  /\ proved \in BOOLEAN /\ probed \in BOOLEAN
  /\ edits \in 0 .. MaxEdits

(* The secrets are read three times, by three functions, two of which know *)
(* POLLER_ENV_FILE and the environment and one neither.  In a pass both of *)
(* the store's can be used, what is dispatched is dispatched with a key    *)
(* Linear accepts, and if the caller has nothing of its own and nothing    *)
(* was edited since the check, all of them are what the shared file says;  *)
(* and no pass is made in the shell of a worker (poller_tick.py 241-256,   *)
(* smoke_lib.py 29, 40-44, 98-100, run_poller.sh 17-19).                   *)
HasOwn(c) == c.file # "shared" \/ \E k \in Keys : c.keys[k] # "absent"
PassIsEntitled ==
  act.at = "pass" =>
    /\ ~act.caller.confined
    /\ \A k \in StoreKeys : Usable(act.environ[k])
    /\ act.left > 0 => act.linear = "good"
    /\ ~act.stale /\ ~HasOwn(act.caller) =>
         /\ act.linear = InFile("shared", "LINEAR_API_KEY")
         /\ \A k \in Keys : act.environ[k] = InFile("shared", k)

(* missing_required looks at what the tick will use: no secret is missing  *)
(* or blank after it, unless the files were edited in between, or the      *)
(* caller has its own file or Linear key, which Linear() does not know     *)
(* (poller_tick.py 241-252, smoke_lib.py 29, 98-100).                      *)
ChecksSuffice ==
  act.end = "secret" =>
    act.stale \/ act.caller.file # "shared" \/ act.caller.keys["LINEAR_API_KEY"] # "absent"

(* The canary speaks for the unit (canary_readonly.py 3): on the host it   *)
(* passed on, the unit gets to its pass, or to Linear and no further, but  *)
(* for what it does not look at: numbers in the unit's environment, and a  *)
(* secret that is there and blank or wrong.                                *)
CanaryForetells ==
  proved /\ act.at = "idle" /\ InUnit =>
    \/ act.end \in {"done", "chain", "late", "killed", "linear"}
    \/ act.caller.numbers # "fine"
    \/ \E k \in Keys : host.files["shared"][k] \in {"blank", "wrong"}

(* Nor does a tick fail to find an interpreter or to import the chain on   *)
(* the host the probe passed on, though the probe looks at the commit of   *)
(* another tree (probe_env.py 21-22, 72-98).                               *)
ProbeForetells ==
  probed /\ act.at = "idle" /\ InUnit =>
    act.end \notin {"aborted", "notfound", "import"}

(* The deadlines: systemd kills no tick whose bound leaves room for every  *)
(* card to be late, and in the unit a card can only be late by its own     *)
(* deadline when that is not after systemd's (poller_tick.py 42,           *)
(* hermes-runtime-poller.service 23).                                      *)
TimeoutsNest ==
  /\ act.end = "killed" =>
       StartTimeout =< DispatchBound(act.caller) * RunTimeout + Slack
  /\ act.end = "late" /\ InUnit => RunTimeout =< StartTimeout

(* An activation ends, with cards that do not and files that change. *)
ActivationEnds == act.at # "idle" ~> act.at = "idle"

(* What run_poller.sh 48-50 says: it falls back to the pinned interpreter  *)
(* when the install cannot be resolved.                                    *)
FallsBack == act.end = "aborted" => ~host.fallback
===============================================================================
