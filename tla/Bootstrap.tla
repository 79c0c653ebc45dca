------------------------------ MODULE Bootstrap ------------------------------
(***************************************************************************)
(* bootstrap.py: one command that builds the virtualenv, installs what     *)
(* requirements.txt asks for, writes the first configuration and starts    *)
(* the console; run again, it does only what is missing.                   *)
(*                                                                         *)
(* What tells it that nothing is missing are traces on disk: an            *)
(* interpreter in .venv, a stamp with the fingerprint of the requirements, *)
(* a file of the right name.  A run can end between any two of its steps   *)
(* and the tree can change between and during runs, so the question is     *)
(* what such a trace is worth to the run that finds it.                    *)
(***************************************************************************)
EXTENDS Integers

CONSTANTS
  ReqsCap,   \* bound: how often requirements.txt changes
  PyCap,     \* bound: how often the machine's Python is upgraded
  StopCap,   \* bound: how often a run is stopped or a tool fails
  None

ASSUME CapAssumption ==
  ReqsCap \in Nat \ {0} /\ PyCap \in Nat \ {0} /\ StopCap \in Nat

VARIABLES
  tree,       \* the requirements and the Python that the next run finds
  venv,       \* .venv: "absent", "bare" (an interpreter without pip), "ready"
  installed,  \* installed[v]: what Python v finds in .venv, for the console
              \* and for its tests: the requirements they satisfy, 0 for none
  stamp,      \* .venv/.mesh-spy-requirements: a fingerprint, or None
  config,     \* config/config.yaml
  run,        \* the run of bootstrap.py, its options and its progress
  torn,       \* history: .venv was removed in part only, and not whole since
  stops       \* bound: stops and failures so far

vars == <<tree, venv, installed, stamp, config, run, torn, stops>>

Prints   == [reqs : 1..ReqsCap, py : 1..PyCap, dev : BOOLEAN]
ASSUME NoneAssumption == None \notin Prints

Packages == [main : 0..ReqsCap, devs : 0..ReqsCap]
Nothing  == [v \in 1..PyCap |-> [main |-> 0, devs |-> 0]]
Steps    == {"idle", "start", "create", "making", "sync", "upgrade", "pip",
             "stamp", "config", "copying", "finish", "up"}
Runs     == [at : Steps, dev : BOOLEAN, skip : BOOLEAN, recreate : BOOLEAN,
             wanted : Prints \cup {None}]
Idle     == [at |-> "idle", dev |-> FALSE, skip |-> FALSE, recreate |-> FALSE,
             wanted |-> None]

TypeOK ==
  /\ tree \in [reqs : 1..ReqsCap, py : 1..PyCap]
  /\ venv \in {"absent", "bare", "ready"}
  /\ installed \in [1..PyCap -> Packages]
  /\ stamp \in Prints \cup {None}
  /\ config \in {"none", "cut", "example", "edited"}
  /\ run \in Runs
  /\ run.at \in {"upgrade", "pip", "stamp"} => run.wanted # None
  /\ torn \in BOOLEAN /\ stops \in 0..StopCap

\* A fresh clone.
Init ==
  /\ tree = [reqs |-> 1, py |-> 1]
  /\ venv = "absent" /\ installed = Nothing /\ stamp = None
  /\ config = "none"
  /\ run = Idle /\ torn = FALSE /\ stops = 0

-----------------------------------------------------------------------------
(* create_venv.                                                            *)

GoTo(step) == run' = [run EXCEPT !.at = step]
AfterVenv  == IF run.skip THEN "config" ELSE "sync"
HasPython  == venv # "absent"

Start(dev, skip, recreate) ==
  /\ run = Idle
  /\ run' = [at |-> "start", dev |-> dev, skip |-> skip, recreate |-> recreate,
             wanted |-> None]
  /\ UNCHANGED <<tree, venv, installed, stamp, config, torn, stops>>

Keep ==
  /\ run.at = "start" /\ ~run.recreate
  /\ GoTo("create")
  /\ UNCHANGED <<tree, venv, installed, stamp, config, torn, stops>>

\* rmtree, when it can remove everything.
WrongRemove ==    \* an interpreter that is there is returned first
  /\ run.at = "start" /\ run.recreate
  /\ GoTo("create")
  /\ IF HasPython THEN UNCHANGED <<venv, installed, stamp, torn>>
     ELSE /\ venv' = "absent" /\ installed' = Nothing /\ stamp' = None
          /\ torn' = FALSE
  /\ UNCHANGED <<tree, config, stops>>
Remove ==
  /\ run.at = "start" /\ run.recreate
  /\ venv' = "absent" /\ installed' = Nothing /\ stamp' = None
  /\ torn' = FALSE
  /\ GoTo("create")
  /\ UNCHANGED <<tree, config, stops>>

\* rmtree is stopped, or ignores that it cannot remove some of the files: any
\* part of what was there may remain.
RemovePart ==
  /\ run.at = "start" /\ run.recreate
  /\ venv # "absent" \/ torn
  /\ stops < StopCap
  /\ stops' = stops + 1
  /\ torn' = TRUE
  /\ venv' \in IF venv = "ready" THEN {"absent", "bare", "ready"} ELSE {"absent", venv}
  /\ installed' \in {installed, Nothing}
  /\ stamp' \in {stamp, None}
  /\ run' \in {Idle, [run EXCEPT !.at = "create"]}
  /\ UNCHANGED <<tree, config>>

UseVenv ==
  /\ run.at = "create" /\ HasPython
  /\ GoTo(AfterVenv)
  /\ UNCHANGED <<tree, venv, installed, stamp, config, torn, stops>>

\* python -m venv: the interpreter comes first and pip last, and whatever stops
\* it in between leaves the interpreter.
MakeVenv ==
  /\ run.at = "create" /\ ~HasPython
  /\ venv' = "bare"
  /\ GoTo("making")
  /\ UNCHANGED <<tree, installed, stamp, config, torn, stops>>

AddPip ==
  /\ run.at = "making"
  /\ venv' = "ready"
  /\ GoTo(AfterVenv)
  /\ UNCHANGED <<tree, installed, stamp, config, torn, stops>>

-----------------------------------------------------------------------------
(* sync_dependencies.                                                      *)

WrongFingerprint(dev) == [reqs |-> tree.reqs, py |-> 1, dev |-> dev]
\* requirements_fingerprint.
Fingerprint(dev) == [reqs |-> tree.reqs, py |-> tree.py, dev |-> dev]

WrongSync ==    \* the fingerprint is taken only to compare it with the stamp
  /\ run.at = "sync"
  /\ run' = [run EXCEPT !.wanted = IF run.recreate THEN None ELSE Fingerprint(run.dev),
                        !.at = IF ~run.recreate /\ stamp = Fingerprint(run.dev)
                               THEN "config" ELSE "upgrade"]
  /\ UNCHANGED <<tree, venv, installed, stamp, config, torn, stops>>
\* An install is skipped when the stamp matches, unless --recreate forces it.
Sync ==
  /\ run.at = "sync"
  /\ run' = [run EXCEPT !.wanted = Fingerprint(run.dev),
                        !.at = IF ~run.recreate /\ stamp = Fingerprint(run.dev)
                               THEN "config" ELSE "upgrade"]
  /\ UNCHANGED <<tree, venv, installed, stamp, config, torn, stops>>

\* A stamp that cannot be read counts as one that does not match.
SyncUnread ==
  /\ run.at = "sync" /\ stamp # None
  /\ run' = [run EXCEPT !.wanted = Fingerprint(run.dev), !.at = "upgrade"]
  /\ UNCHANGED <<tree, venv, installed, stamp, config, torn, stops>>

\* pip upgrades itself; that it fails is ignored.
UpgradePip ==
  /\ run.at = "upgrade"
  /\ GoTo("pip")
  /\ UNCHANGED <<tree, venv, installed, stamp, config, torn, stops>>

\* What requirements.txt (or requirements-dev.txt, which includes it) asks for,
\* as pip finds it, replaces what was there.
Install ==
  /\ run.at = "pip" /\ venv = "ready"
  /\ installed' = [installed EXCEPT ![tree.py] =
                     [main |-> tree.reqs, devs |-> IF run.dev THEN tree.reqs ELSE @.devs]]
  /\ GoTo("stamp")
  /\ UNCHANGED <<tree, venv, stamp, config, torn, stops>>

WrongNoPip ==    \* only the exit of the first pip is looked at
  /\ run.at = "pip" /\ venv = "bare"
  /\ GoTo("stamp")
  /\ UNCHANGED <<tree, venv, installed, stamp, config, torn, stops>>
\* Without pip nothing is installed, and the run ends.
NoPip ==
  /\ run.at = "pip" /\ venv # "ready"
  /\ run' = Idle
  /\ UNCHANGED <<tree, venv, installed, stamp, config, torn, stops>>

WriteStamp ==
  /\ run.at = "stamp"
  /\ stamp' = run.wanted
  /\ GoTo("config")
  /\ UNCHANGED <<tree, venv, installed, config, torn, stops>>

-----------------------------------------------------------------------------
(* ensure_config, and what main does after setup.                          *)

UseConfig ==
  /\ run.at = "config" /\ config # "none"
  /\ GoTo("finish")
  /\ UNCHANGED <<tree, venv, installed, stamp, config, torn, stops>>

\* copyfile: the new file is there, empty, before it has its contents.
WrongOpenConfig ==    \* written anew with every rebuild
  /\ run.at = "config" /\ (config = "none" \/ run.recreate)
  /\ config' = "cut"
  /\ GoTo("copying")
  /\ UNCHANGED <<tree, venv, installed, stamp, torn, stops>>
OpenConfig ==
  /\ run.at = "config" /\ config = "none"
  /\ config' = "cut"
  /\ GoTo("copying")
  /\ UNCHANGED <<tree, venv, installed, stamp, torn, stops>>

FillConfig ==
  /\ run.at = "copying"
  /\ config' = "example"
  /\ GoTo("finish")
  /\ UNCHANGED <<tree, venv, installed, stamp, torn, stops>>

\* --setup-only, or --list-ports.
Finish ==
  /\ run.at = "finish"
  /\ run' = Idle
  /\ UNCHANGED <<tree, venv, installed, stamp, config, torn, stops>>

Current == installed[tree.py].main = tree.reqs

\* launch: the console imports what is installed.  It comes up if that is what
\* this tree asks for, and may come up or not if it is not.
Launch ==
  /\ run.at = "finish" /\ HasPython
  /\ installed[tree.py].main # 0
  /\ GoTo("up")
  /\ UNCHANGED <<tree, venv, installed, stamp, config, torn, stops>>

LaunchFails ==
  /\ run.at = "finish"
  /\ ~Current \/ torn
  /\ run' = Idle
  /\ UNCHANGED <<tree, venv, installed, stamp, config, torn, stops>>

Quit ==
  /\ run.at = "up"
  /\ run' = Idle
  /\ UNCHANGED <<tree, venv, installed, stamp, config, torn, stops>>

-----------------------------------------------------------------------------
(* What stops a run, and what changes under it.                            *)

\* pip was stopped while it replaced packages; those that were already what is
\* asked for it does not touch.
Partial(old, asked) ==
  IF asked /\ old # tree.reqs THEN {old, 0, tree.reqs} ELSE {old}

\* The run is interrupted, or a tool it calls fails and it dies: an old Python,
\* no venv module, no network, no example to copy.
Stop ==
  /\ run.at \in Steps \ {"idle", "up"}
  /\ stops < StopCap
  /\ stops' = stops + 1
  /\ venv' \in IF run.at = "upgrade" /\ venv = "ready" THEN {"bare", "ready"} ELSE {venv}
  /\ \E main \in Partial(installed[tree.py].main, run.at = "pip" /\ venv = "ready"),
        devs \in Partial(installed[tree.py].devs, run.at = "pip" /\ venv = "ready" /\ run.dev) :
       installed' = [installed EXCEPT ![tree.py] = [main |-> main, devs |-> devs]]
  /\ stamp' \in IF run.at = "stamp" THEN {stamp, None} ELSE {stamp}
  /\ run' = Idle
  /\ UNCHANGED <<tree, config, torn>>

\* git pull, at any time.
Pull ==
  /\ tree.reqs < ReqsCap
  /\ tree' = [tree EXCEPT !.reqs = @ + 1]
  /\ UNCHANGED <<venv, installed, stamp, config, run, torn, stops>>

\* The system's Python is replaced by a newer one, and .venv's with it, which
\* looks for packages in a directory of its own and finds no pip there.
Upgrade ==
  /\ run = Idle
  /\ tree.py < PyCap
  /\ tree' = [tree EXCEPT !.py = @ + 1]
  /\ venv' = IF venv = "ready" THEN "bare" ELSE venv
  /\ UNCHANGED <<installed, stamp, config, run, torn, stops>>

\* The operator edits the configuration.
Edit ==
  /\ config \in {"cut", "example"} /\ run.at # "copying"
  /\ config' = "edited"
  /\ UNCHANGED <<tree, venv, installed, stamp, run, torn, stops>>

-----------------------------------------------------------------------------
\* What a run does next, unless it is stopped.
Proceed ==
  \/ Keep \/ Remove \/ UseVenv \/ MakeVenv \/ AddPip
  \/ Sync \/ SyncUnread \/ UpgradePip \/ Install \/ NoPip \/ WriteStamp
  \/ UseConfig \/ OpenConfig \/ FillConfig \/ Launch \/ LaunchFails

Next ==
  \/ \E dev, skip, recreate \in BOOLEAN : Start(dev, skip, recreate)
  \/ Proceed \/ Finish \/ Quit \/ RemovePart \/ Stop
  \/ Pull \/ Upgrade \/ Edit

Spec == Init /\ [][Next]_vars

\* A run goes on until it ends; and an operator without a console sooner or
\* later tries --recreate, and again if that does not help.
Fairness ==
  /\ WF_vars(Proceed)
  /\ SF_vars(Start(FALSE, FALSE, TRUE))
  /\ SF_vars(Launch)

FairSpec == Spec /\ Fairness

-----------------------------------------------------------------------------
(* Properties.                                                             *)

Satisfied(print) ==
  /\ venv # "absent"
  /\ installed[print.py].main >= print.reqs
  /\ print.dev => installed[print.py].devs >= print.reqs

\* A stamp that could make a run skip pip is true, whatever runs were stopped,
\* mixed --dev with plain ones, or installed while the tree changed: what it
\* says is installed is installed.  Only what a partial removal left may lie.
StampSound ==
  stamp # None /\ stamp.reqs = tree.reqs /\ stamp.py = tree.py /\ ~torn
    => Satisfied(stamp)

\* A run that has passed the dependencies has them: all that the requirements
\* it looked at ask for, for the Python it found, and its configuration.
LaunchSound ==
  run.at \in {"finish", "up"} =>
    /\ config # "none"
    /\ ~run.skip /\ ~torn => Satisfied(run.wanted)

\* The operator's configuration is never overwritten, not even by --recreate.
ConfigKept == [][config = "edited" => config' = "edited"]_vars

\* Whatever earlier runs left behind, the console comes up again: --recreate
\* repairs a virtualenv without pip, a partial removal and a partial install.
RecreateRepairs == []<>(run.at = "up")
=============================================================================
