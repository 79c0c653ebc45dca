-------------------------- MODULE Bootstrap_proofs --------------------------
(***************************************************************************)
(* Theorems about bootstrap.py, for any number of changes of the tree, of  *)
(* the system's Python, and of runs stopped half-way.                      *)
(***************************************************************************)
EXTENDS Bootstrap, TLAPS

\* Nothing on disk and nothing a run remembers is newer than the tree.
NotAhead ==
  /\ \A v \in 1..PyCap : installed[v].main <= tree.reqs /\ installed[v].devs <= tree.reqs
  /\ stamp # None => stamp.reqs <= tree.reqs /\ stamp.py <= tree.py
  /\ run.wanted # None => run.wanted.reqs <= tree.reqs /\ run.wanted.py = tree.py

\* From the making of the virtualenv on there is one.
Built == run.at \in Steps \ {"idle", "start", "create"} => venv # "absent"

\* What a run that did not skip pip knows from the install on.
Synced ==
  run.at \in {"stamp", "config", "copying", "finish", "up"} /\ ~run.skip =>
    run.wanted # None /\ (~torn => Satisfied(run.wanted))

Configured ==
  /\ run.at = "copying" => config = "cut"
  /\ run.at \in {"finish", "up"} => config # "none"

\* sync_dependencies is only called without --skip-pip, and goes by --dev.
Asked ==
  run.at \in {"sync", "upgrade", "pip", "stamp"} =>
    ~run.skip /\ (run.at # "sync" => run.wanted.dev = run.dev)

BootInv ==
  TypeOK /\ NotAhead /\ Built /\ Synced /\ Configured /\ Asked /\ StampSound

LEMMA InitInv == Init => BootInv
<1> SUFFICES ASSUME Init PROVE BootInv
  OBVIOUS
<1> USE CapAssumption DEF Init
<1>1. run = Idle /\ run \in Runs /\ run.at = "idle" /\ run.wanted = None
  BY DEF Idle, Runs, Steps
<1>2. installed \in [1..PyCap -> Packages]
      /\ \A v \in 1..PyCap : installed[v].main = 0 /\ installed[v].devs = 0
  BY DEF Nothing, Packages
<1>3. tree \in [reqs : 1..ReqsCap, py : 1..PyCap]
  OBVIOUS
<1>4. stops \in 0..StopCap
  OBVIOUS
<1>5. TypeOK
  BY <1>1, <1>2, <1>3, <1>4, Zenon DEF TypeOK
<1>6. QED
  BY <1>1, <1>2, <1>5 DEF BootInv, NotAhead, Built, Synced, Configured, Asked, StampSound,
     Steps

\* Going on to another step changes nothing else of the run.
LEMMA Onward ==
  ASSUME run \in Runs, NEW step \in Steps, GoTo(step)
  PROVE  /\ run' \in Runs /\ run'.at = step
         /\ run'.dev = run.dev /\ run'.skip = run.skip
         /\ run'.recreate = run.recreate /\ run'.wanted = run.wanted
BY DEF GoTo, Runs

LEMMA IdleRun == Idle \in Runs /\ Idle.at = "idle" /\ Idle.wanted = None
BY DEF Idle, Runs, Steps

\* The requirements as they are when sync_dependencies looks.
LEMMA Looked ==
  ASSUME TypeOK, Sync \/ SyncUnread
  PROVE  /\ run' \in Runs /\ run'.at \in {"config", "upgrade"}
         /\ run'.dev = run.dev /\ run'.skip = run.skip
         /\ run'.wanted = Fingerprint(run.dev) /\ run'.wanted # None
         /\ run'.at = "config" => stamp = run'.wanted
<1>1. run \in Runs /\ run.dev \in BOOLEAN
  BY DEF TypeOK, Runs
<1>2. Fingerprint(run.dev) \in Prints
  BY <1>1 DEF TypeOK, Fingerprint, Prints
<1>3. Fingerprint(run.dev) # None
  BY <1>2, NoneAssumption
<1>4. QED BY <1>1, <1>2, <1>3 DEF Sync, SyncUnread, Runs, Steps

LEMMA TypeStep == TypeOK /\ [Next]_vars => TypeOK'
<1> SUFFICES ASSUME TypeOK, [Next]_vars
             PROVE  TypeOK'
  OBVIOUS
<1> USE CapAssumption DEF TypeOK
<1>1. ASSUME NEW dev \in BOOLEAN, NEW skip \in BOOLEAN, NEW recreate \in BOOLEAN,
             Start(dev, skip, recreate)
      PROVE  TypeOK'
  BY <1>1 DEF Start, Steps, Runs
<1>2. CASE Keep \/ UseVenv \/ MakeVenv \/ AddPip
  BY <1>2, Onward DEF Keep, UseVenv, MakeVenv, AddPip, AfterVenv, Steps
<1>3. CASE Remove \/ RemovePart
  <2>1. Nothing \in [1..PyCap -> Packages]
    BY DEF Nothing, Packages
  <2>2. CASE Remove
    BY <2>1, <2>2, Onward DEF Remove, Steps
  <2>3. CASE RemovePart
    <3>1. [run EXCEPT !.at = "create"] \in Runs /\ [run EXCEPT !.at = "create"].at = "create"
      BY DEF Runs, Steps
    <3>2. run' \in Runs /\ run'.at \in {"idle", "create"}
      BY <2>3, <3>1, IdleRun DEF RemovePart
    <3>3. venv' \in {"absent", "bare", "ready"} /\ stamp' \in Prints \cup {None}
          /\ stops' \in 0..StopCap /\ installed' \in [1..PyCap -> Packages]
      BY <2>1, <2>3 DEF RemovePart
    <3>4. QED BY <2>3, <3>2, <3>3 DEF RemovePart
  <2>4. QED BY <1>3, <2>2, <2>3
<1>4. CASE Sync \/ SyncUnread
  BY <1>4, Looked DEF Sync, SyncUnread
<1>5. CASE Install
  BY <1>5, Onward DEF Install, Packages, Steps, Runs
<1>6. CASE UpgradePip \/ WriteStamp \/ UseConfig \/ OpenConfig \/ FillConfig \/ Launch
  BY <1>6, Onward DEF UpgradePip, WriteStamp, UseConfig, OpenConfig, FillConfig, Launch,
     Steps, Runs
<1>7. CASE NoPip \/ LaunchFails \/ Finish \/ Quit
  BY <1>7, IdleRun DEF NoPip, LaunchFails, Finish, Quit
<1>8. CASE Stop
  BY <1>8, IdleRun DEF Stop, Partial, Packages
<1>9. CASE Pull \/ Upgrade \/ Edit
  BY <1>9 DEF Pull, Upgrade, Edit
<1>10. CASE UNCHANGED vars
  BY <1>10 DEF vars
<1>11. QED
  BY <1>1, <1>2, <1>3, <1>4, <1>5, <1>6, <1>7, <1>8, <1>9, <1>10 DEF Next, Proceed

\* What is asked of a run that has just begun or is over holds of it.
LEMMA BetweenRuns ==
  ASSUME run'.at \in {"idle", "start", "create"}, run'.wanted = None
  PROVE  Built' /\ Synced' /\ Configured' /\ Asked'
BY DEF Built, Synced, Configured, Asked, Steps

\* A package that pip was stopped over is as it was, unless it was not what is
\* asked for.
LEMMA PartialOf ==
  ASSUME NEW old, NEW asked, NEW new \in Partial(old, asked)
  PROVE  \/ new = old
         \/ old # tree.reqs /\ new \in {0, tree.reqs}
BY DEF Partial

\* Neither a run that goes on to its next step nor one that ends changes what
\* the stamp says of an unchanged disk.
LEMMA SameDisk ==
  ASSUME BootInv, UNCHANGED <<tree, venv, installed, stamp, torn>>
  PROVE  StampSound'
BY DEF BootInv, StampSound, Satisfied

LEMMA StepInv == BootInv /\ [Next]_vars => BootInv'
<1> SUFFICES ASSUME BootInv, [Next]_vars
             PROVE  BootInv'
  OBVIOUS
<1>t. TypeOK /\ TypeOK'
  BY TypeStep DEF BootInv
<1>i. NotAhead /\ Built /\ Synced /\ Configured /\ Asked /\ StampSound
  BY DEF BootInv
<1>r. run \in Runs /\ run.at \in Steps /\ run.skip \in BOOLEAN /\ run.dev \in BOOLEAN
      /\ tree.reqs \in 1..ReqsCap /\ tree.py \in 1..PyCap
      /\ installed \in [1..PyCap -> Packages]
  BY <1>t DEF TypeOK, Runs
<1>1. ASSUME NEW dev \in BOOLEAN, NEW skip \in BOOLEAN, NEW recreate \in BOOLEAN,
             Start(dev, skip, recreate)
      PROVE  BootInv'
  <2>1. run'.at = "start" /\ run'.wanted = None
    BY <1>1 DEF Start
  <2>2. NotAhead'
    BY <1>1, <1>i, <2>1 DEF Start, NotAhead
  <2>3. QED
    BY <1>1, <1>t, <2>1, <2>2, BetweenRuns, SameDisk DEF Start, BootInv
<1>2. CASE Keep \/ UseVenv \/ UpgradePip \/ UseConfig \/ Launch
  <2>1. UNCHANGED <<tree, venv, installed, stamp, config, torn>>
    BY <1>2 DEF Keep, UseVenv, UpgradePip, UseConfig, Launch
  <2>2. /\ run'.at \in Steps /\ run'.wanted = run.wanted
        /\ run'.dev = run.dev /\ run'.skip = run.skip
        /\ run'.at \in Steps \ {"idle", "start", "create"} => HasPython
        /\ run'.at \in {"stamp", "config", "copying", "finish", "up"} /\ ~run'.skip =>
             run.at \in {"config", "finish"}
        /\ run'.at # "copying"
        /\ run'.at \in {"finish", "up"} => config # "none"
        /\ run'.at \in {"upgrade", "pip", "stamp"} => run.at = "upgrade"
        /\ run'.at = "sync" => ~run.skip
    <3>1. CASE Keep
      BY <1>r, <3>1, Onward DEF Keep, Steps
    <3>2. CASE UseVenv
      BY <1>r, <3>2, Onward DEF UseVenv, AfterVenv, Steps
    <3>3. CASE UpgradePip
      BY <1>r, <1>i, <3>3, Onward DEF UpgradePip, Built, HasPython, Steps
    <3>4. CASE UseConfig
      BY <1>r, <1>i, <3>4, Onward DEF UseConfig, Built, HasPython, Steps
    <3>5. CASE Launch
      BY <1>r, <1>i, <3>5, Onward DEF Launch, Built, Configured, HasPython, Steps
    <3>6. QED BY <1>2, <3>1, <3>2, <3>3, <3>4, <3>5
  <2>3. NotAhead'
    BY <1>i, <2>1, <2>2 DEF NotAhead
  <2>4. Built' /\ Configured' /\ Asked'
    BY <1>i, <2>1, <2>2 DEF Built, Configured, Asked, HasPython
  <2>5. Synced'
    BY <1>i, <2>1, <2>2 DEF Synced, Satisfied
  <2>6. QED
    BY <1>t, <2>1, <2>3, <2>4, <2>5, SameDisk DEF BootInv
<1>3. CASE MakeVenv \/ AddPip
  <2>1. /\ UNCHANGED <<tree, installed, stamp, config, torn>> /\ venv' # "absent"
        /\ run'.at \in {"making", "config", "sync"}
        /\ run'.at = "config" => run'.skip
        /\ run'.at = "sync" => ~run'.skip
        /\ run'.wanted = run.wanted
    <3>1. CASE MakeVenv
      BY <1>r, <3>1, Onward DEF MakeVenv, Steps
    <3>2. CASE AddPip
      BY <1>r, <3>2, Onward DEF AddPip, AfterVenv, Steps
    <3>3. QED BY <1>3, <3>1, <3>2
  <2>2. NotAhead' /\ Built' /\ Synced' /\ Configured' /\ Asked'
    BY <1>i, <2>1 DEF NotAhead, Built, Synced, Configured, Asked
  <2>3. StampSound'
    BY <1>i, <2>1 DEF StampSound, Satisfied
  <2>4. QED BY <1>t, <2>2, <2>3 DEF BootInv
<1>4. CASE Remove
  <2>1. run'.at = "create" /\ run'.wanted = run.wanted /\ tree' = tree
    BY <1>4, <1>r, Onward DEF Remove, Steps
  <2>2. \A v \in 1..PyCap : installed'[v].main = 0 /\ installed'[v].devs = 0
    BY <1>4 DEF Remove, Nothing
  <2>3. NotAhead' /\ StampSound'
    BY <1>4, <1>i, <1>r, <2>1, <2>2 DEF Remove, NotAhead, StampSound
  <2>4. Built' /\ Synced' /\ Configured' /\ Asked'
    BY <2>1 DEF Built, Synced, Configured, Asked
  <2>5. QED BY <1>t, <2>3, <2>4 DEF BootInv
<1>5. CASE RemovePart
  <2>1. run'.at \in {"idle", "create"} /\ run'.wanted \in {None, run.wanted}
    BY <1>5, <1>r, IdleRun DEF RemovePart, Runs
  <2>2. tree' = tree /\ (installed' = installed \/ installed' = Nothing)
        /\ (stamp' = stamp \/ stamp' = None)
    BY <1>5 DEF RemovePart
  <2>3. \A v \in 1..PyCap : Nothing[v].main = 0 /\ Nothing[v].devs = 0
    BY DEF Nothing
  <2>4. NotAhead'
    <3>1. \A v \in 1..PyCap : installed'[v].main <= tree.reqs /\ installed'[v].devs <= tree.reqs
      <4>1. tree.reqs >= 0
        BY <1>r, CapAssumption
      <4>2. CASE installed' = installed
        BY <1>i, <4>2 DEF NotAhead
      <4>3. CASE installed' = Nothing
        BY <2>3, <4>1, <4>3
      <4>4. QED BY <2>2, <4>2, <4>3
    <3>2. stamp' # None => stamp'.reqs <= tree.reqs /\ stamp'.py <= tree.py
      BY <1>i, <2>2 DEF NotAhead
    <3>3. run'.wanted # None => run'.wanted.reqs <= tree.reqs /\ run'.wanted.py = tree.py
      BY <1>i, <2>1 DEF NotAhead
    <3>4. QED BY <2>2, <3>1, <3>2, <3>3 DEF NotAhead
  <2>5. StampSound'
    BY <1>5 DEF RemovePart, StampSound
  <2>6. Built' /\ Synced' /\ Configured' /\ Asked'
    BY <2>1 DEF Built, Synced, Configured, Asked
  <2>7. QED BY <1>t, <2>4, <2>5, <2>6 DEF BootInv
<1>6. CASE Sync \/ SyncUnread
  <2>1. UNCHANGED <<tree, venv, installed, stamp, config, torn>>
    BY <1>6 DEF Sync, SyncUnread
  <2>2. /\ run'.at \in {"config", "upgrade"} /\ run'.wanted = Fingerprint(run.dev)
        /\ run'.dev = run.dev /\ run'.wanted # None
        /\ run'.at = "config" => stamp = run'.wanted
    BY <1>6, <1>t, Looked
  <2>3. /\ run'.wanted.reqs = tree.reqs /\ run'.wanted.py = tree.py
        /\ run'.wanted.dev = run.dev
    BY <2>2 DEF Fingerprint
  <2>4. NotAhead'
    BY <1>i, <1>r, <2>1, <2>3 DEF NotAhead
  <2>5. venv # "absent" /\ ~run'.skip
    BY <1>6, <1>i, <1>t, Looked DEF Sync, SyncUnread, Built, Asked, Steps
  <2>6. Synced'
    BY <1>i, <2>1, <2>2, <2>3 DEF Synced, StampSound, Satisfied
  <2>7. Built' /\ Configured' /\ Asked'
    BY <2>1, <2>2, <2>3, <2>5 DEF Built, Configured, Asked
  <2>8. QED BY <1>t, <2>1, <2>4, <2>6, <2>7, SameDisk DEF BootInv
<1>7. CASE Install
  <2>1. UNCHANGED <<tree, venv, stamp, config, torn>> /\ venv = "ready"
    BY <1>7 DEF Install
  <2>2. /\ run.at = "pip" /\ run'.at = "stamp" /\ run'.wanted = run.wanted
        /\ run'.skip = run.skip /\ run'.dev = run.dev
    BY <1>7, <1>r, Onward DEF Install, Steps
  <2>3. /\ installed'[tree.py].main = tree.reqs
        /\ installed'[tree.py].devs = IF run.dev THEN tree.reqs ELSE installed[tree.py].devs
        /\ \A v \in 1..PyCap : v # tree.py => installed'[v] = installed[v]
    BY <1>7, <1>r DEF Install
  <2>4. NotAhead'
    BY <1>i, <1>r, <2>1, <2>2, <2>3 DEF NotAhead
  <2>5. /\ run.wanted # None /\ run.wanted.dev = run.dev /\ ~run.skip
        /\ run.wanted.reqs <= tree.reqs /\ run.wanted.py = tree.py
    BY <1>i, <1>t, <2>2 DEF Asked, NotAhead, TypeOK
  <2>6. Synced'
    BY <2>1, <2>2, <2>3, <2>5 DEF Synced, Satisfied
  <2>7. StampSound'
    <3> SUFFICES ASSUME stamp # None, stamp.reqs = tree.reqs, stamp.py = tree.py, ~torn
                 PROVE  Satisfied(stamp)'
      BY <2>1 DEF StampSound
    <3>1. Satisfied(stamp)
      BY <1>i DEF StampSound
    <3>2. QED BY <1>r, <2>1, <2>3, <3>1 DEF Satisfied
  <2>8. Built' /\ Configured' /\ Asked'
    BY <1>i, <2>1, <2>2 DEF Built, Configured, Asked
  <2>9. QED BY <1>t, <2>4, <2>6, <2>7, <2>8 DEF BootInv
<1>8. CASE WriteStamp
  <2>1. UNCHANGED <<tree, venv, installed, config, torn>> /\ stamp' = run.wanted
    BY <1>8 DEF WriteStamp
  <2>2. /\ run.at = "stamp" /\ run'.at = "config" /\ run'.wanted = run.wanted
        /\ run'.skip = run.skip
    BY <1>8, <1>r, Onward DEF WriteStamp, Steps
  <2>3. run.wanted # None /\ ~run.skip /\ (~torn => Satisfied(run.wanted))
    BY <1>i, <1>t, <2>2 DEF Synced, Asked, TypeOK
  <2>4. NotAhead'
    BY <1>i, <1>r, <2>1, <2>2 DEF NotAhead
  <2>5. StampSound' /\ Synced'
    BY <2>1, <2>2, <2>3 DEF StampSound, Synced, Satisfied
  <2>6. Built' /\ Configured' /\ Asked'
    BY <1>i, <2>1, <2>2 DEF Built, Configured, Asked, Steps
  <2>7. QED BY <1>t, <2>4, <2>5, <2>6 DEF BootInv
<1>9. CASE OpenConfig \/ FillConfig
  <2>1. UNCHANGED <<tree, venv, installed, stamp, torn>> /\ config' # "none"
        /\ (run'.at = "copying" => config' = "cut")
    BY <1>9, <1>r, Onward DEF OpenConfig, FillConfig, Steps
  <2>2. /\ run.at \in {"config", "copying"} /\ run'.at \in {"copying", "finish"}
        /\ run'.wanted = run.wanted /\ run'.skip = run.skip
    BY <1>9, <1>r, Onward DEF OpenConfig, FillConfig, Steps
  <2>3. NotAhead' /\ Built' /\ Configured' /\ Asked'
    BY <1>i, <2>1, <2>2 DEF NotAhead, Built, Configured, Asked, Steps
  <2>4. Synced'
    BY <1>i, <2>1, <2>2 DEF Synced, Satisfied
  <2>5. QED BY <1>t, <2>1, <2>3, <2>4, SameDisk DEF BootInv
<1>10. CASE NoPip \/ LaunchFails \/ Finish \/ Quit
  <2>1. UNCHANGED <<tree, venv, installed, stamp, torn>> /\ run' = Idle
    BY <1>10 DEF NoPip, LaunchFails, Finish, Quit
  <2>2. NotAhead'
    BY <1>i, <2>1, IdleRun DEF NotAhead
  <2>3. QED BY <1>t, <2>1, <2>2, IdleRun, BetweenRuns, SameDisk DEF BootInv
<1>11. CASE Stop
  <2>a. UNCHANGED <<tree, torn>> /\ run' = Idle
    BY <1>11 DEF Stop
  <2>b. stamp' = stamp \/ stamp' = None
    BY <1>11 DEF Stop
  <2>c. venv' # "absent" \/ venv' = venv
    BY <1>11 DEF Stop
  <2>1. /\ tree' = tree /\ torn' = torn /\ run' = Idle
        /\ (stamp' = stamp \/ stamp' = None)
        /\ (venv' # "absent" \/ venv' = venv)
    BY <2>a, <2>b, <2>c
  <2>d. PICK main \in Partial(installed[tree.py].main, run.at = "pip" /\ venv = "ready"),
             devs \in Partial(installed[tree.py].devs, run.at = "pip" /\ venv = "ready" /\ run.dev) :
          installed' = [installed EXCEPT ![tree.py] = [main |-> main, devs |-> devs]]
    BY <1>11 DEF Stop
  <2>2. /\ \/ main = installed[tree.py].main
           \/ installed[tree.py].main # tree.reqs /\ main \in {0, tree.reqs}
        /\ \/ devs = installed[tree.py].devs
           \/ installed[tree.py].devs # tree.reqs /\ devs \in {0, tree.reqs}
    BY <2>d, PartialOf
  <2>3. /\ installed'[tree.py].main = main /\ installed'[tree.py].devs = devs
        /\ \A v \in 1..PyCap : v # tree.py => installed'[v] = installed[v]
    BY <1>r, <2>d
  <2>4. NotAhead'
    BY <1>i, <1>r, <2>1, <2>2, <2>3, IdleRun DEF NotAhead
  <2>5. StampSound'
    <3> SUFFICES ASSUME stamp' # None, stamp'.reqs = tree.reqs, stamp'.py = tree.py, ~torn
                 PROVE  Satisfied(stamp)'
      BY <2>1 DEF StampSound
    <3>5. stamp' = stamp
      BY <2>1
    <3>1. Satisfied(stamp)
      BY <1>i, <3>5 DEF StampSound
    <3>2. installed[tree.py].main <= tree.reqs /\ installed[tree.py].devs <= tree.reqs
          /\ installed[tree.py].main \in Nat /\ installed[tree.py].devs \in Nat
      BY <1>i, <1>r DEF NotAhead, Packages
    <3>3. main = installed[tree.py].main
      BY <1>r, <2>2, <3>1, <3>2, <3>5 DEF Satisfied
    <3>4. stamp.dev => devs = installed[tree.py].devs
      BY <1>r, <2>2, <3>1, <3>2, <3>5 DEF Satisfied
    <3>6. venv' # "absent"
      BY <2>1, <3>1 DEF Satisfied
    <3>7. QED BY <2>3, <3>1, <3>3, <3>4, <3>5, <3>6 DEF Satisfied
  <2>6. QED BY <1>t, <2>1, <2>4, <2>5, IdleRun, BetweenRuns DEF BootInv
<1>12. CASE Pull \/ Upgrade
  <2>1. /\ UNCHANGED <<installed, stamp, config, run, torn>>
        /\ venv' # "absent" <=> venv # "absent"
    BY <1>12 DEF Pull, Upgrade
  <2>2. \/ tree'.reqs = tree.reqs + 1 /\ tree'.py = tree.py
        \/ tree'.reqs = tree.reqs /\ tree'.py = tree.py + 1 /\ run = Idle
    BY <1>12, <1>t DEF Pull, Upgrade, TypeOK
  <2>3. stamp # None => stamp.reqs \in Nat /\ stamp.py \in Nat
    BY <1>t DEF TypeOK, Prints
  <2>4. NotAhead'
    <3>1. \A v \in 1..PyCap : installed[v].main \in Nat /\ installed[v].devs \in Nat
      BY <1>r DEF Packages
    <3>2. run.wanted # None => run.wanted.reqs \in Nat
      BY <1>r DEF Runs, Prints
    <3>3. QED BY <1>i, <1>r, <2>1, <2>2, <2>3, <3>1, <3>2, IdleRun DEF NotAhead
  <2>5. StampSound'
    BY <1>i, <1>r, <2>1, <2>2, <2>3 DEF NotAhead, StampSound, Satisfied
  <2>6. Built' /\ Synced' /\ Configured' /\ Asked'
    BY <1>i, <2>1 DEF Built, Synced, Configured, Asked, Satisfied
  <2>7. QED BY <1>t, <2>4, <2>5, <2>6 DEF BootInv
<1>13. CASE Edit \/ UNCHANGED vars
  <2>1. UNCHANGED <<tree, venv, installed, stamp, torn, run>>
        /\ (config' = config \/ (config' = "edited" /\ run.at # "copying"))
    BY <1>13 DEF Edit, vars
  <2>2. NotAhead' /\ Built' /\ Synced' /\ Configured' /\ Asked'
    BY <1>i, <2>1 DEF NotAhead, Built, Synced, Configured, Asked, Satisfied
  <2>3. QED BY <1>t, <2>1, <2>2, SameDisk DEF BootInv
<1>14. QED
  BY <1>1, <1>2, <1>3, <1>4, <1>5, <1>6, <1>7, <1>8, <1>9, <1>10, <1>11, <1>12, <1>13
     DEF Next, Proceed

THEOREM Invariance == Spec => []BootInv
<1>1. Init => BootInv
  BY InitInv
<1>2. BootInv /\ [Next]_vars => BootInv'
  BY StepInv
<1>3. QED BY <1>1, <1>2, PTL DEF Spec

\* The state of the disk and of a run keeps its type (TypeOK), for any number of
\* changes, upgrades and stops.
THEOREM TypeCorrect == Spec => []TypeOK
<1>1. BootInv => TypeOK
  BY DEF BootInv
<1>2. QED BY <1>1, Invariance, PTL

\* A stamp by which sync_dependencies could skip pip says what is installed.
THEOREM StampsTrue == Spec => []StampSound
<1>1. BootInv => StampSound
  BY DEF BootInv
<1>2. QED BY <1>1, Invariance, PTL

\* A run that comes to the launch has what the requirements it looked at ask for.
THEOREM LaunchesHaveAll == Spec => []LaunchSound
<1>1. BootInv => LaunchSound
  BY DEF BootInv, LaunchSound, Configured, Synced
<1>2. QED BY <1>1, Invariance, PTL

\* ensure_config never overwrites a configuration the operator has edited.
THEOREM EditsKept == Spec => ConfigKept
<1>1. BootInv /\ [Next]_vars => [config = "edited" => config' = "edited"]_vars
  <2> SUFFICES ASSUME BootInv, [Next]_vars, config = "edited"
               PROVE  config' = "edited"
    OBVIOUS
  <2>1. run.at # "copying"
    BY DEF BootInv, Configured
  <2>2. CASE Next
    BY <2>1, <2>2 DEF Next, Proceed, Start, Keep, Remove, UseVenv, MakeVenv, AddPip, Sync,
       SyncUnread, UpgradePip, Install, NoPip, WriteStamp, UseConfig, OpenConfig,
       FillConfig, Launch, LaunchFails, Finish, Quit, RemovePart, Stop, Pull, Upgrade, Edit
  <2>3. QED BY <2>2 DEF vars
<1>2. QED BY <1>1, Invariance, PTL DEF Spec, ConfigKept
=============================================================================
