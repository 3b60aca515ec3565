-------------------------- MODULE SupervisorProofs --------------------------
(***************************************************************************)
(* The supervisor for every set of versions, process slots and             *)
(* configurations.                                                         *)
(*                                                                         *)
(* Three invariants: TypeInv says where each goroutine can be and which    *)
(* stage checkAndApply is in there; CycleInv what an update cycle knows of *)
(* the files from the check of the manifest to the verdict; SoleInv which  *)
(* single process can be alive, by the place of each goroutine, as long as *)
(* no update loop starts and stops workers as well.                        *)
(***************************************************************************)
EXTENDS Supervisor, TLAPS

Starting == {"spawn", "publish", "poll", "nap"}
MainPlaces == Starting \cup {"failed", "live", "stop", "stopwait", "join", "exited"}
SupPlaces == Starting \cup {"off", "top", "wait", "backoff", "done"}
UpdPlaces == Starting \cup {"off", "idle", "stop", "stopwait", "promote",
                            "install", "rollback", "done"}

Places ==
    /\ pc["main"] \in MainPlaces
    /\ pc["sup"] \in SupPlaces
    /\ pc["upd"] \in UpdPlaces
    /\ pc["main"] \in Starting \cup {"failed", "exited"} <=> pc["sup"] = "off"
    /\ pc["sup"] = "off" <=> pc["upd"] = "off"
    /\ pc["main"] \in {"stop", "stopwait", "join"} => ctxDone

StagePlaces ==
    /\ pc["upd"] \in {"off", "idle", "done", "promote", "install"} => stage = "update"
    /\ pc["upd"] \in {"stop", "stopwait"} => stage \in {"update", "rollback"}
    /\ pc["upd"] = "rollback" => stage = "rollback"
    /\ pc["upd"] \in Starting => stage \in {"update", "confirm", "restore"}

TypeInv == TypeOK /\ Places /\ StagePlaces

-----------------------------------------------------------------------------
(* A cycle that has decided to update and has not swapped yet. *)
Decided ==
    \/ pc["upd"] \in {"stop", "stopwait"} /\ stage = "update"
    \/ pc["upd"] \in {"promote", "install"}

CycleInv ==
    /\ BinaryNeverLost
    /\ before # None =>
          IF stage = "restore" THEN dest = before \/ (DiskFails /\ prev = before)
          ELSE prev = before
    /\ pc["upd"] \in Starting /\ stage \in {"update", "confirm"} => dest # None
    /\ Decided => /\ staged # None
                  /\ ShouldUpdate(probed, config.pinned, staged)
                  /\ pc["upd"] # "install" => probed \in {dest, "unknown"}
                  /\ pc["upd"] = "install" /\ before # None
                        => probed \in {before, "unknown"}

-----------------------------------------------------------------------------
Sole(p) == \A q \in Pid : Alive(q) => q = p

External == config.mode = "external"

(* What main has taken and stops is the only one left. *)
Stopping == pc["main"] = "stopwait" /\ Sole(handle["main"])

SoleInv ==
    /\ pc["main"] \in {"spawn", "exited"} => Sole(None)
    /\ External =>
          /\ pc["upd"] \in {"off", "done"}
          /\ pc["main"] = "publish" => Sole(handle["main"])
          /\ pc["main"] \in {"poll", "nap", "failed"} => Sole(child)
          /\ pc["main"] \in {"poll", "nap", "live", "stop"} => child # None
          /\ pc["sup"] \in {"backoff", "spawn"} => Sole(None)
          /\ pc["sup"] \in {"publish", "wait"} => Sole(handle["sup"])
          /\ pc["sup"] \in {"top", "poll", "nap"} =>
                Sole(child) \/ (child = None /\ Stopping)
          /\ pc["sup"] = "done" => Sole(None) \/ Stopping
          /\ SupervisedWhileLive

-----------------------------------------------------------------------------
LEMMA InitTyped == Init => TypeInv
<1> SUFFICES ASSUME Init PROVE TypeInv
  OBVIOUS
<1> USE VersionAssumption, ConfigAssumption DEF Init, Goroutine
<1>1. TypeOK
  BY DEF TypeOK, Stages
<1>2. Places /\ StagePlaces
  BY DEF Places, StagePlaces, MainPlaces, SupPlaces, UpdPlaces, Starting
<1> QED
  BY <1>1, <1>2 DEF TypeInv

(* What the end of a startChild does to the places, for every caller. *)
LEMMA OutcomeTyped ==
    ASSUME TypeInv, NEW g \in Goroutine, pc[g] \in {"spawn", "poll", "nap"},
           StartFailed(g) \/ (StartSucceeded(g) /\ ~ctxDone),
           UNCHANGED <<handle, child, ctxDone, proc, fileVars, release, config>>
    PROVE  TypeInv'
<1> USE DEF TypeInv
<1>1. TypeOK'
  <2>1. pc' \in [Goroutine -> MainPlaces \cup SupPlaces \cup UpdPlaces]
    BY DEF StartFailed, StartSucceeded, Go, TypeOK, Goroutine,
           MainPlaces, SupPlaces, UpdPlaces, Starting
  <2>2. \A h \in Goroutine : handle'[h] # None <=> pc'[h] \in {"publish", "stopwait", "wait"}
    <3>1. CASE g = "main"
      BY <3>1 DEF StartFailed, StartSucceeded, Go, TypeOK, Goroutine, Places, Starting
    <3>2. CASE g # "main"
      BY <3>2 DEF StartFailed, StartSucceeded, Go, TypeOK, Goroutine
    <3> QED
      BY <3>1, <3>2
  <2>3. /\ stage' \in Stages /\ before' \in Version \cup {None}
        /\ probed' \in Version \cup {"unknown", None}
    BY DEF StartFailed, StartSucceeded, CycleOver, cycle, TypeOK, Stages
  <2> QED
    BY <2>1, <2>2, <2>3 DEF TypeOK, fileVars, MainPlaces, SupPlaces, UpdPlaces, Starting
<1>2. CASE g = "main"
  BY <1>1, <1>2 DEF StartFailed, StartSucceeded, Go, cycle, TypeOK, Goroutine,
       Places, StagePlaces, MainPlaces, SupPlaces, UpdPlaces, Starting
<1>3. CASE g = "sup"
  BY <1>1, <1>3 DEF StartFailed, StartSucceeded, Go, cycle, TypeOK, Goroutine,
       Places, StagePlaces, MainPlaces, SupPlaces, UpdPlaces, Starting
<1>4. CASE g = "upd"
  BY <1>1, <1>4 DEF StartFailed, StartSucceeded, Go, CycleOver, TypeOK, Goroutine,
       Places, StagePlaces, MainPlaces, SupPlaces, UpdPlaces, Starting
<1> QED
  BY <1>2, <1>3, <1>4 DEF Goroutine

LEMMA StartTyped ==
    ASSUME TypeInv, NEW g \in Goroutine, StartStep(g)
    PROVE  TypeInv'
<1> USE VersionAssumption DEF TypeInv
<1>1. CASE Spawn(g)
  <2>1. PICK p \in Pid : /\ proc' = [proc EXCEPT ![p] = [state |-> "starting", version |-> dest]]
                         /\ handle' = [handle EXCEPT ![g] = p]
    BY <1>1 DEF Spawn
  <2>2. TypeOK'
    BY <1>1, <2>1 DEF Spawn, Go, TypeOK, Worker, cycle, fileVars, Goroutine
  <2>3. Places' /\ StagePlaces'
    BY <1>1 DEF Spawn, Go, cycle, TypeOK, Goroutine, Places, StagePlaces,
         MainPlaces, SupPlaces, UpdPlaces, Starting
  <2> QED
    BY <2>2, <2>3
<1>2. CASE SpawnFails(g)
  BY <1>2, OutcomeTyped DEF SpawnFails
<1>3. CASE PublishChild(g)
  <2>1. TypeOK'
    BY <1>3 DEF PublishChild, Go, TypeOK, cycle, fileVars, Goroutine
  <2>2. Places' /\ StagePlaces'
    BY <1>3 DEF PublishChild, Go, cycle, TypeOK, Goroutine, Places, StagePlaces,
         MainPlaces, SupPlaces, UpdPlaces, Starting
  <2> QED
    BY <2>1, <2>2
<1>4. CASE Poll(g)
  <2>1. CASE ~ctxDone /\ ~Answering /\ Go(g, "nap") /\ UNCHANGED cycle
    <3>1. TypeOK'
      BY <1>4, <2>1 DEF Poll, Go, TypeOK, cycle, fileVars, Goroutine
    <3>2. Places' /\ StagePlaces'
      BY <1>4, <2>1 DEF Poll, Go, cycle, TypeOK, Goroutine, Places, StagePlaces,
           MainPlaces, SupPlaces, UpdPlaces, Starting
    <3> QED
      BY <3>1, <3>2
  <2> QED
    BY <1>4, <2>1, OutcomeTyped DEF Poll
<1>5. CASE NextPoll(g)
  <2>1. TypeOK'
    BY <1>5 DEF NextPoll, Go, TypeOK, cycle, fileVars, Goroutine
  <2>2. Places' /\ StagePlaces'
    BY <1>5 DEF NextPoll, Go, cycle, TypeOK, Goroutine, Places, StagePlaces,
         MainPlaces, SupPlaces, UpdPlaces, Starting
  <2> QED
    BY <2>1, <2>2
<1>6. CASE PollTimeout(g)
  BY <1>6, OutcomeTyped DEF PollTimeout
<1> QED
  BY <1>1, <1>2, <1>3, <1>4, <1>5, <1>6 DEF StartStep

LEMMA StopTyped ==
    ASSUME TypeInv, NEW g \in {"main", "upd"}, StopStep(g)
    PROVE  TypeInv'
<1> USE VersionAssumption DEF TypeInv
<1>1. AfterStop(g) \in {"join", "promote", "rollback"}
  BY DEF AfterStop, StopStep, TakeChild, StopDone, StagePlaces
<1>2. CASE TakeChild(g)
  <2>1. proc' \in [Pid -> Worker \cup {None}]
    BY <1>2 DEF TakeChild, TypeOK, Alive, In, Worker
  <2>2. TypeOK'
    BY <1>1, <1>2, <2>1 DEF TakeChild, Go, TypeOK, cycle, fileVars, Goroutine
  <2>3. Places' /\ StagePlaces'
    BY <1>2 DEF TakeChild, AfterStop, Go, cycle, TypeOK, Goroutine, Places, StagePlaces,
         MainPlaces, SupPlaces, UpdPlaces, Starting
  <2> QED
    BY <2>2, <2>3
<1>3. CASE StopDone(g)
  <2>1. TypeOK'
    BY <1>1, <1>3 DEF StopDone, Go, TypeOK, cycle, fileVars, Goroutine
  <2>2. Places' /\ StagePlaces'
    BY <1>3 DEF StopDone, AfterStop, Go, cycle, TypeOK, Goroutine, Places, StagePlaces,
         MainPlaces, SupPlaces, UpdPlaces, Starting
  <2> QED
    BY <2>1, <2>2
<1> QED
  BY <1>2, <1>3 DEF StopStep

LEMMA SupTyped ==
    ASSUME TypeInv, Watch \/ ChildExited \/ BackoffOver
    PROVE  TypeInv'
<1> USE VersionAssumption DEF TypeInv
<1>1. TypeOK'
  BY DEF Watch, ChildExited, BackoffOver, Go, TypeOK, cycle, fileVars, Goroutine
<1>2. Places' /\ StagePlaces'
  BY DEF Watch, ChildExited, BackoffOver, Go, cycle, TypeOK, Goroutine, Places, StagePlaces,
       MainPlaces, SupPlaces, UpdPlaces, Starting
<1> QED
  BY <1>1, <1>2

LEMMA SwapTyped ==
    ASSUME TypeInv,
           Check \/ SavePrevious \/ Install \/ Rollback \/ UpdateLoopEnds
    PROVE  TypeInv'
<1> USE VersionAssumption DEF TypeInv
<1>1. CASE Check
  <2>1. probed' \in Version \cup {"unknown", None}
    BY <1>1 DEF Check, currentWorkerVersion, TypeOK
  <2>2. TypeOK'
    BY <1>1, <2>1 DEF Check, StageWorker, Go, TypeOK, Goroutine
  <2>3. Places' /\ StagePlaces'
    BY <1>1 DEF Check, Go, TypeOK, Goroutine, Places, StagePlaces,
         MainPlaces, SupPlaces, UpdPlaces, Starting
  <2> QED
    BY <2>2, <2>3
<1>2. CASE SavePrevious \/ Install \/ Rollback
  <2>1. TypeOK'
    BY <1>2 DEF SavePrevious, Install, Rollback, Go, TypeOK, Goroutine, Stages
  <2>2. Places' /\ StagePlaces'
    BY <1>2 DEF SavePrevious, Install, Rollback, Go, TypeOK, Goroutine, Places, StagePlaces,
         MainPlaces, SupPlaces, UpdPlaces, Starting
  <2> QED
    BY <2>1, <2>2
<1>3. CASE UpdateLoopEnds
  <2>1. TypeOK'
    BY <1>3 DEF UpdateLoopEnds, Go, TypeOK, Goroutine, cycle, fileVars
  <2>2. Places' /\ StagePlaces'
    BY <1>3 DEF UpdateLoopEnds, Go, cycle, TypeOK, Goroutine, Places, StagePlaces,
         MainPlaces, SupPlaces, UpdPlaces, Starting
  <2> QED
    BY <2>1, <2>2
<1> QED
  BY <1>1, <1>2, <1>3

LEMMA ExitTyped == ASSUME TypeInv, Exit PROVE TypeInv'
<1> USE VersionAssumption DEF TypeInv, Exit
<1>1. TypeOK'
  BY DEF TypeOK, Goroutine, Stages
<1>2. Places' /\ StagePlaces'
  BY DEF Goroutine, Places, StagePlaces, MainPlaces, SupPlaces, UpdPlaces, Starting
<1> QED
  BY <1>1, <1>2

(* The worker processes and the release channel touch no goroutine. *)
LEMMA WorkerTyped ==
    ASSUME TypeInv, NEW p \in Pid, WorkerStep(p)
    PROVE  TypeInv'
<1> USE DEF TypeInv
<1>1. proc' \in [Pid -> Worker \cup {None}] /\ UNCHANGED <<goVars, fileVars, release, config>>
  BY DEF WorkerStep, Bind, BindFails, Connect, Disconnect, Die, Becomes, Ends,
         In, Alive, TypeOK, Worker
<1> QED
  BY <1>1 DEF TypeOK, goVars, cycle, fileVars, Places, StagePlaces

LEMMA StepTyped == TypeInv /\ [Next]_vars => TypeInv'
<1> SUFFICES ASSUME TypeInv, [Next]_vars PROVE TypeInv'
  OBVIOUS
<1>1. CASE MainStep
  <2>1. CASE BeginShutdown
    BY <2>1 DEF TypeInv, BeginShutdown, Go, TypeOK, Goroutine, cycle, fileVars, Places,
         StagePlaces, MainPlaces, SupPlaces, UpdPlaces, Starting
  <2> QED
    BY <1>1, <2>1, StartTyped, StopTyped, ExitTyped DEF MainStep, Joined, RunFails, Goroutine
<1>2. CASE SupStep
  BY <1>2, StartTyped, SupTyped DEF SupStep, Goroutine
<1>3. CASE UpdStep
  BY <1>3, StartTyped, StopTyped, SwapTyped DEF UpdStep, Goroutine
<1>4. ASSUME NEW p \in Pid, WorkerStep(p) PROVE TypeInv'
  BY <1>4, WorkerTyped
<1>5. ASSUME NEW v \in Version, Publish(v) PROVE TypeInv'
  BY <1>5 DEF Publish, TypeInv, TypeOK, goVars, cycle, fileVars, Places, StagePlaces
<1>6. CASE Shutdown
  BY <1>6 DEF Shutdown, TypeInv, TypeOK, cycle, fileVars, Places, StagePlaces
<1>7. CASE Crash
  BY <1>7, ExitTyped DEF Crash
<1>8. CASE Restart
  BY <1>8 DEF Restart, TypeInv, TypeOK, Goroutine, cycle, fileVars, Places, StagePlaces,
       MainPlaces, SupPlaces, UpdPlaces, Starting
<1>9. CASE UNCHANGED vars
  BY <1>9 DEF vars, TypeInv, TypeOK, Places, StagePlaces
<1> QED
  BY <1>1, <1>2, <1>3, <1>4, <1>5, <1>6, <1>7, <1>8, <1>9 DEF Next

(* Where each goroutine is decides what it holds, in every reachable state. *)
THEOREM Typed == Spec => []TypeInv
BY InitTyped, StepTyped, PTL DEF Spec

-----------------------------------------------------------------------------
LEMMA InitCycle == Init => CycleInv
BY VersionAssumption DEF Init, CycleInv, BinaryNeverLost, Decided, Goroutine

(* What does not touch a cycle, or ends it, needs no look at the files. *)
LEMMA CycleFrame ==
    ASSUME CycleInv, UNCHANGED <<cycle, fileVars, config>>,
           pc'["upd"] \in {pc["upd"], "idle", "done"}
    PROVE  CycleInv'
BY DEF CycleInv, BinaryNeverLost, Decided, Starting, cycle, fileVars

LEMMA CycleExit == ASSUME CycleInv, Exit PROVE CycleInv'
BY DEF CycleInv, BinaryNeverLost, Decided, Starting, Exit, Goroutine

(* Starting a worker decides on a rollback or ends the cycle, at most. *)
LEMMA CycleStart ==
    ASSUME TypeInv, CycleInv, StartStep("upd")
    PROVE  CycleInv'
<1> USE DEF TypeInv, StagePlaces, Starting
<1>1. /\ pc["upd"] \in Starting /\ UNCHANGED <<fileVars, config>>
      /\ before' \in {before, None}
      /\ before' # None /\ stage = "restore" => stage' = "restore"
      /\ pc'["upd"] \notin {"promote", "install", "stopwait"}
      /\ pc'["upd"] = "stop" => stage' = "rollback"
      /\ pc'["upd"] \in Starting /\ stage = "restore" => stage' = "restore"
      /\ before' # None /\ stage # "restore" => stage' # "restore"
  BY DEF StartStep, Spawn, SpawnFails, PublishChild, Poll, NextPoll, PollTimeout,
         StartFailed, StartSucceeded, Go, CycleOver, cycle, TypeOK, Goroutine
<1> QED
  BY <1>1 DEF CycleInv, BinaryNeverLost, Decided, fileVars

LEMMA CycleStop ==
    ASSUME TypeInv, CycleInv, StopStep("upd")
    PROVE  CycleInv'
<1>1. /\ pc["upd"] \in {"stop", "stopwait"} /\ UNCHANGED <<cycle, fileVars, config>>
      /\ pc'["upd"] \in {"stopwait", AfterStop("upd")}
  BY DEF StopStep, TakeChild, StopDone, Go, TypeInv, TypeOK, Goroutine
<1>2. Decided' => Decided /\ pc'["upd"] # "install"
  BY <1>1 DEF Decided, AfterStop, TypeInv, StagePlaces, cycle
<1>3. pc'["upd"] \notin Starting
  BY <1>1 DEF AfterStop, TypeInv, StagePlaces, Starting
<1> QED
  BY <1>1, <1>2, <1>3 DEF CycleInv, BinaryNeverLost, Decided, cycle, fileVars

(* The check of the manifest is what the swap relies on later. *)
LEMMA CycleCheck == ASSUME TypeInv, CycleInv, Check PROVE CycleInv'
<1>1. /\ staged' # None /\ ShouldUpdate(probed', config.pinned, staged')
      /\ probed' \in {dest, "unknown"} /\ pc'["upd"] = "stop"
      /\ UNCHANGED <<stage, dest, prev, before, config>>
  BY DEF Check, StageWorker, FetchManifest, currentWorkerVersion, Go, TypeInv, TypeOK,
         Goroutine
<1> QED
  BY <1>1 DEF CycleInv, BinaryNeverLost, Starting

(* The two renames of Promote, each of which may fail, and Rollback. *)
LEMMA CycleSwap ==
    ASSUME TypeInv, CycleInv, SavePrevious \/ Install \/ Rollback
    PROVE  CycleInv'
<1> USE DEF TypeInv, TypeOK, Goroutine, StagePlaces, CycleInv, BinaryNeverLost, Decided, Starting,
            Go
<1>1. CASE SavePrevious
  <2>1. stage = "update" /\ UNCHANGED <<probed, config>> /\ before' = dest
    BY <1>1 DEF SavePrevious
  <2>2. CASE /\ dest # None /\ prev' = dest /\ dest' = None
             /\ pc' = [pc EXCEPT !["upd"] = "install"] /\ UNCHANGED <<stage, staged>>
    BY <1>1, <2>1, <2>2 DEF SavePrevious
  <2>3. CASE /\ dest = None /\ UNCHANGED <<dest, prev, stage, staged>>
             /\ pc' = [pc EXCEPT !["upd"] = "install"]
    BY <1>1, <2>1, <2>3 DEF SavePrevious
  <2>4. CASE /\ pc' = [pc EXCEPT !["upd"] = "spawn"]
             /\ stage' = "restore" /\ UNCHANGED <<dest, prev>>
    BY <2>1, <2>4
  <2> QED
    BY <1>1, <2>1, <2>2, <2>3, <2>4 DEF SavePrevious
<1>2. CASE Install
  <2>1. pc'["upd"] = "spawn" /\ (dest' # None \/ prev' # None)
    BY <1>2 DEF Install
  <2>2. stage' # "restore" => UNCHANGED <<prev, stage, before>>
    BY <1>2 DEF Install
  <2> QED
    BY <1>2, <2>1, <2>2 DEF Install
<1>3. CASE Rollback
  BY <1>3 DEF Rollback
<1> QED
  BY <1>1, <1>2, <1>3

LEMMA StepCycle == TypeInv /\ CycleInv /\ [Next]_vars => CycleInv'
<1> SUFFICES ASSUME TypeInv, CycleInv, [Next]_vars PROVE CycleInv'
  OBVIOUS
<1>1. CASE MainStep
  <2>1. CASE Joined \/ RunFails
    BY <2>1, CycleExit DEF Joined, RunFails
  <2>2. CASE StartStep("main") \/ BeginShutdown \/ StopStep("main")
    <3>1. UNCHANGED <<cycle, fileVars, config>> /\ pc'["upd"] \in {pc["upd"], "idle", "done"}
      BY <2>2 DEF StartStep, Spawn, SpawnFails, PublishChild, Poll, NextPoll, PollTimeout,
           StartFailed, StartSucceeded, BeginShutdown, StopStep, TakeChild, StopDone, Go,
           TypeInv, TypeOK, Goroutine
    <3> QED
      BY <3>1, CycleFrame
  <2> QED
    BY <1>1, <2>1, <2>2 DEF MainStep
<1>2. CASE SupStep
  <2>1. UNCHANGED <<cycle, fileVars, config>> /\ pc'["upd"] = pc["upd"]
    BY <1>2 DEF SupStep, StartStep, Spawn, SpawnFails, PublishChild, Poll, NextPoll,
         PollTimeout, StartFailed, StartSucceeded, Watch, ChildExited, BackoffOver, Go,
         TypeInv, TypeOK, Goroutine
  <2> QED
    BY <2>1, CycleFrame
<1>3. CASE UpdStep
  <2>1. CASE UpdateLoopEnds
    BY <2>1, CycleFrame DEF UpdateLoopEnds, Go, TypeInv, TypeOK, Goroutine
  <2> QED
    BY <1>3, <2>1, CycleStart, CycleStop, CycleCheck, CycleSwap DEF UpdStep
<1>4. ASSUME NEW p \in Pid, WorkerStep(p) PROVE CycleInv'
  BY <1>4, CycleFrame DEF WorkerStep, Bind, BindFails, Connect, Disconnect, Die, Becomes,
       Ends, goVars
<1>5. ASSUME NEW v \in Version, Publish(v) PROVE CycleInv'
  BY <1>5, CycleFrame DEF Publish, goVars
<1>6. CASE Shutdown
  BY <1>6, CycleFrame DEF Shutdown
<1>7. CASE Crash
  BY <1>7, CycleExit DEF Crash
<1>8. CASE Restart
  <2>1. pc["upd"] = "off" /\ pc'["upd"] = "off" /\ UNCHANGED <<cycle, fileVars>>
    BY <1>8 DEF Restart, TypeInv, TypeOK, Goroutine, Places
  <2> QED
    BY <2>1 DEF CycleInv, BinaryNeverLost, Decided, cycle, fileVars
<1>9. CASE UNCHANGED vars
  BY <1>9, CycleFrame DEF vars, cycle, fileVars
<1> QED
  BY <1>1, <1>2, <1>3, <1>4, <1>5, <1>6, <1>7, <1>8, <1>9 DEF Next

(* At every place of the update cycle the files on disk are what the cycle *)
(* has done to them so far.                                                *)
THEOREM CycleSound == Spec => [](TypeInv /\ CycleInv)
BY InitTyped, StepTyped, InitCycle, StepCycle, PTL DEF Spec

(* A worker binary is left on disk, wherever a crash or a failure strikes. *)
THEOREM BinaryIsNeverLost == Spec => []BinaryNeverLost
<1>1. TypeInv /\ CycleInv => BinaryNeverLost
  BY DEF CycleInv
<1> QED
  BY <1>1, CycleSound, PTL

(* A rollback puts back the binary that Promote has replaced. *)
THEOREM RollbackIsExact == Spec => RollbackRestores
<1>1. TypeInv /\ CycleInv /\ [Next]_vars =>
          [Rollback /\ dest' # dest /\ before # None => dest' = before]_vars
  BY DEF TypeInv, StagePlaces, CycleInv, Rollback
<1> QED
  BY <1>1, CycleSound, PTL DEF Spec, RollbackRestores

(* A cycle that starts a worker ends when that has succeeded at the second *)
(* wait for readiness, or has been a restart of the old one.               *)
LEMMA EndsByStarting ==
    ASSUME TypeInv, [Next]_vars, pc["upd"] \in {"spawn", "poll", "nap"}, pc'["upd"] = "idle"
    PROVE  stage \in {"confirm", "restore"}
<1> USE DEF TypeInv, TypeOK, Goroutine, Go
<1>1. CASE MainStep
  BY <1>1 DEF MainStep, StartStep, Spawn, SpawnFails, PublishChild, Poll, NextPoll, PollTimeout,
       StartFailed, StartSucceeded, BeginShutdown, StopStep, TakeChild, StopDone, AfterStop,
       Joined, RunFails, Exit, Places, Starting
<1>2. CASE SupStep
  BY <1>2 DEF SupStep, StartStep, Spawn, SpawnFails, PublishChild, Poll, NextPoll,
       PollTimeout, StartFailed, StartSucceeded, Watch, ChildExited, BackoffOver
<1>3. CASE UpdStep
  <2>1. StartStep("upd")
    BY <1>3 DEF UpdStep, Check, StopStep, TakeChild, StopDone, SavePrevious, Install,
         Rollback, UpdateLoopEnds
  <2> QED
    BY <2>1 DEF StartStep, Spawn, SpawnFails, PublishChild, Poll, NextPoll, PollTimeout,
         StartFailed, StartSucceeded, StagePlaces, Starting
<1>4. ASSUME NEW p \in Pid, WorkerStep(p) PROVE FALSE
  BY <1>4 DEF WorkerStep, Bind, BindFails, Connect, Disconnect, Die, Becomes, Ends, goVars
<1>5. ASSUME NEW v \in Version, Publish(v) PROVE FALSE
  BY <1>5 DEF Publish, goVars
<1>6. CASE Shutdown \/ Restart
  BY <1>6 DEF Shutdown, Restart, Places
<1>7. CASE Crash
  BY <1>7 DEF Crash, Exit
<1>8. CASE UNCHANGED vars
  BY <1>8 DEF vars
<1> QED
  BY <1>1, <1>2, <1>3, <1>4, <1>5, <1>6, <1>7, <1>8 DEF Next

(* An update is applied with the replaced binary beside it, or undone. *)
THEOREM AppliedOrUndone == Spec => UpdateAllOrNothing
<1>1. ASSUME TypeInv, CycleInv, [Next]_vars,
             pc["upd"] \in {"spawn", "poll", "nap"}, pc'["upd"] = "idle", before # None
      PROVE  \/ stage = "confirm" /\ dest # None /\ prev = before
             \/ stage = "restore" /\ dest = before
             \/ stage = "restore" /\ DiskFails /\ prev = before
  <2>1. stage \in {"confirm", "restore"}
    BY <1>1, EndsByStarting
  <2> QED
    BY <1>1, <2>1 DEF CycleInv, Starting
<1>2. TypeInv /\ CycleInv /\ [Next]_vars =>
          [pc["upd"] \in {"spawn", "poll", "nap"} /\ pc'["upd"] = "idle" /\ before # None =>
              \/ stage = "confirm" /\ dest # None /\ prev = before
              \/ stage = "restore" /\ dest = before
              \/ stage = "restore" /\ DiskFails /\ prev = before]_vars
  BY <1>1
<1> QED
  BY <1>2, CycleSound, PTL DEF Spec, UpdateAllOrNothing

(* What Promote installs is newer than what it replaces, or the pin. *)
THEOREM UpdatesForwardOrPinned == Spec => ForwardOrPinned
<1>1. ASSUME TypeInv, CycleInv, Install, dest' = staged, before # None
      PROVE  IF config.pinned # "" THEN staged = config.pinned
             ELSE Parses(staged) /\ Parses(probed) =>
                     Precedes(Number[before], Number[staged])
  <2>1. ShouldUpdate(probed, config.pinned, staged) /\ probed \in {before, "unknown"}
    BY <1>1 DEF CycleInv, Decided, Install
  <2>2. Parses(probed) => probed = before
    BY <2>1, NumberAssumption DEF Parses
  <2> QED
    BY <2>1, <2>2 DEF ShouldUpdate, isNewer
<1>2. TypeInv /\ CycleInv /\ [Next]_vars =>
          [Install /\ dest' = staged /\ before # None =>
              IF config.pinned # "" THEN staged = config.pinned
              ELSE Parses(staged) /\ Parses(probed) =>
                      Precedes(Number[before], Number[staged])]_vars
  BY <1>1
<1> QED
  BY <1>2, CycleSound, PTL DEF Spec, ForwardOrPinned

-----------------------------------------------------------------------------
LEMMA InitSole == Init => SoleInv
BY VersionAssumption
   DEF Init, SoleInv, Sole, Alive, SupervisedWhileLive, Goroutine

(* Fewer processes alive, and no goroutine that moves. *)
LEMMA SoleFrame ==
    ASSUME SoleInv, UNCHANGED <<pc, handle, child, config>>, ctxDone => ctxDone',
           \A q \in Pid : Alive(q)' => Alive(q)
    PROVE  SoleInv'
BY DEF SoleInv, Sole, External, Stopping, SupervisedWhileLive

LEMMA SoleExit == ASSUME SoleInv, Exit PROVE SoleInv'
BY DEF SoleInv, Sole, Alive, External, SupervisedWhileLive, Exit, Goroutine

(* main starts the first worker, before there is a loop. *)
LEMMA SoleMainStarts ==
    ASSUME TypeInv, SoleInv, StartStep("main")
    PROVE  SoleInv'
<1> USE VersionAssumption
        DEF TypeInv, TypeOK, Places, Goroutine, Starting, SoleInv, Sole, Alive, External, Stopping,
            SupervisedWhileLive, Go
<1>1. pc["main"] \in Starting /\ pc["sup"] = "off"
  BY DEF StartStep, Spawn, SpawnFails, PublishChild, Poll, NextPoll, PollTimeout
<1>2. CASE Spawn("main")
  BY <1>1, <1>2 DEF Spawn, cycle
<1>3. CASE PublishChild("main")
  BY <1>1, <1>3 DEF PublishChild, cycle
<1>4. CASE SpawnFails("main") \/ Poll("main") \/ NextPoll("main") \/ PollTimeout("main")
  <2>1. UNCHANGED <<handle, child, ctxDone, proc, config>>
    BY <1>4 DEF SpawnFails, Poll, NextPoll, PollTimeout
  <2>2. \/ /\ pc["main"] \in {"spawn", "poll", "nap"}
           /\ pc' = [pc EXCEPT !["main"] = "failed"]
        \/ /\ pc["main"] \in {"poll", "nap"}
           /\ \/ pc' = [pc EXCEPT !["main"] = "nap"]
              \/ pc' = [pc EXCEPT !["main"] = "poll"]
              \/ pc' = [pc EXCEPT !["main"] = "live", !["sup"] = "top",
                           !["upd"] = IF config.mode = "binary" THEN "idle" ELSE "done"]
    BY <1>4 DEF SpawnFails, Poll, NextPoll, PollTimeout, StartFailed, StartSucceeded
  <2> QED
    BY <1>1, <2>1, <2>2
<1> QED
  BY <1>2, <1>3, <1>4 DEF StartStep

LEMMA SoleMainStops ==
    ASSUME TypeInv, SoleInv, BeginShutdown \/ StopStep("main")
    PROVE  SoleInv'
<1> USE VersionAssumption
        DEF TypeInv, TypeOK, Places, Goroutine, Starting, SoleInv, Sole, Alive, External, Stopping,
            SupervisedWhileLive, Go
<1>1. CASE BeginShutdown
  BY <1>1 DEF BeginShutdown
<1>2. CASE TakeChild("main")
  BY <1>2 DEF TakeChild, AfterStop, In
<1>3. CASE StopDone("main")
  BY <1>3 DEF StopDone, AfterStop
<1> QED
  BY <1>1, <1>2, <1>3 DEF StopStep

(* superviseLoop starts a worker only when it has seen the last one end. *)
LEMMA SoleSup ==
    ASSUME TypeInv, SoleInv, SupStep
    PROVE  SoleInv'
<1> USE VersionAssumption
        DEF TypeInv, TypeOK, Places, Goroutine, Starting, SoleInv, Sole, Alive, External, Stopping,
            SupervisedWhileLive, Go
<1>1. CASE Watch
  <2>1. CASE child = None
    <3>1. External => ctxDone
      BY <1>1, <2>1 DEF Watch, MainPlaces
    <3> QED
      BY <1>1, <2>1, <3>1 DEF Watch
  <2>2. CASE child # None
    BY <1>1, <2>2 DEF Watch
  <2> QED
    BY <2>1, <2>2
<1>2. CASE ChildExited
  <2>1. /\ pc["sup"] = "wait" /\ UNCHANGED <<child, ctxDone, proc, config>>
        /\ handle' = [handle EXCEPT !["sup"] = None]
        /\ pc' = [pc EXCEPT !["sup"] = IF ctxDone THEN "done" ELSE "backoff"]
    BY <1>2 DEF ChildExited
  <2>2. External => Sole(None) /\ Sole(None)'
    BY <1>2, <2>1 DEF ChildExited
  <2> QED
    BY <2>1, <2>2
<1>3. CASE BackoffOver
  BY <1>3 DEF BackoffOver
<1>4. CASE Spawn("sup")
  BY <1>4 DEF Spawn
<1>5. CASE PublishChild("sup")
  BY <1>5 DEF PublishChild
<1>6. CASE SpawnFails("sup") \/ Poll("sup") \/ NextPoll("sup") \/ PollTimeout("sup")
  <2>1. UNCHANGED <<handle, child, ctxDone, proc, config>>
    BY <1>6 DEF SpawnFails, Poll, NextPoll, PollTimeout
  <2>2. pc["sup"] \in {"spawn", "poll", "nap"}
    BY <1>6 DEF SpawnFails, Poll, NextPoll, PollTimeout
  <2>3. \/ pc' = [pc EXCEPT !["sup"] = "top"]
        \/ pc["sup"] # "spawn" /\ pc' = [pc EXCEPT !["sup"] = "nap"]
        \/ pc["sup"] # "spawn" /\ pc' = [pc EXCEPT !["sup"] = "poll"]
    BY <1>6 DEF SpawnFails, Poll, NextPoll, PollTimeout, StartFailed, StartSucceeded
  <2> QED
    BY <2>1, <2>2, <2>3
<1> QED
  BY <1>1, <1>2, <1>3, <1>4, <1>5, <1>6 DEF SupStep, StartStep

(* Where no update loop runs, its steps leave nothing to look at; where one *)
(* runs, nothing is claimed but that all is over at an exit.               *)
LEMMA SoleUpd ==
    ASSUME TypeInv, SoleInv, UpdStep
    PROVE  SoleInv'
<1> USE DEF TypeInv, TypeOK, Goroutine
<1>1. pc["upd"] \notin {"off", "done"} /\ pc'["main"] = pc["main"] /\ UNCHANGED config
  BY DEF UpdStep, Check, StopStep, TakeChild, StopDone, SavePrevious, Install, Rollback,
         UpdateLoopEnds, StartStep, Spawn, SpawnFails, PublishChild, Poll, NextPoll,
         PollTimeout, StartFailed, StartSucceeded, Go
<1>2. ~External
  BY <1>1 DEF SoleInv
<1>3. pc["main"] \notin {"spawn", "exited"}
  BY <1>1 DEF Places, UpdPlaces, Starting
<1> QED
  BY <1>1, <1>2, <1>3 DEF SoleInv, External

LEMMA StepSole == TypeInv /\ SoleInv /\ [Next]_vars => SoleInv'
<1> SUFFICES ASSUME TypeInv, SoleInv, [Next]_vars PROVE SoleInv'
  OBVIOUS
<1>1. CASE MainStep
  BY <1>1, SoleMainStarts, SoleMainStops, SoleExit DEF MainStep, Joined, RunFails
<1>2. CASE SupStep
  BY <1>2, SoleSup
<1>3. CASE UpdStep
  BY <1>3, SoleUpd
<1>4. ASSUME NEW p \in Pid, WorkerStep(p) PROVE SoleInv'
  <2>1. \A q \in Pid : Alive(q)' => Alive(q)
    BY <1>4 DEF WorkerStep, Bind, BindFails, Connect, Disconnect, Die, Becomes, Ends,
         In, Alive, TypeInv, TypeOK
  <2>2. UNCHANGED <<pc, handle, child, ctxDone, config>>
    BY <1>4 DEF WorkerStep, Bind, BindFails, Connect, Disconnect, Die, Becomes, Ends, goVars
  <2> QED
    BY <2>1, <2>2, SoleFrame
<1>5. ASSUME NEW v \in Version, Publish(v) PROVE SoleInv'
  BY <1>5, SoleFrame DEF Publish, goVars, Alive
<1>6. CASE Shutdown
  BY <1>6, SoleFrame DEF Shutdown, Alive
<1>7. CASE Crash
  BY <1>7, SoleExit DEF Crash
<1>8. CASE Restart
  BY <1>8 DEF Restart, SoleInv, Sole, Alive, External, SupervisedWhileLive, TypeInv, TypeOK,
       Places, Goroutine
<1>9. CASE UNCHANGED vars
  BY <1>9, SoleFrame DEF vars, Alive
<1> QED
  BY <1>1, <1>2, <1>3, <1>4, <1>5, <1>6, <1>7, <1>8, <1>9 DEF Next

(* Without an update loop the one living worker is the one in hand.        *)
THEOREM SoleWorker == Spec => [](TypeInv /\ SoleInv)
BY InitTyped, StepTyped, InitSole, StepSole, PTL DEF Spec

-----------------------------------------------------------------------------
(* Every reachable state is well typed. *)
THEOREM TypeCorrect == Spec => []TypeOK
<1>1. TypeInv => TypeOK
  BY DEF TypeInv
<1> QED
  BY <1>1, Typed, PTL

(* Without an update loop there is one worker process at a time. *)
THEOREM OneWorkerAtATime == Spec => []OneWorker
<1>1. ASSUME TypeInv, SoleInv, External
      PROVE  \E p \in Pid \cup {None} : Sole(p)
  <2>1. /\ None \in Pid \cup {None} /\ child \in Pid \cup {None}
        /\ handle["main"] \in Pid \cup {None} /\ handle["sup"] \in Pid \cup {None}
    BY <1>1 DEF TypeInv, TypeOK, Goroutine
  <2>2. CASE pc["sup"] = "off"
    BY <1>1, <2>1, <2>2 DEF TypeInv, Places, Starting, SoleInv
  <2>3. CASE pc["sup"] # "off"
    BY <1>1, <2>1, <2>3 DEF TypeInv, Places, SupPlaces, Starting, SoleInv, Stopping
  <2> QED
    BY <2>2, <2>3
<1>2. TypeInv /\ SoleInv => OneWorker
  BY <1>1 DEF External, Sole, OneWorker
<1> QED
  BY <1>2, SoleWorker, PTL

(* Without an update loop superviseLoop does not retire before the end. *)
THEOREM SupervisedToTheEnd == Spec => []SupervisedUnlessUpdating
<1>1. TypeInv /\ SoleInv => SupervisedUnlessUpdating
  BY DEF SoleInv, External, SupervisedUnlessUpdating
<1> QED
  BY <1>1, SoleWorker, PTL

(* Without an update loop no worker is left when the supervisor leaves. *)
THEOREM NothingLeftBehind == Spec => GracefulExit
<1>1. ASSUME TypeInv, SoleInv, Joined, External
      PROVE  \A p \in Pid : ~Alive(p)
  BY <1>1, VersionAssumption DEF SoleInv, Joined, Stopping, Sole
<1>2. TypeInv /\ SoleInv /\ [Next]_vars =>
          [Joined /\ config.mode = "external" => \A p \in Pid : ~Alive(p)]_vars
  BY <1>1 DEF External
<1> QED
  BY <1>2, SoleWorker, PTL DEF Spec, GracefulExit
=============================================================================
