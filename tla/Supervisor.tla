----------------------------- MODULE Supervisor -----------------------------
(***************************************************************************)
(* The supervisor process of internal/supervisor with the binary swap of   *)
(* internal/update: three goroutines share s.child, the files dest and     *)
(* dest.prev, and the worker processes they start and stop.                *)
(*                                                                         *)
(*   "main"  Run: starts the first worker, waits for the signal, stops it  *)
(*   "sup"   superviseLoop: waits for the child and starts another         *)
(*   "upd"   updateLoop: fetches, stages, swaps, health-checks, rolls back *)
(*                                                                         *)
(* startChild and stopChild are run by more than one of them, so their     *)
(* actions take the goroutine as parameter.  The service manager of        *)
(* deploy/systemd ends what is left of the process group when the          *)
(* supervisor is gone, and starts the supervisor again.                    *)
(***************************************************************************)
EXTENDS UpdatePolicy

CONSTANTS
    Pid,            \* process slots, a bound on workers that live together
    Sound,          \* the versions whose worker can become ready
    Configs,        \* update.mode and update.pinnedVersion in config.json
    DiskFails,      \* whether renaming a binary can fail
    ProbeFails,     \* whether --version of an installed binary can fail
    None            \* no process, no file, no release

ASSUME VersionAssumption ==
    /\ Sound \subseteq Version /\ Version # {}
    /\ None \notin Version /\ None \notin Pid
ASSUME ConfigAssumption ==
    /\ Configs \subseteq [mode : {"binary", "external"},
                          pinned : Version \cup {""}]
    /\ DiskFails \in BOOLEAN /\ ProbeFails \in BOOLEAN

VARIABLES
    pc,             \* where each goroutine is
    handle,         \* the *exec.Cmd each goroutine started, waits for or stops
    stage,          \* which part of checkAndApply "upd" is in
    child,          \* s.child
    ctxDone,        \* the context of Run is cancelled
    proc,           \* the worker processes: None, or state and version
    dest,           \* version of the installed binary
    prev,           \* version of dest.prev
    staged,         \* version of the verified download
    release,        \* version of the published manifest
    before,         \* history: what dest was when Promote began
    probed,         \* history: what currentWorkerVersion returned last
    config          \* the configuration this supervisor loaded

cycle == <<stage, before, probed>>
goVars == <<pc, handle, cycle, child, ctxDone>>
fileVars == <<dest, prev, staged>>
vars == <<pc, handle, stage, child, ctxDone, proc, dest, prev, staged,
          release, before, probed, config>>

Goroutine == {"main", "sup", "upd"}
Stages == {"update", "confirm", "rollback", "restore"}

(* A worker binds its health port before it connects and gives it up when  *)
(* it begins to drain.                                                     *)
Worker == [state : {"starting", "bound", "ready", "draining"}, version : Version]

Alive(p) == proc[p] # None
In(p, s) == Alive(p) /\ proc[p].state = s
PortTaken == \E p \in Pid : In(p, "bound") \/ In(p, "ready")
Answering == \E p \in Pid : In(p, "ready")

(* A slot no goroutine refers to any more. *)
Free(p) == ~Alive(p) /\ child # p /\ \A g \in Goroutine : handle[g] # p

Go(g, l) == pc' = [pc EXCEPT ![g] = l]

(* checkAndApply returns. *)
CycleOver == stage' = "update" /\ before' = None /\ probed' = None

Init ==
    /\ pc = [g \in Goroutine |-> IF g = "main" THEN "spawn" ELSE "off"]
    /\ handle = [g \in Goroutine |-> None]
    /\ stage = "update"
    /\ child = None /\ ctxDone = FALSE
    /\ proc = [p \in Pid |-> None]
    /\ dest \in Version /\ prev = None /\ staged = None /\ before = None
    /\ probed = None /\ release = None
    /\ config \in Configs
-----------------------------------------------------------------------------
(* The worker processes and the world. *)

Becomes(p, s) ==
    /\ proc' = [proc EXCEPT ![p].state = s]
    /\ UNCHANGED <<goVars, fileVars, release, config>>

Ends(p) ==
    /\ proc' = [proc EXCEPT ![p] = None]
    /\ UNCHANGED <<goVars, fileVars, release, config>>

Bind(p) == In(p, "starting") /\ ~PortTaken /\ Becomes(p, "bound")

(* net.Listen fails: the worker exits with an error. *)
BindFails(p) == In(p, "starting") /\ PortTaken /\ Ends(p)

(* /readyz says whether the client is connected; the client reconnects. *)
Connect(p) == In(p, "bound") /\ proc[p].version \in Sound /\ Becomes(p, "ready")

Disconnect(p) == In(p, "ready") /\ Becomes(p, "bound")

(* A worker exits: it fails, is killed from outside or has drained. *)
Die(p) == Alive(p) /\ Ends(p)

Publish(v) ==
    /\ release # v
    /\ release' = v
    /\ UNCHANGED <<goVars, proc, fileVars, config>>

(* SIGTERM reaches the supervisor. *)
Shutdown ==
    /\ ~ctxDone /\ pc["main"] # "exited"
    /\ ctxDone' = TRUE
    /\ UNCHANGED <<pc, handle, cycle, child, proc, fileVars, release, config>>

(* The supervisor process ends, whichever way: its goroutines and a staged *)
(* download are gone, the service manager kills the workers it leaves.     *)
Exit ==
    /\ pc' = [g \in Goroutine |-> IF g = "main" THEN "exited" ELSE "off"]
    /\ handle' = [g \in Goroutine |-> None]
    /\ stage' = "update" /\ child' = None
    /\ proc' = [p \in Pid |-> None]
    /\ staged' = None /\ before' = None /\ probed' = None
    /\ UNCHANGED <<ctxDone, dest, prev, release, config>>

(* The supervisor or its host crashes. *)
Crash ==
    /\ pc["main"] # "exited"
    /\ Exit

(* The service manager, or the operator, starts the supervisor, which      *)
(* loads the configuration anew.                                           *)
Restart ==
    /\ pc["main"] = "exited"
    /\ pc' = [pc EXCEPT !["main"] = "spawn"]
    /\ ctxDone' = FALSE
    /\ config' \in Configs
    /\ UNCHANGED <<handle, cycle, child, proc, fileVars, release>>
-----------------------------------------------------------------------------
(* startChild, for any of the three. *)

Spawn(g) ==
    /\ pc[g] = "spawn"
    /\ ~ctxDone /\ dest # None
    /\ \E p \in Pid :
          /\ Free(p)
          /\ proc' = [proc EXCEPT ![p] = [state |-> "starting", version |-> dest]]
          /\ handle' = [handle EXCEPT ![g] = p]
    /\ Go(g, "publish")
    /\ UNCHANGED <<cycle, child, ctxDone, fileVars, release, config>>

(* A startChild that goes on using its own handle after publishing it. *)
PublishKept(g) ==
    /\ pc[g] = "publish"
    /\ child' = handle[g]
    /\ Go(g, "poll")
    /\ UNCHANGED <<handle, cycle, ctxDone, proc, fileVars, release, config>>

(* s.child = cmd, under the lock; a child published before is forgotten. *)
PublishChild(g) ==
    /\ pc[g] = "publish"
    /\ child' = handle[g]
    /\ handle' = [handle EXCEPT ![g] = None]
    /\ Go(g, "poll")
    /\ UNCHANGED <<cycle, ctxDone, proc, fileVars, release, config>>

(* A superviseLoop that returns when a restart fails during the shutdown. *)
StartFailedRetires(g) ==
    \/ g = "main" /\ Go(g, "failed") /\ UNCHANGED cycle
    \/ g = "sup" /\ Go(g, IF ctxDone THEN "done" ELSE "top") /\ UNCHANGED cycle
    \/ g = "upd" /\ Go(g, "idle") /\ CycleOver

(* A superviseLoop that tries again at once when a restart fails. *)
StartFailedRetries(g) ==
    \/ g = "main" /\ Go(g, "failed") /\ UNCHANGED cycle
    \/ g = "sup" /\ Go(g, "backoff") /\ UNCHANGED cycle
    \/ g = "upd" /\ Go(g, "idle") /\ CycleOver

(* What each caller does with startChild's error ... *)
StartFailed(g) ==
    \/ g = "main" /\ Go(g, "failed") /\ UNCHANGED cycle
    \/ g = "sup" /\ Go(g, "top") /\ UNCHANGED cycle
    \/ g = "upd" /\ stage \in {"update", "confirm"}
         /\ Go(g, "stop") /\ stage' = "rollback" /\ UNCHANGED <<before, probed>>
    \/ g = "upd" /\ stage = "restore" /\ Go(g, "idle") /\ CycleOver

(* ... and with its success.  The updater waits for readiness once more.   *)
StartSucceeded(g) ==
    \/ /\ g = "main"
       /\ pc' = [pc EXCEPT !["main"] = "live", !["sup"] = "top",
             !["upd"] = IF config.mode = "binary" THEN "idle" ELSE "done"]
       /\ UNCHANGED cycle
    \/ g = "sup" /\ Go(g, "top") /\ UNCHANGED cycle
    \/ g = "upd" /\ stage = "update" /\ Go(g, "poll")
         /\ stage' = "confirm" /\ UNCHANGED <<before, probed>>
    \/ g = "upd" /\ stage \in {"confirm", "restore"}
         /\ Go(g, "idle") /\ CycleOver

(* cmd.Start: the context is done, there is no binary, no process either. *)
SpawnFails(g) ==
    /\ pc[g] = "spawn"
    /\ ctxDone \/ dest = None \/ ~\E p \in Pid : Free(p)
    /\ StartFailed(g)
    /\ UNCHANGED <<handle, child, ctxDone, proc, fileVars, release, config>>

(* One poll of /readyz, whichever process answers it. *)
Poll(g) ==
    /\ pc[g] = "poll"
    /\ \/ ctxDone /\ StartFailed(g)
       \/ ~ctxDone /\ Answering /\ StartSucceeded(g)
       \/ ~ctxDone /\ ~Answering /\ Go(g, "nap") /\ UNCHANGED cycle
    /\ UNCHANGED <<handle, child, ctxDone, proc, fileVars, release, config>>

NextPoll(g) ==
    /\ pc[g] = "nap" /\ ~ctxDone
    /\ Go(g, "poll")
    /\ UNCHANGED <<handle, cycle, child, ctxDone, proc, fileVars, release, config>>

(* A waitReady that only the context ends. *)
PollTimeoutCancelled(g) ==
    /\ pc[g] = "nap" /\ ctxDone
    /\ StartFailed(g)
    /\ UNCHANGED <<handle, child, ctxDone, proc, fileVars, release, config>>

(* The deadline has passed, or the context is done. *)
PollTimeout(g) ==
    /\ pc[g] = "nap"
    /\ StartFailed(g)
    /\ UNCHANGED <<handle, child, ctxDone, proc, fileVars, release, config>>
-----------------------------------------------------------------------------
(* stopChild, for "main" and "upd". *)

AfterStop(g) ==
    CASE g = "main" -> "join"
      [] g = "upd" /\ stage = "update" -> "promote"
      [] g = "upd" /\ stage = "rollback" -> "rollback"

(* The child is taken out of s.child and signalled.  A worker that has not *)
(* installed its handler dies of the signal; the others drain.             *)
TakeChild(g) ==
    /\ pc[g] = "stop"
    /\ child' = None
    /\ \/ /\ child = None
          /\ Go(g, AfterStop(g))
          /\ UNCHANGED <<handle, proc>>
       \/ /\ child # None
          /\ Go(g, "stopwait")
          /\ handle' = [handle EXCEPT ![g] = child]
          /\ proc' = CASE ~Alive(child) -> proc
                      [] In(child, "starting") -> [proc EXCEPT ![child] = None]
                      [] OTHER -> [proc EXCEPT ![child].state = "draining"]
    /\ UNCHANGED <<cycle, ctxDone, fileVars, release, config>>

(* A stopChild without a timeout. *)
StopDoneExited(g) ==
    /\ pc[g] = "stopwait" /\ ~Alive(handle[g])
    /\ handle' = [handle EXCEPT ![g] = None]
    /\ Go(g, AfterStop(g))
    /\ UNCHANGED <<cycle, child, ctxDone, proc, fileVars, release, config>>

(* The child has exited, or the timeout has passed and it is killed. *)
StopDone(g) ==
    /\ pc[g] = "stopwait"
    /\ proc' = [proc EXCEPT ![handle[g]] = None]
    /\ handle' = [handle EXCEPT ![g] = None]
    /\ Go(g, AfterStop(g))
    /\ UNCHANGED <<cycle, child, ctxDone, fileVars, release, config>>
-----------------------------------------------------------------------------
(* superviseLoop. *)

Watch ==
    /\ pc["sup"] = "top"
    /\ \/ child = None /\ Go("sup", "done") /\ UNCHANGED handle
       \/ child # None /\ Go("sup", "wait")
            /\ handle' = [handle EXCEPT !["sup"] = child]
    /\ UNCHANGED <<cycle, child, ctxDone, proc, fileVars, release, config>>

(* A superviseLoop that takes every exit for the end. *)
ChildExitedFinal ==
    /\ pc["sup"] = "wait"
    /\ ~Alive(handle["sup"])
    /\ handle' = [handle EXCEPT !["sup"] = None]
    /\ Go("sup", "done")
    /\ UNCHANGED <<cycle, child, ctxDone, proc, fileVars, release, config>>

(* child.Wait returns, whoever ended the child. *)
ChildExited ==
    /\ pc["sup"] = "wait"
    /\ ~Alive(handle["sup"])
    /\ handle' = [handle EXCEPT !["sup"] = None]
    /\ Go("sup", IF ctxDone THEN "done" ELSE "backoff")
    /\ UNCHANGED <<cycle, child, ctxDone, proc, fileVars, release, config>>

BackoffOver ==
    /\ pc["sup"] = "backoff"
    /\ \/ Go("sup", "spawn")
       \/ ctxDone /\ Go("sup", "done")
    /\ UNCHANGED <<handle, cycle, child, ctxDone, proc, fileVars, release, config>>
-----------------------------------------------------------------------------
(* updateLoop and checkAndApply. *)

(* What the installed binary may say of its version. *)
currentWorkerVersion ==
    (IF dest = None THEN {} ELSE {dest})
        \cup (IF dest = None \/ ProbeFails THEN {"unknown"} ELSE {})

(* There is a manifest; its signature verifies. *)
FetchManifest == release # None

(* The verified download lies beside dest. *)
StageWorker == staged' = release

(* The cycle up to the swap.  When the manifest, the download or the       *)
(* self-check fails the cycle ends with nothing changed.                   *)
Check ==
    /\ pc["upd"] = "idle" /\ ~ctxDone
    /\ FetchManifest
    /\ \E current \in currentWorkerVersion :
          /\ ShouldUpdate(current, config.pinned, release)
          /\ probed' = current
    /\ StageWorker
    /\ Go("upd", "stop")
    /\ UNCHANGED <<handle, stage, child, ctxDone, proc, dest, prev, before,
                   release, config>>

UpdateLoopEnds ==
    /\ pc["upd"] = "idle" /\ ctxDone
    /\ Go("upd", "done")
    /\ UNCHANGED <<handle, cycle, child, ctxDone, proc, fileVars, release, config>>

(* A Promote that does not overwrite an older dest.prev. *)
SaveFirstOnly ==
    /\ pc["upd"] = "promote"
    /\ before' = dest
    /\ dest' = None
    /\ prev' = IF prev = None THEN dest ELSE prev
    /\ Go("upd", "install")
    /\ UNCHANGED <<handle, stage, child, ctxDone, proc, staged, probed, release,
                   config>>

(* A Promote that removes the installed binary first. *)
SaveNothing ==
    /\ pc["upd"] = "promote"
    /\ before' = dest
    /\ dest' = None
    /\ Go("upd", "install")
    /\ UNCHANGED <<handle, stage, child, ctxDone, proc, prev, staged, probed, release,
                   config>>

(* Promote, first rename: dest becomes dest.prev. *)
SavePrevious ==
    /\ pc["upd"] = "promote"
    /\ before' = dest
    /\ \/ /\ dest # None
          /\ prev' = dest /\ dest' = None
          /\ Go("upd", "install") /\ UNCHANGED <<stage, staged>>
       \/ /\ dest = None
          /\ Go("upd", "install") /\ UNCHANGED <<dest, prev, stage, staged>>
       \/ /\ dest # None /\ DiskFails     \* the download is removed
          /\ Go("upd", "spawn") /\ stage' = "restore" /\ staged' = None
          /\ UNCHANGED <<dest, prev>>
    /\ UNCHANGED <<handle, child, ctxDone, proc, probed, release,
                   config>>

(* A Promote that removes dest.prev once the new binary is installed. *)
InstallTidy ==
    /\ pc["upd"] = "install"
    /\ staged' = None
    /\ Go("upd", "spawn")
    /\ \/ dest' = staged /\ prev' = None /\ UNCHANGED stage
       \/ /\ DiskFails /\ stage' = "restore"
          /\ prev # None /\ dest' = prev /\ prev' = None
    /\ UNCHANGED <<handle, child, ctxDone, proc, before, probed, release,
                   config>>

(* Promote, second rename: staged becomes dest.  If it fails the previous  *)
(* binary is put back, if that succeeds.                                   *)
Install ==
    /\ pc["upd"] = "install"
    /\ staged' = None
    /\ Go("upd", "spawn")
    /\ \/ dest' = staged /\ UNCHANGED <<prev, stage>>
       \/ /\ DiskFails /\ stage' = "restore"
          /\ prev # None /\ dest' = prev /\ prev' = None
       \/ /\ DiskFails /\ stage' = "restore"
          /\ UNCHANGED <<dest, prev>>
    /\ UNCHANGED <<handle, child, ctxDone, proc, before, probed, release,
                   config>>

(* Rollback, which fails when there is nothing to roll back to; the worker *)
(* is started again either way.                                            *)
Rollback ==
    /\ pc["upd"] = "rollback"
    /\ \/ prev # None /\ dest' = prev /\ prev' = None
       \/ (prev = None \/ DiskFails) /\ UNCHANGED <<dest, prev>>
    /\ stage' = "restore"
    /\ Go("upd", "spawn")
    /\ UNCHANGED <<handle, child, ctxDone, proc, staged, before, probed, release,
                   config>>
-----------------------------------------------------------------------------
(* Run. *)

BeginShutdown ==
    /\ pc["main"] = "live" /\ ctxDone
    /\ Go("main", "stop")
    /\ UNCHANGED <<handle, cycle, child, ctxDone, proc, fileVars, release, config>>

(* wg.Wait returns: both loops are over, Run returns nil. *)
Joined ==
    /\ pc["main"] = "join"
    /\ pc["sup"] = "done" /\ pc["upd"] = "done"
    /\ Exit

(* Run returns startChild's error. *)
RunFails ==
    /\ pc["main"] = "failed"
    /\ Exit

StartStep(g) == Spawn(g) \/ SpawnFails(g) \/ PublishChild(g) \/ Poll(g)
                   \/ NextPoll(g) \/ PollTimeout(g)
StopStep(g) == TakeChild(g) \/ StopDone(g)
MainStep == StartStep("main") \/ BeginShutdown \/ StopStep("main")
               \/ Joined \/ RunFails
SupStep == Watch \/ ChildExited \/ BackoffOver \/ StartStep("sup")
UpdStep == Check \/ StopStep("upd") \/ SavePrevious \/ Install
              \/ StartStep("upd") \/ Rollback \/ UpdateLoopEnds
WorkerStep(p) == Bind(p) \/ BindFails(p) \/ Connect(p) \/ Disconnect(p) \/ Die(p)

Next ==
    \/ MainStep \/ SupStep \/ UpdStep
    \/ \E p \in Pid : WorkerStep(p)
    \/ \E v \in Version : Publish(v)
    \/ Shutdown \/ Crash \/ Restart

Spec == Init /\ [][Next]_vars

(* Goroutines run; polling stops at its deadline, so a goroutine that keeps *)
(* napping times out (strong fairness, for it naps and polls in turn); a    *)
(* worker binds or fails to; the supervisor is started again.  No worker is *)
(* assumed to exit, to connect or to stay connected.                       *)
FairSpec ==
    /\ Spec
    /\ WF_vars(MainStep) /\ WF_vars(SupStep) /\ WF_vars(UpdStep)
    /\ \A g \in Goroutine : SF_vars(PollTimeout(g))
    /\ \A p \in Pid : WF_vars(Bind(p) \/ BindFails(p))
    /\ WF_vars(Restart)
-----------------------------------------------------------------------------
(* Every variable holds a value of its kind, and no goroutine but one that *)
(* started, waits for or stops a process holds one.                        *)
TypeOK ==
    /\ pc \in [Goroutine ->
                 {"off", "spawn", "publish", "poll", "nap", "failed", "live",
                  "stop", "stopwait", "join", "exited", "top", "wait",
                  "backoff", "idle", "promote", "install", "rollback", "done"}]
    /\ handle \in [Goroutine -> Pid \cup {None}]
    /\ \A g \in Goroutine :
          handle[g] # None <=> pc[g] \in {"publish", "stopwait", "wait"}
    /\ stage \in Stages
    /\ child \in Pid \cup {None} /\ ctxDone \in BOOLEAN
    /\ proc \in [Pid -> Worker \cup {None}]
    /\ {dest, prev, staged, release, before} \subseteq Version \cup {None}
    /\ probed \in Version \cup {"unknown", None}
    /\ config \in Configs

(* Wherever the supervisor crashes and whichever rename fails, a worker    *)
(* binary is left on disk, as dest or as dest.prev (Promote, Rollback).    *)
BinaryNeverLost == dest # None \/ prev # None

(* A rollback that changes the installed binary puts back the one Promote  *)
(* replaced, not one of an earlier update (checkAndApply, Rollback).       *)
RollbackRestores ==
    [][Rollback /\ dest' # dest /\ before # None => dest' = before]_vars

(* An update is applied or undone, whatever the new worker does, and the   *)
(* binary it replaces is not given up: at the end of a cycle there is the  *)
(* new one with the replaced one beside it, or the replaced one is back,   *)
(* or renaming failed and it still lies beside (checkAndApply).            *)
UpdateAllOrNothing ==
    [][pc["upd"] \in {"spawn", "poll", "nap"} /\ pc'["upd"] = "idle" /\ before # None =>
          \/ stage = "confirm" /\ dest # None /\ prev = before
          \/ stage = "restore" /\ dest = before
          \/ stage = "restore" /\ DiskFails /\ prev = before]_vars

(* Without a pin an update between versions that parse never installs an   *)
(* older one than it replaces, and with a pin nothing but the pinned one   *)
(* (ShouldUpdate decides, Promote acts on it several steps later); only a  *)
(* binary that did not say its version is replaced blindly.                *)
ForwardOrPinned ==
    [][Install /\ dest' = staged /\ before # None =>
          IF config.pinned # "" THEN staged = config.pinned
          ELSE Parses(staged) /\ Parses(probed) =>
                  Precedes(Number[before], Number[staged])]_vars

(* An update cycle comes to its end, also when the old worker does not     *)
(* drain or the new one never becomes ready (checkAndApply, stopChild).    *)
UpdateCycleEnds ==
    pc["upd"] = "stop" ~> pc["upd"] \in {"idle", "done", "off"}

(* A worker that died is started again, or the supervisor is on its way    *)
(* out (superviseLoop), where no update loop takes the child away.         *)
WorkerRestarted ==
    config.mode = "external" /\ pc["main"] = "live" /\ (\A p \in Pid : ~Alive(p))
        ~> (\E p \in Pid : Alive(p)) \/ ctxDone \/ pc["main"] = "exited"

(* "Supervisor manages one worker child": without an update loop no second *)
(* worker process lives.                                                   *)
OneWorker ==
    config.mode = "external" => \A p, q \in Pid : Alive(p) /\ Alive(q) => p = q

(* "superviseLoop restarts the child if it exits while ctx is still live": *)
(* it does not retire before that.                                         *)
SupervisedWhileLive == pc["sup"] = "done" => ctxDone

(* It does so where no update loop takes the child away.                   *)
SupervisedUnlessUpdating == config.mode = "external" => SupervisedWhileLive

(* "Graceful drain: give in-flight jobs time to finish on stop": when the  *)
(* supervisor leaves by itself, without an update loop, no worker is left  *)
(* to be killed.                                                           *)
GracefulExit ==
    [][Joined /\ config.mode = "external" => \A p \in Pid : ~Alive(p)]_vars

(* "health-checks": an update counts as applied when a worker of the newly  *)
(* installed version is ready.                                             *)
HealthGate ==
    [][Poll("upd") /\ stage = "confirm" /\ pc'["upd"] = "idle"
          => \E p \in Pid : In(p, "ready") /\ proc[p].version = dest]_vars

(* "Promote atomically swaps staged into dest": whenever the supervisor    *)
(* starts there is a binary to start.                                      *)
InstalledAtStart == pc["main"] = "spawn" => dest # None
=============================================================================
