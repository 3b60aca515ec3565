# Verification of apipact-agent

TLA+ modules of the agent's own logic, TLC configurations that check them on
small instances, and TLAPS proofs for every instance. Paths and line numbers
are those of the repository; `PROJECT.json` maps every definition to its lines.

    tlc -config MCWorkerJobs.cfg MCWorker          # a run
    tlapm WorkerProofs.tla                         # the proofs of a module

## 1. The system

An agent host runs a **supervisor** process, which runs one **worker** process.
The cloud publishes sealed jobs on a relay channel; the worker opens them,
executes their HTTP requests and reports a sealed result. The supervisor keeps
the worker alive and replaces its binary when a newer release is published.

| part | source | state it keeps | operations |
|---|---|---|---|
| dedupe store | `internal/store/dedupe.go` | map job id -> second, and the file that mirrors it | `Open`, `SeenOrRecord` |
| job lifecycle | `internal/worker/worker.go` | `draining`, `wg`, `inflight`, the replay cache of the opener | `onJob` (called concurrently by the relay client), `runJob`, the drain of `Run`, `Build` |
| request pool | `internal/worker/worker.go` | `w.sem`, a job's `jobSem`, its results | `execRequests`, `execOne` |
| executor | `internal/executor` | nothing between calls | `Execute`: redirect loop, guarded dial, body cap |
| reporter | `internal/reporter/reporter.go` | nothing between calls | `Report`: channel or HTTP, attempts, diversion, fallback |
| supervisor | `internal/supervisor/supervisor.go` | `s.child`, the context | `Run`, `superviseLoop`, `updateLoop`, `startChild`, `stopChild`, `waitReady` |
| binary swap, manifest | `internal/update` | `dest`, `dest.prev`, the staged file | `StageWorker`, `Promote`, `Rollback`, `ShouldUpdate` |
| control, heartbeat | `internal/worker/worker.go` | a ticker, the pongs being published | `onControl`, `heartbeatLoop`, `sendHeartbeat`, the way out of `Run` |
| health endpoint | `internal/worker/worker.go` | the listening port | `/healthz`, `/readyz` |
| relay transport | `internal/transport` | the relay client | `Connect`, `Close` |
| configuration, enrollment | `internal/config`, `internal/enroll`, `cmd/agentctl` | the configuration file; at the cloud, the keys of each agent | `Load`, `applyDefaults`, `Validate`, `Save`, `Enroll`, `cmdEnroll` |
| service manager | `deploy/systemd` | the process group | restart, SIGTERM, SIGKILL of the group |

How they meet: relay goroutines call `onJob`; each accepted job gets a goroutine
that calls `execRequests`, which calls `Execute` under two semaphores, and then
`Report`. All share the store's lock and `w.wg`. The supervisor's three
goroutines share `s.child` and the disk; they learn of the worker by
`Wait`, by signals and by polling the health port, which does not tell which
process answers. `agentctl enroll` writes the configuration that the next worker
process loads, also while one is running.

What is hard here, with the line of each in `PROJECT.json` "hazards":

- *crashes*: a job on record whose process dies before, while or after it runs;
  a supervisor that dies between the two renames of `Promote`;
- *interleavings*: two deliveries of one job in `SeenOrRecord`; `wg.Add` against
  `wg.Wait`; `superviseLoop` and `stopChild` waiting for one process;
- *unreliable delivery*: the relay repeats, delays and loses; an answer to a
  publish is lost although the result arrived; a redirect answers for an endpoint
  that has received nothing;
- *partial failures*: the cloud has redeemed a token and its answer is lost, or
  the configuration is not written;
- *time*: replay cache, freshness window and retention must overlap, also across
  restarts; a drain may be cut off by the supervisor at any time;
- *limits*: two semaphores taken one inside the other; attempt, redirect and
  body limits off by one.

What makes each part correct: the **worker** runs an envelope at most once and
two runs of a job id at least the retention time apart, whatever fails, and
suppresses a job for no other reason than such a run; the **pool** never exceeds its limits, fills every slot
and does not deadlock; the **executor** never sends to an address the policy
refuses and reports the chain it walked; the **reporter** gives up only when
no place it knows of is left, and calls delivered only what has arrived (the code
keeps neither in full, see `report_fallback` and the redirects of section 5); the
**supervisor** keeps exactly one worker running, always has a binary to run,
and moves forward, to the pin, or back to where it was; an **enrollment** never
leaves a configuration whose keys are not the agent's, and a **worker** speaks
for the agent it was started as, with heartbeats until it is stopped.

## 2. Modules

| module | models | theorems |
|---|---|---|
| `Dedupe` | the store: state and operations | |
| `Worker` (extends `Dedupe`) | job lifecycle, drain, crash, restart | `WorkerProofs` |
| `JobRuns` | abstract: what the worker promises about jobs | |
| `RequestPool` | `execRequests`, `execOne` for several jobs at once | `RequestPoolProofs` |
| `JobResults` | abstract: what `execRequests` promises of a job's requests | |
| `Executor` | one call of `Execute` | `ExecutorProofs` |
| `Reporter` | one call of `Report` | `ReporterProofs` |
| `Delivery` | abstract: what `Report` promises | |
| `UpdatePolicy` | `ShouldUpdate`, `isNewer` | `UpdatePolicyProofs` |
| `Supervisor` (extends `UpdatePolicy`) | supervisor, swap, worker processes, service manager | `SupervisorProofs` |
| `AgentConfig` | `applyDefaults`, `Validate`, what `Load` and `Build` accept | |
| `Enroll` (extends `AgentConfig`) | `agentctl enroll`, the cloud's registry, the file | |
| `Control` (extends `AgentConfig`) | hello, heartbeats, pings and stop of a process | |
| `Agent` (composes `Enroll` and `Control`) | an agent from its enrollment through its worker processes | `AgentProofs` |
| `MCWorker`, `MCRequestPool`, `MCExecutor`, `MCSupervisor`, `MCAgent` | instances for TLC | |

Some definitions (`RecordBlind`, `StopDoneExited`, ...) are not part of `Next`:
each is a plausible bug, kept beside the definition it would replace. With the
replacement TLC finds the property that `PROJECT.json` "mutants" names with it
violated.

### Dedupe and Worker

`seen` is `d.seen`, `disk` the content of the file, `now` the clock in seconds.
`Record` is a successful `SeenOrRecord`: `flushLocked` writes a temporary file
and renames it before the call returns, so map and file change in one step under
the lock. `RecordFails` keeps the file and takes the record back, but not the
pruning, as the code does. `Live` uses `<` and `pruneLocked` keeps an entry of
exactly the retention time, as in lines 55 and 73.

`onJob` is cut into four steps where another goroutine can come between: the
look at `draining` (`Enter`), `OpenJSON` and the checks of the job (`Reject`,
`OpenJob`), the store (`Duplicate`, `StoreError`, `Recorded`), and `wg.Add` with
the `go` statement (`Spawn`). `execs`, `fate` and `lastAt` are history: nothing
reads them but properties. `Enter` takes any envelope at any time, so an
envelope may be delivered again, late, out of order, to two goroutines at once,
or never. `Crash` takes everything but the file; `Start` reads it back.

The envelope library and the relay client are not in the repository. `Fresh` and
`Replayed` are the window and the replay cache as `Build` and `BuildSuite`
configure them. The client's `Destroy` (`transport.go:101`) may return while a
callback runs, for nothing in the repository says that it waits: `DrainComplete`
asks for the goroutines that `w.wg` counts and for nothing else, and a job on
record whose callback has not reached `wg.Add` is lost with the process.

### RequestPool and JobResults

A request goes `queued -> admitted -> executing -> answered -> done`. `jobSem`
and `sem` count the tokens in the two channels. A sequential job (limit at most
one) takes its requests in turn, a concurrent one admits them by `jobSem`;
either way `Acquire` takes a token of `sem`. A concurrent job ignores
`StopOnError`, as the code does.

`JobResults` says the same without a semaphore: how many requests are out at
once, in all and of a job, which may be sent next, and what is skipped.
`RequestPool` implements it with `Shown` for the results: a request is open from
the call of `Execute` to its answer, whatever its goroutine does before and
after. `CanGoOn` says of a job that nobody holds it up; `NoGridlock` that a job
that cannot go on waits for nothing but requests that execute.

### Executor

`sent` is the history of requests put on a connection; `res` is the
`ResponseResult`. Every exchange resolves again (`Resolve` may give any of the
address lists), and `Refused`, `DialFails`, `Connect` are the three outcomes of
an iteration of `guardedDial`. `redirectMethod` is given the specification's
body at every hop, as on line 134. Statuses are abstracted to final, 301/302/303
and 307/308. `ReadLimit` wraps at the greatest int64. `resp.length` is what
arrives: `fill` drops a read error, so a body that breaks off is not told from
one that ends. `Request` is what the target sees of an exchange: `buildClient`
and `applyHeaders` run for each with the same specification, so a host override
or an SNI meant for the first target goes to every later one as well.

### Reporter and Delivery

`sent` counts attempts at the channel and at the endpoint, `copies` the results
that reached the cloud. An attempt may arrive and be confirmed, arrive without
an answer, or not arrive; one publish may leave up to `PublishTries` copies,
for the relay client retries by itself. One post is up to `PostTries` requests (10
in Go), for the `http.Client` of line 65 follows redirects: a 307 or 308 sends the
body again, a 301, 302 or 303 sends a GET without it. A 2xx to that GET is
`ConfirmedByGet`: the post counts as delivered, whether a copy arrived or not, and
`rewritten` remembers it. `Delivery` has the same exception as an action of its
own (`Mistake`), so that every other "delivered" needs an arrival in the attempt
that was confirmed. `Init` ranges over every return
specification and every configuration `Validate` accepts.

### Supervisor

`pc` says where `main`, `superviseLoop` and `updateLoop` are; `handle` is the
local `*exec.Cmd` between reading or starting it and being done with it;
`child` is `s.child`. `startChild` is four actions (`Spawn`, `PublishChild`,
`Poll`/`NextPoll`, `PollTimeout`), since a process exists before it is published
and any process may answer the poll; `stopChild` is two (`TakeChild`,
`StopDone`). `Promote` is `SavePrevious` and `Install`, one rename each.
A worker process is `starting`, `bound` to the health port, `ready` (connected)
or `draining`; a second one cannot bind and exits. `Crash` may come anywhere;
the service manager then kills what is left of the group and starts the
supervisor again, which loads the configuration anew: `config` (update mode and
pin) may be another one of `Configs` after every restart. Mode "external" also
stands for an update loop that ends at once for lack of a manifest URL or a
key. `probed` keeps what `currentWorkerVersion` said, on which `ShouldUpdate`
decides long before `Install` acts. A binary is taken to report the version its
manifest gave it. `Sound` are the versions whose worker becomes ready;
`DiskFails` and `ProbeFails` select what a run includes.

### UpdatePolicy

`Number` gives the numbers of the versions `parseSemver` accepts; any other
version compares by inequality. A release and its pre-releases have the same
numbers, so neither is newer than the other.

### AgentConfig, Enroll, Control, Agent

`Settings` are the fields on which `Validate`, `Load` and `Build` depend.
`Validate` and `applyDefaults` are the code's, so that `Loads(c)` is
`Validate(applyDefaults(c))`, while `Enroll` validates without defaults
(`accepted`).

A command of `Enroll` goes `new -> post -> save -> over`. `os.Stat` is in
`Begin`, long before `Save`, so two commands may both find no file. `Redeem` is
the cloud's step and the use, the refusal or the loss of its answer;
`NotRedeemed` a token that is spent or a cloud that is not reached. `Save` is
one step, for the file is written beside the old one, synced and renamed;
`SaveFails` also stands for a command that is killed. `Edit` lets the operator
set the heartbeat interval to 0 or a negative number.

`Control` is `Run` seen from the control channel. `pongs` are the goroutines of
the relay client that are publishing a pong in `onControl`, which does not look at
the draining flag, so they may start at any time until the process ends. How
often a ping is delivered and how many copies of a pong a publish leaves is open,
as it is in the repository. Durations are left out: `Kill` may come at any time
after `Signal`, and `Drained` stands for both ends of the drain, which is
`Worker`'s.

`Agent` puts both together: a process loads what is on disk when it starts and
keeps it while the agent is enrolled anew.

## 3. Runs

Every passing run explores its whole state space.

| run | checks | shows |
|---|---|---|
| `worker_jobs` | `TypeOK` `AtMostOnce` `MemoryIsExact` `SuppressedOnlyAfterRun` `RefinesJobRuns` `EveryRunSettles` `DrainEnds` | two callbacks at once, redelivery, retry with the same job id, store errors, drains, crashes and restarts over more than a retention time; liveness |
| `request_pool` | `TypeOK` `InFlightBounded` `NoGridlock` `ResultsComplete` `RefinesJobResults` `EveryJobFinishes` | three jobs on a pool too small for them |
| `request_execution` | `TypeOK` `EgressRespected` `ChainFaithful` `StopsWhereAsked` `ResentAsSpecified` `BodyWhole` `ExecutionEnds` | all specifications, with names and targets that answer anything |
| `report_delivery` | `TypeOK` `NoSeriesCutShort` `OversizedDiverted` `RefusalIsFinal` `RefinesDelivery` `ReportEnds` | all specifications and configurations against loss and redirects |
| `supervisor_binary` | `TypeOK` `BinaryNeverLost` `UpdateAllOrNothing` `ForwardOrPinned` | two releases, one broken, a development build, a pin that comes and goes, failing renames and probes, crashes |
| `supervisor_live` | `OneWorker` `SupervisedUnlessUpdating` `GracefulExit` `WorkerRestarted` `UpdateCycleEnds` | an update cycle ends whatever the workers do; what holds without the update loop |
| `agent_lifetime` | `TypeOK` `SavedConfigUsable` `SpeaksAsRegistered` `HeartbeatsContinue` | two enrollments under worker processes that start, are stopped and killed |

Runs that show the code to differ from what the repository says of it:

| run | property violated | the statement |
|---|---|---|
| `report_fallback` | `GivenUpWhenExhausted` | `reporter.go:150`: the HTTP endpoint is the last resort |
| `worker_at_least_once` | `SuppressedOnlyWhenServed` | `api/CONTRACT.md:371-373`: re-use the job id for a retry |
| `supervisor_health_gate` | `HealthGate` | `TRUST.md:115`: an update is health-checked |
| `supervisor_swap_crash` | `InstalledAtStart` | `swap.go:43`: atomic swap |
| `supervisor_unsupervised` | `SupervisedWhileLive` | `supervisor.go:108`: restarts while the context lives |

`report_fallback`: the job names an endpoint of its own, the agent has none, and
the channel does not take the result; `firstNonEmpty` finds the job's endpoint for
a diversion, the fallback does not. `NoSeriesCutShort` is what the code keeps: the
series it does begin are whole, and the agent's endpoint is always among them.

`supervisor_health_gate` also contains the cause of several of these: the loop
waits for the child the updater stops, sees it exit with a live context, and
starts a second worker beside the updater's ("manages one worker child",
`supervisor.go:34`; `OneWorker` is therefore about hosts without an update
loop).

### Bounds, and why they are enough

- *Worker*: two envelopes of one job id, a message and the cloud's retry of it;
  they are fresh at the same time for two seconds, so that their calls race, and
  the retry is fresh longest. One names no agent, one passes its deadline while it
  is fresh. Two callers are where a check and an act can be split.
  `TTL = 4 > 2 * Skew + Lag = 3` is the tightest retention the assumption allows;
  `MaxTime = 6` lets it run out and a record be pruned, also after a record in the
  first two seconds. Each job may be lost, store calls may fail and processes may
  restart without a bound. Several job ids meet only in the file, which is written
  whole; the proofs have any number of them.
- *RequestPool*: a job of three requests that allows two at once, a sequential
  one that stops and one that does not, on a pool of three: both semaphores
  fill, in either order.
- *Executor*: a default of two redirects and a limit of one; caps of 1, the
  default 2 and the greatest integer 4 (which wraps), bodies of 0 to 3 bytes:
  below, at and above each cap. Two policies and lists with a refused address
  before and after an allowed one; requests that name a host of their own and
  requests that go by their URL.
- *Reporter*: the default of four attempts; up to two copies of a publish and
  three requests of a post.
- *Supervisor*: two process slots are two workers together, three in
  `supervisor_health_gate`, where a third process is started. 1.9.0 and 1.10.0
  are two releases whose numbers and whose texts compare differently; the
  development build has no numbers. Either release may be published at any time,
  so one update may follow another and `dest.prev` be of an earlier one.
- *Agent*: two commands on two tokens overlap, race for one token or follow each
  other. Five answers: complete, HTTP only, and three that are each deficient in
  one way, with the one Enroll lets through among them. Two callbacks with a pong.

`CHECK_DEADLOCK FALSE` appears where the system stops: all jobs done, `Execute`
or `Report` returned, all commands over on a host that was never enrolled.
Symmetry (process slots) is used without liveness only.

### Fairness

- *Worker*: a handler call, an execution and a report go on by themselves, for
  each waits under a timeout of the code (the total timeout of a request, the
  clients' timeouts, bounded attempts); `wg.Wait` is notified. Neither a crash,
  a restart, a delivery, the clock nor the drain's timer is assumed to happen,
  so `DrainEnds` holds without the timer.
- *RequestPool*: goroutines run; a blocked sender of a channel is served in
  order, so a job that waits while tokens keep coming back gets one (strong
  fairness of `Acquire`, per job).
- *Executor*, *Reporter*: the one goroutine goes on.
- *Supervisor*: each goroutine goes on; `waitReady` has a deadline, so one that
  polls and naps in turn times out (strong fairness); a started worker binds its
  port or fails to; the service manager starts the supervisor again. No worker
  is assumed to exit, to become ready or to drain.
- *Agent*: a ticker that is waited for fires, and the publish of a heartbeat ends,
  delivered or not, by the 15 s of its context. Nothing is assumed of the cloud or
  the operator.

## 4. Proofs

TLAPS proves, for all values of the constants:

**`WorkerProofs`**, from `TTLAssumption`, `EnvelopeAssumption`,
`TimingAssumption` and `WindowAssumption` (`TTL > 2 * Skew + Lag`; the defaults
600 s and 120 s satisfy it, `Validate` does not demand it):
`TypeCorrect`, `ExecutedAtMostOnce`, `MemoryExact`, `Refinement`, that `Worker`
implements `JobRuns`, and `NothingElseSuppresses` (`SuppressedOnlyAfterRun`).

`AtMostOnce` is not inductive: it must be known why a second delivery is
stopped. The invariant `IInv` says so in four parts:

- `StoreInv`: memory and file agree, on live entries, with the history of what
  was accepted. `MemoryIsExact` alone breaks at a restart, `DiskIsExact` is what
  a restart reads; `TimesOK` keeps entries out of the future.
- `OpenedIsRecent`: a call that opened an envelope did so within `Skew` of its
  seal and at most `Lag` ago.
- `TakenIsOnRecord`: the job of an envelope that was ever taken was recorded no
  more than `Skew` before the seal.
- `OneHand`: an envelope in hand is in one call or one goroutine.

So when a call that opened `m` meets the store and `m` was taken before, the
record is at most `2 * Skew + Lag < TTL` old, is live and, by `MemoryIsExact`,
found. `RecordedIsNew` is that step; `HandsStep` uses it. The refinement needs
the same invariant: `Recorded` maps to `Begin`, every way of ending the process
to `LoseAll`, `ReportDone` to `End`, everything else to a stutter or `Tick`.

`NothingElseSuppresses` is what the code keeps of at-least-once delivery: a
delivery is suppressed only if a run of its job id began within the retention
time. Whether that run was answered is another question
(`worker_at_least_once`). It needs `RecordHasRun`, that a job id has a
last run only if an envelope of it was taken. This is proved of the steps of
`JobRuns` and carried over to `Worker` by the refinement.

**`ReporterProofs`**, from `AttemptsAssumption`: `TypeCorrect`,
`SeriesAreWhole` (`NoSeriesCutShort`), `Diversion` (`OversizedDiverted`),
`Finality` (`RefusalIsFinal`) and `Refinement` of `Delivery`. The invariant ties the attempt counter to the history at each place
of the code: while posting after the channel, a whole series was spent there.
Two more follow from it. `ReportRunsOut`: `StepsLeft`, read off the place and
the attempts, falls with every step and is 0 exactly at a verdict, so a call
takes at most `2 * RetryAttempts + 3` steps. `CopiesAreBounded`: the cloud gets
at most `RetryAttempts * (PublishTries + PostTries)` copies of a result; TLC finds
the bound attained, when all attempts arrive and none is confirmed.

**`RequestPoolProofs`**, from `PoolAssumption`, for any set of jobs and any
limits: `TypeCorrect`, `BoundedInFlight` (`InFlightBounded`), `ResultsWhole`
(`ResultsComplete`), `RunsInOrder` (`InOrder`), `NeverGridlocked` (`NoGridlock`)
and `Refinement` of `JobResults`. `TokensCounted` says that each
semaphore holds the cardinality of the set of requests that hold a token of it,
and the lemmas about sets that gain or lose one element carry the count through
each action; `OneByOne` and `SkippedAfterFailure` describe the loop of a
sequential job by what is before and behind the request under way. For
`NeverGridlocked`, the loop of a sequential job is at its first request that is
not done (`FirstLeft`); a concurrent job whose tokens are all taken has a request
on its way; and a full pool has one that executes. `WorkRunsOut`, for finitely
many jobs: the steps ahead (`Ahead`) are a finite set that loses a member with
every step. `QuietWhenFinished`: where no job can go on all are finished.
Together they are what `EveryJobFinishes` needs besides fairness.

**`ExecutorProofs`**, from the three assumptions of `Executor`, for every
policy, resolver, redirect limit and body cap: `TypeCorrect`,
`EgressIsRespected`, `ChainIsFaithful`, `StopsAtTheLimit`, `ResentFaithfully`,
`BodyIsWhole`, `ExchangesBounded` and `ExecutionRunsOut`. The properties speak
of what was sent and recorded. `ResentFaithfully` gives method and body of every
request as a closed form of the specification and the chain before it
(`MethodAfter`, `BodyAfter`), which leaves no chain open: after a 303 and a 307 the
body is sent again, with GET. The invariant adds what the loop's variables will
make of it (`AtHand`), that one request has gone out per recorded redirect
(`Counted`), that a dial without addresses knows an error (`ErrorKnown`) and why
a response was final (`FillKnown`). `ExecutionRunsOut` has every step descend in
a lexicographic order (`Descent`): first the redirects that may follow with the
places of the loop still to pass, then the addresses still to dial; the order is
well-founded by the library's theorems. No single number would do, since a name
may resolve to a list of any length.

**`SupervisorProofs`**, from `VersionAssumption`, `ConfigAssumption` and the
numbers of `UpdatePolicy`: `TypeCorrect`, `BinaryIsNeverLost`, `RollbackIsExact`
(`RollbackRestores`), `AppliedOrUndone` (`UpdateAllOrNothing`),
`UpdatesForwardOrPinned` (`ForwardOrPinned`), `OneWorkerAtATime` (`OneWorker`),
`SupervisedToTheEnd` (`SupervisedUnlessUpdating`), `NothingLeftBehind`
(`GracefulExit`). Three invariants one on another: `TypeInv` says which places
the goroutines can be in together; `CycleInv` what an update cycle knows of the
files, from the decision to the verdict (`prev = before` until the worker is
restored, then `dest = before` unless a rename failed, `ShouldUpdate` of the
probed version until the release is installed); `SoleInv` which single process
may be alive for each place of `main` and `superviseLoop`, where no update loop
runs.

**`UpdatePolicyProofs`**: `NewerIsAnOrder`, that `isNewer` on versions that parse
is irreflexive, transitive and decides between different numbers, and
`NeverReplacesItself`.

**`AgentProofs`**, from `EnrollAssumption`: `TypeCorrect`, `SavedConfigIsUsable`
(`SavedConfigUsable`) and `WorkerSpeaksAsRegistered` (`SpeaksAsRegistered`): a
running worker has the keys the cloud holds for the agent it names and a valid
configuration, also while the agent is enrolled anew. A token is redeemed once, so
what a command holds stays true of the registry (`EnrollInv`), and with it the
file and what a process loaded from it.

Each strengthened invariant, and each bound, was checked by TLC before it was
proved.

Model-checked only: all liveness (`EveryRunSettles`, `DrainEnds`,
`EveryJobFinishes`, `ExecutionEnds`, `ReportEnds`, `UpdateCycleEnds`,
`WorkerRestarted`, `HeartbeatsContinue`); liveness under fairness is out of the
prover's reach. For `EveryJobFinishes`, `ReportEnds` and `ExecutionEnds` the part
that is safety is proved: no behaviour goes on for ever, and the pool does not stop
early. Every other property of a passing run is a theorem.
`RollbackRestores`, `InOrder` and the bounds are theorems without a run.

## 5. Observations without a run

Seen in the code while modelling, some in variants of these modules; each is a
hazard in `PROJECT.json`.

- If `Destroy` returns while a callback is past the look at `draining`,
  `wg.Wait` does not know of the job and "drain complete" loses it
  (`worker.go:172`, `209`). Nothing in the repository says that `Destroy` waits,
  so `Worker` has the loss (`DrainComplete`, fate "drained") and no property
  excludes it.
- A post whose answer is a 301, 302 or 303 goes on as a GET without the result
  (`reporter.go:65` sets no `CheckRedirect`); a 2xx to it is taken for a delivery
  (`reporter.go:190`). `pc = "delivered" => copies > 0` fails for this reason
  only.
- After failed publishes the result goes to the agent's endpoint, also when the
  job names another one (`reporter.go:151`).
- A job without `agentId` is run by any agent that opens it (`worker.go:190`;
  the contract says must equal).
- `flushLocked` renames a file it has not synced; after a power loss the old
  file, or an empty one that `Open` accepts, may be back (`dedupe.go:100`).
- `main` stops the child it finds once. A worker that one of the loops is just
  starting then is stopped by nobody: the updater's is killed when the
  supervisor is gone, the supervising loop's keeps `wg.Wait` waiting until the
  service manager's timeout (`supervisor.go:82`, `101`).
- A supervisor that ends between `Promote` and the verdict leaves a new worker
  nobody rolls back (`supervisor.go:203`).
- When the installed worker does not answer `--version`, any release counts as
  newer (`manifest.go:144`, `supervisor.go:279`); `ForwardOrPinned` leaves that
  case out. Two versions that do not parse are each newer than the other. A
  pre-release equals its release, so without a pin an agent on `1.10.0-rc1` is not brought to
  `1.10.0`. The version a binary reports is trusted to be its manifest's; a
  manifest's channel, system and architecture are not looked at.
- A release that failed its health check is tried again at every poll
  (`checkAndApply` keeps no memory of it). `StageWorker`'s temporary file stays
  when the supervisor crashes.
- A 303 followed by a 307 sends the original body again with GET
  (`executor.go:134`); a body cut by the deadline is reported as complete
  (`executor.go:297`); of several addresses only the last one's error is
  reported (`executor.go:268`).
- A second worker process shares the store's file but not its map; a flush of
  one drops the records of the other (`dedupe.go:51`). `Worker` is one process
  at a time.
- A rollback stops a worker after 20 s, a drain may take 30 s
  (`supervisor.go:205`). An update or the shutdown grants 35 s, which leaves 5 s
  for a `Run` that is publishing the hello (up to 15 s, `worker.go:150`) and for
  `Destroy`, whose time nothing bounds. A drain that is cut off loses its jobs.
- `onControl` does not look at the draining flag: a pong may be published during
  the drain. A ping that is delivered again after `replayTtlSec` or to another
  process is answered again, and the publisher may send a pong several times.
- `Enroll` validates before the defaults are applied (`enroll.go:176`): an answer
  with neither transport nor secret key is saved, and `Load`, which fills in the
  channel transport, refuses the file. Nor does it look at whether the keys of
  the answer decode; `Build` fails then. `SavedConfigUsable` and
  `Builds` say where these cases are.
- Two overlapping `agentctl enroll` without `--force` both find no file; the
  second overwrites the first's configuration. A command that fails after the
  cloud answered has used up its token.
- `limits.heartbeatSec`: "0 disables" (`config.go:73`, `docs/CONFIGURATION.md`),
  but `applyDefaults` turns 0 into 60; only a negative value disables. The
  answer of the cloud has no field for it.
- The hello is sent once per process; the contract has it on every reconnect. A
  pong may precede it, for the channel is subscribed first. Control messages
  other than a ping are only logged (`worker.go:291`).
- `Validate` looks neither at negative limits nor at the relation of
  `replayTtlSec` to the freshness window (`config.go:164`).
- The deadline of a job is looked at when it is accepted, not when its requests
  start (`worker.go:194`).
- A `user-agent` header in another casing does not suppress the client's own,
  and the order of query parameters is not kept.

## 6. Not modelled

- *Cryptography*: a message opens or does not; keys decode or do not.
- *Wire types, logging, `keygen`, `status`, `release-sign`, the mock cloud*: no
  state the properties could speak of. The other headers, TLS details and
  timings of a response likewise.
- *The relay client and the envelope library* are not in the repository; they
  appear as the nondeterminism described in section 2.
- *The manifest's transport and signature*: a step that ends the cycle or goes
  on.
- *The process table and port of two hosts*: one host, one configuration file.
- *Caps equal to the greatest int64* are left out of `BodyWhole`: the read limit
  wraps there and the body is dropped.

## 7. Plan

What would be added next:

1. `AgentHost`: `Supervisor` over two `Worker`s that share a store file; the
   shutdown races of section 5 with the update loop.
2. `WorkerPower`: the store over a file whose last writes a power loss takes
   back; with it, `Worker` without `WindowAssumption`.
3. The deadline of a job behind a full pool, with a clock in `RequestPool`.
4. `Job`, an abstract specification of a whole job, implemented by `Worker`,
   `RequestPool` and `Reporter` together.
