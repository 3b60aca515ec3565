------------------------------- MODULE Worker -------------------------------
(***************************************************************************)
(* The worker process of internal/worker around its dedupe store: the job  *)
(* handler onJob, which the relay client's goroutines call concurrently,   *)
(* the goroutine runJob that each accepted job gets, the drain at the end  *)
(* of Run, and the crash and restart of the whole process.                 *)
(*                                                                         *)
(* A handler call is cut where another goroutine's step can matter: after  *)
(* the look at the draining flag, after opening the envelope (both read    *)
(* before the store is asked) and after the store's answer (the job is on  *)
(* disk, its goroutine is not yet counted in w.wg).                        *)
(***************************************************************************)
EXTENDS Dedupe

CONSTANTS
    Envelope,       \* the sealed messages the cloud produces, one per mid
    JobOf,          \* the job id inside an envelope
    SealedAt,       \* the cloud's timestamp inside it
    Target,         \* the job's agentId: "this" agent, an "other", or "blank"
    Deadline,       \* the last second the job may be accepted
    Caller,         \* goroutines of the relay client that call onJob
    Skew,           \* limits.clockSkewSec
    Lag,            \* longest time from opening an envelope to recording it
    MaxTime         \* bound on the clock

ASSUME EnvelopeAssumption ==
    /\ JobOf \in [Envelope -> JobId]
    /\ SealedAt \in [Envelope -> Nat]
    /\ Target \in [Envelope -> {"this", "other", "blank"}]
    /\ Deadline \in [Envelope -> Int]
ASSUME TimingAssumption ==
    Skew \in Nat /\ Lag \in Nat /\ MaxTime \in Nat
(* The retention outlasts the freshness window.  The defaults (600 s and   *)
(* 120 s) satisfy it; Config.Validate does not enforce it.                 *)
ASSUME WindowAssumption == TTL > 2 * Skew + Lag

VARIABLES
    status,         \* "down", "running" or "draining"
    replay,         \* mid -> second it was opened, the envelope replay cache
    call,           \* the onJob call each goroutine of the client is in
    executing,      \* how many runJob goroutines execute the envelope's requests
    reporting,      \* how many are delivering its result
    execs,          \* history: executions ever started for the envelope
    fate,           \* history: how the envelope's run ended
    lastAt          \* history: when the store last accepted the job id

storeVars == <<seen, disk>>
runVars == <<executing, reporting, execs, fate>>
vars == <<now, seen, disk, status, replay, call, executing, reporting, execs,
          fate, lastAt>>

Fates == {"none", "answered", "unanswered", "crashed", "timedout", "drained"}

(* at is the second the envelope was opened, 0 before that. *)
NoCall == [stage |-> "idle"]
Calls == [stage : {"entered", "opened", "recorded"}, env : Envelope, at : Int]

Idle(c) == call[c] = NoCall
AllIdle == [c \in Caller |-> NoCall]
NoneRunning == [m \in Envelope |-> 0]

(* The job is recorded on disk and its outcome is still open. *)
InHand(m) ==
    \/ executing[m] > 0 \/ reporting[m] > 0
    \/ \E c \in Caller : call[c].stage = "recorded" /\ call[c].env = m

Init ==
    /\ now = 0
    /\ seen = Nothing /\ disk = Nothing
    /\ status = "running"
    /\ replay = [m \in Envelope |-> Absent]
    /\ call = AllIdle
    /\ executing = NoneRunning /\ reporting = NoneRunning
    /\ execs = NoneRunning
    /\ fate = [m \in Envelope |-> "none"]
    /\ lastAt = Nothing
-----------------------------------------------------------------------------
(* The checks of the envelope library's Opener, given MaxClockSkew and a   *)
(* memory replay cache with the store's retention.                         *)
Fresh(m) == now - SealedAt[m] <= Skew /\ SealedAt[m] - now <= Skew
Replayed(m) == replay[m] # Absent /\ now - replay[m] < TTL

(* The checks onJob makes on the opened job. *)
Addressed(m) == Target[m] # "other"
InTime(m) == now <= Deadline[m]

(* The relay delivers m; onJob finds the worker not draining. *)
Enter(c, m) ==
    /\ status = "running"
    /\ Idle(c)
    /\ call' = [call EXCEPT ![c] = [stage |-> "entered", env |-> m, at |-> 0]]
    /\ UNCHANGED <<now, status, replay, storeVars, runVars, lastAt>>

(* OpenJSON fails: the message is dropped. *)
Reject(c) ==
    LET m == call[c].env IN
    /\ call[c].stage = "entered"
    /\ ~Fresh(m) \/ Replayed(m)
    /\ call' = [call EXCEPT ![c] = NoCall]
    /\ UNCHANGED <<now, status, replay, storeVars, runVars, lastAt>>

(* OpenJSON succeeds and leaves its mid in the replay cache, whatever onJob *)
(* then makes of the job.                                                  *)
OpenJob(c) ==
    LET m == call[c].env IN
    /\ call[c].stage = "entered"
    /\ Fresh(m) /\ ~Replayed(m)
    /\ replay' = [replay EXCEPT ![m] = now]
    /\ \/ /\ Addressed(m) /\ InTime(m)
          /\ call' = [call EXCEPT ![c].stage = "opened", ![c].at = now]
       \/ /\ ~(Addressed(m) /\ InTime(m))
          /\ call' = [call EXCEPT ![c] = NoCall]
    /\ UNCHANGED <<now, status, storeVars, runVars, lastAt>>

(* The store's three answers. *)
Duplicate(c) ==
    /\ call[c].stage = "opened"
    /\ Suppress(JobOf[call[c].env])
    /\ call' = [call EXCEPT ![c] = NoCall]
    /\ UNCHANGED <<now, status, replay, runVars, lastAt>>

StoreError(c) ==
    /\ call[c].stage = "opened"
    /\ RecordFails(JobOf[call[c].env])
    /\ call' = [call EXCEPT ![c] = NoCall]
    /\ UNCHANGED <<now, status, replay, runVars, lastAt>>

Recorded(c) ==
    /\ call[c].stage = "opened"
    /\ Record(JobOf[call[c].env])
    /\ call' = [call EXCEPT ![c].stage = "recorded"]
    /\ lastAt' = [lastAt EXCEPT ![JobOf[call[c].env]] = now]
    /\ UNCHANGED <<now, status, replay, runVars>>

(* wg.Add, inflight.Add and the go statement. *)
Spawn(c) ==
    LET m == call[c].env IN
    /\ call[c].stage = "recorded"
    /\ call' = [call EXCEPT ![c] = NoCall]
    /\ executing' = [executing EXCEPT ![m] = @ + 1]
    /\ execs' = [execs EXCEPT ![m] = @ + 1]
    /\ UNCHANGED <<now, status, replay, storeVars, reporting, fate, lastAt>>
-----------------------------------------------------------------------------
(* runJob: the requests are done, the result is being reported. *)
Execute(m) ==
    /\ executing[m] > 0
    /\ executing' = [executing EXCEPT ![m] = @ - 1]
    /\ reporting' = [reporting EXCEPT ![m] = @ + 1]
    /\ UNCHANGED <<now, status, replay, call, storeVars, execs, fate, lastAt>>

(* A run that calls wg.Done once itself and once by its defer. *)
ReportDoneTwice(m) ==
    /\ reporting[m] > 0
    /\ reporting' = [reporting EXCEPT ![m] = @ - 2]
    /\ fate' = [fate EXCEPT ![m] = "answered"]
    /\ UNCHANGED <<now, status, replay, call, storeVars, executing, execs,
                   lastAt>>

(* A run that starts over when its report fails. *)
ReportDoneAgain(m) ==
    /\ reporting[m] > 0
    /\ reporting' = [reporting EXCEPT ![m] = @ - 1]
    /\ \/ fate' = [fate EXCEPT ![m] = "answered"] /\ UNCHANGED executing
       \/ executing' = [executing EXCEPT ![m] = @ + 1] /\ UNCHANGED fate
    /\ UNCHANGED <<now, status, replay, call, storeVars, execs, lastAt>>

(* Report returns, with the result delivered or given up; a failure is     *)
(* logged and nothing retries it later.                                    *)
ReportDone(m) ==
    /\ reporting[m] > 0
    /\ reporting' = [reporting EXCEPT ![m] = @ - 1]
    /\ \E how \in {"answered", "unanswered"} :
           fate' = [fate EXCEPT ![m] = how]
    /\ UNCHANGED <<now, status, replay, call, storeVars, executing, execs,
                   lastAt>>
-----------------------------------------------------------------------------
(* ctx is done: the flag is set and the client's Destroy is called.  It    *)
(* may return with callbacks still running.                                *)
BeginDrain ==
    /\ status = "running"
    /\ status' = "draining"
    /\ UNCHANGED <<now, replay, call, storeVars, runVars, lastAt>>

(* The process ends: its memory is gone, what it had in hand is lost. *)
Exit(how) ==
    /\ status' = "down"
    /\ replay' = [m \in Envelope |-> Absent]
    /\ call' = AllIdle
    /\ executing' = NoneRunning /\ reporting' = NoneRunning
    /\ seen' = Nothing
    /\ fate' = [m \in Envelope |-> IF InHand(m) THEN how ELSE fate[m]]
    /\ UNCHANGED <<now, execs, lastAt>>

(* A wait group whose Done is missing after a report that failed. *)
DrainCompleteAnswered ==
    /\ status = "draining"
    /\ \A m \in Envelope : executing[m] = 0 /\ reporting[m] = 0
    /\ \A m \in Envelope : fate[m] # "unanswered"
    /\ Exit("drained")
    /\ UNCHANGED disk

(* wg.Wait returned: no runJob goroutine is left.  Nothing in the code     *)
(* waits for a callback that is still on its way to wg.Add: the client's   *)
(* Destroy returned before, whatever it waits for.                         *)
DrainComplete ==
    /\ status = "draining"
    /\ \A m \in Envelope : executing[m] = 0 /\ reporting[m] = 0
    /\ Exit("drained")
    /\ UNCHANGED disk

DrainTimeout ==
    /\ status = "draining"
    /\ Exit("timedout")
    /\ UNCHANGED disk

(* The process dies: a crash, or the supervisor's or the kernel's SIGKILL. *)
Crash ==
    /\ status # "down"
    /\ Exit("crashed")
    /\ UNCHANGED disk

(* Build and Connect of a new process. *)
Start ==
    /\ status = "down"
    /\ status' = "running"
    /\ Open
    /\ UNCHANGED <<now, replay, call, runVars, lastAt>>

(* A second passes.  No opened call is older than Lag. *)
Tick ==
    /\ now < MaxTime
    /\ \A c \in Caller : call[c].stage = "opened" => now < call[c].at + Lag
    /\ now' = now + 1
    /\ UNCHANGED <<status, replay, call, storeVars, runVars, lastAt>>

CallStep(c) == Reject(c) \/ OpenJob(c) \/ Duplicate(c) \/ StoreError(c)
                  \/ Recorded(c) \/ Spawn(c)
JobStep(m) == Execute(m) \/ ReportDone(m)

Next ==
    \/ \E c \in Caller, m \in Envelope : Enter(c, m)
    \/ \E c \in Caller : CallStep(c)
    \/ \E m \in Envelope : JobStep(m)
    \/ BeginDrain \/ DrainComplete \/ DrainTimeout
    \/ Crash \/ Start
    \/ Tick

Spec == Init /\ [][Next]_vars

(* Handler calls, executions and reports end by themselves: every step of  *)
(* theirs is bounded by a timeout of the code (request, publish and POST   *)
(* timeouts, a bounded number of attempts).  wg.Wait is notified.          *)
FairSpec ==
    /\ Spec
    /\ \A c \in Caller : WF_vars(CallStep(c))
    /\ \A m \in Envelope : WF_vars(Execute(m)) /\ WF_vars(ReportDone(m))
    /\ WF_vars(DrainComplete)
-----------------------------------------------------------------------------
(* Every variable holds a value of its kind; a worker that is down holds   *)
(* no memory and runs nothing.                                             *)
TypeOK ==
    /\ now \in Nat
    /\ seen \in Book /\ disk \in Book /\ lastAt \in Book
    /\ status \in {"down", "running", "draining"}
    /\ replay \in [Envelope -> Int]
    /\ call \in [Caller -> Calls \cup {NoCall}]
    /\ executing \in [Envelope -> Nat] /\ reporting \in [Envelope -> Nat]
    /\ execs \in [Envelope -> Nat]
    /\ fate \in [Envelope -> Fates]
    /\ status = "down" => /\ call = AllIdle
                          /\ executing = NoneRunning /\ reporting = NoneRunning

(* However often the relay redelivers an envelope, to this process or to   *)
(* the one that replaces it after a crash, its requests are executed at    *)
(* most once (onJob, SeenOrRecord).                                        *)
AtMostOnce == \A m \in Envelope : execs[m] <= 1

(* A running worker remembers exactly the job ids accepted within the      *)
(* retention time: none is forgotten by pruning or a restart, and a failed *)
(* flush leaves no entry that would suppress a job never run.              *)
MemoryIsExact ==
    status # "down" =>
        \A j \in JobId : Live(seen, j) \/ Live(lastAt, j) => seen[j] = lastAt[j]

(* The job was put on record at some time, by this process or another. *)
Taken(m) == InHand(m) \/ fate[m] # "none"

(* A delivery is suppressed only for a run of its job id that began less   *)
(* than TTL seconds ago and is in hand or has come to an end: no store     *)
(* error, failed flush, restart or entry on the edge of its retention      *)
(* suppresses a job that never ran (onJob, SeenOrRecord).                  *)
SuppressedOnlyAfterRun ==
    [][\A c \in Caller : Duplicate(c) =>
          /\ now - lastAt[JobOf[call[c].env]] < TTL
          /\ \E m \in Envelope : JobOf[m] = JobOf[call[c].env] /\ Taken(m)]_vars

(* The worker with all its crashes, redeliveries and store errors is the   *)
(* machine of JobRuns: at most one run per envelope, runs of a job id at   *)
(* least TTL apart, final outcomes.                                        *)
OutcomeOf(m) ==
    CASE fate[m] \in {"answered", "unanswered"} -> fate[m]
      [] fate[m] \in {"crashed", "timedout", "drained"} -> "lost"
      [] fate[m] = "none" /\ InHand(m) -> "running"
      [] fate[m] = "none" /\ ~InHand(m) -> "pending"

Contract == INSTANCE JobRuns WITH outcome <- [m \in Envelope |-> OutcomeOf(m)]
RefinesJobRuns == Contract!Spec

(* A job on record does not stay in hand for ever: it is answered, given   *)
(* up or lost with the process (onJob, runJob).                            *)
EveryRunSettles == \A m \in Envelope : InHand(m) ~> fate[m] # "none"

(* A drain comes to its end even if its timer never fires (Run).           *)
DrainEnds == status = "draining" ~> status = "down"
-----------------------------------------------------------------------------
(* What the documentation says and the code does not do.                   *)

(* api/CONTRACT.md, section 9, at-least-once delivery: a delivery of a job *)
(* is suppressed only when the job is being run or has been answered.      *)
SuppressedOnlyWhenServed ==
    [][\A c \in Caller :
          Duplicate(c) => \E m \in Envelope :
                             /\ JobOf[m] = JobOf[call[c].env]
                             /\ InHand(m) \/ fate[m] = "answered"]_vars
=============================================================================
