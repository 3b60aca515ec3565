----------------------------- MODULE RequestPool -----------------------------
(***************************************************************************)
(* The requests of the jobs a worker has accepted: execRequests, one loop  *)
(* or one goroutine per request with a semaphore of the job's own, and     *)
(* execOne, which takes the semaphore all jobs share.  A request is its    *)
(* job and its index in job.Requests.                                      *)
(***************************************************************************)
EXTENDS Integers, FiniteSets

CONSTANTS
    Job,
    Count,          \* how many requests a job has
    MaxConcurrency, \* execution.maxConcurrency of a job
    StopOnError,    \* execution.stopOnError of a job
    PoolSize        \* capacity of w.sem, limits.maxConcurrency

(* Build replaces a capacity that is not positive. *)
ASSUME PoolAssumption ==
    /\ PoolSize \in Nat \ {0}
    /\ Count \in [Job -> Nat] /\ MaxConcurrency \in [Job -> Int]
    /\ StopOnError \in [Job -> BOOLEAN]

VARIABLES
    job,            \* "accepted", "running", "finished"
    req,            \* where each request is
    out,            \* its slot in the job's results
    sem,            \* tokens in w.sem
    jobSem          \* tokens in each job's jobSem

vars == <<job, req, out, sem, jobSem>>

Request == UNION {{j} \X (1 .. Count[j]) : j \in Job}
Of(j) == {r \in Request : r[1] = j}
Earlier(r) == {s \in Of(r[1]) : s[2] < r[2]}
Later(r) == {s \in Of(r[1]) : s[2] > r[2]}

Sequential(j) == MaxConcurrency[j] <= 1

Init ==
    /\ job = [j \in Job |-> "accepted"]
    /\ req = [r \in Request |-> "queued"]
    /\ out = [r \in Request |-> "empty"]
    /\ sem = 0
    /\ jobSem = [j \in Job |-> 0]

(* runJob calls execRequests. *)
Begin(j) ==
    /\ job[j] = "accepted"
    /\ job' = [job EXCEPT ![j] = "running"]
    /\ UNCHANGED <<req, out, sem, jobSem>>

(* The loop comes to the request. *)
Turn(r) ==
    /\ job[r[1]] = "running" /\ Sequential(r[1])
    /\ req[r] = "queued" /\ \A s \in Earlier(r) : req[s] = "done"
    /\ req' = [req EXCEPT ![r] = "admitted"]
    /\ UNCHANGED <<job, out, sem, jobSem>>

(* A goroutine that does not wait for the job's semaphore. *)
AdmitAny(r) ==
    /\ job[r[1]] = "running" /\ ~Sequential(r[1])
    /\ req[r] = "queued"
    /\ req' = [req EXCEPT ![r] = "admitted"]
    /\ jobSem' = [jobSem EXCEPT ![r[1]] = @ + 1]
    /\ UNCHANGED <<job, out, sem>>

(* The request's goroutine gets through the job's semaphore. *)
Admit(r) ==
    LET j == r[1] IN
    /\ job[j] = "running" /\ ~Sequential(j)
    /\ req[r] = "queued" /\ jobSem[j] < MaxConcurrency[j]
    /\ req' = [req EXCEPT ![r] = "admitted"]
    /\ jobSem' = [jobSem EXCEPT ![j] = @ + 1]
    /\ UNCHANGED <<job, out, sem>>

(* An execOne that does not wait for w.sem. *)
AcquireAny(r) ==
    /\ req[r] = "admitted"
    /\ req' = [req EXCEPT ![r] = "executing"]
    /\ sem' = sem + 1
    /\ UNCHANGED <<job, out, jobSem>>

(* execOne gets through w.sem and calls the engine. *)
Acquire(r) ==
    /\ req[r] = "admitted" /\ sem < PoolSize
    /\ req' = [req EXCEPT ![r] = "executing"]
    /\ sem' = sem + 1
    /\ UNCHANGED <<job, out, jobSem>>

(* An execOne that gives its token back only after a success. *)
AnswerLeaking(r) ==
    /\ req[r] = "executing"
    /\ req' = [req EXCEPT ![r] = "answered"]
    /\ \E result \in {"response", "error"} :
          /\ out' = [out EXCEPT ![r] = result]
          /\ sem' = IF result = "response" THEN sem - 1 ELSE sem
    /\ UNCHANGED <<job, jobSem>>

(* Execute returns, with a response or an ExecError; the token of w.sem is *)
(* given back.                                                             *)
Answer(r) ==
    /\ req[r] = "executing"
    /\ req' = [req EXCEPT ![r] = "answered"]
    /\ \E result \in {"response", "error"} : out' = [out EXCEPT ![r] = result]
    /\ sem' = sem - 1
    /\ UNCHANGED <<job, jobSem>>

(* What the loop marks skipped, once it has the answer. *)
Skipped(r) ==
    IF StopOnError[r[1]] /\ out[r] = "error" THEN Later(r) ELSE {}

(* A loop that marks the rest skipped but does not leave. *)
AdvanceUnbroken(r) ==
    /\ Sequential(r[1]) /\ req[r] = "answered"
    /\ req' = [req EXCEPT ![r] = "done"]
    /\ out' = [s \in Request |-> IF s \in Skipped(r) THEN "skipped" ELSE out[s]]
    /\ UNCHANGED <<job, sem, jobSem>>

(* The loop goes on, or marks the rest skipped and is over. *)
Advance(r) ==
    /\ Sequential(r[1]) /\ req[r] = "answered"
    /\ req' = [s \in Request |->
                  IF s \in {r} \cup Skipped(r) THEN "done" ELSE req[s]]
    /\ out' = [s \in Request |-> IF s \in Skipped(r) THEN "skipped" ELSE out[s]]
    /\ UNCHANGED <<job, sem, jobSem>>

(* A goroutine that keeps the job's token. *)
LeaveHolding(r) ==
    /\ ~Sequential(r[1]) /\ req[r] = "answered"
    /\ req' = [req EXCEPT ![r] = "done"]
    /\ UNCHANGED <<job, out, sem, jobSem>>

(* The goroutine gives the job's token back and ends. *)
Leave(r) ==
    /\ ~Sequential(r[1]) /\ req[r] = "answered"
    /\ req' = [req EXCEPT ![r] = "done"]
    /\ jobSem' = [jobSem EXCEPT ![r[1]] = @ - 1]
    /\ UNCHANGED <<job, out, sem>>

(* An execRequests that waits for the goroutines that were admitted only. *)
FinishUnwaited(j) ==
    /\ job[j] = "running"
    /\ \A r \in Of(j) : req[r] \in {"queued", "done"}
    /\ job' = [job EXCEPT ![j] = "finished"]
    /\ UNCHANGED <<req, out, sem, jobSem>>

(* The loop is over, or wg.Wait has returned. *)
Finish(j) ==
    /\ job[j] = "running"
    /\ \A r \in Of(j) : req[r] = "done"
    /\ job' = [job EXCEPT ![j] = "finished"]
    /\ UNCHANGED <<req, out, sem, jobSem>>

(* What the goroutines of a job do, but for waiting for the pool. *)
JobStep(j) ==
    \/ Begin(j) \/ Finish(j)
    \/ \E r \in Of(j) : Turn(r) \/ Admit(r) \/ Answer(r) \/ Advance(r) \/ Leave(r)

JobAcquires(j) == \E r \in Of(j) : Acquire(r)

Next == \E j \in Job : JobStep(j) \/ JobAcquires(j)

Spec == Init /\ [][Next]_vars

(* Goroutines run, and an execution ends by its total timeout.  A channel  *)
(* serves its blocked senders in order, so a job that waits for a token of *)
(* the pool gets one if tokens keep coming back.                           *)
FairSpec ==
    Spec /\ \A j \in Job : WF_vars(JobStep(j)) /\ SF_vars(JobAcquires(j))
-----------------------------------------------------------------------------
Executing(R) == {r \in R : req[r] = "executing"}

(* Every variable holds a value of its kind; w.sem holds one token per     *)
(* executing request, no more than its capacity.                           *)
TypeOK ==
    /\ job \in [Job -> {"accepted", "running", "finished"}]
    /\ req \in [Request -> {"queued", "admitted", "executing", "answered", "done"}]
    /\ out \in [Request -> {"empty", "response", "error", "skipped"}]
    /\ sem \in 0 .. PoolSize
    /\ jobSem \in [Job -> Nat]

(* "A burst queues rather than exhausting connections": however many jobs  *)
(* there are, no more than PoolSize requests execute at once, and no more  *)
(* of one job than it allows, one if it is sequential (execOne).           *)
InFlightBounded ==
    /\ Cardinality(Executing(Request)) <= PoolSize
    /\ \A j \in Job : Cardinality(Executing(Of(j))) <=
                         IF Sequential(j) THEN 1 ELSE MaxConcurrency[j]

(* Whether a job is held up by nobody: it can begin or finish, or one of   *)
(* its requests has an execution or an answer, or would be let through.    *)
Unblocked(r) ==
    \/ req[r] \in {"executing", "answered"}
    \/ req[r] = "admitted" /\ sem < PoolSize
    \/ req[r] = "queued" /\ IF Sequential(r[1])
                              THEN \A s \in Earlier(r) : req[s] = "done"
                              ELSE jobSem[r[1]] < MaxConcurrency[r[1]]

CanGoOn(j) ==
    \/ job[j] = "accepted"
    \/ job[j] = "running" /\ \A r \in Of(j) : req[r] = "done"
    \/ job[j] = "running" /\ \E r \in Of(j) : Unblocked(r)

(* The two semaphores, one taken inside the other, never block everyone:   *)
(* a job that is not finished can go on, or one of its requests waits for  *)
(* a token of the pool, all of which are with requests that execute and so *)
(* give them back (execRequests, execOne).                                 *)
NoGridlock ==
    \A j \in Job : job[j] # "finished" =>
        \/ CanGoOn(j)
        \/ /\ \E r \in Of(j) : req[r] = "admitted"
           /\ sem = PoolSize /\ Executing(Request) # {}

(* Every slot of a finished job's results is filled, and skipped are       *)
(* exactly those after a failure of a sequential job that stops on errors  *)
(* (execRequests).                                                         *)
ResultsComplete ==
    \A r \in Request : job[r[1]] = "finished" =>
        /\ out[r] # "empty"
        /\ out[r] = "skipped" <=>
              /\ Sequential(r[1]) /\ StopOnError[r[1]]
              /\ \E s \in Earlier(r) : out[s] = "error"

(* "They run in order": a request of a sequential job starts only when all *)
(* earlier ones have their result, and none of these stops the job.        *)
InOrder ==
    [][\A r \in Request : Acquire(r) /\ Sequential(r[1]) =>
          \A s \in Earlier(r) :
              out[s] \in {"response", "error"} /\ Skipped(s) = {}]_vars

(* The results as the pool's promise sees them: a request is out from the  *)
(* call of Execute to its answer.                                          *)
Shown ==
    [r \in Request |-> IF req[r] = "executing" THEN "open"
                       ELSE IF out[r] = "empty" THEN "none" ELSE out[r]]
Limit == [j \in Job |-> IF Sequential(j) THEN 1 ELSE MaxConcurrency[j]]
Ordered == {j \in Job : Sequential(j)}
Stopping == {j \in Ordered : StopOnError[j]}

(* The semaphores, the loop and the goroutines keep what JobResults        *)
(* promises without them (execRequests, execOne).                          *)
Promise == INSTANCE JobResults WITH result <- Shown
RefinesJobResults == Promise!Spec

(* Every job gets its results: requests that hold a token of their job     *)
(* while they wait for one of the pool do not block each other for ever.   *)
EveryJobFinishes == \A j \in Job : job[j] = "accepted" ~> job[j] = "finished"
=============================================================================
