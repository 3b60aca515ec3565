----------------------------- MODULE JobResults -----------------------------
(***************************************************************************)
(* What execRequests promises of the jobs a worker has accepted, without a *)
(* semaphore: a request is sent at most once and has one result; how many  *)
(* are out at once, all in all and of one job, is limited; a job without   *)
(* concurrency sends a request when all earlier ones have their results,   *)
(* and none after an error if it stops on errors; a job is over when each  *)
(* of its requests has a result or was skipped for such an error.          *)
(***************************************************************************)
EXTENDS Integers, FiniteSets

CONSTANTS
    Job,
    Request,        \* pairs of a job and an index
    PoolSize,       \* how many requests may be out at once
    Limit,          \* how many of a job
    Ordered,        \* the jobs without concurrency
    Stopping        \* those of them that stop on errors

VARIABLES
    job,
    result          \* "none", "open", "response", "error" or "skipped"

Of(j) == {r \in Request : r[1] = j}
Before(r) == {s \in Of(r[1]) : s[2] < r[2]}
After(r) == {s \in Of(r[1]) : s[2] > r[2]}
Open(R) == {r \in R : result[r] = "open"}
Ends(r) == r[1] \in Stopping /\ result[r] = "error"

Init ==
    /\ job = [j \in Job |-> "accepted"]
    /\ result = [r \in Request |-> "none"]

Begin(j) ==
    /\ job[j] = "accepted"
    /\ job' = [job EXCEPT ![j] = "running"]
    /\ UNCHANGED result

Send(r) ==
    /\ job[r[1]] = "running" /\ result[r] = "none"
    /\ Cardinality(Open(Request)) < PoolSize
    /\ Cardinality(Open(Of(r[1]))) < Limit[r[1]]
    /\ r[1] \in Ordered =>
          \A s \in Before(r) : result[s] \in {"response", "error"} /\ ~Ends(s)
    /\ result' = [result EXCEPT ![r] = "open"]
    /\ UNCHANGED job

Settle(r) ==
    /\ result[r] = "open"
    /\ \E how \in {"response", "error"} : result' = [result EXCEPT ![r] = how]
    /\ UNCHANGED job

(* What is left of a job that stops on errors is skipped, all at once. *)
SkipRest(r) ==
    /\ Ends(r)
    /\ \A s \in After(r) : result[s] = "none"
    /\ result' = [s \in Request |-> IF s \in After(r) THEN "skipped" ELSE result[s]]
    /\ UNCHANGED job

Finish(j) ==
    /\ job[j] = "running"
    /\ \A r \in Of(j) : result[r] \in {"response", "error", "skipped"}
    /\ job' = [job EXCEPT ![j] = "finished"]
    /\ UNCHANGED result

Next ==
    \/ \E j \in Job : Begin(j) \/ Finish(j)
    \/ \E r \in Request : Send(r) \/ Settle(r) \/ SkipRest(r)

Spec == Init /\ [][Next]_<<job, result>>
=============================================================================
