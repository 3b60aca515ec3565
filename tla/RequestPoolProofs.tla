------------------------- MODULE RequestPoolProofs -------------------------
(***************************************************************************)
(* The pool for any set of jobs, any number of requests and any limits.    *)
(*                                                                         *)
(* Each semaphore holds as many tokens as requests hold one, counted as    *)
(* the cardinality of a set; a sequential job has one request on its way.  *)
(* What was skipped follows a failure of its job, and after a failure of a *)
(* job that stops on errors nothing of it is left but skipped requests.    *)
(***************************************************************************)
EXTENDS RequestPool, FiniteSetTheorems, WellFoundedInduction, TLAPS

OnItsWay == {"admitted", "executing", "answered"}
Active(j) == {r \in Of(j) : req[r] \in OnItsWay}

(* The tokens of the two kinds of semaphores. *)
TokensCounted ==
    /\ IsFiniteSet(Executing(Request)) /\ sem = Cardinality(Executing(Request))
    /\ \A j \in Job : ~Sequential(j) =>
          /\ IsFiniteSet(Active(j)) /\ jobSem[j] = Cardinality(Active(j))
          /\ jobSem[j] <= MaxConcurrency[j]

(* The loop of a sequential job takes its requests one after the other. *)
OneByOne ==
    \A r \in Request : Sequential(r[1]) /\ req[r] # "queued" =>
        \A s \in Earlier(r) : req[s] = "done"

(* A slot of the results is filled when the request is answered. *)
SlotsFollow ==
    \A r \in Request :
        /\ req[r] \in {"queued", "admitted", "executing"} => out[r] = "empty"
        /\ req[r] = "answered" => out[r] \in {"response", "error"}
        /\ req[r] = "done" => out[r] # "empty"

(* Stops(r): the job ended at this request. *)
Stops(r) == Sequential(r[1]) /\ StopOnError[r[1]] /\ req[r] = "done" /\ out[r] = "error"

SkippedAfterFailure ==
    /\ \A r \in Request : Stops(r) =>
          \A s \in Later(r) : req[s] = "done" /\ out[s] = "skipped"
    /\ \A r \in Request : out[r] = "skipped" =>
          \E s \in Earlier(r) : Stops(s)

FinishedIsDone ==
    \A j \in Job : job[j] = "finished" => \A r \in Of(j) : req[r] = "done"

AcceptedIsQueued ==
    \A j \in Job : job[j] = "accepted" => \A r \in Of(j) : req[r] = "queued"

IInv ==
    /\ TypeOK
    /\ TokensCounted
    /\ OneByOne /\ SlotsFollow /\ SkippedAfterFailure /\ FinishedIsDone
    /\ AcceptedIsQueued

-----------------------------------------------------------------------------
(* A request is a job and an index, and those of a job are in a line.      *)
LEMMA RequestFields ==
    ASSUME NEW r \in Request
    PROVE  /\ r[1] \in Job /\ r[2] \in Nat /\ r \in Of(r[1])
           /\ r = <<r[1], r[2]>>
<1>1. PICK j \in Job : r \in {j} \X (1 .. Count[j])
  BY DEF Request
<1> QED
  BY <1>1, PoolAssumption DEF Of

LEMMA RequestLine ==
    ASSUME NEW r \in Request, NEW s \in Of(r[1])
    PROVE  /\ s \in Request /\ s[1] = r[1]
           /\ s = r \/ s \in Earlier(r) \/ s \in Later(r)
           /\ s \in Earlier(r) <=> r \in Later(s)
           /\ r \notin Earlier(r) /\ r \notin Later(r)
           /\ ~(s \in Earlier(r) /\ s \in Later(r))
<1>1. s \in Request /\ s[1] = r[1]
  BY DEF Of
<1>2. r[2] \in Nat /\ s[2] \in Nat /\ r \in Of(r[1])
  BY <1>1, RequestFields
<1>3. r[2] = s[2] => r = s
  BY <1>1, RequestFields
<1> QED
  BY <1>1, <1>2, <1>3 DEF Earlier, Later

LEMMA EarlierLater ==
    ASSUME NEW r \in Request
    PROVE  Earlier(r) \subseteq Of(r[1]) /\ Later(r) \subseteq Of(r[1])
BY DEF Earlier, Later

-----------------------------------------------------------------------------
LEMMA InitInv == Init => IInv
<1> SUFFICES ASSUME Init PROVE IInv
  OBVIOUS
<1>1. TypeOK
  BY PoolAssumption DEF Init, TypeOK
<1>2. TokensCounted
  <2>1. Executing(Request) = {} /\ \A j \in Job : Active(j) = {}
    BY DEF Init, Executing, Active, OnItsWay, Of
  <2>2. \A j \in Job : ~Sequential(j) => 0 <= MaxConcurrency[j]
    BY PoolAssumption DEF Sequential
  <2> QED
    BY <2>1, <2>2, FS_EmptySet DEF Init, TokensCounted
<1>3. /\ OneByOne /\ SlotsFollow /\ SkippedAfterFailure /\ FinishedIsDone
      /\ AcceptedIsQueued
  BY DEF Init, OneByOne, SlotsFollow, SkippedAfterFailure, Stops, FinishedIsDone,
         AcceptedIsQueued, Of
<1> QED
  BY <1>1, <1>2, <1>3 DEF IInv

-----------------------------------------------------------------------------
(* The tokens. *)

LEMMA AdmitCounted ==
    ASSUME IInv, NEW r \in Request, Admit(r)
    PROVE  TokensCounted'
<1> DEFINE j == r[1]
<1> USE DEF IInv, TypeOK
<1>1. j \in Job /\ r \in Of(j) /\ ~Sequential(j)
  BY RequestFields DEF Admit
<1>2. req' = [req EXCEPT ![r] = "admitted"] /\ req[r] = "queued"
  BY DEF Admit
<1>3. Executing(Request)' = Executing(Request) /\ sem' = sem
  BY <1>2 DEF Executing, Admit
<1>4. Active(j)' = Active(j) \cup {r} /\ r \notin Active(j)
  BY <1>1, <1>2 DEF Active, OnItsWay, Of
<1>5. \A k \in Job : k # j => Active(k)' = Active(k)
  BY <1>2 DEF Active, OnItsWay, Of
<1>6. /\ jobSem'[j] = jobSem[j] + 1 /\ jobSem'[j] <= MaxConcurrency[j]
      /\ \A k \in Job : k # j => jobSem'[k] = jobSem[k]
  <2>1. jobSem' = [jobSem EXCEPT ![j] = jobSem[j] + 1] /\ jobSem[j] < MaxConcurrency[j]
    BY DEF Admit
  <2>2. jobSem[j] \in Nat /\ MaxConcurrency[j] \in Int
    BY <1>1, PoolAssumption
  <2> QED
    BY <1>1, <2>1, <2>2
<1>7. IsFiniteSet(Active(j)') /\ jobSem'[j] = Cardinality(Active(j)')
  BY <1>1, <1>4, <1>6, FS_AddElement, FS_CardinalityType DEF TokensCounted
<1> QED
  BY <1>3, <1>5, <1>6, <1>7 DEF TokensCounted

LEMMA LeaveCounted ==
    ASSUME IInv, NEW r \in Request, Leave(r)
    PROVE  TokensCounted' /\ jobSem' \in [Job -> Nat]
<1> DEFINE j == r[1]
<1> USE DEF IInv, TypeOK
<1>1. j \in Job /\ r \in Of(j) /\ ~Sequential(j)
  BY RequestFields DEF Leave
<1>2. req' = [req EXCEPT ![r] = "done"] /\ req[r] = "answered"
  BY DEF Leave
<1>3. Executing(Request)' = Executing(Request) /\ sem' = sem
  BY <1>2 DEF Executing, Leave
<1>4. Active(j)' = Active(j) \ {r} /\ r \in Active(j)
  BY <1>1, <1>2 DEF Active, OnItsWay, Of
<1>5. \A k \in Job : k # j => Active(k)' = Active(k)
  BY <1>2 DEF Active, OnItsWay, Of
<1>6. jobSem' = [jobSem EXCEPT ![j] = jobSem[j] - 1]
  BY DEF Leave
<1>7. IsFiniteSet(Active(j)') /\ jobSem[j] - 1 = Cardinality(Active(j)')
  BY <1>1, <1>4, FS_RemoveElement DEF TokensCounted
<1>8. jobSem[j] - 1 \in Nat
  BY <1>7, FS_CardinalityType
<1>9. jobSem' \in [Job -> Nat]
  BY <1>6, <1>8
<1> QED
  BY <1>1, <1>3, <1>5, <1>6, <1>7, <1>9, PoolAssumption DEF TokensCounted

LEMMA AcquireCounted ==
    ASSUME IInv, NEW r \in Request, Acquire(r)
    PROVE  TokensCounted'
<1> USE DEF IInv, TypeOK
<1>1. req' = [req EXCEPT ![r] = "executing"] /\ req[r] = "admitted"
  BY DEF Acquire
<1>2. Executing(Request)' = Executing(Request) \cup {r} /\ r \notin Executing(Request)
  BY <1>1 DEF Executing
<1>3. IsFiniteSet(Executing(Request)') /\ sem' = Cardinality(Executing(Request)')
  <2>1. IsFiniteSet(Executing(Request)) /\ sem = Cardinality(Executing(Request))
    BY DEF TokensCounted
  <2>2. /\ IsFiniteSet(Executing(Request) \cup {r})
        /\ Cardinality(Executing(Request) \cup {r}) = sem + 1
    BY <1>2, <2>1, FS_AddElement
  <2> QED
    BY <1>2, <2>2 DEF Acquire
<1>4. \A k \in Job : Active(k)' = Active(k)
  BY <1>1 DEF Active, OnItsWay, Of
<1> QED
  BY <1>3, <1>4 DEF TokensCounted, Acquire

LEMMA AnswerCounted ==
    ASSUME IInv, NEW r \in Request, Answer(r)
    PROVE  TokensCounted' /\ sem' \in 0 .. PoolSize
<1> USE DEF IInv, TypeOK
<1>1. req' = [req EXCEPT ![r] = "answered"] /\ req[r] = "executing"
  BY DEF Answer
<1>2. Executing(Request)' = Executing(Request) \ {r} /\ r \in Executing(Request)
  BY <1>1 DEF Executing
<1>3. IsFiniteSet(Executing(Request)') /\ sem' = Cardinality(Executing(Request)')
  BY <1>2, FS_RemoveElement DEF TokensCounted, Answer
<1>4. sem' \in Nat /\ sem' = sem - 1
  BY <1>3, FS_CardinalityType DEF Answer
<1>5. \A k \in Job : Active(k)' = Active(k)
  BY <1>1 DEF Active, OnItsWay, Of
<1> QED
  BY <1>3, <1>4, <1>5, PoolAssumption DEF TokensCounted, Answer

(* The loop of a sequential job takes no token of its own. *)
LEMMA LoopCounted ==
    ASSUME IInv, NEW r \in Request, Turn(r) \/ Advance(r)
    PROVE  TokensCounted'
<1> USE DEF IInv, TypeOK
<1>1. Sequential(r[1]) /\ r[1] \in Job /\ UNCHANGED <<sem, jobSem>>
  BY RequestFields DEF Turn, Advance
<1>2. \A s \in Request : s \notin Of(r[1]) => req'[s] = req[s]
  BY EarlierLater, RequestFields DEF Turn, Advance, Skipped
<1>3. \A k \in Job : ~Sequential(k) => Active(k)' = Active(k)
  BY <1>1, <1>2 DEF Active, Of
<1>4. \A s \in Request : (req'[s] = "executing") <=> (req[s] = "executing")
  <2>1. CASE Turn(r)
    BY <2>1 DEF Turn
  <2>2. CASE Advance(r)
    <3>1. \A s \in Later(r) : req[s] # "executing"
      <4>1. \A s \in Later(r) : s \in Of(r[1]) /\ s \in Request /\ r \in Of(s[1])
        BY EarlierLater, RequestFields, RequestLine DEF Of
      <4>2. \A s \in Later(r) : r \in Earlier(s) /\ Sequential(s[1])
        BY <1>1, <4>1, RequestLine
      <4> QED
        BY <2>2, <4>1, <4>2 DEF OneByOne, Advance
    <3> QED
      BY <2>2, <3>1 DEF Advance, Skipped
  <2> QED
    BY <2>1, <2>2
<1>5. Executing(Request)' = Executing(Request)
  BY <1>4 DEF Executing
<1> QED
  BY <1>1, <1>3, <1>5 DEF TokensCounted

-----------------------------------------------------------------------------
(* The results. *)

(* What Begin, Turn, Admit and Acquire do to the requests: one of them     *)
(* moves on before it has its answer, in the line if the job has one.      *)
LEMMA ProgressKeeps ==
    ASSUME IInv, UNCHANGED out, NEW r \in Request,
           req[r] \in {"queued", "admitted"}, job[r[1]] # "finished",
           req' \in {[req EXCEPT ![r] = "admitted"], [req EXCEPT ![r] = "executing"]},
           Sequential(r[1]) => \A s \in Earlier(r) : req[s] = "done",
           UNCHANGED job
    PROVE  (OneByOne /\ SlotsFollow /\ SkippedAfterFailure /\ FinishedIsDone)'
<1> USE DEF IInv, TypeOK
<1>1. \A s \in Request : req'[s] = "done" <=> req[s] = "done"
  OBVIOUS
<1>2. \A s \in Request : Earlier(s) \subseteq Request /\ Later(s) \subseteq Request
  BY EarlierLater DEF Of
<1>3. OneByOne'
  BY <1>1, <1>2 DEF OneByOne
<1>4. SlotsFollow'
  BY DEF SlotsFollow
<1>5. SkippedAfterFailure'
  BY <1>1, <1>2 DEF SkippedAfterFailure, Stops
<1>6. FinishedIsDone'
  BY <1>1 DEF FinishedIsDone, Of
<1> QED
  BY <1>3, <1>4, <1>5, <1>6

LEMMA AnswerKeeps ==
    ASSUME IInv, NEW r \in Request, Answer(r)
    PROVE  (OneByOne /\ SlotsFollow /\ SkippedAfterFailure /\ FinishedIsDone)'
<1> USE DEF IInv, TypeOK
<1>1. PICK result \in {"response", "error"} : out' = [out EXCEPT ![r] = result]
  BY DEF Answer
<1>2. /\ req[r] = "executing" /\ req' = [req EXCEPT ![r] = "answered"]
      /\ UNCHANGED job /\ out[r] = "empty"
  BY DEF Answer, SlotsFollow
<1>3. \A s \in Request : req'[s] = "done" <=> req[s] = "done"
  BY <1>2
<1>4. \A s \in Request : Earlier(s) \subseteq Request /\ Later(s) \subseteq Request
  BY EarlierLater DEF Of
<1>5. OneByOne'
  BY <1>2, <1>3, <1>4 DEF OneByOne
<1>6. SlotsFollow'
  BY <1>1, <1>2 DEF SlotsFollow
<1>7. \A s \in Request : /\ Stops(s)' <=> Stops(s)
                         /\ out'[s] = "skipped" <=> out[s] = "skipped"
  BY <1>1, <1>2, <1>3 DEF Stops
<1>8. SkippedAfterFailure'
  BY <1>3, <1>4, <1>7 DEF SkippedAfterFailure
<1>9. FinishedIsDone'
  BY <1>2, <1>3 DEF FinishedIsDone, Of
<1> QED
  BY <1>5, <1>6, <1>8, <1>9

(* A goroutine of a concurrent job has nothing to skip. *)
LEMMA LeaveKeeps ==
    ASSUME IInv, NEW r \in Request, Leave(r)
    PROVE  (OneByOne /\ SlotsFollow /\ SkippedAfterFailure /\ FinishedIsDone)'
<1> USE DEF IInv, TypeOK
<1>1. /\ ~Sequential(r[1]) /\ req[r] = "answered" /\ UNCHANGED <<job, out>>
      /\ req' = [req EXCEPT ![r] = "done"]
  BY DEF Leave
<1>2. \A s \in Request : Earlier(s) \subseteq Of(s[1]) /\ Later(s) \subseteq Of(s[1])
  BY EarlierLater
<1>3. OneByOne'
  BY <1>1, <1>2 DEF OneByOne, Of
<1>4. SlotsFollow'
  BY <1>1 DEF SlotsFollow
<1>5. \A s \in Request : Stops(s)' <=> Stops(s)
  BY <1>1 DEF Stops
<1>6. SkippedAfterFailure'
  BY <1>1, <1>2, <1>5 DEF SkippedAfterFailure, Of
<1>7. FinishedIsDone'
  BY <1>1 DEF FinishedIsDone, Of
<1> QED
  BY <1>3, <1>4, <1>6, <1>7

(* The loop goes on, or marks the rest: which had not begun, for the       *)
(* request at hand was not done.                                           *)
LEMMA AdvanceKeeps ==
    ASSUME IInv, NEW r \in Request, Advance(r)
    PROVE  (OneByOne /\ SlotsFollow /\ SkippedAfterFailure /\ FinishedIsDone)'
<1> USE DEF IInv, TypeOK
<1>1. /\ Sequential(r[1]) /\ req[r] = "answered" /\ UNCHANGED job
      /\ out[r] \in {"response", "error"}
  BY DEF Advance, SlotsFollow
<1>2. \A s \in Request :
          /\ Earlier(s) \subseteq Request /\ Later(s) \subseteq Request
          /\ Earlier(s) \subseteq Of(s[1]) /\ Later(s) \subseteq Of(s[1])
  BY EarlierLater DEF Of
<1>3. \A s \in Later(r) : /\ s \in Request /\ r \in Earlier(s) /\ s # r
                          /\ s[1] = r[1] /\ req[s] = "queued" /\ out[s] = "empty"
  <2>1. ASSUME NEW s \in Later(r)
        PROVE  /\ s \in Request /\ s[1] = r[1] /\ r \in Earlier(s) /\ s # r
    <3>1. s \in Of(r[1]) /\ s \in Request /\ s[1] = r[1]
      BY EarlierLater, RequestLine
    <3>2. r \in Of(s[1])
      BY <3>1, RequestFields
    <3> QED
      BY <3>1, <3>2, RequestLine
  <2>2. ASSUME NEW s \in Later(r) PROVE req[s] = "queued"
    BY <1>1, <2>1 DEF OneByOne
  <2> QED
    BY <2>1, <2>2 DEF SlotsFollow
<1>4. /\ \A s \in Request : req'[s] = IF s = r \/ s \in Skipped(r) THEN "done" ELSE req[s]
      /\ \A s \in Request : out'[s] = IF s \in Skipped(r) THEN "skipped" ELSE out[s]
  BY DEF Advance
<1>5. Skipped(r) \subseteq Later(r)
  BY DEF Skipped
<1>6. \A s \in Request : req[s] = "done" => req'[s] = "done" /\ out'[s] = out[s]
  BY <1>3, <1>4, <1>5
<1>7. \A s \in Request : Stops(s) => Stops(s)'
  BY <1>6 DEF Stops
<1>8. OneByOne'
  <2>1. ASSUME NEW s \in Request, Sequential(s[1]), req'[s] # "queued",
               NEW t \in Earlier(s)
        PROVE  req'[t] = "done"
    <3>1. CASE s \in Skipped(r)
      <4>1. s[1] = r[1] /\ t \in Of(r[1]) /\ t \in Request
        BY <1>2, <1>3, <1>5, <3>1
      <4>2. CASE t = r
        BY <1>4, <4>2
      <4>3. CASE t \in Earlier(r)
        BY <1>1, <1>6, <4>1, <4>3 DEF OneByOne
      <4>4. CASE t \in Later(r)
        BY <1>4, <3>1, <4>1, <4>4 DEF Skipped
      <4> QED
        BY <4>1, <4>2, <4>3, <4>4, RequestLine
    <3>2. CASE s \notin Skipped(r)
      BY <1>1, <1>2, <1>4, <1>6, <2>1, <3>2 DEF OneByOne
    <3> QED
      BY <3>1, <3>2
  <2> QED
    BY <2>1 DEF OneByOne
<1>9. SlotsFollow'
  BY <1>1, <1>3, <1>4, <1>5 DEF SlotsFollow
<1>10. SkippedAfterFailure'
  <2>1. ASSUME NEW s \in Request, Stops(s)', NEW t \in Later(s)
        PROVE  req'[t] = "done" /\ out'[t] = "skipped"
    <3>1. CASE s = r
      BY <1>2, <1>4, <2>1, <3>1 DEF Stops, Skipped
    <3>2. CASE s # r
      BY <1>2, <1>4, <1>6, <2>1, <3>2 DEF Stops, SkippedAfterFailure
    <3> QED
      BY <3>1, <3>2
  <2>2. ASSUME NEW s \in Request, out'[s] = "skipped"
        PROVE  \E t \in Earlier(s) : Stops(t)'
    <3>1. CASE s \in Skipped(r)
      <4>1. StopOnError[r[1]] /\ out[r] = "error" /\ s \in Later(r)
        BY <3>1 DEF Skipped
      <4>2. r \notin Skipped(r)
        BY <1>3, <1>5
      <4>3. Stops(r)'
        BY <1>1, <1>4, <4>1, <4>2 DEF Stops
      <4> QED
        BY <1>3, <4>1, <4>3
    <3>2. CASE s \notin Skipped(r)
      BY <1>2, <1>4, <1>7, <2>2, <3>2 DEF SkippedAfterFailure
    <3> QED
      BY <3>1, <3>2
  <2> QED
    BY <2>1, <2>2 DEF SkippedAfterFailure
<1>11. FinishedIsDone'
  BY <1>1, <1>6 DEF FinishedIsDone, Of
<1> QED
  BY <1>8, <1>9, <1>10, <1>11

-----------------------------------------------------------------------------
(* When only a job moves on, everything about its requests stays. *)
LEMMA JobMoves ==
    ASSUME IInv, UNCHANGED <<req, out, sem, jobSem>>
    PROVE  (TokensCounted /\ OneByOne /\ SlotsFollow /\ SkippedAfterFailure)'
<1> USE DEF IInv
<1>1. Executing(Request)' = Executing(Request) /\ \A j \in Job : Active(j)' = Active(j)
  BY DEF Executing, Active
<1>2. TokensCounted'
  BY <1>1 DEF TokensCounted
<1>3. OneByOne' /\ SlotsFollow'
  BY DEF OneByOne, SlotsFollow
<1>4. SkippedAfterFailure'
  BY DEF SkippedAfterFailure, Stops
<1> QED
  BY <1>2, <1>3, <1>4

(* A job that has not begun is not stepped for. *)
LEMMA AcceptedKeeps ==
    ASSUME IInv, [Next]_vars
    PROVE  AcceptedIsQueued'
<1> USE DEF IInv, TypeOK
<1>1. \A r \in Request : r[1] \in Job /\ r \in Of(r[1])
  BY RequestFields
<1>2. ASSUME NEW j \in Job, job'[j] = "accepted", NEW s \in Of(j)
      PROVE  req'[s] = "queued"
  <2>1. s \in Request /\ s[1] = j
    BY DEF Of
  <2>2. job[j] = "accepted" /\ req[s] = "queued"
    <3>1. job' = job \/ \E k \in Job : job' \in {[job EXCEPT ![k] = "running"],
                                               [job EXCEPT ![k] = "finished"]}
      BY DEF Next, JobStep, JobAcquires, Begin, Finish, Turn, Admit, Acquire,
             Answer, Advance, Leave, vars
    <3> QED
      BY <1>2, <2>1, <3>1 DEF AcceptedIsQueued
  <2>3. ASSUME NEW r \in Request, r[1] = j
        PROVE  ~(Turn(r) \/ Admit(r) \/ Acquire(r) \/ Answer(r) \/ Advance(r) \/ Leave(r))
    <3>1. job[r[1]] = "accepted" /\ req[r] = "queued"
      BY <1>1, <2>2, <2>3 DEF AcceptedIsQueued
    <3> QED
      BY <3>1 DEF Turn, Admit, Acquire, Answer, Advance, Leave
  <2>4. ASSUME NEW r \in Request, r[1] # j,
               Turn(r) \/ Admit(r) \/ Acquire(r) \/ Answer(r) \/ Advance(r) \/ Leave(r)
        PROVE  req'[s] = req[s]
    <3>1. s \notin Skipped(r) /\ s # r
      BY <2>1, <2>4 DEF Skipped, Later, Of
    <3> QED
      BY <2>1, <2>4, <3>1 DEF Turn, Admit, Acquire, Answer, Advance, Leave
  <2>5. \A k \in Job : Of(k) \subseteq Request
    BY DEF Of
  <2> QED
    BY <2>1, <2>2, <2>3, <2>4, <2>5
       DEF Next, JobStep, JobAcquires, Begin, Finish, vars
<1> QED
  BY <1>2 DEF AcceptedIsQueued

LEMMA StepInv == IInv /\ [Next]_vars => IInv'
<1> SUFFICES ASSUME IInv, [Next]_vars PROVE IInv'
  OBVIOUS
<1>0. AcceptedIsQueued'
  BY AcceptedKeeps
<1> USE DEF IInv, TypeOK
<1>1. ASSUME NEW j \in Job, Begin(j) PROVE IInv'
  <2>1. job' = [job EXCEPT ![j] = "running"] /\ UNCHANGED <<req, out, sem, jobSem>>
    BY <1>1 DEF Begin
  <2>2. TypeOK' /\ FinishedIsDone'
    BY <2>1 DEF FinishedIsDone
  <2> QED
    BY <1>0, <2>1, <2>2, JobMoves
<1>2. ASSUME NEW j \in Job, Finish(j) PROVE IInv'
  <2>1. /\ job' = [job EXCEPT ![j] = "finished"] /\ UNCHANGED <<req, out, sem, jobSem>>
        /\ \A r \in Of(j) : req[r] = "done"
    BY <1>2 DEF Finish
  <2>2. TypeOK' /\ FinishedIsDone'
    BY <2>1 DEF FinishedIsDone
  <2> QED
    BY <1>0, <2>1, <2>2, JobMoves
<1>3. ASSUME NEW r \in Request, Turn(r) PROVE IInv'
  <2>1. TypeOK'
    BY <1>3 DEF Turn
  <2>2. TokensCounted'
    BY <1>3, LoopCounted
  <2>3. (OneByOne /\ SlotsFollow /\ SkippedAfterFailure /\ FinishedIsDone)'
    BY <1>3, ProgressKeeps DEF Turn
  <2> QED
    BY <1>0, <2>1, <2>2, <2>3
<1>4. ASSUME NEW r \in Request, Admit(r) PROVE IInv'
  <2>1. TypeOK'
    <3>1. jobSem' \in [Job -> Nat]
      BY <1>4, RequestFields DEF Admit
    <3> QED
      BY <1>4, <3>1 DEF Admit
  <2>2. TokensCounted'
    BY <1>4, AdmitCounted
  <2>3. (OneByOne /\ SlotsFollow /\ SkippedAfterFailure /\ FinishedIsDone)'
    BY <1>4, ProgressKeeps DEF Admit
  <2> QED
    BY <1>0, <2>1, <2>2, <2>3
<1>5. ASSUME NEW r \in Request, Acquire(r) PROVE IInv'
  <2>1. TypeOK'
    BY <1>5, PoolAssumption DEF Acquire
  <2>2. TokensCounted'
    BY <1>5, AcquireCounted
  <2>3. job[r[1]] # "finished"
    BY <1>5, RequestFields DEF Acquire, FinishedIsDone
  <2>4. Sequential(r[1]) => \A s \in Earlier(r) : req[s] = "done"
    BY <1>5 DEF Acquire, OneByOne
  <2>5. (OneByOne /\ SlotsFollow /\ SkippedAfterFailure /\ FinishedIsDone)'
    BY <1>5, <2>3, <2>4, ProgressKeeps DEF Acquire
  <2> QED
    BY <1>0, <2>1, <2>2, <2>5
<1>6. ASSUME NEW r \in Request, Answer(r) PROVE IInv'
  <2>1. TypeOK'
    BY <1>6, AnswerCounted DEF Answer
  <2> QED
    BY <1>0, <1>6, <2>1, AnswerCounted, AnswerKeeps
<1>7. ASSUME NEW r \in Request, Advance(r) PROVE IInv'
  <2>1. TypeOK'
    BY <1>7 DEF Advance
  <2> QED
    BY <1>0, <1>7, <2>1, LoopCounted, AdvanceKeeps
<1>8. ASSUME NEW r \in Request, Leave(r) PROVE IInv'
  <2>1. TypeOK'
    BY <1>8, LeaveCounted DEF Leave
  <2> QED
    BY <1>0, <1>8, <2>1, LeaveCounted, LeaveKeeps
<1>9. CASE UNCHANGED vars
  BY <1>0, <1>9, JobMoves DEF vars, FinishedIsDone
<1>10. \A j \in Job : Of(j) \subseteq Request
  BY DEF Of
<1> QED
  BY <1>1, <1>2, <1>3, <1>4, <1>5, <1>6, <1>7, <1>8, <1>9, <1>10
     DEF Next, JobStep, JobAcquires

(* Tokens are where the requests that hold them are, in every reachable    *)
(* state, and a sequential job has one request under way.                  *)
THEOREM Invariance == Spec => []IInv
BY InitInv, StepInv, PTL DEF Spec

-----------------------------------------------------------------------------
(* Every reachable state is well typed, w.sem is never overfull. *)
THEOREM TypeCorrect == Spec => []TypeOK
<1>1. IInv => TypeOK
  BY DEF IInv
<1> QED
  BY <1>1, Invariance, PTL

(* For every pool size and any jobs: no more requests execute at once than *)
(* the pool admits, and no more of a job than it allows.                   *)
THEOREM BoundedInFlight == Spec => []InFlightBounded
<1>1. ASSUME IInv PROVE Cardinality(Executing(Request)) <= PoolSize
  BY <1>1, PoolAssumption DEF IInv, TypeOK, TokensCounted
<1>2. ASSUME IInv, NEW j \in Job, Sequential(j)
      PROVE  Cardinality(Executing(Of(j))) <= 1
  <2>1. CASE Executing(Of(j)) = {}
    BY <2>1, FS_EmptySet
  <2>2. ASSUME NEW r \in Executing(Of(j)) PROVE Executing(Of(j)) = {r}
    <3>1. ASSUME NEW s \in Executing(Of(j)) PROVE s = r
      <4>1. /\ r \in Request /\ s \in Of(r[1]) /\ r \in Of(s[1]) /\ s \in Request
            /\ Sequential(r[1]) /\ Sequential(s[1])
            /\ req[r] = "executing" /\ req[s] = "executing"
        BY <1>2, <2>2, <3>1 DEF Executing, Of
      <4>2. s \notin Earlier(r) /\ r \notin Earlier(s)
        BY <1>2, <4>1 DEF IInv, OneByOne
      <4> QED
        BY <4>1, <4>2, RequestLine
    <3> QED
      BY <2>2, <3>1
  <2>3. CASE Executing(Of(j)) # {}
    <3>1. PICK r \in Executing(Of(j)) : TRUE
      BY <2>3
    <3>2. Executing(Of(j)) = {r} /\ Cardinality({r}) = 1
      BY <2>2, FS_Singleton
    <3> QED
      BY <3>2
  <2> QED
    BY <2>1, <2>3
<1>3. ASSUME IInv, NEW j \in Job, ~Sequential(j)
      PROVE  Cardinality(Executing(Of(j))) <= MaxConcurrency[j]
  <2>1. Executing(Of(j)) \in SUBSET Active(j)
    BY DEF Executing, Active, OnItsWay
  <2>2. /\ IsFiniteSet(Active(j)) /\ Cardinality(Active(j)) <= MaxConcurrency[j]
    BY <1>3 DEF IInv, TokensCounted
  <2>3. /\ IsFiniteSet(Executing(Of(j)))
        /\ Cardinality(Executing(Of(j))) <= Cardinality(Active(j))
    BY <2>1, <2>2, FS_Subset
  <2>4. Cardinality(Executing(Of(j))) \in Nat /\ Cardinality(Active(j)) \in Nat
    BY <2>2, <2>3, FS_CardinalityType
  <2> QED
    BY <2>2, <2>3, <2>4, PoolAssumption
<1>4. IInv => InFlightBounded
  BY <1>1, <1>2, <1>3 DEF InFlightBounded
<1> QED
  BY <1>4, Invariance, PTL

(* The results of a finished job are whole, and exactly the requests after *)
(* a failure that stops the job are skipped.                               *)
THEOREM ResultsWhole == Spec => []ResultsComplete
<1>1. ASSUME IInv, NEW r \in Request, job[r[1]] = "finished"
      PROVE  /\ out[r] # "empty"
             /\ out[r] = "skipped" <=>
                   /\ Sequential(r[1]) /\ StopOnError[r[1]]
                   /\ \E s \in Earlier(r) : out[s] = "error"
  <2>1. \A s \in Of(r[1]) : req[s] = "done"
    BY <1>1, RequestFields DEF IInv, FinishedIsDone
  <2>2. r \in Of(r[1]) /\ Earlier(r) \subseteq Of(r[1]) /\ Of(r[1]) \subseteq Request
    BY RequestFields, EarlierLater DEF Of
  <2>3. \A s \in Earlier(r) : s[1] = r[1] /\ r \in Later(s)
    BY <2>2, RequestLine
  <2>4. out[r] # "empty"
    BY <1>1, <2>1, <2>2 DEF IInv, SlotsFollow
  <2>5. ASSUME out[r] = "skipped"
        PROVE  /\ Sequential(r[1]) /\ StopOnError[r[1]]
               /\ \E s \in Earlier(r) : out[s] = "error"
    BY <1>1, <2>3, <2>5 DEF IInv, SkippedAfterFailure, Stops
  <2>6. ASSUME Sequential(r[1]), StopOnError[r[1]],
               NEW s \in Earlier(r), out[s] = "error"
        PROVE  out[r] = "skipped"
    BY <1>1, <2>1, <2>2, <2>3, <2>6 DEF IInv, SkippedAfterFailure, Stops
  <2> QED
    BY <2>4, <2>5, <2>6
<1>2. IInv => ResultsComplete
  BY <1>1 DEF ResultsComplete
<1> QED
  BY <1>2, Invariance, PTL

(* What is before a request of a sequential job that gets its token. *)
LEMMA EarlierSettled ==
    ASSUME IInv, NEW r \in Request, Acquire(r), Sequential(r[1]), NEW s \in Earlier(r)
    PROVE  /\ s \in Request /\ req[s] = "done" /\ ~Stops(s)
           /\ out[s] \in {"response", "error"} /\ Skipped(s) = {}
<1>1. Earlier(r) \subseteq Of(r[1]) /\ Of(r[1]) \subseteq Request
  BY EarlierLater DEF Of
<1>2. s \in Request /\ s[1] = r[1] /\ r \in Later(s) /\ req[s] = "done"
  BY <1>1, RequestLine DEF IInv, OneByOne, Acquire
<1>3. \A t \in Earlier(r) : ~Stops(t)
  <2>1. \A t \in Earlier(r) : t \in Request /\ r \in Later(t)
    BY <1>1, RequestLine
  <2> QED
    BY <2>1 DEF IInv, SkippedAfterFailure, Acquire
<1>4. Earlier(s) \subseteq Earlier(r)
  <2>1. r[2] \in Nat /\ s[2] \in Nat /\ s[2] < r[2] /\ \A t \in Of(r[1]) : t[2] \in Nat
    BY <1>1, <1>2, RequestFields DEF Earlier
  <2> QED
    BY <1>2, <2>1 DEF Earlier
<1>5. out[s] # "skipped"
  BY <1>2, <1>3, <1>4 DEF IInv, SkippedAfterFailure
<1>6. out[s] \in {"response", "error"}
  BY <1>2, <1>5 DEF IInv, TypeOK, SlotsFollow
<1>7. Skipped(s) = {}
  BY <1>2, <1>3 DEF Skipped, Stops
<1> QED
  BY <1>2, <1>3, <1>6, <1>7

(* A request of a sequential job starts after all earlier ones, none of    *)
(* which stopped the job.                                                  *)
THEOREM RunsInOrder == Spec => InOrder
<1>1. IInv /\ [Next]_vars =>
          [\A r \in Request : Acquire(r) /\ Sequential(r[1]) =>
              \A s \in Earlier(r) :
                  out[s] \in {"response", "error"} /\ Skipped(s) = {}]_vars
  BY EarlierSettled
<1> QED
  BY <1>1, Invariance, PTL DEF Spec, InOrder

-----------------------------------------------------------------------------
(* Any set of natural numbers that is not empty has a least element. *)
Below == {p \in Nat \X Nat : p[1] < p[2]}

LEMMA BelowWellFounded == IsWellFoundedOn(Below, Nat)
<1>1. OpToRel(<, Nat) = Below
  BY Zenon DEF OpToRel, Below
<1> QED
  BY <1>1, NatLessThanWellFounded, Zenon

LEMMA Smallest ==
    ASSUME NEW T \in SUBSET Nat, T # {}
    PROVE  \E n \in T : \A k \in T : n <= k
<1>1. PICK n \in T : \A k \in T : ~(<<k, n>> \in Below)
  BY WFMin, BelowWellFounded
<1>2. ASSUME NEW k \in T PROVE n <= k
  <2>1. n \in Nat /\ k \in Nat /\ <<k, n>> \in Nat \X Nat
    OBVIOUS
  <2>2. ~(k < n)
    BY <1>1, <2>1 DEF Below
  <2> QED
    BY <2>1, <2>2
<1> QED
  BY <1>2

(* The request a loop is at: the first one that is not done. *)
LEMMA FirstLeft ==
    ASSUME NEW j \in Job, \E r \in Of(j) : req[r] # "done"
    PROVE  \E r \in Of(j) : req[r] # "done" /\ \A s \in Earlier(r) : req[s] = "done"
<1> DEFINE Left == {r \in Of(j) : req[r] # "done"}
           Index == {r[2] : r \in Left}
<1>1. Left \subseteq Request /\ \A r \in Left : r[1] = j /\ r[2] \in Nat
  BY RequestFields DEF Of
<1>2. Index \in SUBSET Nat /\ Index # {}
  BY <1>1
<1>3. PICK n \in Index : \A k \in Index : n <= k
  BY <1>2, Smallest
<1>4. PICK r \in Left : r[2] = n
  BY <1>3
<1>5. ASSUME NEW s \in Earlier(r) PROVE req[s] = "done"
  <2>1. s \in Of(j) /\ s[2] < r[2]
    BY <1>1, <1>4 DEF Earlier
  <2>2. s \notin Left
    BY <1>1, <1>2, <1>3, <1>4, <2>1
  <2> QED
    BY <2>1, <2>2
<1> QED
  BY <1>4, <1>5

(* For any jobs and any limits: nothing waits but for requests that        *)
(* execute.  Who holds a token of his job waits for the pool at most, and  *)
(* who holds one of the pool waits for nobody.                             *)
THEOREM NeverGridlocked == Spec => []NoGridlock
<1>1. ASSUME IInv, NEW j \in Job, job[j] # "finished", ~CanGoOn(j)
      PROVE  /\ \E r \in Of(j) : req[r] = "admitted"
             /\ sem = PoolSize /\ Executing(Request) # {}
  <2>1. /\ job[j] = "running" /\ \A r \in Of(j) : ~Unblocked(r)
        /\ \E r \in Of(j) : req[r] # "done"
    BY <1>1 DEF CanGoOn, IInv, TypeOK
  <2>2. \A r \in Of(j) : r \in Request /\ r[1] = j
    BY DEF Of
  <2>3. \A r \in Of(j) : req[r] \in {"queued", "admitted", "done"}
    BY <1>1, <2>1, <2>2 DEF Unblocked, IInv, TypeOK
  <2>4. \E r \in Of(j) : req[r] = "admitted"
    <3>1. CASE Sequential(j)
      <4>1. PICK r \in Of(j) : req[r] # "done" /\ \A s \in Earlier(r) : req[s] = "done"
        BY <2>1, FirstLeft
      <4>2. req[r] # "queued"
        BY <2>1, <2>2, <3>1, <4>1 DEF Unblocked
      <4> QED
        BY <2>3, <4>1, <4>2
    <3>2. CASE ~Sequential(j)
      <4>1. PICK r \in Of(j) : req[r] # "done"
        BY <2>1
      <4>2. ASSUME req[r] = "queued" PROVE Active(j) # {}
        <5>1. ~(jobSem[j] < MaxConcurrency[j])
          BY <2>1, <2>2, <3>2, <4>2 DEF Unblocked
        <5>2. jobSem[j] \in Nat /\ MaxConcurrency[j] \in Int /\ MaxConcurrency[j] > 1
          BY <1>1, <3>2, PoolAssumption DEF IInv, TypeOK, Sequential
        <5>3. Cardinality(Active(j)) # 0
          BY <1>1, <3>2, <5>1, <5>2 DEF IInv, TokensCounted
        <5> QED
          BY <5>3, FS_EmptySet
      <4>3. \E s \in Of(j) : req[s] \in OnItsWay
        BY <2>3, <4>1, <4>2 DEF Active, OnItsWay
      <4> QED
        BY <2>3, <4>3 DEF OnItsWay
    <3> QED
      BY <3>1, <3>2
  <2>5. sem = PoolSize
    BY <1>1, <2>1, <2>4, PoolAssumption DEF Unblocked, IInv, TypeOK
  <2>6. Executing(Request) # {}
    BY <1>1, <2>5, PoolAssumption, FS_EmptySet DEF IInv, TokensCounted
  <2> QED
    BY <2>4, <2>5, <2>6
<1>2. IInv => NoGridlock
  BY <1>1 DEF NoGridlock
<1> QED
  BY <1>2, Invariance, PTL
-----------------------------------------------------------------------------
(* The refinement: the pool's steps are those of JobResults, or none. *)

LEMMA SameRequests ==
    /\ \A j : Promise!Of(j) = Of(j)
    /\ \A r : Promise!Before(r) = Earlier(r) /\ Promise!After(r) = Later(r)
BY DEF Promise!Of, Promise!Before, Promise!After, Of, Earlier, Later

LEMMA SameCardinality ==
    ASSUME NEW S
    PROVE  Promise!Cardinality(S) = Cardinality(S)
BY Zenon DEF Promise!Cardinality, Cardinality

LEMMA OpenExecute ==
    ASSUME IInv, NEW R \in SUBSET Request
    PROVE  Promise!Open(R) = Executing(R)
<1>1. ASSUME NEW r \in Request PROVE Shown[r] = "open" <=> req[r] = "executing"
  BY DEF Shown, IInv, TypeOK
<1> QED
  BY <1>1 DEF Promise!Open, Executing

LEMMA DoneShown ==
    ASSUME IInv, NEW r \in Request, req[r] = "done"
    PROVE  Shown[r] = out[r] /\ out[r] \in {"response", "error", "skipped"}
BY DEF IInv, TypeOK, SlotsFollow, Shown

LEMMA InitPromise == Init => Promise!Init
<1> SUFFICES ASSUME Init PROVE Promise!Init
  OBVIOUS
<1>1. Shown = [r \in Request |-> "none"]
  BY DEF Init, Shown
<1> QED
  BY <1>1 DEF Init, Promise!Init

(* There is room for one more request of the job. *)
LEMMA RoomInJob ==
    ASSUME IInv, NEW r \in Request, Acquire(r)
    PROVE  Cardinality(Executing(Of(r[1]))) < Limit[r[1]]
<1> DEFINE j == r[1]
<1>1. j \in Job /\ r \in Of(j) /\ req[r] = "admitted" /\ Of(j) \subseteq Request
  BY RequestFields DEF Acquire, Of
<1>2. CASE Sequential(j)
  <2>1. ASSUME NEW s \in Executing(Of(j)) PROVE FALSE
    <3>1. s \in Of(r[1]) /\ req[s] = "executing" /\ s \in Request /\ s[1] = j
      BY <2>1, <1>1 DEF Executing, Of
    <3>2. r \notin Earlier(s) /\ s \notin Earlier(r)
      BY <1>1, <1>2, <3>1 DEF IInv, OneByOne
    <3>3. s \in Later(r) => r \in Earlier(s)
      BY <1>1, <3>1, RequestLine
    <3> QED
      BY <1>1, <3>1, <3>2, <3>3, RequestLine
  <2>2. Executing(Of(j)) = {} /\ Limit[j] = 1
    BY <1>1, <1>2, <2>1 DEF Limit
  <2> QED
    BY <2>2, FS_EmptySet
<1>3. CASE ~Sequential(j)
  <2>1. /\ Executing(Of(j)) \in SUBSET Active(j)
        /\ r \in Active(j) /\ r \notin Executing(Of(j))
    BY <1>1 DEF Executing, Active, OnItsWay
  <2>2. /\ IsFiniteSet(Active(j)) /\ jobSem[j] = Cardinality(Active(j))
        /\ jobSem[j] <= MaxConcurrency[j] /\ Limit[j] = MaxConcurrency[j]
    BY <1>1, <1>3 DEF IInv, TokensCounted, Limit
  <2>3. /\ IsFiniteSet(Executing(Of(j)))
        /\ Cardinality(Executing(Of(j))) <= Cardinality(Active(j))
        /\ Cardinality(Executing(Of(j))) # Cardinality(Active(j))
    BY <2>1, <2>2, FS_Subset
  <2>4. Cardinality(Executing(Of(j))) \in Nat /\ Cardinality(Active(j)) \in Nat
    BY <2>2, <2>3, FS_CardinalityType
  <2> QED
    BY <1>1, <2>2, <2>3, <2>4, PoolAssumption
<1> QED
  BY <1>2, <1>3

LEMMA AcquireSends ==
    ASSUME IInv, NEW r \in Request, Acquire(r)
    PROVE  Promise!Send(r)
<1>1. /\ r[1] \in Job /\ req[r] = "admitted" /\ sem < PoolSize
      /\ req' = [req EXCEPT ![r] = "executing"] /\ UNCHANGED <<job, out>>
      /\ Of(r[1]) \subseteq Request
  BY RequestFields DEF Acquire, Of
<1>2. Shown[r] = "none" /\ job[r[1]] = "running"
  <2>1. Shown[r] = "none"
    BY <1>1 DEF IInv, SlotsFollow, Shown
  <2>2. job[r[1]] # "finished"
    BY <1>1, RequestFields DEF IInv, FinishedIsDone
  <2>3. job[r[1]] # "accepted"
    BY <1>1, RequestFields DEF IInv, AcceptedIsQueued
  <2> QED
    BY <1>1, <2>1, <2>2, <2>3 DEF IInv, TypeOK
<1>3. Promise!Cardinality(Promise!Open(Request)) < PoolSize
  BY <1>1, OpenExecute, SameCardinality DEF IInv, TokensCounted
<1>4. Promise!Cardinality(Promise!Open(Promise!Of(r[1]))) < Limit[r[1]]
  BY <1>1, OpenExecute, SameCardinality, RoomInJob, SameRequests
<1>5. ASSUME r[1] \in Ordered, NEW s \in Earlier(r)
      PROVE  Shown[s] \in {"response", "error"} /\ ~Promise!Ends(s)
  <2>1. Sequential(r[1])
    BY <1>5 DEF Ordered
  <2>2. /\ s \in Request /\ req[s] = "done" /\ ~Stops(s)
        /\ out[s] \in {"response", "error"}
    BY <2>1, <1>5, EarlierSettled
  <2>3. Shown[s] = out[s] /\ s[1] = r[1]
    BY <2>2, <1>5, DoneShown DEF Earlier, Of
  <2> QED
    BY <2>1, <2>2, <2>3 DEF Promise!Ends, Stopping, Stops
<1>6. Shown' = [Shown EXCEPT ![r] = "open"]
  BY <1>1 DEF Shown, IInv, TypeOK
<1> QED
  BY <1>1, <1>2, <1>3, <1>4, <1>5, <1>6, SameRequests DEF Promise!Send

LEMMA AnswerSettles ==
    ASSUME IInv, NEW r \in Request, Answer(r)
    PROVE  Promise!Settle(r)
<1>1. PICK how \in {"response", "error"} : out' = [out EXCEPT ![r] = how]
  BY DEF Answer
<1>2. req[r] = "executing" /\ req' = [req EXCEPT ![r] = "answered"] /\ UNCHANGED job
  BY DEF Answer
<1>3. Shown[r] = "open" /\ Shown' = [Shown EXCEPT ![r] = how]
  BY <1>1, <1>2 DEF Shown, IInv, TypeOK
<1> QED
  BY <1>2, <1>3 DEF Promise!Settle

LEMMA AdvanceSkips ==
    ASSUME IInv, NEW r \in Request, Advance(r)
    PROVE  Promise!SkipRest(r) \/ Shown' = Shown
<1>1. /\ Sequential(r[1]) /\ req[r] = "answered" /\ out[r] \in {"response", "error"}
      /\ r[1] \in Job /\ UNCHANGED job
  BY RequestFields DEF Advance, IInv, SlotsFollow
<1>2. /\ req' = [s \in Request |-> IF s \in {r} \cup Skipped(r) THEN "done" ELSE req[s]]
      /\ out' = [s \in Request |-> IF s \in Skipped(r) THEN "skipped" ELSE out[s]]
  BY DEF Advance
<1>3. CASE StopOnError[r[1]] /\ out[r] = "error"
  <2>1. Skipped(r) = Later(r)
    BY <1>3 DEF Skipped
  <2>2. ASSUME NEW s \in Later(r)
        PROVE  s \in Request /\ req[s] = "queued" /\ out[s] = "empty"
    <3>1. s \in Of(r[1]) /\ s \in Request /\ s[1] = r[1]
      BY EarlierLater, RequestLine
    <3>2. r \in Of(s[1])
      BY <3>1, RequestFields
    <3>3. r \in Earlier(s)
      BY <3>1, <3>2, RequestLine
    <3>4. req[s] = "queued"
      BY <1>1, <3>1, <3>3 DEF IInv, OneByOne
    <3> QED
      BY <3>1, <3>4 DEF IInv, SlotsFollow
  <2>3. r \notin Later(r)
    BY RequestFields, RequestLine
  <2>4. Promise!Ends(r) /\ \A s \in Later(r) : Shown[s] = "none"
    BY <1>1, <1>3, <2>2 DEF Promise!Ends, Shown, Stopping, Ordered
  <2>5. Shown' = [s \in Request |-> IF s \in Later(r) THEN "skipped" ELSE Shown[s]]
    BY <1>1, <1>2, <2>1, <2>2, <2>3 DEF Shown
  <2> QED
    BY <1>1, <2>4, <2>5, SameRequests DEF Promise!SkipRest
<1>4. CASE ~(StopOnError[r[1]] /\ out[r] = "error")
  <2>1. Skipped(r) = {}
    BY <1>4 DEF Skipped
  <2> QED
    BY <1>1, <1>2, <2>1 DEF Shown, IInv, TypeOK
<1> QED
  BY <1>3, <1>4

LEMMA StepPromise ==
    ASSUME IInv, [Next]_vars
    PROVE  [Promise!Next]_<<job, Shown>>
<1> USE DEF IInv, TypeOK
<1>1. ASSUME NEW j \in Job, Begin(j) PROVE Promise!Begin(j)
  BY <1>1 DEF Begin, Promise!Begin, Shown
<1>2. ASSUME NEW j \in Job, Finish(j) PROVE Promise!Finish(j)
  <2>1. \A r \in Of(j) : r \in Request /\ req[r] = "done"
    BY <1>2 DEF Finish, Of
  <2>2. \A r \in Of(j) : Shown[r] \in {"response", "error", "skipped"}
    BY <2>1, DoneShown
  <2>3. Shown' = Shown
    BY <1>2 DEF Finish, Shown
  <2> QED
    BY <1>2, <2>2, <2>3, SameRequests DEF Finish, Promise!Finish
<1>3. ASSUME NEW r \in Request, Turn(r) \/ Admit(r) \/ Leave(r)
      PROVE  UNCHANGED <<job, Shown>>
  <2>1. /\ UNCHANGED <<job, out>> /\ req[r] \in {"queued", "answered"}
        /\ \E s \in {"admitted", "done"} : req' = [req EXCEPT ![r] = s]
    BY <1>3 DEF Turn, Admit, Leave
  <2>2. \A q \in Request : req'[q] = "executing" <=> req[q] = "executing"
    BY <2>1
  <2> QED
    BY <2>1, <2>2 DEF Shown
<1>4. ASSUME NEW r \in Request, Acquire(r) PROVE Promise!Send(r)
  BY <1>4, AcquireSends
<1>5. ASSUME NEW r \in Request, Answer(r) PROVE Promise!Settle(r)
  BY <1>5, AnswerSettles
<1>6. ASSUME NEW r \in Request, Advance(r)
      PROVE  Promise!SkipRest(r) \/ UNCHANGED <<job, Shown>>
  BY <1>6, AdvanceSkips DEF Advance
<1>7. CASE UNCHANGED vars
  BY <1>7 DEF vars, Shown
<1>8. \A j \in Job : Of(j) \subseteq Request
  BY DEF Of
<1> QED
  BY <1>1, <1>2, <1>3, <1>4, <1>5, <1>6, <1>7, <1>8
     DEF Next, JobStep, JobAcquires, Promise!Next

(* RequestPool implements JobResults, for any jobs and any limits: the two *)
(* semaphores, the loop and the goroutines are right.                      *)
THEOREM Refinement == Spec => RefinesJobResults
<1>1. IInv /\ [Next]_vars => [Promise!Next]_<<job, Shown>>
  BY StepPromise
<1> QED
  BY <1>1, InitPromise, Invariance, PTL DEF Spec, RefinesJobResults, Promise!Spec
-----------------------------------------------------------------------------
(* The work left: the steps a request, or a job, still has before it. *)
RequestStage(s) ==
    CASE s = "queued" -> 0 [] s = "admitted" -> 1 [] s = "executing" -> 2
      [] s = "answered" -> 3 [] s = "done" -> 4
JobStage(s) == CASE s = "accepted" -> 4 [] s = "running" -> 5 [] s = "finished" -> 6

Ahead ==
    {m \in Request \X (1 .. 4) : m[2] > RequestStage(req[m[1]])}
        \cup {m \in Job \X (5 .. 6) : m[2] > JobStage(job[m[1]])}

LEMMA RequestAhead ==
    ASSUME NEW r \in Request, NEW k \in 1 .. 4
    PROVE  <<r, k>> \in Ahead <=> k > RequestStage(req[r])
BY DEF Ahead

LEMMA JobAhead ==
    ASSUME NEW j \in Job, NEW k \in 5 .. 6
    PROVE  <<j, k>> \in Ahead <=> k > JobStage(job[j])
BY DEF Ahead

(* Steps that take nothing back leave no more work than there was. *)
LEMMA AheadShrinks ==
    ASSUME \A r \in Request : RequestStage(req[r]) \in 0 .. 4
                             /\ RequestStage(req'[r]) \in RequestStage(req[r]) .. 4,
           \A j \in Job : JobStage(job[j]) \in 4 .. 6
                         /\ JobStage(job'[j]) \in JobStage(job[j]) .. 6
    PROVE  Ahead' \subseteq Ahead
BY DEF Ahead

(* One request moves on; a loop that stops takes the later ones along. *)
LEMMA RequestForward ==
    ASSUME IInv, NEW r \in Request,
           Turn(r) \/ Admit(r) \/ Acquire(r) \/ Answer(r) \/ Advance(r) \/ Leave(r)
    PROVE  Ahead' \subseteq Ahead /\ Ahead' # Ahead
<1> USE DEF IInv, TypeOK
<1>1. /\ UNCHANGED job /\ req' \in [Request -> {"queued", "admitted", "executing", "answered", "done"}]
      /\ RequestStage(req'[r]) = RequestStage(req[r]) + 1
      /\ \A s \in Request : s # r => req'[s] \in {req[s], "done"}
  <2>1. CASE Turn(r) \/ Admit(r)
    BY <2>1 DEF Turn, Admit, RequestStage
  <2>2. CASE Acquire(r) \/ Answer(r)
    BY <2>2 DEF Acquire, Answer, RequestStage
  <2>3. CASE Advance(r)
    BY <2>3 DEF Advance, RequestStage
  <2>4. CASE Leave(r)
    BY <2>4 DEF Leave, RequestStage
  <2> QED
    BY <2>1, <2>2, <2>3, <2>4
<1>2. \A s \in Request : /\ RequestStage(req[s]) \in 0 .. 4
                         /\ RequestStage(req'[s]) \in RequestStage(req[s]) .. 4
  BY <1>1 DEF RequestStage
<1>3. \A j \in Job : /\ JobStage(job[j]) \in 4 .. 6
                     /\ JobStage(job'[j]) \in JobStage(job[j]) .. 6
  BY <1>1 DEF JobStage
<1>4. Ahead' \subseteq Ahead
  BY <1>2, <1>3, AheadShrinks
<1>5. <<r, RequestStage(req[r]) + 1>> \in Ahead /\ <<r, RequestStage(req[r]) + 1>> \notin Ahead'
  BY <1>1, <1>2 DEF Ahead
<1> QED
  BY <1>4, <1>5

LEMMA JobForward ==
    ASSUME IInv, NEW j \in Job, Begin(j) \/ Finish(j)
    PROVE  Ahead' \subseteq Ahead /\ Ahead' # Ahead
<1> USE DEF IInv, TypeOK
<1>1. /\ UNCHANGED req /\ job' \in [Job -> {"accepted", "running", "finished"}]
      /\ JobStage(job'[j]) = JobStage(job[j]) + 1
      /\ \A k \in Job : k # j => job'[k] = job[k]
  BY DEF Begin, Finish, JobStage
<1>2. \A s \in Request : /\ RequestStage(req[s]) \in 0 .. 4
                         /\ RequestStage(req'[s]) \in RequestStage(req[s]) .. 4
  BY <1>1 DEF RequestStage
<1>3. \A k \in Job : /\ JobStage(job[k]) \in 4 .. 6
                     /\ JobStage(job'[k]) \in JobStage(job[k]) .. 6
  BY <1>1 DEF JobStage
<1>4. Ahead' \subseteq Ahead
  BY <1>2, <1>3, AheadShrinks
<1>5. <<j, JobStage(job[j]) + 1>> \in Ahead /\ <<j, JobStage(job[j]) + 1>> \notin Ahead'
  BY <1>1, <1>3 DEF Ahead
<1> QED
  BY <1>4, <1>5

LEMMA StepForward ==
    ASSUME IInv, Next
    PROVE  Ahead' \subseteq Ahead /\ Ahead' # Ahead
<1>1. \A j \in Job : Of(j) \subseteq Request
  BY DEF Of
<1> QED
  BY <1>1, RequestForward, JobForward DEF Next, JobStep, JobAcquires

LEMMA FiniteWork ==
    ASSUME IsFiniteSet(Job)
    PROVE  IsFiniteSet(Ahead)
<1> DEFINE Line(j) == {j} \X (1 .. Count[j])
           Lines == {Line(j) : j \in Job}
           f == [j \in Job |-> Line(j)]
<1>1. ASSUME NEW j \in Job PROVE IsFiniteSet(Line(j))
  <2>1. Count[j] \in Int /\ 1 \in Int
    BY PoolAssumption
  <2>2. IsFiniteSet({j})
    BY FS_Singleton, Zenon
  <2>3. IsFiniteSet(1 .. Count[j])
    BY <2>1, FS_Interval, Zenon
  <2> QED
    BY <2>2, <2>3, FS_Product
<1>2. IsFiniteSet(Lines)
  <2>1. f \in Surjection(Job, Lines)
    BY DEF Surjection
  <2> QED
    BY <2>1, FS_Surjection
<1>3. IsFiniteSet(Request)
  BY <1>1, <1>2, FS_UNION DEF Request
<1>4. IsFiniteSet(Request \X (1 .. 4)) /\ IsFiniteSet(Job \X (5 .. 6))
  <2>1. 1 \in Int /\ 4 \in Int /\ 5 \in Int /\ 6 \in Int
    OBVIOUS
  <2>2. IsFiniteSet(1 .. 4) /\ IsFiniteSet(5 .. 6)
    BY <2>1, FS_Interval, Zenon
  <2> QED
    BY <1>3, <2>2, FS_Product
<1>5. IsFiniteSet((Request \X (1 .. 4)) \cup (Job \X (5 .. 6)))
  BY <1>4, FS_Union
<1>6. Ahead \in SUBSET ((Request \X (1 .. 4)) \cup (Job \X (5 .. 6)))
  BY DEF Ahead
<1> QED
  BY <1>5, <1>6, FS_Subset

(* Every step of the pool is progress: of finitely many jobs there is less *)
(* work left after it, so that at most four steps per request and two per  *)
(* job are ever taken, whatever the scheduler does (execRequests).         *)
THEOREM WorkRunsOut ==
    ASSUME IsFiniteSet(Job)
    PROVE  Spec => [][Cardinality(Ahead') < Cardinality(Ahead)]_vars
<1>1. ASSUME IInv, Next PROVE Cardinality(Ahead') < Cardinality(Ahead)
  <2>1. IsFiniteSet(Ahead) /\ Ahead' \in SUBSET Ahead /\ Ahead' # Ahead
    BY <1>1, FiniteWork, StepForward
  <2>2. /\ IsFiniteSet(Ahead') /\ Cardinality(Ahead') <= Cardinality(Ahead)
        /\ Cardinality(Ahead') # Cardinality(Ahead)
    BY <2>1, FS_Subset
  <2>3. Cardinality(Ahead') \in Nat /\ Cardinality(Ahead) \in Nat
    BY <2>1, <2>2, FS_CardinalityType
  <2> QED
    BY <2>2, <2>3
<1>2. IInv /\ [Next]_vars => [Cardinality(Ahead') < Cardinality(Ahead)]_vars
  BY <1>1
<1> QED
  BY <1>2, Invariance, PTL DEF Spec

(* ... and where no job can go on all are finished, so the work that runs  *)
(* out is done and not stuck.                                              *)
QuietIsFinished ==
    (\A j \in Job : ~CanGoOn(j)) => \A j \in Job : job[j] = "finished"

THEOREM QuietWhenFinished == Spec => []QuietIsFinished
<1>1. ASSUME IInv, NoGridlock, \A j \in Job : ~CanGoOn(j),
             NEW j \in Job, job[j] # "finished"
      PROVE  FALSE
  <2>1. PICK r \in Request : req[r] = "executing"
    BY <1>1 DEF NoGridlock, Executing
  <2>2. r[1] \in Job /\ r \in Of(r[1])
    BY RequestFields
  <2>3. job[r[1]] = "running"
    BY <1>1, <2>1, <2>2 DEF IInv, TypeOK, FinishedIsDone, AcceptedIsQueued
  <2>4. CanGoOn(r[1])
    BY <2>1, <2>2, <2>3 DEF CanGoOn, Unblocked
  <2> QED
    BY <1>1, <2>2, <2>4
<1>2. IInv /\ NoGridlock => QuietIsFinished
  BY <1>1 DEF QuietIsFinished
<1> QED
  BY <1>2, Invariance, NeverGridlocked, PTL
=============================================================================
