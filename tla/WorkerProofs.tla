---------------------------- MODULE WorkerProofs ----------------------------
(***************************************************************************)
(* The worker's safety for every value of the constants: each envelope is  *)
(* executed at most once, the memory is exact while the worker is up, and  *)
(* Worker implements JobRuns.                                              *)
(*                                                                         *)
(* The argument is about time.  A job that was taken was taken no earlier  *)
(* than Skew before its seal; a call holding the same envelope holds it no *)
(* later than Skew + Lag after the seal; TTL is longer than the distance,  *)
(* so the store still holds the first record and suppresses the second.    *)
(***************************************************************************)
EXTENDS Worker, TLAPS

(* No entry is from the future, none but Absent is negative. *)
TimesOK ==
    \A j \in JobId : /\ seen[j] \in -1 .. now
                     /\ disk[j] \in -1 .. now
                     /\ lastAt[j] \in -1 .. now

(* The file is as exact as the memory, and outlives the process. *)
DiskIsExact ==
    \A j \in JobId : Live(disk, j) \/ Live(lastAt, j) => disk[j] = lastAt[j]

(* The store part of the invariant, inductive by itself. *)
StoreInv == TimesOK /\ MemoryIsExact /\ DiskIsExact

(* An opened envelope was fresh, at most Lag ago. *)
OpenedIsRecent ==
    \A c \in Caller : call[c].stage = "opened" =>
        LET m == call[c].env IN
        /\ call[c].at <= now /\ now <= call[c].at + Lag
        /\ call[c].at - SealedAt[m] <= Skew /\ SealedAt[m] - call[c].at <= Skew

(* A taken envelope's job has been recorded since the envelope could first *)
(* have been opened.                                                       *)
TakenIsOnRecord ==
    \A m \in Envelope : Taken(m) =>
        /\ lastAt[JobOf[m]] # Absent
        /\ SealedAt[m] - lastAt[JobOf[m]] <= Skew

(* An envelope is in one hand at a time: a call that recorded it, or the   *)
(* one goroutine that executes or reports it.                              *)
OneHand ==
    \A m \in Envelope :
        /\ execs[m] <= 1
        /\ execs[m] > 0 => Taken(m)
        /\ executing[m] + reporting[m] <= 1
        /\ InHand(m) => fate[m] = "none"
        /\ \A c \in Caller :
               call[c].stage = "recorded" /\ call[c].env = m =>
                   /\ execs[m] = 0 /\ executing[m] = 0 /\ reporting[m] = 0
                   /\ \A d \in Caller :
                          call[d].stage = "recorded" /\ call[d].env = m => c = d

IInv ==
    /\ TypeOK
    /\ StoreInv
    /\ OpenedIsRecent
    /\ TakenIsOnRecord
    /\ OneHand
-----------------------------------------------------------------------------
USE DEF storeVars, runVars

(* A goroutine that is not in a call has no stage of a call. *)
LEMMA NoCallStage ==
    \A s \in {"entered", "opened", "recorded"} : NoCall.stage # s
BY DEF NoCall

(* A map with one entry changed is a map. *)
LEMMA BookUpdated ==
    ASSUME NEW book \in Book, NEW j, NEW t \in Int
    PROVE  [book EXCEPT ![j] = t] \in Book
BY DEF Book

(* The store's operations keep its maps maps. *)
LEMMA StoreTyped ==
    ASSUME NEW j, seen \in Book, disk \in Book, now \in Nat,
           Suppress(j) \/ RecordFails(j) \/ Record(j) \/ Open
    PROVE  seen' \in Book /\ disk' \in Book
<1>1. ASSUME NEW book \in Book PROVE pruneLocked(book) \in Book
  BY <1>1, TTLAssumption DEF pruneLocked, Book, Absent
<1>2. now \in Int /\ Absent \in Int
  BY DEF Absent
<1> QED
  BY <1>1, <1>2, BookUpdated DEF Suppress, RecordFails, Record, Open

(* The process has left: nothing is in its memory or in its hand. *)
LEMMA ExitEmpties ==
    ASSUME NEW how \in {"crashed", "timedout", "drained"}, TypeOK, Exit(how)
    PROVE  /\ status' = "down" /\ call' = AllIdle
           /\ executing' = NoneRunning /\ reporting' = NoneRunning
           /\ seen' \in Book
           /\ replay' \in [Envelope -> Int]
           /\ fate' \in [Envelope -> Fates]
           /\ UNCHANGED <<now, execs, lastAt>>
BY DEF Exit, TypeOK, Nothing, Book, Absent, Fates

(* Type correctness of Worker. *)
THEOREM TypeCorrect == Spec => []TypeOK
<1>1. Init => TypeOK
  BY DEF Init, TypeOK, Nothing, Book, Absent, AllIdle, NoneRunning, Fates
<1>2. TypeOK /\ [Next]_vars => TypeOK'
  <2> SUFFICES ASSUME TypeOK, [Next]_vars PROVE TypeOK'
    OBVIOUS
  <2> USE DEF TypeOK
  <2>1. ASSUME NEW c \in Caller, NEW m \in Envelope, Enter(c, m)
        PROVE  TypeOK'
    BY <2>1 DEF Enter, Calls
  <2>2. ASSUME NEW c \in Caller, CallStep(c) PROVE TypeOK'
    <3> call[c].stage # NoCall.stage => status # "down"
      BY DEF AllIdle
    <3>1. CASE Reject(c)
      BY <3>1 DEF Reject, NoCall, AllIdle
    <3>2. CASE OpenJob(c)
      BY <3>2 DEF OpenJob, NoCall, AllIdle, Calls
    <3>3. CASE Duplicate(c)
      BY <3>3, StoreTyped DEF Duplicate, NoCall, AllIdle
    <3>4. CASE StoreError(c)
      BY <3>4, StoreTyped DEF StoreError, NoCall, AllIdle
    <3>5. CASE Recorded(c)
      <4>1. lastAt' \in Book
        BY <3>5, BookUpdated, now \in Int DEF Recorded
      <4>2. seen' \in Book /\ disk' \in Book
        BY <3>5, StoreTyped DEF Recorded
      <4>3. call' \in [Caller -> Calls \cup {NoCall}] /\ status' # "down"
        BY <3>5 DEF Recorded, NoCall, Calls
      <4> QED
        BY <3>5, <4>1, <4>2, <4>3 DEF Recorded
    <3>6. CASE Spawn(c)
      BY <3>6 DEF Spawn, NoCall, AllIdle, Calls
    <3> QED
      BY <2>2, <3>1, <3>2, <3>3, <3>4, <3>5, <3>6 DEF CallStep
  <2>3. ASSUME NEW m \in Envelope, JobStep(m) PROVE TypeOK'
    <3> executing[m] > 0 \/ reporting[m] > 0 => status # "down"
      BY DEF NoneRunning
    <3>1. CASE Execute(m)
      BY <3>1 DEF Execute
    <3>2. CASE ReportDone(m)
      BY <3>2 DEF ReportDone, Fates
    <3> QED
      BY <2>3, <3>1, <3>2 DEF JobStep
  <2>4. CASE BeginDrain
    BY <2>4 DEF BeginDrain
  <2>5. CASE DrainComplete \/ DrainTimeout \/ Crash
    <3> PICK how \in {"crashed", "timedout", "drained"} : Exit(how)
      BY <2>5 DEF DrainComplete, DrainTimeout, Crash
    <3> UNCHANGED disk
      BY <2>5 DEF DrainComplete, DrainTimeout, Crash
    <3> QED
      BY ExitEmpties DEF AllIdle, NoneRunning, Book
  <2>6. CASE Start
    BY <2>6, StoreTyped DEF Start
  <2>7. CASE Tick
    BY <2>7 DEF Tick
  <2>8. CASE UNCHANGED vars
    BY <2>8 DEF vars
  <2> QED
    BY <2>1, <2>2, <2>3, <2>4, <2>5, <2>6, <2>7, <2>8 DEF Next
<1> QED
  BY <1>1, <1>2, PTL DEF Spec
-----------------------------------------------------------------------------
(* What a step of the worker can do to the clock, the store and the        *)
(* history of acceptances.                                                 *)
StoreStep ==
    \/ /\ UNCHANGED <<now, seen, disk, lastAt>>
       /\ status' # "down" => status # "down"
    \/ /\ status # "down"
       /\ \E j \in JobId : RecordFails(j)
       /\ UNCHANGED <<now, lastAt>>
    \/ /\ status # "down"
       /\ \E j \in JobId : Record(j) /\ lastAt' = [lastAt EXCEPT ![j] = now]
       /\ UNCHANGED now
    \/ /\ status' = "down" /\ seen' = Nothing
       /\ UNCHANGED <<now, disk, lastAt>>
    \/ Open /\ UNCHANGED <<now, lastAt>>
    \/ now' = now + 1 /\ UNCHANGED <<seen, disk, lastAt, status>>

LEMMA StoreSteps ==
    ASSUME TypeOK, [Next]_vars
    PROVE  StoreStep
<1> USE DEF StoreStep
<1>1. ASSUME NEW c \in Caller, NEW m \in Envelope, Enter(c, m)
      PROVE  StoreStep
  BY <1>1 DEF Enter
<1>2. ASSUME NEW c \in Caller, CallStep(c) PROVE StoreStep
  <2>1. call[c].stage = "opened" =>
            status # "down" /\ JobOf[call[c].env] \in JobId
    BY EnvelopeAssumption DEF TypeOK, AllIdle, NoCall, Calls
  <2>2. CASE Reject(c) \/ OpenJob(c) \/ Duplicate(c) \/ Spawn(c)
    BY <2>2 DEF Reject, OpenJob, Duplicate, Suppress, Spawn
  <2>3. CASE StoreError(c)
    BY <2>1, <2>3 DEF StoreError
  <2>4. CASE Recorded(c)
    BY <2>1, <2>4 DEF Recorded
  <2> QED
    BY <1>2, <2>2, <2>3, <2>4 DEF CallStep
<1>3. ASSUME NEW m \in Envelope, JobStep(m) PROVE StoreStep
  BY <1>3 DEF JobStep, Execute, ReportDone
<1>4. CASE BeginDrain
  BY <1>4 DEF BeginDrain
<1>5. CASE DrainComplete \/ DrainTimeout \/ Crash
  BY <1>5 DEF DrainComplete, DrainTimeout, Crash, Exit
<1>6. CASE Start
  BY <1>6 DEF Start
<1>7. CASE Tick
  BY <1>7 DEF Tick
<1>8. CASE UNCHANGED vars
  BY <1>8 DEF vars
<1> QED
  BY <1>1, <1>2, <1>3, <1>4, <1>5, <1>6, <1>7, <1>8 DEF Next

(* The store part is preserved whatever the callers do. *)
LEMMA StoreInvStep ==
    ASSUME TypeOK, StoreInv, [Next]_vars
    PROVE  StoreInv'
<1> SUFFICES ASSUME NEW k \in JobId
    PROVE  /\ seen'[k] \in -1 .. now' /\ disk'[k] \in -1 .. now'
           /\ lastAt'[k] \in -1 .. now'
           /\ status' # "down" =>
                 (Live(seen, k)' \/ Live(lastAt, k)' => seen'[k] = lastAt'[k])
           /\ Live(disk, k)' \/ Live(lastAt, k)' => disk'[k] = lastAt'[k]
  BY DEF StoreInv, TimesOK, MemoryIsExact, DiskIsExact
<1>1. /\ seen[k] \in -1 .. now /\ disk[k] \in -1 .. now
      /\ lastAt[k] \in -1 .. now
      /\ status # "down" =>
             (Live(seen, k) \/ Live(lastAt, k) => seen[k] = lastAt[k])
      /\ Live(disk, k) \/ Live(lastAt, k) => disk[k] = lastAt[k]
  BY DEF StoreInv, TimesOK, MemoryIsExact, DiskIsExact
<1>2. /\ now \in Nat /\ TTL \in Nat \ {0}
      /\ seen \in Book /\ disk \in Book /\ lastAt \in Book
  BY TTLAssumption DEF TypeOK
<1>3. StoreStep
  BY StoreSteps
<1>4. CASE UNCHANGED <<now, seen, disk, lastAt>>
           /\ (status' # "down" => status # "down")
  BY <1>1, <1>4 DEF Live
<1>5. CASE /\ status # "down"
           /\ \E j \in JobId : RecordFails(j)
           /\ UNCHANGED <<now, lastAt>>
  BY <1>1, <1>2, <1>5 DEF RecordFails, Live, pruneLocked, Book, Absent
<1>6. CASE /\ status # "down"
           /\ \E j \in JobId : Record(j) /\ lastAt' = [lastAt EXCEPT ![j] = now]
           /\ UNCHANGED now
  BY <1>1, <1>2, <1>6 DEF Record, Live, pruneLocked, Book, Absent
<1>7. CASE /\ status' = "down" /\ seen' = Nothing
           /\ UNCHANGED <<now, disk, lastAt>>
  BY <1>1, <1>2, <1>7 DEF Nothing, Live, Absent
<1>8. CASE Open /\ UNCHANGED <<now, lastAt>>
  BY <1>1, <1>2, <1>8 DEF Open, Live, pruneLocked, Book, Absent
<1>9. CASE now' = now + 1 /\ UNCHANGED <<seen, disk, lastAt, status>>
  BY <1>1, <1>2, <1>9 DEF Live, Book, Absent
<1> QED
  BY <1>3, <1>4, <1>5, <1>6, <1>7, <1>8, <1>9 DEF StoreStep
-----------------------------------------------------------------------------
(* An opened envelope stays recent: only Tick lets it age, and its guard   *)
(* stops at Lag.                                                           *)
LEMMA OpenedStep ==
    ASSUME TypeOK, OpenedIsRecent, [Next]_vars
    PROVE  OpenedIsRecent'
<1> SUFFICES ASSUME NEW d \in Caller, call'[d].stage = "opened"
    PROVE  /\ call'[d].at <= now' /\ now' <= call'[d].at + Lag
           /\ call'[d].at - SealedAt[call'[d].env] <= Skew
           /\ SealedAt[call'[d].env] - call'[d].at <= Skew
  BY DEF OpenedIsRecent
<1>1. CASE UNCHANGED now /\ call'[d] = call[d]
  BY <1>1 DEF OpenedIsRecent
<1>2. ASSUME NEW c \in Caller, NEW m \in Envelope, Enter(c, m)
      PROVE  UNCHANGED now /\ call'[d] = call[d]
  BY <1>2 DEF Enter, TypeOK
<1>3. ASSUME NEW c \in Caller, CallStep(c), ~OpenJob(c)
      PROVE  UNCHANGED now /\ call'[d] = call[d]
  <2>1. CASE Reject(c) \/ Duplicate(c) \/ StoreError(c) \/ Spawn(c)
    BY <2>1 DEF Reject, Duplicate, StoreError, Spawn, TypeOK, NoCall
  <2>2. CASE Recorded(c)
    <3>1. call[c] \in Calls
      BY <2>2 DEF Recorded, TypeOK, NoCall
    <3> QED
      BY <2>2, <3>1 DEF Recorded, TypeOK, Calls
  <2> QED
    BY <1>3, <2>1, <2>2 DEF CallStep
<1>4. ASSUME NEW c \in Caller, OpenJob(c), c # d
      PROVE  UNCHANGED now /\ call'[d] = call[d]
  BY <1>4 DEF OpenJob, TypeOK
<1>5. CASE OpenJob(d)
  <2>1. /\ call'[d].at = now /\ now' = now /\ now \in Nat
        /\ call'[d].env = call[d].env
    BY <1>5 DEF OpenJob, TypeOK, NoCall, Calls
  <2>2. /\ now - SealedAt[call[d].env] <= Skew
        /\ SealedAt[call[d].env] - now <= Skew
    BY <1>5 DEF OpenJob, Fresh
  <2> QED
    BY <2>1, <2>2, TimingAssumption
<1>6. CASE \/ \E m \in Envelope : JobStep(m)
           \/ BeginDrain \/ Start \/ UNCHANGED vars
  BY <1>1, <1>6 DEF JobStep, Execute, ReportDone, BeginDrain, Start, vars
<1>7. CASE DrainComplete \/ DrainTimeout \/ Crash
  BY <1>7 DEF DrainComplete, DrainTimeout, Crash, Exit, AllIdle, NoCall
<1>8. CASE Tick
  <2>1. /\ now' = now + 1 /\ now \in Nat /\ call'[d] = call[d]
        /\ call[d].at \in Int /\ now < call[d].at + Lag
    BY <1>8 DEF Tick, TypeOK, Calls, NoCall
  <2> QED
    BY <2>1, TimingAssumption DEF OpenedIsRecent
<1> QED
  BY <1>1, <1>2, <1>3, <1>4, <1>5, <1>6, <1>7, <1>8 DEF Next, CallStep

(* No job changes hands. *)
SameHands ==
    /\ UNCHANGED <<executing, reporting, execs, fate, lastAt>>
    /\ \A d \in Caller :
          call[d].stage = "recorded" \/ call'[d].stage = "recorded"
              => call'[d] = call[d]

LEMMA SameHandsKeep ==
    ASSUME SameHands, TakenIsOnRecord, OneHand
    PROVE  TakenIsOnRecord' /\ OneHand'
<1>1. ASSUME NEW m \in Envelope PROVE InHand(m)' <=> InHand(m)
  BY DEF SameHands, InHand
<1>2. ASSUME NEW m \in Envelope PROVE Taken(m)' <=> Taken(m)
  BY <1>1, <1>2 DEF SameHands, Taken
<1>3. TakenIsOnRecord'
  BY <1>2 DEF TakenIsOnRecord, SameHands
<1>4. OneHand'
  BY <1>1, <1>2 DEF OneHand, SameHands
<1> QED
  BY <1>3, <1>4

(* The steps that hand nothing over. *)
LEMMA SameHandsSteps ==
    ASSUME TypeOK,
           \/ \E c \in Caller, m \in Envelope : Enter(c, m)
           \/ \E c \in Caller : \/ Reject(c) \/ OpenJob(c)
                               \/ Duplicate(c) \/ StoreError(c)
           \/ BeginDrain \/ Start \/ Tick \/ UNCHANGED vars
    PROVE  SameHands
<1>1. ASSUME NEW c \in Caller, NEW m \in Envelope, Enter(c, m)
      PROVE  SameHands
  BY <1>1 DEF Enter, Idle, SameHands, TypeOK, NoCall
<1>2. ASSUME NEW c \in Caller, Reject(c) \/ OpenJob(c) PROVE SameHands
  BY <1>2 DEF Reject, OpenJob, SameHands, TypeOK, NoCall, Calls
<1>3. ASSUME NEW c \in Caller, Duplicate(c) \/ StoreError(c) PROVE SameHands
  BY <1>3 DEF Duplicate, StoreError, SameHands, TypeOK, NoCall
<1>4. CASE BeginDrain \/ Start \/ Tick \/ UNCHANGED vars
  BY <1>4 DEF BeginDrain, Start, Tick, vars, SameHands
<1> QED
  BY <1>1, <1>2, <1>3, <1>4
-----------------------------------------------------------------------------
(* The heart of the argument: an envelope about to be recorded was never   *)
(* taken before, for the record would still be live.                       *)
LEMMA RecordedIsNew ==
    ASSUME TypeOK, StoreInv, OpenedIsRecent, TakenIsOnRecord,
           NEW c \in Caller, Recorded(c)
    PROVE  /\ call[c] \in Calls /\ call[c].env \in Envelope
           /\ JobOf[call[c].env] \in JobId
           /\ ~Taken(call[c].env)
           /\ SealedAt[call[c].env] - now <= Skew
           /\ ~Live(lastAt, JobOf[call[c].env])
<1> DEFINE m == call[c].env
           j == JobOf[m]
<1>1. call[c] \in Calls /\ call[c].stage = "opened" /\ status # "down"
  BY DEF Recorded, TypeOK, NoCall, AllIdle
<1>2. m \in Envelope /\ j \in JobId /\ SealedAt[m] \in Int
  BY <1>1, EnvelopeAssumption DEF Calls
<1>3. /\ call[c].at \in Int /\ now \in Int /\ now <= call[c].at + Lag
      /\ call[c].at <= now
      /\ call[c].at - SealedAt[m] <= Skew /\ SealedAt[m] - call[c].at <= Skew
  BY <1>1 DEF OpenedIsRecent, Calls, TypeOK
<1>4. SealedAt[m] - now <= Skew /\ now - SealedAt[m] <= Skew + Lag
  BY <1>2, <1>3, TimingAssumption
<1>5. ~Live(lastAt, j)
  BY <1>1, <1>2 DEF Recorded, Record, StoreInv, MemoryIsExact, Live
<1>6. ASSUME Taken(m) PROVE FALSE
  <2>1. lastAt[j] # Absent /\ SealedAt[m] - lastAt[j] <= Skew
    BY <1>2, <1>6 DEF TakenIsOnRecord
  <2>2. now - lastAt[j] < TTL
    BY <1>2, <1>3, <1>4, <2>1, TimingAssumption, WindowAssumption, TTLAssumption
    DEF TypeOK, Book
  <2> QED
    BY <1>5, <2>1, <2>2 DEF Live
<1> QED
  BY <1>1, <1>2, <1>4, <1>5, <1>6

(* One hand at a time, step by step. *)
LEMMA HandsStep ==
    ASSUME TypeOK, StoreInv, OpenedIsRecent, TakenIsOnRecord, OneHand, [Next]_vars
    PROVE  TakenIsOnRecord' /\ OneHand'
<1>1. CASE \/ \E c \in Caller, m \in Envelope : Enter(c, m)
           \/ \E c \in Caller : \/ Reject(c) \/ OpenJob(c)
                               \/ Duplicate(c) \/ StoreError(c)
           \/ BeginDrain \/ Start \/ Tick \/ UNCHANGED vars
  BY <1>1, SameHandsSteps, SameHandsKeep
<1>2. ASSUME NEW c \in Caller, Recorded(c) PROVE TakenIsOnRecord' /\ OneHand'
  <2> DEFINE m == call[c].env
  <2>1. /\ call[c] \in Calls /\ m \in Envelope /\ JobOf[m] \in JobId
        /\ ~Taken(m) /\ SealedAt[m] - now <= Skew
    BY <1>2, RecordedIsNew
  <2>2. /\ call'[c].stage = "recorded" /\ call'[c].env = m
        /\ call[c].stage = "opened"
        /\ \A d \in Caller : d # c => call'[d] = call[d]
    BY <1>2, <2>1 DEF Recorded, TypeOK, Calls
  <2>3. UNCHANGED <<now, executing, reporting, execs, fate>>
    BY <1>2 DEF Recorded
  <2>4. /\ lastAt'[JobOf[m]] = now
        /\ \A j \in JobId : j # JobOf[m] => lastAt'[j] = lastAt[j]
    BY <1>2, <2>1 DEF Recorded, TypeOK, Book
  <2>5. ASSUME NEW n \in Envelope
        PROVE  /\ InHand(n)' <=> InHand(n) \/ n = m
               /\ Taken(n)' <=> Taken(n) \/ n = m
    BY <2>2, <2>3 DEF InHand, Taken
  <2>6. TakenIsOnRecord'
    <3> SUFFICES ASSUME NEW n \in Envelope, Taken(n)'
        PROVE  /\ lastAt'[JobOf[n]] # Absent
               /\ SealedAt[n] - lastAt'[JobOf[n]] <= Skew
      BY DEF TakenIsOnRecord
    <3>1. CASE n = m
      BY <2>1, <2>4, <3>1 DEF TypeOK, Absent
    <3>2. CASE n # m /\ JobOf[n] # JobOf[m]
      BY <2>4, <2>5, <3>2, EnvelopeAssumption DEF TakenIsOnRecord
    <3>3. CASE n # m /\ JobOf[n] = JobOf[m]
      <4>1. /\ SealedAt[n] - lastAt[JobOf[m]] <= Skew /\ SealedAt[n] \in Int
            /\ lastAt[JobOf[m]] \in -1 .. now
        BY <2>1, <2>5, <3>3, EnvelopeAssumption DEF TakenIsOnRecord, StoreInv, TimesOK
      <4> QED
        BY <2>4, <3>3, <4>1, TimingAssumption DEF TypeOK, Absent
    <3> QED
      BY <3>1, <3>2, <3>3
  <2>7. OneHand'
    <3>1. execs[m] = 0 /\ executing[m] = 0 /\ reporting[m] = 0 /\ fate[m] = "none"
      <4>1. execs[m] \in Nat /\ executing[m] \in Nat /\ reporting[m] \in Nat
        BY <2>1 DEF TypeOK
      <4>2. ~(execs[m] > 0) /\ ~(executing[m] > 0) /\ ~(reporting[m] > 0)
        BY <2>1 DEF OneHand, Taken, InHand
      <4> QED
        BY <2>1, <4>1, <4>2 DEF Taken
    <3>2. \A d \in Caller : call[d].stage = "recorded" => call[d].env # m
      BY <2>1 DEF Taken, InHand
    <3>3. ASSUME NEW n \in Envelope, NEW d \in Caller,
                 call'[d].stage = "recorded", call'[d].env = n
          PROVE  /\ execs[n] = 0 /\ executing[n] = 0 /\ reporting[n] = 0
                 /\ \A e \in Caller :
                        call'[e].stage = "recorded" /\ call'[e].env = n => d = e
      BY <2>2, <3>1, <3>2, <3>3 DEF OneHand
    <3>4. ASSUME NEW n \in Envelope
          PROVE  /\ execs[n] <= 1 /\ executing[n] + reporting[n] <= 1
                 /\ execs[n] > 0 => Taken(n)'
                 /\ InHand(n)' => fate[n] = "none"
      BY <2>5, <3>1 DEF OneHand
    <3> QED
      BY <2>3, <3>3, <3>4 DEF OneHand
  <2> QED
    BY <2>6, <2>7
<1>3. ASSUME NEW c \in Caller, Spawn(c) PROVE TakenIsOnRecord' /\ OneHand'
  <2> DEFINE m == call[c].env
  <2>1. call[c] \in Calls /\ m \in Envelope /\ call[c].stage = "recorded"
    BY <1>3 DEF Spawn, TypeOK, Calls, NoCall
  <2>2. call'[c].stage = "idle" /\ \A d \in Caller : d # c => call'[d] = call[d]
    BY <1>3 DEF Spawn, TypeOK, NoCall
  <2>3. /\ executing[m] = 0 /\ reporting[m] = 0 /\ execs[m] = 0
        /\ executing'[m] = 1 /\ execs'[m] = 1
        /\ \A n \in Envelope : n # m => /\ executing'[n] = executing[n]
                                        /\ execs'[n] = execs[n]
        /\ UNCHANGED <<reporting, fate, lastAt>>
    BY <1>3, <2>1 DEF Spawn, TypeOK, OneHand
  <2>4. ASSUME NEW n \in Envelope
        PROVE  (InHand(n)' <=> InHand(n)) /\ (Taken(n)' <=> Taken(n))
    BY <2>1, <2>2, <2>3 DEF InHand, Taken
  <2>5. TakenIsOnRecord'
    BY <2>3, <2>4 DEF TakenIsOnRecord
  <2>6. OneHand'
    BY <2>1, <2>2, <2>3, <2>4 DEF OneHand, Taken, InHand
  <2> QED
    BY <2>5, <2>6
<1>4. ASSUME NEW m \in Envelope, Execute(m) PROVE TakenIsOnRecord' /\ OneHand'
  <2>1. /\ executing[m] = 1 /\ reporting[m] = 0
        /\ executing'[m] = 0 /\ reporting'[m] = 1
        /\ \A n \in Envelope : n # m => /\ executing'[n] = executing[n]
                                        /\ reporting'[n] = reporting[n]
        /\ UNCHANGED <<call, execs, fate, lastAt>>
    <3>1. /\ executing[m] \in Nat /\ reporting[m] \in Nat /\ executing[m] > 0
          /\ executing[m] + reporting[m] <= 1
      BY <1>4 DEF Execute, TypeOK, OneHand
    <3>2. executing[m] = 1 /\ reporting[m] = 0
      BY <3>1
    <3> QED
      BY <1>4, <3>2 DEF Execute, TypeOK
  <2>2. ASSUME NEW n \in Envelope
        PROVE  (InHand(n)' <=> InHand(n)) /\ (Taken(n)' <=> Taken(n))
    BY <2>1 DEF InHand, Taken
  <2>3. TakenIsOnRecord'
    BY <2>1, <2>2 DEF TakenIsOnRecord
  <2>4. OneHand'
    BY <2>1, <2>2 DEF OneHand
  <2> QED
    BY <2>3, <2>4
<1>5. ASSUME NEW m \in Envelope, ReportDone(m) PROVE TakenIsOnRecord' /\ OneHand'
  <2>1. /\ executing[m] = 0 /\ reporting[m] = 1 /\ reporting'[m] = 0
        /\ fate[m] = "none" /\ fate'[m] # "none"
        /\ \A n \in Envelope : n # m => /\ reporting'[n] = reporting[n]
                                        /\ fate'[n] = fate[n]
        /\ UNCHANGED <<call, executing, execs, lastAt>>
    <3>1. /\ executing[m] \in Nat /\ reporting[m] \in Nat /\ reporting[m] > 0
          /\ executing[m] + reporting[m] <= 1 /\ fate[m] = "none"
      BY <1>5 DEF ReportDone, TypeOK, OneHand, InHand
    <3>2. executing[m] = 0 /\ reporting[m] = 1
      BY <3>1
    <3> QED
      BY <1>5, <3>1, <3>2 DEF ReportDone, TypeOK
  <2>2. ASSUME NEW n \in Envelope
        PROVE  /\ InHand(n)' <=> InHand(n) /\ n # m
               /\ Taken(n)' <=> Taken(n)
    BY <2>1 DEF InHand, Taken, OneHand
  <2>3. TakenIsOnRecord'
    BY <2>1, <2>2 DEF TakenIsOnRecord
  <2>4. OneHand'
    BY <2>1, <2>2 DEF OneHand
  <2> QED
    BY <2>3, <2>4
<1>6. CASE DrainComplete \/ DrainTimeout \/ Crash
  <2>1. PICK how \in {"crashed", "timedout", "drained"} : Exit(how)
    BY <1>6 DEF DrainComplete, DrainTimeout, Crash
  <2>2. /\ \A c \in Caller : call'[c].stage = "idle"
        /\ \A n \in Envelope : /\ executing'[n] = 0 /\ reporting'[n] = 0
                               /\ fate'[n] = IF InHand(n) THEN how ELSE fate[n]
        /\ UNCHANGED <<execs, lastAt>>
    BY <2>1 DEF Exit, AllIdle, NoneRunning, NoCall
  <2>3. ASSUME NEW n \in Envelope
        PROVE  ~InHand(n)' /\ (Taken(n)' <=> Taken(n))
    BY <2>2 DEF InHand, Taken
  <2>4. TakenIsOnRecord'
    BY <2>2, <2>3 DEF TakenIsOnRecord
  <2>5. OneHand'
    BY <2>2, <2>3 DEF OneHand
  <2> QED
    BY <2>4, <2>5
<1> QED
  BY <1>1, <1>2, <1>3, <1>4, <1>5, <1>6 DEF Next, CallStep, JobStep
-----------------------------------------------------------------------------
LEMMA InitInv == Init => IInv
<1> SUFFICES ASSUME Init PROVE IInv
  OBVIOUS
<1>1. TypeOK
  BY DEF Init, TypeOK, Nothing, Book, Absent, AllIdle, NoneRunning, Fates
<1>2. StoreInv
  BY DEF Init, StoreInv, TimesOK, MemoryIsExact, DiskIsExact, Live, Nothing, Absent
<1>3. \A m \in Envelope : ~InHand(m) /\ ~Taken(m)
  BY DEF Init, InHand, Taken, AllIdle, NoCall, NoneRunning
<1>4. OpenedIsRecent /\ TakenIsOnRecord
  BY <1>3 DEF Init, OpenedIsRecent, TakenIsOnRecord, AllIdle, NoCall
<1>5. OneHand
  BY <1>3 DEF Init, OneHand, AllIdle, NoCall, NoneRunning
<1> QED
  BY <1>1, <1>2, <1>4, <1>5 DEF IInv

(* The inductive invariant holds of every execution of the worker. *)
THEOREM Invariance == Spec => []IInv
<1>1. IInv /\ TypeOK' /\ [Next]_vars => IInv'
  BY StoreInvStep, OpenedStep, HandsStep DEF IInv
<1> QED
  BY InitInv, TypeCorrect, <1>1, PTL DEF Spec

(* No redelivery, restart or store error makes an envelope execute twice. *)
THEOREM ExecutedAtMostOnce == Spec => []AtMostOnce
<1>1. IInv => AtMostOnce
  BY DEF IInv, OneHand, AtMostOnce
<1> QED
  BY Invariance, <1>1, PTL

(* While it is up the worker remembers exactly the jobs accepted within the *)
(* retention time.                                                         *)
THEOREM MemoryExact == Spec => []MemoryIsExact
<1>1. IInv => MemoryIsExact
  BY DEF IInv, StoreInv
<1> QED
  BY Invariance, <1>1, PTL

-----------------------------------------------------------------------------
(* The outcome of an envelope in JobRuns, case by case. *)
LEMMA OutcomeCases ==
    ASSUME TypeOK, NEW m \in Envelope
    PROVE  /\ fate[m] \in {"answered", "unanswered"} => OutcomeOf(m) = fate[m]
           /\ fate[m] \in {"crashed", "timedout", "drained"} => OutcomeOf(m) = "lost"
           /\ fate[m] = "none" /\ InHand(m) => OutcomeOf(m) = "running"
           /\ fate[m] = "none" /\ ~InHand(m) => OutcomeOf(m) = "pending"
           /\ fate[m] \in Fates
BY DEF TypeOK, OutcomeOf, Fates

(* A step that moves no job between hands and leaves the clock alone is a  *)
(* stutter of JobRuns.                                                     *)
LEMMA SameOutcomes ==
    ASSUME UNCHANGED fate, \A m \in Envelope : InHand(m)' <=> InHand(m)
    PROVE  [m \in Envelope |-> OutcomeOf(m)]' = [m \in Envelope |-> OutcomeOf(m)]
BY DEF OutcomeOf

LEMMA StepRefines ==
    ASSUME IInv, TypeOK', [Next]_vars
    PROVE  [Contract!Next]_<<now, lastAt, [m \in Envelope |-> OutcomeOf(m)]>>
<1> DEFINE outcome == [m \in Envelope |-> OutcomeOf(m)]
<1> USE DEF IInv
<1>1. CASE SameHands
  <2>1. outcome' = outcome
    BY <1>1, SameOutcomes DEF SameHands, InHand
  <2>2. UNCHANGED now \/ now' = now + 1
    BY StoreSteps DEF StoreStep, RecordFails, Open
  <2> QED
    BY <1>1, <2>1, <2>2 DEF SameHands, Contract!Next, Contract!Tick
<1>2. ASSUME NEW c \in Caller, Recorded(c) PROVE Contract!Next
  <2> DEFINE m == call[c].env
  <2>1. /\ call[c] \in Calls /\ m \in Envelope /\ JobOf[m] \in JobId
        /\ ~Taken(m) /\ ~Live(lastAt, JobOf[m])
    BY <1>2, RecordedIsNew
  <2>2. /\ call'[c].stage = "recorded" /\ call'[c].env = m
        /\ call[c].stage = "opened"
        /\ \A d \in Caller : d # c => call'[d] = call[d]
        /\ UNCHANGED <<now, executing, reporting, execs, fate>>
        /\ lastAt' = [lastAt EXCEPT ![JobOf[m]] = now]
    BY <1>2, <2>1 DEF Recorded, TypeOK, Calls
  <2>3. \A n \in Envelope : InHand(n)' <=> InHand(n) \/ n = m
    BY <2>2 DEF InHand
  <2>4. outcome[m] = "pending" /\ outcome'[m] = "running"
    BY <2>1, <2>2, <2>3, OutcomeCases DEF Taken, OutcomeOf
  <2>5. \A n \in Envelope : n # m => outcome'[n] = outcome[n]
    BY <2>2, <2>3 DEF OutcomeOf
  <2>6. outcome' = [outcome EXCEPT ![m] = "running"]
    BY <2>1, <2>4, <2>5
  <2>7. lastAt[JobOf[m]] = -1 \/ now - lastAt[JobOf[m]] >= TTL
    BY <2>1, TTLAssumption DEF Live, Absent, TypeOK, Book
  <2>8. Contract!Begin(m)
    BY <2>2, <2>4, <2>6, <2>7 DEF Contract!Begin
  <2> QED
    BY <2>1, <2>8 DEF Contract!Next
<1>3. ASSUME NEW c \in Caller, Spawn(c) PROVE UNCHANGED <<now, lastAt, outcome>>
  <2>1. /\ call[c] \in Calls /\ call[c].env \in Envelope
        /\ call[c].stage = "recorded" /\ call'[c].stage = "idle"
        /\ \A d \in Caller : d # c => call'[d] = call[d]
    BY <1>3 DEF Spawn, TypeOK, Calls, NoCall
  <2>2. /\ executing'[call[c].env] > 0
        /\ \A n \in Envelope : n # call[c].env => executing'[n] = executing[n]
        /\ UNCHANGED <<now, reporting, fate, lastAt>>
    BY <1>3, <2>1 DEF Spawn, TypeOK
  <2>3. \A n \in Envelope : InHand(n)' <=> InHand(n)
    BY <2>1, <2>2 DEF InHand
  <2> QED
    BY <2>2, <2>3, SameOutcomes
<1>4. ASSUME NEW m \in Envelope, Execute(m) PROVE UNCHANGED <<now, lastAt, outcome>>
  <2>1. /\ executing[m] > 0 /\ reporting'[m] > 0
        /\ \A n \in Envelope : n # m => /\ executing'[n] = executing[n]
                                        /\ reporting'[n] = reporting[n]
        /\ UNCHANGED <<now, call, fate, lastAt>>
    BY <1>4 DEF Execute, TypeOK
  <2>2. \A n \in Envelope : InHand(n)' <=> InHand(n)
    BY <2>1 DEF InHand
  <2> QED
    BY <2>1, <2>2, SameOutcomes
<1>5. ASSUME NEW m \in Envelope, ReportDone(m) PROVE Contract!Next
  <2>1. /\ InHand(m) /\ fate[m] = "none"
        /\ UNCHANGED <<now, call, executing, lastAt>>
        /\ \A n \in Envelope : n # m => /\ reporting'[n] = reporting[n]
                                        /\ fate'[n] = fate[n]
    BY <1>5 DEF ReportDone, TypeOK, OneHand, InHand
  <2>2. PICK how \in {"answered", "unanswered"} : fate'[m] = how
    BY <1>5 DEF ReportDone, TypeOK
  <2>3. outcome[m] = "running" /\ outcome'[m] = how
    BY <2>1, <2>2, OutcomeCases DEF OutcomeOf
  <2>4. \A n \in Envelope : n # m => outcome'[n] = outcome[n]
    <3>1. \A n \in Envelope : n # m => (InHand(n)' <=> InHand(n))
      BY <2>1 DEF InHand
    <3> QED
      BY <2>1, <3>1, OutcomeCases DEF OutcomeOf, Fates
  <2>5. outcome' = [outcome EXCEPT ![m] = how]
    BY <2>3, <2>4
  <2>6. Contract!End(m)
    BY <2>1, <2>3, <2>5 DEF Contract!End
  <2> QED
    BY <2>6 DEF Contract!Next
<1>6. CASE DrainComplete \/ DrainTimeout \/ Crash
  <2>1. PICK how \in {"crashed", "timedout", "drained"} : Exit(how)
    BY <1>6 DEF DrainComplete, DrainTimeout, Crash
  <2>2. /\ \A n \in Envelope : /\ ~InHand(n)'
                               /\ fate'[n] = IF InHand(n) THEN how ELSE fate[n]
        /\ UNCHANGED <<now, lastAt>>
    BY <2>1 DEF Exit, AllIdle, NoneRunning, NoCall, InHand
  <2>3. ASSUME NEW n \in Envelope
        PROVE  outcome'[n] = IF outcome[n] = "running" THEN "lost" ELSE outcome[n]
    <3>1. CASE InHand(n)
      <4>1. outcome[n] = "running"
        BY <3>1, OutcomeCases DEF OneHand
      <4>2. fate'[n] \in {"crashed", "timedout", "drained"}
        BY <2>2, <3>1
      <4> QED
        BY <4>1, <4>2 DEF OutcomeOf
    <3>2. CASE ~InHand(n)
      <4>1. OutcomeOf(n)' = OutcomeOf(n)
        BY <2>2, <3>2 DEF OutcomeOf
      <4>2. OutcomeOf(n) # "running"
        BY <3>2, OutcomeCases DEF Fates
      <4> QED
        BY <4>1, <4>2
    <3> QED
      BY <3>1, <3>2
  <2>4. Contract!LoseAll
    BY <2>2, <2>3 DEF Contract!LoseAll
  <2> QED
    BY <2>4 DEF Contract!Next
<1> QED
  BY <1>1, <1>2, <1>3, <1>4, <1>5, <1>6, SameHandsSteps
  DEF Next, CallStep, JobStep

(* Worker implements JobRuns: with all its crashes and redeliveries it is  *)
(* a machine that runs each envelope at most once, keeps the runs of a job *)
(* id TTL seconds apart and never revises an outcome.                      *)
THEOREM Refinement == Spec => RefinesJobRuns
<1>1. Init => Contract!Init
  <2> SUFFICES ASSUME Init PROVE Contract!Init
    OBVIOUS
  <2>1. TypeOK
    BY InitInv DEF IInv
  <2>2. \A m \in Envelope : ~InHand(m) /\ fate[m] = "none"
    BY DEF Init, InHand, AllIdle, NoCall, NoneRunning
  <2>3. \A m \in Envelope : OutcomeOf(m) = "pending"
    BY <2>1, <2>2, OutcomeCases
  <2> QED
    BY <2>3 DEF Init, Contract!Init, Nothing, Absent
<1> QED
  BY <1>1, StepRefines, Invariance, TypeCorrect, PTL
  DEF Spec, RefinesJobRuns, Contract!Spec
-----------------------------------------------------------------------------
(* What the refinement says of the store's records: each was made by the   *)
(* run of an envelope, and a run, once begun, is never taken back.         *)
RecordHasRun ==
    \A j \in JobId : lastAt[j] # Absent =>
        \E m \in Envelope : JobOf[m] = j /\ OutcomeOf(m) # "pending"

LEMMA TakenIsBegun ==
    ASSUME IInv, NEW m \in Envelope
    PROVE  Taken(m) <=> OutcomeOf(m) # "pending"
BY OutcomeCases DEF IInv, Taken, Fates

LEMMA RecordHasRunStep ==
    ASSUME RecordHasRun, TypeOK,
           [Contract!Next]_<<now, lastAt, [m \in Envelope |-> OutcomeOf(m)]>>
    PROVE  RecordHasRun'
<1> DEFINE outcome == [m \in Envelope |-> OutcomeOf(m)]
<1>1. ASSUME NEW m \in Envelope, Contract!Begin(m) PROVE RecordHasRun'
  <2>1. /\ outcome' = [outcome EXCEPT ![m] = "running"]
        /\ lastAt' = [lastAt EXCEPT ![JobOf[m]] = now]
    BY <1>1 DEF Contract!Begin
  <2>2. /\ OutcomeOf(m)' = "running"
        /\ \A n \in Envelope : n # m => OutcomeOf(n)' = OutcomeOf(n)
    <3>1. \A n \in Envelope : outcome'[n] = OutcomeOf(n)' /\ outcome[n] = OutcomeOf(n)
      OBVIOUS
    <3> QED
      BY <2>1, <3>1
  <2>3. \A j \in JobId : j # JobOf[m] => lastAt'[j] = lastAt[j]
    BY <2>1 DEF TypeOK, Book
  <2> QED
    BY <2>2, <2>3, EnvelopeAssumption DEF RecordHasRun
<1>2. ASSUME UNCHANGED lastAt,
             \A m \in Envelope : OutcomeOf(m) # "pending" => OutcomeOf(m)' # "pending"
      PROVE  RecordHasRun'
  BY <1>2 DEF RecordHasRun
<1>3. \A n \in Envelope : outcome'[n] = OutcomeOf(n)' /\ outcome[n] = OutcomeOf(n)
  OBVIOUS
<1>4. ASSUME NEW m \in Envelope, Contract!End(m) PROVE RecordHasRun'
  <2>1. PICK how \in {"answered", "unanswered"} : outcome' = [outcome EXCEPT ![m] = how]
    BY <1>4 DEF Contract!End
  <2>2. \A n \in Envelope : outcome'[n] = IF n = m THEN how ELSE outcome[n]
    BY <2>1
  <2> QED
    BY <1>2, <1>3, <1>4, <2>2 DEF Contract!End
<1>5. CASE Contract!LoseAll
  <2>1. \A n \in Envelope :
            outcome'[n] = IF outcome[n] = "running" THEN "lost" ELSE outcome[n]
    BY <1>5 DEF Contract!LoseAll
  <2> QED
    BY <1>2, <1>3, <1>5, <2>1 DEF Contract!LoseAll
<1>6. CASE Contract!Tick \/ UNCHANGED <<now, lastAt, outcome>>
  <2>1. outcome' = outcome /\ UNCHANGED lastAt
    BY <1>6 DEF Contract!Tick
  <2> QED
    BY <1>2, <1>3, <2>1
<1> QED
  BY <1>1, <1>4, <1>5, <1>6 DEF Contract!Next

(* The part of at-least-once delivery that the code does keep (see         *)
(* SuppressedOnlyWhenServed for the other): nothing but a run of the job   *)
(* id within the retention time suppresses a delivery of it, not a store   *)
(* error, a failed flush, a restart or a pruned entry (onJob).             *)
THEOREM NothingElseSuppresses == Spec => SuppressedOnlyAfterRun
<1>1. Init => RecordHasRun
  BY DEF Init, RecordHasRun, Nothing, Absent
<1>2. IInv /\ TypeOK' /\ RecordHasRun /\ [Next]_vars => RecordHasRun'
  BY StepRefines, RecordHasRunStep DEF IInv
<1>3. ASSUME IInv, RecordHasRun, NEW c \in Caller, Duplicate(c)
      PROVE  /\ now - lastAt[JobOf[call[c].env]] < TTL
             /\ \E m \in Envelope : JobOf[m] = JobOf[call[c].env] /\ Taken(m)
  <2> DEFINE j == JobOf[call[c].env]
  <2>1. call[c] \in Calls /\ status # "down" /\ Live(seen, j)
    BY <1>3 DEF Duplicate, Suppress, IInv, TypeOK, NoCall, AllIdle
  <2>2. j \in JobId
    BY <2>1, EnvelopeAssumption DEF Calls
  <2>3. seen[j] = lastAt[j] /\ seen[j] # Absent /\ now - seen[j] < TTL
    BY <1>3, <2>1, <2>2 DEF IInv, StoreInv, MemoryIsExact, Live
  <2> QED
    BY <1>3, <2>2, <2>3, TakenIsBegun DEF RecordHasRun
<1>4. IInv /\ RecordHasRun /\ [Next]_vars =>
          [\A c \in Caller : Duplicate(c) =>
              /\ now - lastAt[JobOf[call[c].env]] < TTL
              /\ \E m \in Envelope : JobOf[m] = JobOf[call[c].env] /\ Taken(m)]_vars
  BY <1>3
<1> QED
  BY <1>1, <1>2, <1>4, Invariance, TypeCorrect, PTL DEF Spec, SuppressedOnlyAfterRun
=============================================================================
