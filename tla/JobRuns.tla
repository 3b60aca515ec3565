------------------------------ MODULE JobRuns -------------------------------
(***************************************************************************)
(* What the worker promises about jobs, as a machine that never crashes    *)
(* and never forgets.  Every envelope the cloud seals is run at most once; *)
(* two runs of one job id begin at least TTL seconds apart, whichever      *)
(* envelopes carried them; an outcome, once reached, is final.             *)
(***************************************************************************)
EXTENDS Integers

CONSTANTS
    Envelope, JobId,
    JobOf,          \* the job id an envelope carries
    TTL

VARIABLES
    now,
    lastAt,         \* when a run of the job id last began, or -1
    outcome         \* of each envelope

Outcomes == {"pending", "running", "answered", "unanswered", "lost"}

Init ==
    /\ now = 0
    /\ lastAt = [j \in JobId |-> -1]
    /\ outcome = [m \in Envelope |-> "pending"]

Begin(m) ==
    /\ outcome[m] = "pending"
    /\ lastAt[JobOf[m]] = -1 \/ now - lastAt[JobOf[m]] >= TTL
    /\ lastAt' = [lastAt EXCEPT ![JobOf[m]] = now]
    /\ outcome' = [outcome EXCEPT ![m] = "running"]
    /\ UNCHANGED now

End(m) ==
    /\ outcome[m] = "running"
    /\ \E how \in {"answered", "unanswered"} :
           outcome' = [outcome EXCEPT ![m] = how]
    /\ UNCHANGED <<now, lastAt>>

(* The process ends: whatever was running is lost, nothing else changes. *)
LoseAll ==
    /\ outcome' = [m \in Envelope |->
                      IF outcome[m] = "running" THEN "lost" ELSE outcome[m]]
    /\ UNCHANGED <<now, lastAt>>

Tick ==
    /\ now' = now + 1
    /\ UNCHANGED <<lastAt, outcome>>

Next ==
    \/ \E m \in Envelope : Begin(m) \/ End(m)
    \/ LoseAll
    \/ Tick

Spec == Init /\ [][Next]_<<now, lastAt, outcome>>
=============================================================================
