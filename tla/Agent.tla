------------------------------- MODULE Agent -------------------------------
(***************************************************************************)
(* An agent over its life: enrolled by agentctl, run by worker processes   *)
(* that load what is on disk when they start, enrolled again under them.   *)
(***************************************************************************)
EXTENDS Enroll, Control

vars == <<command, file, registered, run, loaded, beat, pongs, stopping>>

Init == EnrollInit /\ ControlInit

(* A worker process starts with the file as it is now. *)
StartWorker == file # None /\ Start(file)

Next ==
    \/ EnrollNext /\ UNCHANGED controlVars
    \/ (StartWorker \/ ControlStep) /\ UNCHANGED enrollVars

Spec == Init /\ [][Next]_vars

(* A ticker that is waited for fires, and the publish of a heartbeat ends  *)
(* by the timeout of its context.  Nothing is assumed of the cloud or of   *)
(* the operator.                                                           *)
FairSpec ==
    /\ Spec
    /\ WF_vars(BeatDue /\ UNCHANGED enrollVars)
    /\ WF_vars(BeatDone /\ UNCHANGED enrollVars)
-----------------------------------------------------------------------------
(* Every variable holds a value of its kind. *)
TypeOK ==
    /\ EnrollTypeOK /\ ControlTypeOK
    /\ loaded \in Config \cup {None}

(* A worker speaks for the agent it was enrolled as, with the keys the     *)
(* cloud holds for it and a valid configuration, also while the agent is   *)
(* enrolled anew under it (Save, Load, Build).                             *)
SpeaksAsRegistered ==
    run # "down" => /\ registered[loaded.agentId] = loaded.keys
                    /\ Validate(loaded.settings)
=============================================================================
