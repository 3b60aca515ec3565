---------------------------- MODULE AgentProofs ----------------------------
(***************************************************************************)
(* An agent with any number of enrollments, tokens and callbacks.          *)
(*                                                                         *)
(* What a command holds, the file and the worker's memory say of an agent  *)
(* is what the cloud has registered, because a token is redeemed once.     *)
(***************************************************************************)
EXTENDS Agent, TLAPS

AsRegistered(cfg) == registered[cfg.agentId] = cfg.keys /\ Validate(cfg.settings)

EnrollInv ==
    /\ \A c \in Command : command[c].step = "save" => AsRegistered(command[c].cfg)
    /\ file # None => AsRegistered(file)

IInv ==
    /\ TypeOK
    /\ EnrollInv /\ SpeaksAsRegistered

-----------------------------------------------------------------------------
(* What Validate lets through and Load then refuses is an answer without a *)
(* transport and without a secret key.                                     *)
LEMMA DefaultsOnlyHurtBare ==
    ASSUME NEW s \in Settings, Validate(s), ~Loads(s)
    PROVE  s.transport = "" /\ ~s.secretKey
BY DEF Settings, Transports, Validate, Loads, applyDefaults

LEMMA DefaultsTyped ==
    ASSUME NEW s \in Settings
    PROVE  /\ applyDefaults(s) \in Settings
           /\ applyDefaults(s).secretKey = s.secretKey
BY DEF Settings, Transports, applyDefaults

(* Validate does not look at the heartbeat.                                *)
LEMMA HeartbeatIrrelevant ==
    ASSUME NEW s \in Settings, NEW h \in {-1, 0}
    PROVE  /\ [s EXCEPT !.heartbeatSec = h] \in Settings
           /\ Validate([s EXCEPT !.heartbeatSec = h]) <=> Validate(s)
BY DEF Settings, Validate

-----------------------------------------------------------------------------
LEMMA InitInv == Init => IInv
<1> SUFFICES ASSUME Init PROVE IInv
  OBVIOUS
<1> USE EnrollAssumption
        DEF Init, EnrollInit, ControlInit
<1>1. EnrollTypeOK
  BY DEF EnrollTypeOK, Progress
<1>2. ControlTypeOK
  BY DEF ControlTypeOK
<1>3. EnrollInv /\ SpeaksAsRegistered
  BY DEF EnrollInv, SpeaksAsRegistered
<1> QED
  BY <1>1, <1>2, <1>3 DEF IInv, TypeOK

(* Who is registered stays registered, whatever agentctl does.             *)
RegistrationsKept ==
    \A t \in Token : registered[t] # None => registered'[t] = registered[t]

LEMMA CommandKeeps ==
    ASSUME IInv, NEW c \in Command, EnrollStep(c)
    PROVE  EnrollTypeOK' /\ EnrollInv' /\ RegistrationsKept
<1> USE EnrollAssumption DEF RegistrationsKept, AsRegistered
<1>0. EnrollTypeOK /\ EnrollInv
  BY DEF IInv, TypeOK
<1>1. ASSUME NEW force \in BOOLEAN, Begin(c, force)
      PROVE  EnrollTypeOK' /\ EnrollInv' /\ RegistrationsKept
  <2>1. EnrollTypeOK'
    BY <1>0, <1>1 DEF Begin, Over, EnrollTypeOK, Progress
  <2>2. EnrollInv'
    BY <1>0, <1>1 DEF Begin, Over, EnrollTypeOK, Progress, EnrollInv
  <2> QED
    BY <1>1, <2>1, <2>2 DEF Begin
<1>2. CASE Redeem(c)
  <2>1. PICK t \in Token : t = command[c].token /\ registered[t] = None
    BY <1>0, <1>2 DEF Redeem, EnrollTypeOK, Progress
  <2>2. registered' = [registered EXCEPT ![t] = c]
    BY <1>2, <2>1 DEF Redeem
  <2>3. RegistrationsKept
    BY <1>0, <2>1, <2>2 DEF EnrollTypeOK
  <2>4. ASSUME Over(c), UNCHANGED file
        PROVE  EnrollTypeOK' /\ EnrollInv'
    <3>1. EnrollTypeOK'
      BY <1>0, <2>1, <2>2, <2>4 DEF Over, EnrollTypeOK, Progress
    <3>2. \A d \in Command : command'[d].step = "save" =>
              /\ command[d].step = "save" /\ command'[d].cfg = command[d].cfg
              /\ command[d].cfg \in Config
      BY <1>0, <2>4 DEF Over, EnrollTypeOK, Progress
    <3>3. EnrollInv'
      BY <1>0, <2>3, <2>4, <3>2 DEF EnrollTypeOK, EnrollInv, Config
    <3> QED
      BY <3>1, <3>3
  <2>5. ASSUME NEW response \in Responses,
               accepted(buildConfig(c, t, response)),
               command' = [command EXCEPT ![c] =
                   [step |-> "save", cfg |-> buildConfig(c, t, response)]],
               UNCHANGED file
        PROVE  EnrollTypeOK' /\ EnrollInv'
    <3>1. buildConfig(c, t, response) \in Config
      BY DEF buildConfig, Config
    <3>2. EnrollTypeOK'
      BY <1>0, <2>2, <2>5, <3>1 DEF EnrollTypeOK, Progress
    <3>3. AsRegistered(buildConfig(c, t, response))'
      BY <1>0, <2>2, <2>5 DEF buildConfig, accepted, EnrollTypeOK
    <3>4. EnrollInv'
      BY <1>0, <2>1, <2>2, <2>5, <3>3 DEF EnrollTypeOK, Progress, EnrollInv, Config
    <3> QED
      BY <3>2, <3>4
  <2> QED
    BY <1>2, <2>1, <2>3, <2>4, <2>5 DEF Redeem
<1>3. CASE NotRedeemed(c)
  BY <1>0, <1>3 DEF NotRedeemed, Over, EnrollTypeOK, Progress, EnrollInv
<1>4. CASE Save(c)
  BY <1>0, <1>4 DEF Save, Over, EnrollTypeOK, Progress, EnrollInv
<1>5. CASE SaveFails(c)
  BY <1>0, <1>5 DEF SaveFails, Over, EnrollTypeOK, Progress, EnrollInv
<1> QED
  BY <1>1, <1>2, <1>3, <1>4, <1>5 DEF EnrollStep

LEMMA EditKeeps ==
    ASSUME IInv, Edit
    PROVE  EnrollTypeOK' /\ EnrollInv' /\ RegistrationsKept
<1>0. EnrollTypeOK /\ EnrollInv
  BY DEF IInv, TypeOK
<1>1. PICK h \in {-1, 0} : file' = [file EXCEPT !.settings.heartbeatSec = h]
  BY DEF Edit
<1>2. file \in Config /\ file.settings \in Settings
  BY <1>0 DEF Edit, EnrollTypeOK, Config
<1>3. file' = [file EXCEPT !.settings = [@ EXCEPT !.heartbeatSec = h]]
  BY <1>1, <1>2 DEF Config
<1>4. file' \in Config /\ AsRegistered(file)'
  BY <1>0, <1>2, <1>3, HeartbeatIrrelevant DEF EnrollInv, AsRegistered, Config, Edit
<1> QED
  BY <1>0, <1>4 DEF Edit, EnrollTypeOK, EnrollInv, AsRegistered, RegistrationsKept

(* What the workers speak for stays registered while commands run. *)
LEMMA EnrollKeeps ==
    ASSUME IInv, EnrollNext, UNCHANGED controlVars
    PROVE  IInv'
<1>1. EnrollTypeOK' /\ EnrollInv' /\ RegistrationsKept
  BY CommandKeeps, EditKeeps DEF EnrollNext
<1>2. ControlTypeOK' /\ (loaded \in Config \cup {None})'
  BY DEF IInv, TypeOK, controlVars, ControlTypeOK, Publishes
<1>3. SpeaksAsRegistered'
  BY <1>1, EnrollAssumption DEF IInv, TypeOK, controlVars, ControlTypeOK, EnrollTypeOK,
         SpeaksAsRegistered, RegistrationsKept, Config
<1> QED
  BY <1>1, <1>2, <1>3 DEF IInv, TypeOK

-----------------------------------------------------------------------------
(* A worker process that ends takes everything it knew with it. *)
LEMMA GoneKeeps ==
    ASSUME Gone
    PROVE  ControlTypeOK' /\ run' = "down" /\ loaded' = None
BY DEF Gone, ControlTypeOK

LEMMA StartKeeps ==
    ASSUME IInv, StartWorker, UNCHANGED enrollVars
    PROVE  IInv'
<1> USE EnrollAssumption
<1>0. TypeOK /\ EnrollTypeOK /\ ControlTypeOK /\ EnrollInv
  BY DEF IInv, TypeOK
<1>1. file \in Config /\ file.settings \in Settings /\ run = "down"
  BY <1>0 DEF StartWorker, Start, EnrollTypeOK, Config
<1>2. /\ loaded' \in Config /\ loaded' # None
      /\ loaded'.agentId = file.agentId /\ loaded'.keys = file.keys
      /\ loaded'.settings = applyDefaults(file.settings)
  BY <1>1, DefaultsTyped DEF StartWorker, Start, Config
<1>3. SpeaksAsRegistered'
  BY <1>0, <1>1, <1>2
     DEF StartWorker, Start, Builds, Loads, EnrollInv, AsRegistered,
         SpeaksAsRegistered, enrollVars
<1>4. ControlTypeOK'
  <2>1. Publishes' <=> file.settings.secretKey
    BY <1>1, <1>2, DefaultsTyped DEF Publishes
  <2>2. /\ run' \in {"hello", "wait"}
        /\ run' = "hello" => file.settings.secretKey
        /\ beat' = "off" /\ pongs' = {} /\ stopping' = FALSE
    BY <1>0, <1>1 DEF StartWorker, Start, ControlTypeOK
  <2>3. (loaded' = None) = (run' = "down")
    BY <1>2, <2>2
  <2> QED
    BY <2>1, <2>2, <2>3 DEF ControlTypeOK
<1>5. EnrollTypeOK' /\ EnrollInv'
  BY <1>0 DEF EnrollTypeOK, EnrollInv, AsRegistered, enrollVars
<1> QED
  BY <1>2, <1>3, <1>4, <1>5 DEF IInv, TypeOK

(* A process speaks for what it has loaded until it ends. *)
LEMMA ControlKeeps ==
    ASSUME IInv, ControlStep
    PROVE  ControlTypeOK' /\ (run' = "down" \/ loaded' = loaded)
<1>0. ControlTypeOK
  BY DEF IInv, TypeOK
<1> DEFINE Kept == ControlTypeOK' /\ loaded' = loaded
<1>1. CASE HelloDone
  BY <1>0, <1>1 DEF HelloDone, ControlTypeOK, Publishes
<1>2. CASE BeatDue \/ BeatDone \/ BeatEnds
  BY <1>0, <1>2 DEF BeatDue, BeatDone, BeatEnds, ControlTypeOK, Publishes
<1>3. ASSUME NEW g \in Callback, OnPing(g) PROVE Kept
  BY <1>0, <1>3 DEF OnPing, ControlTypeOK, Publishes
<1>4. ASSUME NEW g \in Callback, PongDone(g) PROVE Kept
  BY <1>0, <1>4 DEF PongDone, ControlTypeOK, Publishes
<1>5. CASE Signal \/ BeginDrain
  BY <1>0, <1>5 DEF Signal, BeginDrain, ControlTypeOK, Publishes
<1>6. CASE Drained \/ Kill \/ Crash
  BY <1>6, GoneKeeps DEF Drained, Kill, Crash
<1> QED
  BY <1>1, <1>2, <1>3, <1>4, <1>5, <1>6 DEF ControlStep

LEMMA StepInv == IInv /\ [Next]_vars => IInv'
<1> SUFFICES ASSUME IInv, [Next]_vars PROVE IInv'
  OBVIOUS
<1>1. CASE EnrollNext /\ UNCHANGED controlVars
  BY <1>1, EnrollKeeps
<1>2. CASE StartWorker /\ UNCHANGED enrollVars
  BY <1>2, StartKeeps
<1>3. CASE ControlStep /\ UNCHANGED enrollVars
  <2>1. EnrollTypeOK' /\ EnrollInv'
    BY <1>3 DEF IInv, TypeOK, EnrollTypeOK, EnrollInv, AsRegistered, enrollVars
  <2>2. SpeaksAsRegistered' /\ (loaded \in Config \cup {None})'
    BY <1>3, ControlKeeps DEF IInv, TypeOK, ControlTypeOK, SpeaksAsRegistered, enrollVars
  <2> QED
    BY <1>3, <2>1, <2>2, ControlKeeps DEF IInv, TypeOK
<1>4. CASE UNCHANGED vars
  BY <1>4 DEF vars, IInv, TypeOK, EnrollTypeOK, ControlTypeOK, EnrollInv, AsRegistered,
              SpeaksAsRegistered, Publishes
<1> QED
  BY <1>1, <1>2, <1>3, <1>4 DEF Next

(* File, process and cloud agree on keys in every reachable state. *)
THEOREM Invariance == Spec => []IInv
BY InitInv, StepInv, PTL DEF Spec

-----------------------------------------------------------------------------
(* Every reachable state is well typed. *)
THEOREM TypeCorrect == Spec => []TypeOK
<1>1. IInv => TypeOK
  BY DEF IInv
<1> QED
  BY <1>1, Invariance, PTL

(* The file names an agent with the keys the cloud holds for it and can be *)
(* loaded, unless the cloud answered without transport and secret key.     *)
THEOREM SavedConfigIsUsable == Spec => []SavedConfigUsable
<1>1. IInv => SavedConfigUsable
  BY DefaultsOnlyHurtBare
     DEF IInv, TypeOK, EnrollTypeOK, Config, EnrollInv, AsRegistered, SavedConfigUsable
<1> QED
  BY <1>1, Invariance, PTL

(* No worker speaks for an agent with keys the cloud does not hold for it. *)
THEOREM WorkerSpeaksAsRegistered == Spec => []SpeaksAsRegistered
<1>1. IInv => SpeaksAsRegistered
  BY DEF IInv
<1> QED
  BY <1>1, Invariance, PTL
=============================================================================
