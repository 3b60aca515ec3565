------------------------------- MODULE Enroll -------------------------------
(***************************************************************************)
(* agentctl enroll (cmd/agentctl, internal/enroll): a command looks for an *)
(* existing configuration, generates keys, redeems its token at the cloud, *)
(* assembles a configuration from the answer and saves it.  Commands may   *)
(* overlap, be killed, lose the answer or fail to write.  The cloud mints  *)
(* one agent per token, so the token stands for the agent id; a command    *)
(* makes one pair of keys, so it stands for the keys.                      *)
(***************************************************************************)
EXTENDS AgentConfig

CONSTANTS
    Command,        \* runs of agentctl enroll
    Token,          \* one-time tokens, and the agents they become
    Responses       \* the settings in the cloud's answers

Config == [agentId : Token, keys : Command, settings : Settings]

ASSUME EnrollAssumption ==
    /\ None \notin Command /\ None \notin Token /\ None \notin Config
    /\ Responses \subseteq {s \in Settings : s.heartbeatSec = 0}

VARIABLES
    command,        \* each command: its step, token and assembled config
    file,           \* the configuration on disk
    registered      \* at the cloud: the keys registered for an agent

enrollVars == <<command, file, registered>>

Progress == [step : {"new", "over"}]
                \cup [step : {"post"}, token : Token]
                \cup [step : {"save"}, cfg : Config]

EnrollInit ==
    /\ command = [c \in Command |-> [step |-> "new"]]
    /\ file = None
    /\ registered = [t \in Token |-> None]

Over(c) == command' = [command EXCEPT ![c] = [step |-> "over"]]

(* os.Stat, then GenerateAgentKeys and the request. *)
Begin(c, force) ==
    /\ command[c].step = "new"
    /\ \/ file # None /\ ~force /\ Over(c)
       \/ /\ file = None \/ force
          /\ \E t \in Token :
                command' = [command EXCEPT ![c] = [step |-> "post", token |-> t]]
    /\ UNCHANGED <<file, registered>>

buildConfig(c, t, response) == [agentId |-> t, keys |-> c, settings |-> response]

(* An Enroll that leaves the checks to Load. *)
acceptedUnchecked(cfg) == cfg.settings.essentials

(* The required fields, and Validate before any default is applied. *)
accepted(cfg) == cfg.settings.essentials /\ Validate(cfg.settings)

(* The cloud redeems the token; its answer is used, refused or lost. *)
Redeem(c) ==
    /\ command[c].step = "post"
    /\ registered[command[c].token] = None
    /\ registered' = [registered EXCEPT ![command[c].token] = c]
    /\ \/ Over(c)
       \/ \E response \in Responses :
             LET cfg == buildConfig(c, command[c].token, response)
             IN  IF accepted(cfg)
                 THEN command' = [command EXCEPT ![c] = [step |-> "save", cfg |-> cfg]]
                 ELSE Over(c)
    /\ UNCHANGED file

(* The token is spent, or the cloud is not reached. *)
NotRedeemed(c) ==
    /\ command[c].step = "post"
    /\ Over(c)
    /\ UNCHANGED <<file, registered>>

(* Written beside the file, synced and renamed: all of it or nothing. *)
Save(c) ==
    /\ command[c].step = "save"
    /\ file' = command[c].cfg
    /\ Over(c)
    /\ UNCHANGED registered

(* Save fails, or the command is killed before the rename. *)
SaveFails(c) ==
    /\ command[c].step = "save"
    /\ Over(c)
    /\ UNCHANGED <<file, registered>>

(* The operator edits limits.heartbeatSec. *)
Edit ==
    /\ file # None
    /\ \E h \in {-1, 0} : file' = [file EXCEPT !.settings.heartbeatSec = h]
    /\ UNCHANGED <<command, registered>>

EnrollStep(c) ==
    \/ \E force \in BOOLEAN : Begin(c, force)
    \/ Redeem(c) \/ NotRedeemed(c) \/ Save(c) \/ SaveFails(c)
EnrollNext == (\E c \in Command : EnrollStep(c)) \/ Edit
-----------------------------------------------------------------------------
EnrollTypeOK ==
    /\ command \in [Command -> Progress]
    /\ file \in Config \cup {None}
    /\ registered \in [Token -> Command \cup {None}]

(* "a fully-formed Config ready to persist": whatever is lost, refused or   *)
(* overlaps, the saved file names an agent with the keys the cloud has for *)
(* it, and a worker can load it.  The exception is an answer with neither  *)
(* a transport nor a secret key: Enroll validates it before the default    *)
(* transport is filled in (Enroll, buildConfig, Save, Load).               *)
SavedConfigUsable ==
    file # None =>
        /\ registered[file.agentId] = file.keys
        /\ ~Loads(file.settings) =>
              file.settings.transport = "" /\ ~file.settings.secretKey
=============================================================================
