---------------------------- MODULE AgentConfig -----------------------------
(***************************************************************************)
(* The configuration file of internal/config as far as an agent's start    *)
(* depends on it: what enrollment leaves out, what applyDefaults fills in  *)
(* and what Validate refuses.                                              *)
(***************************************************************************)
EXTENDS Integers

CONSTANT None           \* no file, no registration, no process

Transports == {"", "channel", "http"}

(* essentials: the agent id is a slug and there is a publish key; keysUsable: *)
(* BuildSuite can decode the keys; egressParses: ParseCIDRs takes the lists.  *)
(* An interval of 60 s stands for every positive one, -1 for the negative.    *)
Settings == [essentials : BOOLEAN, secretKey : BOOLEAN, transport : Transports,
             resultUrl : BOOLEAN, egressParses : BOOLEAN, keysUsable : BOOLEAN,
             heartbeatSec : {-1, 0, 60}]

applyDefaults(c) ==
    [c EXCEPT !.transport = IF @ = "" THEN "channel" ELSE @,
              !.heartbeatSec = IF @ = 0 THEN 60 ELSE @]

Validate(c) ==
    /\ c.essentials
    /\ c.transport = "channel" => c.secretKey
    /\ c.transport = "http" => c.resultUrl
    /\ c.egressParses

(* Load succeeds, and so does Build. *)
Loads(c) == Validate(applyDefaults(c))
Builds(c) == Loads(c) /\ c.keysUsable
=============================================================================
