------------------------------ MODULE Control ------------------------------
(***************************************************************************)
(* Run of internal/worker as seen from the control channel: the hello, the *)
(* heartbeat loop, the cloud's pings and the way out.  The jobs and their  *)
(* drain are Worker's.  Time is left out: a drain, a publish and a stop of *)
(* the supervisor may each end before or after another.                    *)
(***************************************************************************)
EXTENDS AgentConfig

CONSTANT
    Callback        \* goroutines of the relay client that call onControl

VARIABLES
    run,            \* where the goroutine of Run is
    loaded,         \* the configuration this process has loaded
    beat,           \* where heartbeatLoop is
    pongs,          \* the callbacks that are publishing a pong
    stopping        \* the context is cancelled

controlVars == <<run, loaded, beat, pongs, stopping>>

Publishes == loaded.settings.secretKey
draining == run = "drain"

ControlInit ==
    /\ run = "down" /\ loaded = None
    /\ beat = "off" /\ pongs = {} /\ stopping = FALSE

(* The process is gone, and all it kept in memory. *)
Gone ==
    /\ run' = "down" /\ loaded' = None
    /\ beat' = "off" /\ pongs' = {} /\ stopping' = FALSE
-----------------------------------------------------------------------------
(* A Load that leaves out Validate. *)
StartUnchecked(cfg) ==
    /\ run = "down" /\ cfg.settings.keysUsable
    /\ loaded' = [cfg EXCEPT !.settings = applyDefaults(@)]
    /\ run' = IF cfg.settings.secretKey THEN "hello" ELSE "wait"
    /\ UNCHANGED <<beat, pongs, stopping>>

(* Load, Build and Connect have succeeded; the callbacks are subscribed    *)
(* before the hello goes out.  Without a publisher nothing is ever sent.   *)
Start(cfg) ==
    /\ run = "down" /\ Builds(cfg.settings)
    /\ loaded' = [cfg EXCEPT !.settings = applyDefaults(@)]
    /\ run' = IF cfg.settings.secretKey THEN "hello" ELSE "wait"
    /\ UNCHANGED <<beat, pongs, stopping>>

(* The hello is published or not; heartbeatLoop starts either way.         *)
HelloDone ==
    /\ run = "hello"
    /\ run' = "wait"
    /\ beat' = IF loaded.settings.heartbeatSec > 0 THEN "ticks" ELSE "off"
    /\ UNCHANGED <<loaded, pongs, stopping>>

(* The ticker fires; the flag is read before the ack is published. *)
BeatDue ==
    /\ beat = "ticks" /\ ~draining
    /\ beat' = "sends"
    /\ UNCHANGED <<run, loaded, pongs, stopping>>

(* A loop that ends when the relay refuses an ack. *)
BeatDoneFinal ==
    /\ beat = "sends"
    /\ beat' \in {"ticks", "off"}
    /\ UNCHANGED <<run, loaded, pongs, stopping>>

(* The ack is published or not, in fifteen seconds; the loop goes on. *)
BeatDone ==
    /\ beat = "sends"
    /\ beat' = "ticks"
    /\ UNCHANGED <<run, loaded, pongs, stopping>>

BeatEnds ==
    /\ beat = "ticks" /\ stopping
    /\ beat' = "off"
    /\ UNCHANGED <<run, loaded, pongs, stopping>>

(* A callback that does not look whether there is a publisher. *)
OnPingUnchecked(g) ==
    /\ run # "down" /\ g \notin pongs
    /\ pongs' = pongs \cup {g}
    /\ UNCHANGED <<run, loaded, beat, stopping>>

(* A ping the Opener accepts; what it rejects and the echoes of our own    *)
(* acks change nothing.  onControl does not look at the draining flag.     *)
OnPing(g) ==
    /\ run # "down" /\ g \notin pongs
    /\ Publishes
    /\ pongs' = pongs \cup {g}
    /\ UNCHANGED <<run, loaded, beat, stopping>>

(* The pong has reached the relay, once or several times, or not at all. *)
PongDone(g) ==
    /\ g \in pongs
    /\ pongs' = pongs \ {g}
    /\ UNCHANGED <<run, loaded, beat, stopping>>
-----------------------------------------------------------------------------
(* SIGTERM of stopChild: the context is cancelled, Run sees it when it has *)
(* sent its hello.                                                         *)
Signal ==
    /\ run # "down" /\ ~stopping
    /\ stopping' = TRUE
    /\ UNCHANGED <<run, loaded, beat, pongs>>

(* The draining flag, and the client's Destroy. *)
BeginDrain ==
    /\ run = "wait" /\ stopping
    /\ run' = "drain"
    /\ UNCHANGED <<loaded, beat, pongs, stopping>>

(* The jobs are done or drainTimeout has passed: Run returns. *)
Drained == draining /\ Gone

(* stopChild's own timeout, wherever the worker is. *)
Kill == stopping /\ Gone

Crash == run # "down" /\ Gone

ControlStep ==
    \/ HelloDone \/ BeatDue \/ BeatDone \/ BeatEnds
    \/ \E g \in Callback : OnPing(g) \/ PongDone(g)
    \/ Signal \/ BeginDrain \/ Drained \/ Kill
    \/ Crash
-----------------------------------------------------------------------------
(* A process that is down holds nothing, and who publishes an ack has a    *)
(* publisher.                                                              *)
ControlTypeOK ==
    /\ run \in {"down", "hello", "wait", "drain"}
    /\ (loaded = None) = (run = "down")
    /\ beat \in {"off", "ticks", "sends"}
    /\ pongs \subseteq Callback /\ stopping \in BOOLEAN
    /\ run = "down" => beat = "off" /\ pongs = {} /\ ~stopping
    /\ run = "hello" \/ beat # "off" \/ pongs # {} => Publishes

(* The cloud tracks liveness by heartbeats: they go on until the stop,     *)
(* whatever the relay does to single ones (heartbeatLoop, sendHeartbeat).  *)
HeartbeatsContinue ==
    /\ run = "wait" /\ Publishes /\ loaded.settings.heartbeatSec > 0
           ~> beat = "sends" \/ stopping \/ run = "down"
    /\ beat = "sends" ~> beat # "sends"
=============================================================================
