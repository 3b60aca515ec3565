------------------------------ MODULE MCAgent -------------------------------
(***************************************************************************)
(* Instance of Agent for TLC: two enrollments, five answers of the cloud.  *)
(***************************************************************************)
EXTENDS Agent

Channel == [essentials |-> TRUE, secretKey |-> TRUE, transport |-> "channel",
            resultUrl |-> FALSE, egressParses |-> TRUE, keysUsable |-> TRUE,
            heartbeatSec |-> 0]
HttpOnly == [Channel EXCEPT !.secretKey = FALSE, !.transport = "http",
                            !.resultUrl = TRUE]
Bare == [Channel EXCEPT !.secretKey = FALSE, !.transport = ""]
BadKeys == [Channel EXCEPT !.keysUsable = FALSE]
BadUrl == [HttpOnly EXCEPT !.resultUrl = FALSE]
SomeResponses == {Channel, HttpOnly, Bare, BadKeys, BadUrl}
=============================================================================
