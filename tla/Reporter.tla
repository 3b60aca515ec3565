------------------------------ MODULE Reporter ------------------------------
(***************************************************************************)
(* One call of Report in internal/reporter: the choice between the results *)
(* channel and the HTTP endpoint, the bounded attempts at each, and the    *)
(* fallback from the first to the second.  The relay and the cloud are     *)
(* what an attempt meets: it may arrive and be confirmed, arrive without   *)
(* the answer coming back, or not arrive.                                  *)
(***************************************************************************)
EXTENDS Integers

CONSTANTS
    RetryAttempts,  \* attempts of one series
    PublishTries,   \* copies one PublishRaw of the relay client may send
    PostTries       \* requests one http.Client.Do may send, redirects included

(* New replaces a number of attempts that is not positive. *)
ASSUME AttemptsAssumption ==
    /\ RetryAttempts \in Nat \ {0}
    /\ PublishTries \in Nat \ {0} /\ PostTries \in Nat \ {0}

VARIABLES
    spec,           \* the job's ReturnSpec, and whether the result is oversized
    cfg,            \* the agent's return configuration
    pc,             \* "sealing", "publish", "post", "delivered", "failed"
    url,            \* the endpoint of the posts: "none", "job" or "agent"
    attempt,        \* attempts made in this series
    copies,         \* history: copies of the result that reached the cloud
    sent,           \* history: attempts made at the channel and at the endpoint
    refused,        \* history: a post failed in a way no attempt can mend
    rewritten       \* history: the 2xx answered a GET without the result

vars == <<spec, cfg, pc, url, attempt, copies, sent, refused, rewritten>>

ReturnSpec == [transport : {"", "channel", "http", "other"}, url : BOOLEAN,
               oversized : BOOLEAN]

(* What Validate accepts and Build passes on. *)
Config == {c \in [transport : {"channel", "http"}, publisher : BOOLEAN,
                  resultURL : BOOLEAN] :
              /\ c.transport = "channel" => c.publisher
              /\ c.transport = "http" => c.resultURL}

transport == IF spec.transport = "" THEN cfg.transport ELSE spec.transport

(* firstNonEmpty(spec.URL, cfg.ResultURL) *)
Endpoint == IF spec.url THEN "job" ELSE IF cfg.resultURL THEN "agent" ELSE "none"

Init ==
    /\ spec \in ReturnSpec /\ cfg \in Config
    /\ pc = "sealing" /\ url = "none" /\ attempt = 0
    /\ copies = 0 /\ sent = [channel |-> 0, endpoint |-> 0]
    /\ refused = FALSE /\ rewritten = FALSE
-----------------------------------------------------------------------------
Goes(l) ==
    pc' = l /\ UNCHANGED <<spec, cfg, attempt, copies, sent, refused, rewritten>>

SealFails == pc = "sealing" /\ Goes("failed") /\ UNCHANGED url

(* The transport is unknown, there is no endpoint or no publisher. *)
NoRoute ==
    /\ pc = "sealing"
    /\ \/ transport = "other"
       \/ transport = "http" /\ Endpoint = "none"
       \/ /\ transport = "channel" /\ ~cfg.publisher
          /\ spec.oversized => Endpoint = "none"
    /\ Goes("failed") /\ UNCHANGED url

RouteHTTP ==
    /\ pc = "sealing" /\ transport = "http"
    /\ url' = Endpoint /\ Endpoint # "none"
    /\ Goes("post")

(* A Report that diverts nothing. *)
PublishAny ==
    /\ pc = "sealing" /\ transport = "channel" /\ cfg.publisher
    /\ Goes("publish") /\ UNCHANGED url

(* An oversized result is diverted when there is an endpoint. *)
Divert ==
    /\ pc = "sealing" /\ transport = "channel" /\ spec.oversized
    /\ url' = Endpoint /\ Endpoint # "none"
    /\ Goes("post")

RouteChannel ==
    /\ pc = "sealing" /\ transport = "channel"
    /\ spec.oversized => Endpoint = "none"
    /\ cfg.publisher
    /\ Goes("publish") /\ UNCHANGED url

(* An attempt of up to n copies of which the last is confirmed. *)
Confirmed(n) ==
    /\ pc' = "delivered"
    /\ copies' \in copies + 1 .. copies + n
    /\ UNCHANGED <<refused, rewritten>>

(* One that ends in an error, whether copies arrived or not. *)
Unconfirmed(n) ==
    /\ copies' \in copies .. copies + n
    /\ UNCHANGED <<pc, refused, rewritten>>

(* The client follows redirects.  After a 307 or 308 it sends the body     *)
(* again; after a 301, 302 or 303 it sends a GET without one, and a 2xx to *)
(* that GET is taken for a delivery.                                       *)
ConfirmedByGet ==
    /\ PostTries > 1
    /\ pc' = "delivered" /\ rewritten' = TRUE
    /\ copies' \in copies .. copies + PostTries - 1
    /\ UNCHANGED refused

(* The last request of a post is answered with a 4xx other than 429. *)
RefusedForGood ==
    /\ pc' = "failed" /\ refused' = TRUE
    /\ copies' \in copies .. copies + PostTries - 1
    /\ UNCHANGED rewritten

(* A loop that makes one attempt too many. *)
PublishOneMore ==
    /\ pc = "publish" /\ attempt <= RetryAttempts
    /\ attempt' = attempt + 1
    /\ sent' = [sent EXCEPT !.channel = @ + 1]
    /\ Confirmed(PublishTries) \/ Unconfirmed(PublishTries)
    /\ UNCHANGED <<spec, cfg, url>>

(* PublishRaw. *)
Publish ==
    /\ pc = "publish" /\ attempt < RetryAttempts
    /\ attempt' = attempt + 1
    /\ sent' = [sent EXCEPT !.channel = @ + 1]
    /\ Confirmed(PublishTries) \/ Unconfirmed(PublishTries)
    /\ UNCHANGED <<spec, cfg, url>>

(* A fallback that goes on counting where the channel stopped. *)
FallBackSpent ==
    /\ pc = "publish" /\ attempt = RetryAttempts
    /\ \/ cfg.resultURL /\ pc' = "post" /\ url' = "agent"
       \/ ~cfg.resultURL /\ pc' = "failed" /\ UNCHANGED url
    /\ UNCHANGED <<spec, cfg, attempt, copies, sent, refused, rewritten>>

(* The attempts are used up: the agent's endpoint, if it has one, is tried. *)
FallBack ==
    /\ pc = "publish" /\ attempt = RetryAttempts
    /\ \/ cfg.resultURL /\ pc' = "post" /\ url' = "agent" /\ attempt' = 0
       \/ ~cfg.resultURL /\ pc' = "failed" /\ UNCHANGED <<url, attempt>>
    /\ UNCHANGED <<spec, cfg, copies, sent, refused, rewritten>>

(* A post that takes every answer for a confirmation. *)
PostCareless ==
    /\ pc = "post" /\ attempt < RetryAttempts
    /\ attempt' = attempt + 1
    /\ sent' = [sent EXCEPT !.endpoint = @ + 1]
    /\ \/ Confirmed(PostTries)
       \/ pc' = "delivered" /\ UNCHANGED <<copies, refused, rewritten>>
    /\ UNCHANGED <<spec, cfg, url>>

(* A post that tries again whatever the endpoint answers. *)
PostStubborn ==
    /\ pc = "post" /\ attempt < RetryAttempts
    /\ attempt' = attempt + 1
    /\ sent' = [sent EXCEPT !.endpoint = @ + 1]
    /\ \/ Confirmed(PostTries)
       \/ Unconfirmed(PostTries)
       \/ refused' = TRUE /\ UNCHANGED <<pc, copies, rewritten>>
    /\ UNCHANGED <<spec, cfg, url>>

(* postHTTP: 2xx; a network error, too many redirects, 429 or 5xx; another *)
(* 4xx, which is final.                                                    *)
Post ==
    /\ pc = "post" /\ attempt < RetryAttempts
    /\ attempt' = attempt + 1
    /\ sent' = [sent EXCEPT !.endpoint = @ + 1]
    /\ \/ Confirmed(PostTries) \/ ConfirmedByGet
       \/ Unconfirmed(PostTries)
       \/ RefusedForGood
    /\ UNCHANGED <<spec, cfg, url>>

(* http.NewRequest does not accept the URL. *)
BadURL ==
    /\ pc = "post" /\ attempt = 0
    /\ refused' = TRUE /\ pc' = "failed"
    /\ UNCHANGED <<spec, cfg, url, attempt, copies, sent, rewritten>>

(* A loop whose end is missed by one. *)
GiveUpLate ==
    /\ pc = "post" /\ attempt = RetryAttempts + 1
    /\ Goes("failed") /\ UNCHANGED url

GiveUp ==
    /\ pc = "post" /\ attempt = RetryAttempts
    /\ Goes("failed") /\ UNCHANGED url

Next ==
    \/ SealFails \/ NoRoute \/ RouteHTTP \/ Divert \/ RouteChannel
    \/ Publish \/ FallBack
    \/ Post \/ BadURL \/ GiveUp

Spec == Init /\ [][Next]_vars

(* An attempt ends by the timeout of its client, a pause by its timer. *)
FairSpec == Spec /\ WF_vars(Next)
-----------------------------------------------------------------------------
(* Every variable holds a value of its kind; no series has more attempts   *)
(* than allowed, and the attempts at each place are one series.            *)
TypeOK ==
    /\ spec \in ReturnSpec /\ cfg \in Config
    /\ pc \in {"sealing", "publish", "post", "delivered", "failed"}
    /\ url \in {"none", "job", "agent"}
    /\ attempt \in 0 .. RetryAttempts
    /\ copies \in Nat /\ refused \in BOOLEAN /\ rewritten \in BOOLEAN
    /\ sent \in [channel : 0 .. RetryAttempts, endpoint : 0 .. RetryAttempts]

(* No series of attempts is cut short, and the agent's endpoint is the     *)
(* last resort of every result that was sent: unless an endpoint refused   *)
(* it, a result is given up after RetryAttempts attempts at each place     *)
(* that was tried, the agent's endpoint among them if there is one         *)
(* (publishChannel, postHTTP).                                             *)
NoSeriesCutShort ==
    pc = "failed" /\ (sent.channel > 0 \/ sent.endpoint > 0) /\ ~refused =>
        /\ sent.channel \in {0, RetryAttempts}
        /\ sent.endpoint \in {0, RetryAttempts}
        /\ cfg.resultURL => sent.endpoint = RetryAttempts

(* A 4xx is permanent: nothing is sent after it (postHTTP). *)
RefusalIsFinal == [][refused => UNCHANGED <<sent, copies>>]_vars

(* An oversized result does not go over the channel when there is an       *)
(* endpoint to divert it to (Report).                                      *)
OversizedDiverted ==
    sent.channel > 0 /\ spec.oversized => ~spec.url /\ ~cfg.resultURL

(* Report implements Delivery: it calls a result delivered only when the   *)
(* answer it goes by was given to the result, unless a redirect took the   *)
(* result out of the request, and its verdict is final (Report).           *)
Promise == INSTANCE Delivery WITH
    verdict <- IF pc \in {"delivered", "failed"} THEN pc ELSE "open"
RefinesDelivery == Promise!Spec

(* A report comes to its verdict (Report). *)
ReportEnds == <>(pc \in {"delivered", "failed"})
-----------------------------------------------------------------------------
(* What the code says of itself and does not do.                           *)

(* "Last resort: try the HTTP endpoint if we have one" (publishChannel): a *)
(* result that was sent and not refused is given up only when there is no  *)
(* endpoint for it, the job's or the agent's, or the endpoint was tried.   *)
GivenUpWhenExhausted ==
    pc = "failed" /\ (sent.channel > 0 \/ sent.endpoint > 0) /\ ~refused =>
        Endpoint = "none" \/ sent.endpoint = RetryAttempts
=============================================================================
