--------------------------- MODULE ReporterProofs ---------------------------
(***************************************************************************)
(* Report for every number of attempts and of redirects: no series of      *)
(* attempts is cut short, a refusal is final, an oversized result is       *)
(* diverted, and Report implements Delivery.                               *)
(*                                                                         *)
(* The invariant says what each place of the code knows: the attempts of   *)
(* the series it is in are those sent there, and posts that follow the     *)
(* channel follow a whole series of it.                                    *)
(***************************************************************************)
EXTENDS Reporter, TLAPS

AtSealing ==
    pc = "sealing" => /\ attempt = 0 /\ sent.channel = 0 /\ sent.endpoint = 0
                      /\ copies = 0 /\ ~refused

AtPublish ==
    pc = "publish" => /\ sent.channel = attempt /\ sent.endpoint = 0 /\ ~refused
                      /\ spec.oversized => ~spec.url /\ ~cfg.resultURL

AtPost ==
    pc = "post" => /\ sent.endpoint = attempt
                   /\ sent.channel \in {0, RetryAttempts} /\ ~refused

AtEnd ==
    /\ refused => pc = "failed"
    /\ pc = "delivered" => copies > 0 \/ rewritten
    /\ rewritten => pc = "delivered"

IInv ==
    /\ TypeOK
    /\ AtSealing /\ AtPublish /\ AtPost /\ AtEnd
    /\ NoSeriesCutShort
    /\ OversizedDiverted

-----------------------------------------------------------------------------
LEMMA InitInv == Init => IInv
<1> SUFFICES ASSUME Init PROVE IInv
  OBVIOUS
<1> USE AttemptsAssumption DEF Init
<1>1. TypeOK
  <2>1. sent \in [channel : 0 .. RetryAttempts, endpoint : 0 .. RetryAttempts]
    OBVIOUS
  <2> QED
    BY <2>1 DEF TypeOK
<1>2. AtSealing /\ AtPublish /\ AtPost /\ AtEnd
  BY DEF AtSealing, AtPublish, AtPost, AtEnd
<1>3. NoSeriesCutShort /\ OversizedDiverted
  BY DEF NoSeriesCutShort, OversizedDiverted
<1> QED
  BY <1>1, <1>2, <1>3 DEF IInv

LEMMA StepInv == IInv /\ [Next]_vars => IInv'
<1> SUFFICES ASSUME IInv, [Next]_vars PROVE IInv'
  OBVIOUS
<1> USE AttemptsAssumption
        DEF IInv, TypeOK, AtSealing, AtPublish, AtPost, AtEnd,
            NoSeriesCutShort, OversizedDiverted
<1>1. CASE SealFails
  BY <1>1 DEF SealFails, Goes
<1>2. CASE NoRoute
  BY <1>2 DEF NoRoute, Goes
<1>3. CASE RouteHTTP
  BY <1>3 DEF RouteHTTP, Goes, Endpoint
<1>4. CASE Divert
  BY <1>4 DEF Divert, Goes, Endpoint
<1>5. CASE RouteChannel
  <2>1. spec.oversized => ~spec.url /\ ~cfg.resultURL
    BY <1>5 DEF RouteChannel, Endpoint
  <2> QED
    BY <1>5, <2>1 DEF RouteChannel, Goes
<1>6. CASE Publish
  BY <1>6 DEF Publish, Confirmed, Unconfirmed
<1>7. CASE FallBack
  BY <1>7 DEF FallBack
<1>8. CASE Post
  <2>1. CASE Confirmed(PostTries)
    BY <1>8, <2>1 DEF Post, Confirmed
  <2>2. CASE Unconfirmed(PostTries)
    BY <1>8, <2>2 DEF Post, Unconfirmed
  <2>3. CASE RefusedForGood
    BY <1>8, <2>3 DEF Post, RefusedForGood
  <2>4. CASE ConfirmedByGet
    BY <1>8, <2>4 DEF Post, ConfirmedByGet
  <2> QED
    BY <1>8, <2>1, <2>2, <2>3, <2>4 DEF Post
<1>9. CASE BadURL
  BY <1>9 DEF BadURL
<1>10. CASE GiveUp
  BY <1>10 DEF GiveUp, Goes
<1>11. CASE UNCHANGED vars
  BY <1>11 DEF vars
<1> QED
  BY <1>1, <1>2, <1>3, <1>4, <1>5, <1>6, <1>7, <1>8, <1>9, <1>10, <1>11 DEF Next

(* The invariant holds in every reachable state (Report). *)
THEOREM Invariance == Spec => []IInv
<1>1. Init => IInv
  BY InitInv
<1>2. IInv /\ [Next]_vars => IInv'
  BY StepInv
<1> QED
  BY <1>1, <1>2, PTL DEF Spec

(* Every series of attempts stays within RetryAttempts (publishChannel,    *)
(* postHTTP).                                                              *)
THEOREM TypeCorrect == Spec => []TypeOK
<1>1. IInv => TypeOK
  BY DEF IInv
<1> QED
  BY <1>1, Invariance, PTL

(* A result that was sent and not refused is given up only after whole     *)
(* series of attempts, the agent's endpoint among them if it has one       *)
(* (publishChannel, postHTTP).                                             *)
THEOREM SeriesAreWhole == Spec => []NoSeriesCutShort
<1>1. IInv => NoSeriesCutShort
  BY DEF IInv
<1> QED
  BY <1>1, Invariance, PTL

(* An oversized result with an endpoint never goes over the channel.       *)
THEOREM Diversion == Spec => []OversizedDiverted
<1>1. IInv => OversizedDiverted
  BY DEF IInv
<1> QED
  BY <1>1, Invariance, PTL

LEMMA FinalStep == IInv /\ [Next]_vars => [refused => UNCHANGED <<sent, copies>>]_vars
<1> SUFFICES ASSUME IInv, Next, refused
             PROVE  UNCHANGED <<sent, copies>>
  OBVIOUS
<1>1. pc = "failed"
  BY DEF IInv, AtEnd
<1> QED
  BY <1>1 DEF Next, SealFails, NoRoute, RouteHTTP, Divert, RouteChannel,
              Publish, FallBack, Post, BadURL, GiveUp

(* Nothing is sent after the endpoint refused for good (postHTTP).         *)
THEOREM Finality == Spec => RefusalIsFinal
<1>1. IInv /\ [Next]_vars => [refused => UNCHANGED <<sent, copies>>]_vars
  BY FinalStep
<1> QED
  BY <1>1, Invariance, PTL DEF Spec, RefusalIsFinal
-----------------------------------------------------------------------------
(* Report as Delivery sees it. *)

LEMMA InitPromise == Init => Promise!Init
BY DEF Init, Promise!Init

LEMMA StepPromise ==
    ASSUME IInv, IInv', [Next]_vars
    PROVE  [Promise!Next]_<<IF pc \in {"delivered", "failed"} THEN pc ELSE "open", copies, rewritten>>
<1> USE AttemptsAssumption DEF Promise!Next
<1>0. copies \in Nat /\ copies' \in Nat
  BY DEF IInv, TypeOK
<1>1. CASE SealFails \/ NoRoute \/ GiveUp
  BY <1>0, <1>1 DEF SealFails, NoRoute, GiveUp, Goes, Promise!GiveUp
<1>2. CASE RouteHTTP \/ Divert \/ RouteChannel
  BY <1>2 DEF RouteHTTP, Divert, RouteChannel, Goes
<1>3. CASE Publish
  <2>1. CASE Confirmed(PublishTries)
    BY <1>0, <1>3, <2>1 DEF Publish, Confirmed, Promise!Arrive
  <2>2. CASE Unconfirmed(PublishTries)
    BY <1>0, <1>3, <2>2 DEF Publish, Unconfirmed, Promise!Arrive
  <2> QED
    BY <1>3, <2>1, <2>2 DEF Publish
<1>4. CASE FallBack
  BY <1>0, <1>4 DEF FallBack, Promise!GiveUp
<1>5. CASE Post
  <2>1. CASE Confirmed(PostTries)
    BY <1>0, <1>5, <2>1 DEF Post, Confirmed, Promise!Arrive
  <2>2. CASE Unconfirmed(PostTries)
    BY <1>0, <1>5, <2>2 DEF Post, Unconfirmed, Promise!Arrive
  <2>3. CASE RefusedForGood
    BY <1>0, <1>5, <2>3 DEF Post, RefusedForGood, Promise!GiveUp
  <2>4. CASE ConfirmedByGet
    BY <1>0, <1>5, <2>4 DEF Post, ConfirmedByGet, Promise!Mistake
  <2> QED
    BY <1>5, <2>1, <2>2, <2>3, <2>4 DEF Post
<1>6. CASE BadURL
  BY <1>0, <1>6 DEF BadURL, Promise!GiveUp
<1>7. CASE UNCHANGED vars
  BY <1>7 DEF vars
<1> QED
  BY <1>1, <1>2, <1>3, <1>4, <1>5, <1>6, <1>7 DEF Next

(* Report implements Delivery: delivered is said only where a copy that    *)
(* arrived was confirmed or a redirect took the result out of the request, *)
(* and the verdict is final (Report, postHTTP).                            *)
THEOREM Refinement == Spec => RefinesDelivery
<1>1. Init => Promise!Init
  BY InitPromise
<1>2. IInv /\ IInv' /\ [Next]_vars =>
        [Promise!Next]_<<IF pc \in {"delivered", "failed"} THEN pc ELSE "open", copies, rewritten>>
  BY StepPromise
<1> QED
  BY <1>1, <1>2, Invariance, PTL DEF Spec, RefinesDelivery, Promise!Spec
-----------------------------------------------------------------------------
(* How much a call of Report can still do. *)

(* Steps left at most: two series of attempts, the move from one to the    *)
(* other, the choice of a route and the verdict.                           *)
StepsLeft ==
    CASE pc = "sealing" -> 2 * RetryAttempts + 3
      [] pc = "publish" -> 2 * RetryAttempts + 2 - attempt
      [] pc = "post" -> RetryAttempts + 1 - attempt
      [] OTHER -> 0

(* Only a report without verdict has steps left. *)
LEMMA StepsLeftTyped ==
    ASSUME TypeOK
    PROVE  /\ StepsLeft \in 0 .. 2 * RetryAttempts + 3
           /\ StepsLeft = 0 <=> pc \in {"delivered", "failed"}
BY AttemptsAssumption DEF TypeOK, StepsLeft

LEMMA StepsForward == IInv /\ IInv' /\ [Next]_vars => [StepsLeft' < StepsLeft]_vars
<1> SUFFICES ASSUME IInv, IInv', Next
             PROVE  StepsLeft' < StepsLeft
  OBVIOUS
<1> USE AttemptsAssumption DEF IInv, TypeOK, StepsLeft
<1>1. CASE SealFails \/ NoRoute \/ GiveUp
  BY <1>1 DEF SealFails, NoRoute, GiveUp, Goes
<1>2. CASE RouteHTTP \/ Divert \/ RouteChannel
  BY <1>2 DEF RouteHTTP, Divert, RouteChannel, Goes, AtSealing
<1>3. CASE Publish
  BY <1>3 DEF Publish, Confirmed, Unconfirmed
<1>4. CASE FallBack
  BY <1>4 DEF FallBack
<1>5. CASE Post
  <2>1. pc' \in {"post", "delivered", "failed"} /\ attempt' = attempt + 1 /\ pc = "post"
    BY <1>5 DEF Post, Confirmed, ConfirmedByGet, Unconfirmed, RefusedForGood
  <2> QED
    BY <2>1
<1>6. CASE BadURL
  BY <1>6 DEF BadURL
<1> QED
  BY <1>1, <1>2, <1>3, <1>4, <1>5, <1>6 DEF Next

(* No call of Report goes on for ever: each of its steps leaves fewer, and *)
(* only a verdict leaves none (the safety half of ReportEnds).             *)
THEOREM ReportRunsOut ==
    Spec => /\ [](StepsLeft = 0 <=> pc \in {"delivered", "failed"})
            /\ [](StepsLeft \in 0 .. 2 * RetryAttempts + 3)
            /\ [][StepsLeft' < StepsLeft]_vars
<1>1. IInv => /\ StepsLeft \in 0 .. 2 * RetryAttempts + 3
              /\ StepsLeft = 0 <=> pc \in {"delivered", "failed"}
  BY StepsLeftTyped DEF IInv
<1>2. IInv /\ IInv' /\ [Next]_vars => [StepsLeft' < StepsLeft]_vars
  BY StepsForward
<1> QED
  BY <1>1, <1>2, Invariance, PTL DEF Spec

(* An attempt at the channel leaves up to PublishTries copies, a post up   *)
(* to PostTries.                                                           *)
CopiesBounded == copies <= PublishTries * sent.channel + PostTries * sent.endpoint

LEMMA CopiesStep == IInv /\ CopiesBounded /\ [Next]_vars => CopiesBounded'
<1> SUFFICES ASSUME IInv, CopiesBounded, [Next]_vars PROVE CopiesBounded'
  OBVIOUS
<1> USE AttemptsAssumption DEF IInv, TypeOK, CopiesBounded
<1>1. CASE SealFails \/ NoRoute \/ RouteHTTP \/ Divert \/ RouteChannel \/ GiveUp \/ FallBack
             \/ BadURL \/ UNCHANGED vars
  BY <1>1 DEF SealFails, NoRoute, RouteHTTP, Divert, RouteChannel, GiveUp, FallBack, BadURL,
              Goes, vars
<1>2. /\ PublishTries * sent.channel \in Int
      /\ PublishTries * (sent.channel + 1) = PublishTries * sent.channel + PublishTries
  OBVIOUS
<1>3. /\ PostTries * sent.endpoint \in Int
      /\ PostTries * (sent.endpoint + 1) = PostTries * sent.endpoint + PostTries
  OBVIOUS
<1>4. CASE Publish
  <2>1. /\ sent'.channel = sent.channel + 1 /\ sent'.endpoint = sent.endpoint
        /\ copies' \in Int /\ copies' <= copies + PublishTries
    BY <1>4 DEF Publish, Confirmed, Unconfirmed
  <2> QED
    BY <1>2, <1>3, <2>1
<1>5. CASE Post
  <2>1. /\ sent'.endpoint = sent.endpoint + 1 /\ sent'.channel = sent.channel
        /\ copies' \in Int /\ copies' <= copies + PostTries
    BY <1>5 DEF Post, Confirmed, ConfirmedByGet, Unconfirmed, RefusedForGood
  <2> QED
    BY <1>2, <1>3, <2>1
<1> QED
  BY <1>1, <1>4, <1>5 DEF Next

(* However many answers are lost on the way back and however a post is     *)
(* redirected, the cloud has at most PublishTries copies of each publish   *)
(* and PostTries of each post to tell apart (publishChannel, postHTTP).    *)
THEOREM CopiesAreBounded ==
    Spec => [](copies <= RetryAttempts * (PublishTries + PostTries))
<1>1. Init => CopiesBounded
  BY AttemptsAssumption DEF Init, CopiesBounded
<1>2. IInv /\ CopiesBounded /\ [Next]_vars => CopiesBounded'
  BY CopiesStep
<1>3. IInv /\ CopiesBounded => copies <= RetryAttempts * (PublishTries + PostTries)
  <2> SUFFICES ASSUME IInv, CopiesBounded
               PROVE  copies <= RetryAttempts * (PublishTries + PostTries)
    OBVIOUS
  <2>1. /\ sent.channel \in Nat /\ sent.channel <= RetryAttempts
        /\ sent.endpoint \in Nat /\ sent.endpoint <= RetryAttempts /\ copies \in Nat
    BY AttemptsAssumption DEF IInv, TypeOK
  <2>2. /\ PublishTries * sent.channel <= PublishTries * RetryAttempts
        /\ PublishTries * sent.channel \in Int /\ PublishTries * RetryAttempts \in Int
    BY <2>1, AttemptsAssumption
  <2>3. /\ PostTries * sent.endpoint <= PostTries * RetryAttempts
        /\ PostTries * sent.endpoint \in Int /\ PostTries * RetryAttempts \in Int
    BY <2>1, AttemptsAssumption
  <2>4. RetryAttempts * (PublishTries + PostTries)
            = PublishTries * RetryAttempts + PostTries * RetryAttempts
    BY AttemptsAssumption
  <2> QED
    BY <2>1, <2>2, <2>3, <2>4, AttemptsAssumption DEF CopiesBounded
<1> QED
  BY <1>1, <1>2, <1>3, Invariance, PTL DEF Spec
=============================================================================
