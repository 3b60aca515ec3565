------------------------------ MODULE Executor ------------------------------
(***************************************************************************)
(* One call of Execute in internal/executor: the request specification is  *)
(* checked, each exchange resolves its host and dials the addresses the    *)
(* egress policy lets through, redirects are followed by hand and recorded,*)
(* and the last response is read up to a cap.  Name servers, targets and   *)
(* the network answer as they like; a name may resolve anew at every hop.  *)
(***************************************************************************)
EXTENDS Integers, Sequences

CONSTANTS
    Host,               \* the hosts that requests and redirects name
    Address,            \* the IP addresses a host may resolve to
    AlwaysBlocked,      \* those in the ranges no configuration opens
    Private,            \* those isPrivate says yes to
    Policies,           \* the egress policies considered
    Answers,            \* the address lists a resolver gives
    Names,              \* how requests name their target: SNI, override, header
    RedirectLimits,     \* values of maxRedirects
    DefaultMaxRedirects,
    BodyCaps,           \* values of maxBodyBytes
    DefaultMaxBody,     \* limits.maxBodyBytes
    MaxInt,             \* the greatest int64
    MaxLength           \* bound on the length of a body

ASSUME AddressAssumption ==
    /\ AlwaysBlocked \subseteq Address /\ Private \subseteq Address
    /\ Answers \subseteq Seq(Address) \ {<<>>}
    /\ Policies \subseteq [allowPrivate : BOOLEAN, allow : SUBSET Address,
                           block : SUBSET Address]
ASSUME NameAssumption ==
    /\ "" \notin Host
    /\ Names \subseteq [sni : Host \cup {""}, hostOverride : Host \cup {""},
                        hostHeader : Host \cup {""}]
ASSUME NumberAssumption ==
    /\ RedirectLimits \subseteq Int /\ DefaultMaxRedirects \in Nat \ {0}
    /\ MaxInt \in Nat /\ MaxLength \in Nat
    /\ BodyCaps \subseteq -MaxInt .. MaxInt /\ DefaultMaxBody \in 1 .. MaxInt

VARIABLES
    spec, policy,   \* the request and the policy, fixed
    pc,             \* "check", "resolve", "dial", "exchange", "fill", "done"
    method, body, url,  \* of the exchange at hand: method, curBody, curURL
    ips, lastErr,   \* addresses still to try, and why the last one failed
    resp,           \* the terminal response, while it is read
    res,            \* the ResponseResult
    sent            \* history: the requests that went out, with the address

vars == <<spec, policy, pc, method, body, url, ips, lastErr, resp, res, sent>>

Methods == {"GET", "HEAD", "POST"}
RequestSpec == [valid : BOOLEAN, follow : BOOLEAN, maxRedirects : RedirectLimits,
                method : Methods, body : BOOLEAN, url : Host, names : Names,
                maxBody : BodyCaps]
ByUrl == [sni |-> "", hostOverride |-> "", hostHeader |-> ""]
ErrKinds == {"blocked", "dns", "tls", "timeout", "connect", "http", "invalid"}

(* 301, 302 and 303 are alike, and so are 307 and 308. *)
Statuses == {"final", "rewrite", "preserve"}
isRedirect(status) == status # "final"

Hop == [status : Statuses, url : Host, location : Host \cup {"bad"}]
Nothing == [status |-> "none", error |-> "none", chain |-> <<>>, bytes |-> 0,
            truncated |-> FALSE]
NoResponse == [status |-> "none", length |-> 0]

(* A limit whose default is forgotten. *)
maxRedirectsPlain == IF spec.follow THEN spec.maxRedirects ELSE 0

maxRedirects ==
    IF ~spec.follow THEN 0
    ELSE IF spec.maxRedirects <= 0 THEN DefaultMaxRedirects ELSE spec.maxRedirects

maxBody == IF spec.maxBody <= 0 THEN DefaultMaxBody ELSE spec.maxBody

Init ==
    /\ spec \in RequestSpec /\ policy \in Policies
    /\ pc = "check"
    /\ method = spec.method /\ body = spec.body /\ url = spec.url
    /\ ips = <<>> /\ lastErr = "none" /\ resp = NoResponse /\ res = Nothing
    /\ sent = <<>>
-----------------------------------------------------------------------------
(* The result so far is returned with an error. *)
Fail(kind) ==
    /\ pc' = "done"
    /\ res' = [res EXCEPT !.error = kind]

(* buildURL and decodeBody. *)
Check ==
    /\ pc = "check"
    /\ \/ spec.valid /\ pc' = "resolve" /\ UNCHANGED res
       \/ ~spec.valid /\ Fail("invalid")
    /\ UNCHANGED <<spec, policy, method, body, url, ips, lastErr, resp, sent>>

(* The exchange ends before it dials: the library refuses the request, or  *)
(* the name does not resolve.                                              *)
NoExchange ==
    /\ pc = "resolve"
    /\ Fail("http") \/ Fail("dns")
    /\ UNCHANGED <<spec, policy, method, body, url, ips, lastErr, resp, sent>>

Resolve ==
    /\ pc = "resolve"
    /\ ips' \in Answers
    /\ pc' = "dial" /\ lastErr' = "none"
    /\ UNCHANGED <<spec, policy, method, body, url, resp, res, sent>>

(* EgressPolicy.Allowed. *)
Allowed(a) ==
    /\ a \notin AlwaysBlocked /\ a \notin policy.block
    /\ a \in policy.allow \/ policy.allowPrivate \/ a \notin Private

Refused ==
    /\ pc = "dial" /\ ips # <<>> /\ ~Allowed(Head(ips))
    /\ ips' = Tail(ips) /\ lastErr' = "blocked"
    /\ UNCHANGED <<spec, policy, pc, method, body, url, resp, res, sent>>

(* A dialer that puts an address it could not reach back into the list. *)
DialFailsAgain ==
    /\ pc = "dial" /\ ips # <<>> /\ Allowed(Head(ips))
    /\ ips' = Append(Tail(ips), Head(ips)) /\ lastErr' \in {"connect", "timeout"}
    /\ UNCHANGED <<spec, policy, pc, method, body, url, resp, res, sent>>

DialFails ==
    /\ pc = "dial" /\ ips # <<>> /\ Allowed(Head(ips))
    /\ ips' = Tail(ips) /\ lastErr' \in {"connect", "timeout"}
    /\ UNCHANGED <<spec, policy, pc, method, body, url, resp, res, sent>>

firstNonEmpty(a, b, c) == IF a # "" THEN a ELSE IF b # "" THEN b ELSE c

(* The exchange at hand as the target sees it.  buildClient and            *)
(* applyHeaders run anew for each, with the same specification.            *)
Request(address) ==
    [method |-> method, body |-> body, url |-> url, address |-> address,
     serverName |-> firstNonEmpty(spec.names.sni, spec.names.hostOverride, url),
     host |-> firstNonEmpty(spec.names.hostOverride, spec.names.hostHeader, url)]

(* A dialer that asks the policy for the first exchange only. *)
ConnectTrusting ==
    /\ pc = "dial" /\ ips # <<>> /\ (Allowed(Head(ips)) \/ sent # <<>>)
    /\ sent' = Append(sent, Request(Head(ips)))
    /\ pc' = "exchange"
    /\ UNCHANGED <<spec, policy, method, body, url, ips, lastErr, resp, res>>

(* The connection is there and carries the request. *)
Connect ==
    /\ pc = "dial" /\ ips # <<>> /\ Allowed(Head(ips))
    /\ sent' = Append(sent, Request(Head(ips)))
    /\ pc' = "exchange"
    /\ UNCHANGED <<spec, policy, method, body, url, ips, lastErr, resp, res>>

(* No address is left: the error is that of the last one. *)
NoAddressLeft ==
    /\ pc = "dial" /\ ips = <<>>
    /\ Fail(lastErr)
    /\ UNCHANGED <<spec, policy, method, body, url, ips, lastErr, resp, sent>>

(* The handshake or the exchange fails. *)
ExchangeFails ==
    /\ pc = "exchange"
    /\ \E kind \in {"tls", "timeout", "connect", "http"} : Fail(kind)
    /\ UNCHANGED <<spec, policy, method, body, url, ips, lastErr, resp, sent>>

(* The total deadline passes. *)
Deadline ==
    /\ pc \in {"resolve", "dial", "exchange"}
    /\ Fail("timeout")
    /\ UNCHANGED <<spec, policy, method, body, url, ips, lastErr, resp, sent>>

Rewrites(status) == status = "rewrite" /\ method \notin {"GET", "HEAD"}

(* A redirect that never offers the body again. *)
redirectMethodBare(status) ==
    /\ method' = IF Rewrites(status) THEN "GET" ELSE method
    /\ body' = FALSE

(* Method and body of the next exchange.  The body offered is the one of   *)
(* the specification at every hop, whatever an earlier hop made of it.     *)
redirectMethod(status) ==
    /\ method' = IF Rewrites(status) THEN "GET" ELSE method
    /\ body' = (status = "preserve" /\ spec.body)

(* A redirect that is recorded with the address it leads to. *)
RedirectLate ==
    /\ pc = "exchange"
    /\ spec.follow /\ Len(res.chain) < maxRedirects
    /\ \E hop \in Hop :
          /\ isRedirect(hop.status) /\ hop.url = hop.location
          /\ res' = [res EXCEPT !.chain = Append(@, hop)]
          /\ redirectMethod(hop.status)
          /\ url' = hop.location
          /\ pc' = "resolve"
    /\ UNCHANGED <<spec, policy, ips, lastErr, resp, sent>>

(* A redirect the specification asks to follow. *)
Redirect ==
    /\ pc = "exchange"
    /\ spec.follow /\ Len(res.chain) < maxRedirects
    /\ \E hop \in Hop :
          /\ isRedirect(hop.status) /\ hop.url = url
          /\ \/ /\ hop.location = "bad"
                /\ res' = [res EXCEPT !.chain = Append(@, hop), !.error = "http"]
                /\ pc' = "done" /\ UNCHANGED <<method, body, url>>
             \/ /\ hop.location \in Host
                /\ res' = [res EXCEPT !.chain = Append(@, hop)]
                /\ redirectMethod(hop.status)
                /\ url' = hop.location
                /\ pc' = "resolve"
    /\ UNCHANGED <<spec, policy, ips, lastErr, resp, sent>>

(* Any other response is the last one.  Its length is what arrives before  *)
(* the body ends or breaks off.                                            *)
Terminal ==
    /\ pc = "exchange"
    /\ resp' \in [status : Statuses, length : 0 .. MaxLength]
    /\ ~(spec.follow /\ isRedirect(resp'.status) /\ Len(res.chain) < maxRedirects)
    /\ pc' = "fill"
    /\ UNCHANGED <<spec, policy, method, body, url, ips, lastErr, res, sent>>

(* A read limit without the byte that tells a longer body. *)
ReadLimitShort == maxBody

(* maxBody+1 bytes at most are read, in 64 bits: past MaxInt the limit is  *)
(* negative and nothing is read.                                           *)
ReadLimit == IF maxBody = MaxInt THEN 0 ELSE maxBody + 1

AtMost(n, limit) == IF n <= limit THEN n ELSE limit

(* A result that keeps its status beside the error of the body. *)
FillWithError ==
    /\ pc = "fill"
    /\ \E error \in {"none", "timeout"} :
          res' = [res EXCEPT !.status = resp.status, !.error = error]
    /\ pc' = "done"
    /\ UNCHANGED <<spec, policy, method, body, url, ips, lastErr, resp, sent>>

(* The body is read to its end, the limit or an error, which is dropped.   *)
Fill ==
    /\ pc = "fill"
    /\ res' = [res EXCEPT
                  !.status = resp.status,
                  !.bytes = AtMost(AtMost(resp.length, ReadLimit), maxBody),
                  !.truncated = AtMost(resp.length, ReadLimit) > maxBody]
    /\ pc' = "done"
    /\ UNCHANGED <<spec, policy, method, body, url, ips, lastErr, resp, sent>>

Next ==
    \/ Check
    \/ NoExchange \/ Resolve
    \/ Refused \/ DialFails \/ Connect \/ NoAddressLeft
    \/ ExchangeFails \/ Deadline \/ Redirect \/ Terminal
    \/ Fill

Spec == Init /\ [][Next]_vars

(* Every step is bounded by one of the timeouts of the code. *)
FairSpec == Spec /\ WF_vars(Next)
-----------------------------------------------------------------------------
(* Every variable holds a value of its kind; a result is finished with a   *)
(* status or an error, never both.                                         *)
TypeOK ==
    /\ spec \in RequestSpec /\ policy \in Policies
    /\ pc \in {"check", "resolve", "dial", "exchange", "fill", "done"}
    /\ method \in Methods /\ body \in BOOLEAN /\ url \in Host
    /\ ips \in Seq(Address) /\ lastErr \in ErrKinds \cup {"none"}
    /\ resp \in [status : Statuses \cup {"none"}, length : 0 .. MaxLength]
    /\ res \in [status : Statuses \cup {"none"}, error : ErrKinds \cup {"none"},
                chain : Seq(Hop), bytes : Nat, truncated : BOOLEAN]
    /\ sent \in Seq([method : Methods, body : BOOLEAN, url : Host,
                     address : Address, serverName : Host, host : Host])
    /\ pc = "done" <=> (res.status # "none" \/ res.error # "none")
    /\ res.status = "none" \/ res.error = "none"

(* Wherever redirects lead and whatever a name resolves to, no request goes *)
(* to an address the policy refuses (guardedDial, on every exchange).      *)
EgressRespected == \A i \in DOMAIN sent : Allowed(sent[i].address)

(* "The full chain is captured": the chain names the requests that were    *)
(* sent, in order, each redirect leading to the next one, and only the     *)
(* last exchange is not in it (Execute).                                   *)
ChainFaithful ==
    /\ Len(sent) \in {Len(res.chain), Len(res.chain) + 1}
    /\ \A i \in DOMAIN res.chain :
          /\ res.chain[i].url = sent[i].url
          /\ i < Len(sent) => sent[i + 1].url = res.chain[i].location

(* "After 3 hops we stop and report the last 302": redirects are followed  *)
(* up to the limit, or its default, and a redirect is the final answer     *)
(* only there (Execute).                                                   *)
StopsWhereAsked ==
    LET limit == IF spec.maxRedirects > 0 THEN spec.maxRedirects
                                          ELSE DefaultMaxRedirects
    IN  /\ Len(res.chain) <= IF spec.follow THEN limit ELSE 0
        /\ spec.follow /\ res.status \in {"rewrite", "preserve"} =>
              Len(res.chain) = limit

(* What the redirects so far make of the specification's method and body:  *)
(* a method that carries a body is GET from the first 301, 302 or 303 on;  *)
(* the body goes with the first request and with any that follows a 307 or *)
(* 308, also when a redirect before that had dropped it.                   *)
MethodAfter(n) ==
    IF \/ \A k \in 1 .. n : res.chain[k].status = "preserve"
       \/ spec.method \in {"GET", "HEAD"}
    THEN spec.method ELSE "GET"
BodyAfter(n) == spec.body /\ (n > 0 => res.chain[n].status = "preserve")

(* "307/308 preserve method and body; 301/302/303 turn a body-bearing      *)
(* method into GET": over any chain of redirects, method and body of every *)
(* request are those the redirects before it leave.  A host the            *)
(* specification gives stands wherever redirects lead; when it names none, *)
(* each exchange goes by the host of its own URL (redirectMethod,          *)
(* buildClient, applyHeaders).                                             *)
ResentAsSpecified ==
    \A i \in DOMAIN sent :
        /\ sent[i].method = MethodAfter(i - 1) /\ sent[i].body = BodyAfter(i - 1)
        /\ spec.names.hostOverride # "" => sent[i].host = spec.names.hostOverride
        /\ spec.names = ByUrl =>
              sent[i].serverName = sent[i].url /\ sent[i].host = sent[i].url

(* A body is captured up to the cap and marked truncated exactly when more *)
(* of it arrived (fill); caps whose successor is no int64 are left out.    *)
BodyWhole ==
    LET cap == IF spec.maxBody > 0 THEN spec.maxBody ELSE DefaultMaxBody
    IN  res.status # "none" /\ cap < MaxInt =>
            /\ res.truncated <=> resp.length > cap
            /\ res.bytes = IF resp.length > cap THEN cap ELSE resp.length

(* Execute returns (its loop ends with the redirects and the addresses).   *)
ExecutionEnds == <>(pc = "done")
=============================================================================
