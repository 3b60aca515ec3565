--------------------------- MODULE ExecutorProofs ---------------------------
(***************************************************************************)
(* Execute for every policy, resolver, redirect limit and body cap.        *)
(*                                                                         *)
(* The loop's variables say what the next request will be; the invariant   *)
(* relates them, at each place, to the chain recorded and to the requests  *)
(* that went out.                                                          *)
(***************************************************************************)
EXTENDS Executor, TLAPS, WellFoundedInduction

Exchange == [method : Methods, body : BOOLEAN, url : Host, address : Address,
             serverName : Host, host : Host]

Before == pc \in {"check", "resolve", "dial"}
After == pc \in {"exchange", "fill"}

(* A dial that has run out of addresses knows why. *)
ErrorKnown == pc = "dial" => ips # <<>> \/ lastErr # "none"

FillKnown ==
    pc = "fill" => /\ resp.status \in Statuses
                   /\ spec.follow /\ isRedirect(resp.status) =>
                         Len(res.chain) >= maxRedirects

(* One request has gone out for each recorded redirect, and one more while *)
(* its answer is looked at.                                                *)
Counted ==
    /\ Before => Len(sent) = Len(res.chain)
    /\ After => Len(sent) = Len(res.chain) + 1

(* What the next request will be, or the last one was. *)
AtHand ==
    /\ Before /\ Len(sent) > 0 => url = res.chain[Len(sent)].location
    /\ Before \/ After => /\ method = MethodAfter(Len(res.chain))
                          /\ body = BodyAfter(Len(res.chain))
    /\ After => LET last == sent[Len(sent)]
                IN  last.url = url /\ last.method = method /\ last.body = body

(* An exchange names its target as the specification says. *)
AsNamed(exchange) ==
    /\ spec.names.hostOverride # "" => exchange.host = spec.names.hostOverride
    /\ spec.names = ByUrl =>
          exchange.serverName = exchange.url /\ exchange.host = exchange.url

IInv ==
    /\ TypeOK /\ ErrorKnown /\ FillKnown
    /\ Counted /\ AtHand
    /\ EgressRespected /\ ChainFaithful /\ StopsWhereAsked /\ ResentAsSpecified
    /\ BodyWhole

-----------------------------------------------------------------------------
LEMMA RequestTyped ==
    ASSUME TypeOK, NEW address \in Address
    PROVE  Request(address) \in Exchange
BY NameAssumption DEF TypeOK, Request, Exchange, RequestSpec, firstNonEmpty

LEMMA SpecTyped ==
    ASSUME TypeOK
    PROVE  /\ spec.maxRedirects \in Int /\ spec.maxBody \in -MaxInt .. MaxInt
           /\ spec.method \in Methods /\ spec.body \in BOOLEAN
BY NumberAssumption DEF TypeOK, RequestSpec

(* The limits in force, whatever the specification leaves to the default.  *)
LEMMA LimitsInForce ==
    ASSUME TypeOK
    PROVE  /\ maxBody = IF spec.maxBody > 0 THEN spec.maxBody ELSE DefaultMaxBody
           /\ maxBody \in 1 .. MaxInt
           /\ maxRedirects \in Nat
           /\ maxRedirects = IF ~spec.follow THEN 0
                             ELSE IF spec.maxRedirects > 0 THEN spec.maxRedirects
                             ELSE DefaultMaxRedirects
BY SpecTyped, NumberAssumption DEF maxBody, maxRedirects

LEMMA InitInv == Init => IInv
<1> SUFFICES ASSUME Init PROVE IInv
  OBVIOUS
<1>1. /\ spec \in RequestSpec /\ policy \in Policies /\ pc = "check"
      /\ method = spec.method /\ body = spec.body /\ url = spec.url
      /\ ips = <<>> /\ lastErr = "none" /\ resp = NoResponse
      /\ res = Nothing /\ sent = <<>>
  BY DEF Init
<1>2. /\ res.chain = <<>> /\ res.status = "none" /\ res.error = "none"
      /\ Len(sent) = 0 /\ Len(res.chain) = 0 /\ DOMAIN sent = {} /\ DOMAIN res.chain = {}
  BY <1>1 DEF Nothing
<1>3. TypeOK
  <2>1. method \in Methods /\ body \in BOOLEAN /\ url \in Host
    BY <1>1 DEF RequestSpec
  <2>2. ips \in Seq(Address) /\ sent \in Seq(Exchange)
    BY <1>1
  <2>3. /\ res \in [status : Statuses \cup {"none"}, error : ErrKinds \cup {"none"},
                    chain : Seq(Hop), bytes : Nat, truncated : BOOLEAN]
        /\ resp \in [status : Statuses \cup {"none"}, length : 0 .. MaxLength]
    <3>1. <<>> \in Seq(Hop)
      OBVIOUS
    <3> QED
      BY <1>1, <3>1, NumberAssumption DEF Nothing, NoResponse
  <2> QED
    BY <1>1, <1>2, <2>1, <2>2, <2>3 DEF TypeOK, Exchange
<1>4. ErrorKnown /\ FillKnown /\ Counted /\ AtHand
  <2>1. MethodAfter(0) = spec.method /\ BodyAfter(0) = spec.body
    <3>1. spec.body \in BOOLEAN
      BY <1>1 DEF RequestSpec
    <3> QED
      BY <3>1 DEF MethodAfter, BodyAfter
  <2> QED
    BY <1>1, <1>2, <2>1 DEF ErrorKnown, FillKnown, Counted, AtHand, Before, After
<1>5. EgressRespected /\ ChainFaithful /\ ResentAsSpecified /\ BodyWhole
  BY <1>2 DEF EgressRespected, ChainFaithful, ResentAsSpecified, BodyWhole
<1>6. StopsWhereAsked
  <2>1. spec.maxRedirects \in Int
    BY <1>1, NumberAssumption DEF RequestSpec
  <2> QED
    BY <1>2, <2>1, NumberAssumption DEF StopsWhereAsked
<1> QED
  BY <1>3, <1>4, <1>5, <1>6 DEF IInv

(* What follows a redirect depends on the chain up to it alone. *)
LEMMA SameChainSameRequest ==
    ASSUME NEW n \in Nat, UNCHANGED spec,
           \A k \in 1 .. n : res'.chain[k] = res.chain[k]
    PROVE  MethodAfter(n)' = MethodAfter(n) /\ BodyAfter(n)' = BodyAfter(n)
<1>1. n > 0 => res'.chain[n] = res.chain[n]
  OBVIOUS
<1> QED
  BY <1>1 DEF MethodAfter, BodyAfter

(* What was sent and recorded decides whether it was sent as specified. *)
LEMMA SameRequests ==
    ASSUME ResentAsSpecified, sent \in Seq(Exchange), UNCHANGED <<spec, sent>>,
           \A k \in 1 .. Len(sent) - 1 : res'.chain[k] = res.chain[k]
    PROVE  ResentAsSpecified'
<1>1. ASSUME NEW i \in DOMAIN sent
      PROVE  /\ i - 1 \in Nat
             /\ MethodAfter(i - 1)' = MethodAfter(i - 1)
             /\ BodyAfter(i - 1)' = BodyAfter(i - 1)
  <2>1. i \in 1 .. Len(sent) /\ i - 1 \in Nat /\ Len(sent) \in Nat
    OBVIOUS
  <2>2. \A k \in 1 .. i - 1 : res'.chain[k] = res.chain[k]
    BY <2>1
  <2> QED
    BY <2>1, <2>2, SameChainSameRequest
<1> QED
  BY <1>1 DEF ResentAsSpecified

(* A call that ends with an error has done what it has done. *)
LEMMA FailKeeps ==
    ASSUME IInv, NEW kind \in ErrKinds, Fail(kind), pc # "done",
           UNCHANGED <<spec, policy, method, body, url, ips, lastErr, resp, sent>>
    PROVE  IInv'
<1> USE DEF IInv
<1>1. /\ pc' = "done" /\ res' = [res EXCEPT !.error = kind]
      /\ res'.chain = res.chain /\ res'.status = "none" /\ res.status = "none"
      /\ res'.error = kind
  BY DEF Fail, TypeOK
<1>2. TypeOK'
  BY <1>1 DEF TypeOK, ErrKinds
<1>3. ErrorKnown' /\ FillKnown' /\ Counted' /\ AtHand'
  BY <1>1 DEF ErrorKnown, FillKnown, Counted, AtHand, Before, After
<1>4. EgressRespected'
  BY DEF EgressRespected, Allowed
<1>5. ChainFaithful' /\ ResentAsSpecified' /\ BodyWhole'
  <2>1. ChainFaithful' /\ BodyWhole'
    BY <1>1 DEF ChainFaithful, BodyWhole
  <2>2. sent \in Seq(Exchange)
    BY DEF TypeOK, Exchange
  <2> QED
    BY <1>1, <2>1, <2>2, SameRequests
<1>6. StopsWhereAsked'
  BY <1>1 DEF StopsWhereAsked
<1> QED
  BY <1>2, <1>3, <1>4, <1>5, <1>6

(* Looking for a connection changes nothing of what was sent. *)
LEMMA SearchKeeps ==
    ASSUME IInv, Before, pc' \in {"check", "resolve", "dial"},
           ips' \in Seq(Address), lastErr' \in ErrKinds \cup {"none"}, ErrorKnown',
           UNCHANGED <<spec, policy, method, body, url, resp, res, sent>>
    PROVE  IInv'
<1> USE DEF IInv
<1>1. TypeOK'
  BY DEF TypeOK, Before
<1>2. FillKnown' /\ Counted' /\ AtHand'
  BY DEF FillKnown, Counted, AtHand, Before, After, MethodAfter, BodyAfter
<1>3. EgressRespected'
  BY DEF EgressRespected, Allowed
<1>4. ChainFaithful' /\ ResentAsSpecified' /\ BodyWhole' /\ StopsWhereAsked'
  BY DEF ChainFaithful, ResentAsSpecified, MethodAfter, BodyAfter, BodyWhole,
         StopsWhereAsked
<1> QED
  BY <1>1, <1>2, <1>3, <1>4

LEMMA ConnectKeeps ==
    ASSUME IInv, Connect
    PROVE  IInv'
<1> USE DEF IInv
<1> DEFINE address == Head(ips)
           n == Len(sent)
<1>1. /\ address \in Address /\ Allowed(address) /\ pc = "dial" /\ pc' = "exchange"
      /\ UNCHANGED <<spec, policy, method, body, url, ips, lastErr, resp, res>>
  BY DEF Connect, TypeOK
<1>2. /\ sent \in Seq(Exchange) /\ Request(address) \in Exchange
      /\ sent' = Append(sent, Request(address))
  BY <1>1, RequestTyped DEF Connect, TypeOK, Exchange
<1>3. /\ sent' \in Seq(Exchange) /\ n \in Nat /\ Len(sent') = n + 1
      /\ \A i \in 1 .. n : sent'[i] = sent[i]
      /\ sent'[n + 1] = Request(address)
      /\ DOMAIN sent = 1 .. n /\ DOMAIN sent' = 1 .. n + 1
  BY <1>2
<1>4. n = Len(res.chain) /\ res.chain \in Seq(Hop) /\ DOMAIN res.chain = 1 .. n
  BY <1>1 DEF Counted, Before, TypeOK
<1>5. TypeOK'
  BY <1>1, <1>3 DEF TypeOK, Exchange
<1>6. ErrorKnown' /\ FillKnown' /\ Counted'
  BY <1>1, <1>3, <1>4 DEF ErrorKnown, FillKnown, Counted, Before, After
<1>7. AtHand'
  BY <1>1, <1>3 DEF AtHand, Before, After, Request, MethodAfter, BodyAfter
<1>8. EgressRespected'
  BY <1>1, <1>3 DEF EgressRespected, Allowed, Request
<1>9. ChainFaithful'
  <2>1. n > 0 => url = res.chain[n].location
    BY <1>1, <1>3 DEF AtHand, Before
  <2>2. ASSUME NEW i \in 1 .. n
        PROVE  /\ res.chain[i].url = sent'[i].url
               /\ sent'[i + 1].url = res.chain[i].location
    <3>1. res.chain[i].url = sent[i].url /\ sent'[i] = sent[i]
      BY <1>3, <1>4 DEF ChainFaithful
    <3>2. CASE i = n
      <4>1. url = res.chain[n].location
        BY <1>3, <2>1, <3>2
      <4>2. Request(address).url = url
        BY DEF Request
      <4> QED
        BY <1>3, <3>1, <3>2, <4>1, <4>2
    <3>3. CASE i < n
      <4>1. i + 1 \in 1 .. n
        BY <3>3, <1>3
      <4>2. sent[i + 1].url = res.chain[i].location
        BY <1>3, <1>4, <3>3 DEF ChainFaithful
      <4> QED
        BY <1>3, <3>1, <4>1, <4>2
    <3>4. n \in Nat
      BY <1>3
    <3>5. i = n \/ i < n
      BY <3>4
    <3> QED
      BY <3>2, <3>3, <3>5
  <2> QED
    BY <1>1, <1>3, <1>4, <2>2 DEF ChainFaithful
<1>10. ResentAsSpecified'
  <2>1. method = MethodAfter(n) /\ body = BodyAfter(n)
    BY <1>1, <1>4 DEF AtHand, Before
  <2>2. AsNamed(Request(address))
    <3>1. ByUrl.sni = "" /\ ByUrl.hostOverride = "" /\ ByUrl.hostHeader = ""
      BY DEF ByUrl
    <3> QED
      BY <3>1 DEF Request, firstNonEmpty, AsNamed
  <2>3. ASSUME NEW i \in 1 .. n + 1
        PROVE  /\ sent'[i].method = MethodAfter(i - 1)
               /\ sent'[i].body = BodyAfter(i - 1)
               /\ AsNamed(sent'[i])
    <3>1. CASE i \in 1 .. n
      <4>1. sent'[i] = sent[i]
        BY <1>3, <3>1
      <4> QED
        BY <1>3, <3>1, <4>1 DEF ResentAsSpecified, AsNamed
    <3>2. CASE i = n + 1
      <4>1. sent'[i] = Request(address) /\ i - 1 = n
        BY <1>3, <3>2
      <4>2. Request(address).method = method /\ Request(address).body = body
        BY DEF Request
      <4> QED
        BY <2>1, <2>2, <4>1, <4>2
    <3> QED
      BY <1>3, <3>1, <3>2
  <2> QED
    BY <1>1, <1>3, <2>3 DEF ResentAsSpecified, AsNamed, MethodAfter, BodyAfter
<1>11. BodyWhole' /\ StopsWhereAsked'
  BY <1>1 DEF BodyWhole, StopsWhereAsked
<1> QED
  BY <1>5, <1>6, <1>7, <1>8, <1>9, <1>10, <1>11

LEMMA RedirectKeeps ==
    ASSUME IInv, Redirect
    PROVE  IInv'
<1> USE DEF IInv
<1> DEFINE n == Len(res.chain)
<1>1. PICK hop \in Hop :
          /\ isRedirect(hop.status) /\ hop.url = url
          /\ \/ /\ hop.location = "bad"
                /\ res' = [res EXCEPT !.chain = Append(@, hop), !.error = "http"]
                /\ pc' = "done" /\ UNCHANGED <<method, body, url>>
             \/ /\ hop.location \in Host
                /\ res' = [res EXCEPT !.chain = Append(@, hop)]
                /\ redirectMethod(hop.status)
                /\ url' = hop.location
                /\ pc' = "resolve"
  BY DEF Redirect
<1>2. /\ pc = "exchange" /\ spec.follow /\ n < maxRedirects
      /\ UNCHANGED <<spec, policy, ips, lastErr, resp, sent>>
  BY DEF Redirect
<1>3. /\ res.status = "none" /\ res.error = "none"
      /\ res.chain \in Seq(Hop) /\ n \in Nat /\ res'.chain = Append(res.chain, hop)
      /\ res'.status = "none"
  <2>1. /\ res.status = "none" /\ res.error = "none"
        /\ res \in [status : Statuses \cup {"none"}, error : ErrKinds \cup {"none"},
                   chain : Seq(Hop), bytes : Nat, truncated : BOOLEAN]
    BY <1>2 DEF TypeOK
  <2>2. res.chain \in Seq(Hop) /\ n \in Nat
    BY <2>1
  <2>3. res'.chain = Append(res.chain, hop) /\ res'.status = res.status
    BY <1>1, <2>1
  <2> QED
    BY <2>1, <2>2, <2>3
<1>4. /\ Len(res'.chain) = n + 1 /\ res'.chain \in Seq(Hop)
      /\ \A i \in 1 .. n : res'.chain[i] = res.chain[i]
      /\ res'.chain[n + 1] = hop
      /\ DOMAIN res.chain = 1 .. n /\ DOMAIN res'.chain = 1 .. n + 1
  BY <1>3
<1>5. /\ Len(sent) = n + 1 /\ DOMAIN sent = 1 .. n + 1
      /\ sent[n + 1].url = url /\ sent[n + 1].method = method /\ sent[n + 1].body = body
  BY <1>2, <1>3 DEF Counted, AtHand, After, TypeOK
<1>6. TypeOK'
  <2>1. method' \in Methods /\ body' \in BOOLEAN /\ url' \in Host
    BY <1>1 DEF TypeOK, redirectMethod, Rewrites, Methods, RequestSpec
  <2>2. /\ res' \in [status : Statuses \cup {"none"}, error : ErrKinds \cup {"none"},
                     chain : Seq(Hop), bytes : Nat, truncated : BOOLEAN]
        /\ pc' = "done" <=> (res'.status # "none" \/ res'.error # "none")
    BY <1>1, <1>3, <1>4 DEF TypeOK, ErrKinds
  <2> QED
    BY <1>1, <1>2, <1>3, <2>1, <2>2 DEF TypeOK
<1>7. ErrorKnown' /\ FillKnown' /\ Counted'
  BY <1>1, <1>2, <1>3, <1>4, <1>5 DEF ErrorKnown, FillKnown, Counted, Before, After
<1>8. AtHand'
  <2>1. CASE pc' = "done"
    BY <2>1 DEF AtHand, Before, After
  <2>2. CASE pc' = "resolve"
    <3>1. redirectMethod(hop.status) /\ url' = hop.location
      BY <1>1, <2>2
    <3>2. url' = res'.chain[Len(sent')].location
      BY <1>2, <1>4, <1>5, <3>1
    <3>3. method = MethodAfter(n) /\ body \in BOOLEAN /\ spec.body \in BOOLEAN
          /\ hop.status \in {"rewrite", "preserve"}
      BY <1>1, <1>2 DEF AtHand, After, TypeOK, RequestSpec, Hop, Statuses, isRedirect
    <3>4. method' = MethodAfter(Len(res.chain))'
      <4>1. (\A k \in 1 .. Len(res'.chain) : res'.chain[k].status = "preserve") <=>
            /\ hop.status = "preserve"
            /\ \A k \in 1 .. n : res.chain[k].status = "preserve"
        BY <1>3, <1>4
      <4>2. method' = IF hop.status = "rewrite" /\ method \notin {"GET", "HEAD"}
                      THEN "GET" ELSE method
        BY <3>1 DEF redirectMethod, Rewrites
      <4> QED
        BY <1>2, <3>3, <4>1, <4>2 DEF MethodAfter
    <3>5. body' = BodyAfter(Len(res.chain))'
      <4>1. body' = (hop.status = "preserve" /\ spec.body)
        BY <3>1 DEF redirectMethod
      <4>2. Len(res'.chain) > 0 /\ res'.chain[Len(res'.chain)].status = hop.status
        BY <1>3, <1>4
      <4> QED
        BY <1>2, <3>3, <4>1, <4>2 DEF BodyAfter
    <3> QED
      BY <1>4, <2>2, <3>2, <3>4, <3>5 DEF AtHand, Before, After
  <2> QED
    BY <1>1, <2>1, <2>2
<1>9. EgressRespected'
  BY <1>2 DEF EgressRespected, Allowed
<1>10. ChainFaithful'
  <2>1. ASSUME NEW i \in 1 .. n + 1
        PROVE  /\ res'.chain[i].url = sent[i].url
               /\ i < Len(sent) => sent[i + 1].url = res'.chain[i].location
    <3>1. CASE i = n + 1
      BY <1>1, <1>4, <1>5, <3>1
    <3>2. CASE i \in 1 .. n
      BY <1>4, <3>2 DEF ChainFaithful
    <3>3. i = n + 1 \/ i \in 1 .. n
      BY <1>3
    <3> QED
      BY <3>1, <3>2, <3>3
  <2> QED
    BY <1>2, <1>3, <1>4, <1>5, <2>1 DEF ChainFaithful
<1>11. ResentAsSpecified'
  <2>1. sent \in Seq(Exchange)
    BY DEF TypeOK, Exchange
  <2>2. \A k \in 1 .. Len(sent) - 1 : res'.chain[k] = res.chain[k]
    BY <1>3, <1>4, <1>5
  <2> QED
    BY <1>2, <2>1, <2>2, SameRequests
<1>12. BodyWhole'
  BY <1>3 DEF BodyWhole
<1>13. StopsWhereAsked'
  <2>1. n < IF spec.maxRedirects > 0 THEN spec.maxRedirects ELSE DefaultMaxRedirects
    BY <1>2, LimitsInForce
  <2>2. n + 1 <= IF spec.maxRedirects > 0 THEN spec.maxRedirects ELSE DefaultMaxRedirects
    BY <1>3, <2>1, SpecTyped, NumberAssumption
  <2> QED
    BY <1>2, <1>3, <1>4, <2>2 DEF StopsWhereAsked
<1> QED
  BY <1>6, <1>7, <1>8, <1>9, <1>10, <1>11, <1>12, <1>13

LEMMA TerminalKeeps ==
    ASSUME IInv, Terminal
    PROVE  IInv'
<1> USE DEF IInv
<1>1. /\ pc = "exchange" /\ pc' = "fill"
      /\ resp' \in [status : Statuses, length : 0 .. MaxLength]
      /\ ~(spec.follow /\ isRedirect(resp'.status) /\ Len(res.chain) < maxRedirects)
      /\ UNCHANGED <<spec, policy, method, body, url, ips, lastErr, res, sent>>
  BY DEF Terminal
<1>2. TypeOK'
  BY <1>1 DEF TypeOK
<1>3. res.chain \in Seq(Hop) /\ Len(res.chain) \in Nat /\ maxRedirects \in Nat
  <2>1. res.chain \in Seq(Hop)
    BY DEF TypeOK
  <2> QED
    BY <2>1, LimitsInForce
<1>4. ErrorKnown' /\ FillKnown' /\ Counted' /\ AtHand'
  BY <1>1, <1>3 DEF ErrorKnown, FillKnown, Counted, AtHand, Before, After, maxRedirects,
                    MethodAfter, BodyAfter
<1>5. EgressRespected'
  BY <1>1 DEF EgressRespected, Allowed
<1>6. res.status = "none"
  BY <1>1 DEF TypeOK
<1>7. ChainFaithful' /\ ResentAsSpecified' /\ BodyWhole' /\ StopsWhereAsked'
  BY <1>1, <1>6 DEF ChainFaithful, ResentAsSpecified, MethodAfter, BodyAfter, BodyWhole,
                    StopsWhereAsked
<1> QED
  BY <1>2, <1>4, <1>5, <1>7

LEMMA FillKeeps ==
    ASSUME IInv, Fill
    PROVE  IInv'
<1> USE DEF IInv
<1>1. /\ pc = "fill" /\ pc' = "done"
      /\ UNCHANGED <<spec, policy, method, body, url, ips, lastErr, resp, sent>>
      /\ res' = [res EXCEPT !.status = resp.status,
                    !.bytes = AtMost(AtMost(resp.length, ReadLimit), maxBody),
                    !.truncated = AtMost(resp.length, ReadLimit) > maxBody]
  BY DEF Fill
<1>2. /\ resp.status \in Statuses /\ resp.length \in Nat /\ res.error = "none"
      /\ spec.follow /\ isRedirect(resp.status) => Len(res.chain) >= maxRedirects
  BY <1>1, NumberAssumption DEF FillKnown, TypeOK
<1>3. /\ res'.status = resp.status /\ res'.error = "none" /\ res'.chain = res.chain
      /\ res'.bytes = AtMost(AtMost(resp.length, ReadLimit), maxBody)
      /\ res'.truncated = (AtMost(resp.length, ReadLimit) > maxBody)
  BY <1>1, <1>2 DEF TypeOK
<1>4. /\ maxBody = IF spec.maxBody > 0 THEN spec.maxBody ELSE DefaultMaxBody
      /\ maxBody \in 1 .. MaxInt
  BY LimitsInForce
<1>5. TypeOK'
  <2>1. res'.bytes \in Nat /\ res'.truncated \in BOOLEAN
    BY <1>2, <1>3, <1>4, NumberAssumption DEF AtMost, ReadLimit
  <2>2. res' \in [status : Statuses \cup {"none"}, error : ErrKinds \cup {"none"},
                  chain : Seq(Hop), bytes : Nat, truncated : BOOLEAN]
    BY <1>1, <1>2, <1>3, <2>1 DEF TypeOK
  <2> QED
    BY <1>1, <1>2, <1>3, <2>2 DEF TypeOK, Statuses
<1>6. ErrorKnown' /\ FillKnown' /\ Counted' /\ AtHand'
  BY <1>1 DEF ErrorKnown, FillKnown, Counted, AtHand, Before, After
<1>7. EgressRespected'
  BY <1>1 DEF EgressRespected, Allowed
<1>8. ChainFaithful'
  BY <1>1, <1>3 DEF ChainFaithful
<1>9. ResentAsSpecified'
  <2>1. sent \in Seq(Exchange)
    BY DEF TypeOK, Exchange
  <2> QED
    BY <1>1, <1>3, <2>1, SameRequests
<1>10. StopsWhereAsked'
  <2>1. res.chain \in Seq(Hop) /\ Len(res.chain) \in Nat
    BY DEF TypeOK
  <2> DEFINE limit == IF spec.maxRedirects > 0 THEN spec.maxRedirects
                      ELSE DefaultMaxRedirects
  <2>2. limit \in Nat /\ (spec.follow => maxRedirects = limit)
    BY SpecTyped, LimitsInForce, NumberAssumption
  <2>3. Len(res.chain) <= IF spec.follow THEN limit ELSE 0
    BY DEF StopsWhereAsked
  <2>4. spec.follow /\ resp.status \in {"rewrite", "preserve"} => Len(res.chain) = limit
    BY <1>2, <2>1, <2>2, <2>3 DEF isRedirect
  <2> QED
    BY <1>1, <1>3, <2>3, <2>4 DEF StopsWhereAsked
<1>11. BodyWhole'
  <2> DEFINE cap == IF spec.maxBody > 0 THEN spec.maxBody ELSE DefaultMaxBody
  <2>1. ASSUME cap < MaxInt
        PROVE  /\ res'.truncated <=> resp.length > cap
               /\ res'.bytes = IF resp.length > cap THEN cap ELSE resp.length
    <3>1. maxBody = cap /\ cap \in Nat /\ ReadLimit = cap + 1
      BY <1>4, <2>1, NumberAssumption DEF ReadLimit
    <3>2. AtMost(resp.length, ReadLimit) = IF resp.length <= cap + 1 THEN resp.length ELSE cap + 1
      BY <3>1 DEF AtMost
    <3>3. AtMost(AtMost(resp.length, ReadLimit), maxBody) =
              IF resp.length > cap THEN cap ELSE resp.length
      BY <1>2, <3>1, <3>2 DEF AtMost
    <3>4. AtMost(resp.length, ReadLimit) > cap <=> resp.length > cap
      BY <1>2, <3>1, <3>2
    <3> QED
      BY <1>3, <3>1, <3>3, <3>4
  <2> QED
    BY <1>1, <2>1 DEF BodyWhole
<1> QED
  BY <1>5, <1>6, <1>7, <1>8, <1>9, <1>10, <1>11

LEMMA StepInv == IInv /\ [Next]_vars => IInv'
<1> SUFFICES ASSUME IInv, [Next]_vars PROVE IInv'
  OBVIOUS
<1> USE DEF IInv
<1>1. CASE Check
  <2>1. CASE spec.valid /\ pc' = "resolve" /\ UNCHANGED res
    <3>1. /\ Before /\ ips' \in Seq(Address) /\ lastErr' \in ErrKinds \cup {"none"}
          /\ UNCHANGED <<spec, policy, method, body, url, resp, res, sent>>
      BY <1>1, <2>1 DEF Check, Before, TypeOK
    <3>2. ErrorKnown'
      BY <2>1 DEF ErrorKnown
    <3> QED
      BY <2>1, <3>1, <3>2, SearchKeeps
  <2>2. CASE Fail("invalid")
    BY <1>1, <2>2, FailKeeps DEF Check, ErrKinds
  <2> QED
    BY <1>1, <2>1, <2>2 DEF Check
<1>2. CASE NoExchange
  BY <1>2, FailKeeps DEF NoExchange, ErrKinds
<1>3. CASE Resolve
  <2>1. /\ ips' \in Seq(Address) \ {<<>>} /\ pc = "resolve" /\ pc' = "dial"
        /\ lastErr' = "none"
        /\ UNCHANGED <<spec, policy, method, body, url, resp, res, sent>>
    BY <1>3, AddressAssumption DEF Resolve
  <2>2. ErrorKnown' /\ Before
    BY <2>1 DEF ErrorKnown, Before
  <2> QED
    BY <2>1, <2>2, SearchKeeps DEF ErrKinds
<1>4. CASE Refused \/ DialFails
  <2>1. /\ pc = "dial" /\ pc' = "dial" /\ ips # <<>> /\ ips' = Tail(ips)
        /\ lastErr' \in ErrKinds
        /\ UNCHANGED <<spec, policy, method, body, url, resp, res, sent>>
    BY <1>4 DEF Refused, DialFails, ErrKinds
  <2>2. ips' \in Seq(Address)
    BY <2>1 DEF TypeOK
  <2>3. ErrorKnown' /\ Before
    BY <2>1 DEF ErrorKnown, Before, ErrKinds
  <2> QED
    BY <2>1, <2>2, <2>3, SearchKeeps
<1>5. CASE NoAddressLeft
  <2>1. lastErr \in ErrKinds /\ pc # "done"
    BY <1>5 DEF NoAddressLeft, ErrorKnown, TypeOK
  <2> QED
    BY <1>5, <2>1, FailKeeps DEF NoAddressLeft
<1>6. CASE ExchangeFails
  BY <1>6, FailKeeps DEF ExchangeFails, ErrKinds
<1>7. CASE Deadline
  BY <1>7, FailKeeps DEF Deadline, ErrKinds
<1>8. CASE UNCHANGED vars
  <2>1. TypeOK' /\ ErrorKnown' /\ FillKnown' /\ Counted' /\ AtHand'
    BY <1>8 DEF vars, TypeOK, ErrorKnown, FillKnown, Counted, AtHand, Before, After,
                maxRedirects, MethodAfter, BodyAfter
  <2>2. EgressRespected' /\ ChainFaithful' /\ StopsWhereAsked'
    BY <1>8 DEF vars, EgressRespected, Allowed, ChainFaithful, StopsWhereAsked
  <2>3. ResentAsSpecified' /\ BodyWhole'
    BY <1>8 DEF vars, ResentAsSpecified, MethodAfter, BodyAfter, BodyWhole
  <2> QED
    BY <2>1, <2>2, <2>3
<1> QED
  BY <1>1, <1>2, <1>3, <1>4, <1>5, <1>6, <1>7, <1>8, ConnectKeeps, RedirectKeeps,
     TerminalKeeps, FillKeeps DEF Next

(* The strengthening holds in every state of the specification. *)
THEOREM Invariance == Spec => []IInv
<1>1. Init => IInv
  BY InitInv
<1>2. IInv /\ [Next]_vars => IInv'
  BY StepInv
<1> QED
  BY <1>1, <1>2, PTL DEF Spec
-----------------------------------------------------------------------------
(* Every variable of a call holds a value of its kind, and a result has a  *)
(* status or an error, never both (Execute's returns).                     *)
THEOREM TypeCorrect == Spec => []TypeOK
<1>1. IInv => TypeOK
  BY DEF IInv
<1> QED
  BY <1>1, Invariance, PTL

(* No exchange of a call goes to an address its policy refuses, whatever   *)
(* the name servers answer at each hop (guardedDial).                      *)
THEOREM EgressIsRespected == Spec => []EgressRespected
<1>1. IInv => EgressRespected
  BY DEF IInv
<1> QED
  BY <1>1, Invariance, PTL

(* The chain a result carries is the redirects that were met, in order,    *)
(* and the requests that were sent are those it leads to (Execute).        *)
THEOREM ChainIsFaithful == Spec => []ChainFaithful
<1>1. IInv => ChainFaithful
  BY DEF IInv
<1> QED
  BY <1>1, Invariance, PTL

(* Redirects are followed up to the limit in force, and a redirect is the  *)
(* final answer only there (Execute).                                      *)
THEOREM StopsAtTheLimit == Spec => []StopsWhereAsked
<1>1. IInv => StopsWhereAsked
  BY DEF IInv
<1> QED
  BY <1>1, Invariance, PTL

(* Over any chain of redirects the method, the body and the names of every *)
(* request are those the specification and the redirects before it leave;  *)
(* nothing is left open, a 307 after a 303 included (redirectMethod,       *)
(* buildClient).                                                           *)
THEOREM ResentFaithfully == Spec => []ResentAsSpecified
<1>1. IInv => ResentAsSpecified
  BY DEF IInv
<1> QED
  BY <1>1, Invariance, PTL

(* A body is cut at its cap, and marked so exactly when more arrived, for  *)
(* every cap and every length (fill).                                      *)
THEOREM BodyIsWhole == Spec => []BodyWhole
<1>1. IInv => BodyWhole
  BY DEF IInv
<1> QED
  BY <1>1, Invariance, PTL
-----------------------------------------------------------------------------
(* How much a call of Execute can still do.  No number of steps bounds it, *)
(* for a name may resolve to any number of addresses at each redirect; but *)
(* every step leaves fewer places of the loop to pass, or the same place   *)
(* with one address fewer to try.                                          *)
StageLeft ==
    CASE pc = "check" -> 5 [] pc = "resolve" -> 4 [] pc = "dial" -> 3
      [] pc = "exchange" -> 2 [] pc = "fill" -> 1 [] OTHER -> 0
PlacesLeft == 6 * (maxRedirects - Len(res.chain)) + StageLeft
Left == <<PlacesLeft, Len(ips)>>

Below == {p \in Nat \X Nat : p[1] < p[2]}
Descent == LexPairOrdering(Below, Below, Nat, Nat)
Descends == <<Left', Left>> \in Descent

LEMMA DescentWellFounded == IsWellFoundedOn(Descent, Nat \X Nat)
<1>1. OpToRel(<, Nat) = Below
  BY Zenon DEF OpToRel, Below
<1>2. IsWellFoundedOn(Below, Nat)
  BY <1>1, NatLessThanWellFounded, Zenon
<1> QED
  BY <1>2, WFLexPairOrdering, Zenon DEF Descent

LEMMA DescentUnfolded ==
    ASSUME NEW a \in Nat, NEW b \in Nat, NEW c \in Nat, NEW d \in Nat,
           a < c \/ (a = c /\ b < d)
    PROVE  <<<<a, b>>, <<c, d>>>> \in Descent
BY DEF Descent, Below, LexPairOrdering

LeftIsNatural ==
    /\ Left \in Nat \X Nat /\ PlacesLeft \in Nat /\ Len(ips) \in Nat
    /\ maxRedirects \in Nat /\ Len(res.chain) \in 0 .. maxRedirects

LEMMA LeftTyped == IInv => LeftIsNatural
<1> SUFFICES ASSUME IInv PROVE LeftIsNatural
  OBVIOUS
<1>1. res.chain \in Seq(Hop) /\ Len(res.chain) \in Nat /\ Len(ips) \in Nat
  BY DEF IInv, TypeOK
<1>2. maxRedirects \in Nat /\ Len(res.chain) <= maxRedirects
  BY LimitsInForce DEF IInv, StopsWhereAsked
<1>3. StageLeft \in Nat
  BY DEF StageLeft
<1> QED
  BY <1>1, <1>2, <1>3 DEF LeftIsNatural, Left, PlacesLeft

LEMMA StepDescends ==
    ASSUME LeftIsNatural, LeftIsNatural', IInv, Next
    PROVE  Descends
<1>1. maxRedirects' = maxRedirects
  BY DEF Next, Check, NoExchange, Resolve, Refused, DialFails, Connect, NoAddressLeft,
         ExchangeFails, Deadline, Redirect, Terminal, Fill, maxRedirects
<1>2. /\ PlacesLeft \in Nat /\ PlacesLeft' \in Nat /\ Len(ips) \in Nat /\ Len(ips') \in Nat
      /\ maxRedirects \in Nat /\ Len(res.chain) \in Nat /\ Len(res'.chain) \in Nat
      /\ PlacesLeft = 6 * (maxRedirects - Len(res.chain)) + StageLeft
      /\ PlacesLeft' = 6 * (maxRedirects - Len(res'.chain)) + StageLeft'
  BY <1>1 DEF LeftIsNatural, PlacesLeft
<1>3. CASE Check \/ NoExchange \/ Resolve \/ Connect \/ NoAddressLeft \/ ExchangeFails
             \/ Deadline \/ Terminal \/ Fill
  <2>1. /\ res'.chain = res.chain
        /\ \/ pc = "check" /\ pc' \in {"resolve", "done"}
           \/ pc = "resolve" /\ pc' \in {"dial", "done"}
           \/ pc = "dial" /\ pc' \in {"exchange", "done"}
           \/ pc = "exchange" /\ pc' \in {"fill", "done"}
           \/ pc = "fill" /\ pc' = "done"
    BY <1>3 DEF Check, NoExchange, Resolve, Connect, NoAddressLeft, ExchangeFails, Deadline,
           Terminal, Fill, Fail, IInv, TypeOK
  <2>2. StageLeft \in Nat /\ StageLeft' \in Nat /\ StageLeft' < StageLeft
    BY <2>1 DEF StageLeft
  <2>3. PlacesLeft' < PlacesLeft
    BY <1>2, <2>1, <2>2
  <2> QED
    BY <1>2, <2>3, DescentUnfolded DEF Descends, Left
<1>4. CASE Refused \/ DialFails
  <2>1. UNCHANGED <<pc, res>> /\ ips # <<>> /\ ips' = Tail(ips) /\ ips \in Seq(Address)
    BY <1>4 DEF Refused, DialFails, IInv, TypeOK
  <2>2. PlacesLeft' = PlacesLeft /\ Len(ips') < Len(ips)
    BY <1>2, <2>1 DEF StageLeft
  <2> QED
    BY <1>2, <2>2, DescentUnfolded DEF Descends, Left
<1>5. CASE Redirect
  <2>1. StageLeft = 2 /\ StageLeft' \in {0, 4}
    BY <1>5 DEF Redirect, StageLeft
  <2>2. Len(res'.chain) = Len(res.chain) + 1
    <3>1. PICK hop \in Hop : res'.chain = Append(res.chain, hop)
      BY <1>5 DEF Redirect, IInv, TypeOK
    <3> QED
      BY <3>1 DEF IInv, TypeOK
  <2>3. PlacesLeft' < PlacesLeft
    BY <1>2, <2>1, <2>2
  <2> QED
    BY <1>2, <2>3, DescentUnfolded DEF Descends, Left
<1> QED
  BY <1>3, <1>4, <1>5 DEF Next

(* No call of Execute goes on for ever, whatever targets and resolvers     *)
(* answer: each of its steps goes down in a well-founded order (the safety *)
(* half of ExecutionEnds).                                                 *)
THEOREM ExecutionRunsOut ==
    /\ IsWellFoundedOn(Descent, Nat \X Nat)
    /\ Spec => [](Left \in Nat \X Nat) /\ [][Descends]_vars
<1>1. LeftIsNatural => Left \in Nat \X Nat
  BY DEF LeftIsNatural
<1>2. LeftIsNatural /\ LeftIsNatural' /\ IInv /\ [Next]_vars => [Descends]_vars
  BY StepDescends
<1>3. Spec => [](Left \in Nat \X Nat) /\ [][Descends]_vars
  BY <1>1, <1>2, LeftTyped, Invariance, PTL DEF Spec
<1> QED
  BY <1>3, DescentWellFounded

(* A call sends one request and one more for each redirect it may follow,  *)
(* however many addresses it has dialled for them.                         *)
THEOREM ExchangesBounded == Spec => [](Len(sent) <= maxRedirects + 1)
<1>1. IInv => Len(sent) <= maxRedirects + 1
  <2> SUFFICES ASSUME IInv PROVE Len(sent) <= maxRedirects + 1
    OBVIOUS
  <2>1. Len(sent) \in {Len(res.chain), Len(res.chain) + 1}
    BY DEF IInv, ChainFaithful
  <2> QED
    BY <2>1, LeftTyped DEF LeftIsNatural
<1> QED
  BY <1>1, Invariance, PTL
=============================================================================
