----------------------------- MODULE MCExecutor -----------------------------
(***************************************************************************)
(* Instance of Executor for TLC: a public, a private and a metadata        *)
(* address, the default policy and one that opens what it can but blocks   *)
(* the public address, and a default of two redirects.                     *)
(***************************************************************************)
EXTENDS Executor

CONSTANTS public, private, meta, h1, h2

DefaultPolicy == [allowPrivate |-> FALSE, allow |-> {}, block |-> {}]
AllowListed == [allowPrivate |-> FALSE, allow |-> {private, meta}, block |-> {public}]
SomePolicies == {DefaultPolicy, AllowListed}

SomeAnswers == {<<public>>, <<meta, private>>, <<private, public>>}

SomeNames == {ByUrl, [ByUrl EXCEPT !.hostOverride = h2, !.hostHeader = h1]}

SomeLimits == {0, 1}
SomeCaps == {0, 1, 4}
=============================================================================
