---------------------------- MODULE UpdatePolicy ----------------------------
(***************************************************************************)
(* ShouldUpdate of internal/update/manifest.go: whether a release replaces *)
(* the worker that is installed.  Versions are what the manifest and       *)
(* --version say; Number holds the three numbers of those parseSemver      *)
(* accepts, which are the same for a release and its pre-releases.         *)
(***************************************************************************)
EXTENDS Integers

CONSTANTS
    Version,        \* version strings, of releases and of binaries
    Number          \* the numbers of those that parse

ASSUME NumberAssumption ==
    /\ DOMAIN Number \subseteq Version
    /\ \A v \in DOMAIN Number : Number[v] \in Nat \X Nat \X Nat
    /\ {"", "dev", "unknown"} \cap DOMAIN Number = {}

Parses(v) == v \in DOMAIN Number

(* The first number that differs decides. *)
Precedes(m, n) == \E i \in 1 .. 3 : m[i] < n[i] /\ \A k \in 1 .. i - 1 : m[k] = n[k]

(* A comparison by inequality throughout. *)
isNewerAny(a, b) == a # b /\ a \notin {"", "dev"}

isNewer(a, b) ==
    IF Parses(a) /\ Parses(b) THEN Precedes(Number[b], Number[a])
    ELSE a # b /\ a \notin {"", "dev"}

(* A pin admits one release, newer or older; without one newer ones pass.  *)
ShouldUpdate(current, pinned, v) ==
    IF pinned # "" THEN v = pinned /\ v # current ELSE isNewer(v, current)
=============================================================================
