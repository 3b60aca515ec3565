------------------------- MODULE UpdatePolicyProofs -------------------------
(***************************************************************************)
(* The order behind ShouldUpdate.  Among the versions that parse it is a   *)
(* strict order on the three numbers, so updates that follow it neither    *)
(* repeat nor alternate; a pin is reached in one update.                   *)
(***************************************************************************)
EXTENDS UpdatePolicy, TLAPS

Numbers == Nat \X Nat \X Nat

LEMMA PrecedesUnfolded ==
    ASSUME NEW m \in Numbers, NEW n \in Numbers
    PROVE  Precedes(m, n) <=>
               \/ m[1] < n[1]
               \/ m[1] = n[1] /\ m[2] < n[2]
               \/ m[1] = n[1] /\ m[2] = n[2] /\ m[3] < n[3]
<1>1. \A i \in 1 .. 3 : i = 1 \/ i = 2 \/ i = 3
  OBVIOUS
<1>2. (\A k \in 1 .. 1 - 1 : m[k] = n[k]) <=> TRUE
  OBVIOUS
<1>3. (\A k \in 1 .. 2 - 1 : m[k] = n[k]) <=> m[1] = n[1]
  OBVIOUS
<1>4. (\A k \in 1 .. 3 - 1 : m[k] = n[k]) <=> m[1] = n[1] /\ m[2] = n[2]
  OBVIOUS
<1>5. 1 \in 1 .. 3 /\ 2 \in 1 .. 3 /\ 3 \in 1 .. 3
  OBVIOUS
<1> QED
  BY <1>1, <1>2, <1>3, <1>4, <1>5 DEF Precedes

LEMMA PrecedesOrder ==
    ASSUME NEW l \in Numbers, NEW m \in Numbers, NEW n \in Numbers
    PROVE  /\ ~Precedes(m, m)
           /\ Precedes(l, m) /\ Precedes(m, n) => Precedes(l, n)
           /\ Precedes(m, n) \/ Precedes(n, m) \/ m = n
<1>1. /\ l[1] \in Nat /\ l[2] \in Nat /\ l[3] \in Nat
      /\ m[1] \in Nat /\ m[2] \in Nat /\ m[3] \in Nat
      /\ n[1] \in Nat /\ n[2] \in Nat /\ n[3] \in Nat
  BY DEF Numbers
<1>2. m = <<m[1], m[2], m[3]>> /\ n = <<n[1], n[2], n[3]>>
  BY DEF Numbers
<1> QED
  BY <1>1, <1>2, PrecedesUnfolded

(* isNewer on the versions that parse is irreflexive, transitive and        *)
(* decides between any two that differ in a number.                        *)
THEOREM NewerIsAnOrder ==
    ASSUME NEW a \in DOMAIN Number, NEW b \in DOMAIN Number, NEW c \in DOMAIN Number
    PROVE  /\ ~isNewer(a, a)
           /\ isNewer(a, b) /\ isNewer(b, c) => isNewer(a, c)
           /\ isNewer(a, b) \/ isNewer(b, a) \/ Number[a] = Number[b]
<1>1. Number[a] \in Numbers /\ Number[b] \in Numbers /\ Number[c] \in Numbers
  BY NumberAssumption DEF Numbers
<1>2. Parses(a) /\ Parses(b) /\ Parses(c)
  BY DEF Parses
<1> QED
  BY <1>1, <1>2, PrecedesOrder DEF isNewer

(* Whatever the versions and the pin are, a release never replaces itself, *)
(* so an update that was applied is not applied again.                     *)
THEOREM NeverReplacesItself ==
    ASSUME NEW v \in Version, NEW pinned
    PROVE  ~ShouldUpdate(v, pinned, v)
<1>1. CASE Parses(v)
  BY <1>1, NewerIsAnOrder DEF ShouldUpdate, Parses
<1>2. CASE ~Parses(v)
  BY <1>2 DEF ShouldUpdate, isNewer
<1> QED
  BY <1>1, <1>2
=============================================================================
