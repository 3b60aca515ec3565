------------------------------ MODULE Delivery ------------------------------
(***************************************************************************)
(* What Report promises of one result: it is delivered at least once, or   *)
(* given up, and the verdict is final.  Delivered is said when a copy that *)
(* arrived was confirmed, or when a redirect made another request of it    *)
(* and that request was confirmed; then no copy need have arrived.         *)
(***************************************************************************)
EXTENDS Integers

VARIABLES
    verdict,
    copies,
    rewritten       \* what was confirmed did not carry the result

Init == verdict = "open" /\ copies = 0 /\ rewritten = FALSE

(* Copies reach the cloud; the sender may or may not learn of it. *)
Arrive ==
    /\ verdict = "open"
    /\ copies' \in Nat /\ copies' > copies
    /\ verdict' \in {"open", "delivered"}
    /\ UNCHANGED rewritten

Mistake ==
    /\ verdict = "open"
    /\ copies' \in Nat /\ copies' >= copies
    /\ verdict' = "delivered" /\ rewritten' = TRUE

(* Copies may have arrived on the way to a refusal. *)
GiveUp ==
    /\ verdict = "open"
    /\ copies' \in Nat /\ copies' >= copies
    /\ verdict' = "failed"
    /\ UNCHANGED rewritten

Next == Arrive \/ Mistake \/ GiveUp

Spec == Init /\ [][Next]_<<verdict, copies, rewritten>>
=============================================================================
