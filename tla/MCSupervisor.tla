---------------------------- MODULE MCSupervisor ----------------------------
(***************************************************************************)
(* Instances of Supervisor for TLC: two releases, and a development build  *)
(* that a host may start with.  Process slots are interchangeable.         *)
(***************************************************************************)
EXTENDS Supervisor, TLC

Numbers == [v \in Version \ {"dev"} |-> IF v = "v1" THEN <<1, 9, 0>> ELSE <<1, 10, 0>>]

External == [mode |-> "external", pinned |-> ""]
Unpinned == [mode |-> "binary", pinned |-> ""]
PinnedTo(v) == [mode |-> "binary", pinned |-> v]

AllConfigs == {External, Unpinned, PinnedTo("v1")}
UpdateConfigs == {Unpinned}

Slots == Permutations(Pid)
=============================================================================
