------------------------------- MODULE Dedupe -------------------------------
(***************************************************************************)
(* The persistent job-id store of internal/store: an in-memory map from    *)
(* job id to the second it was recorded, and the file that mirrors it.     *)
(* The module holds the store's state and operations; Worker composes them *)
(* with the job handler that calls them.  A map is a function over JobId,  *)
(* Absent standing for a missing key.                                      *)
(***************************************************************************)
EXTENDS Integers

CONSTANTS
    JobId,          \* the job ids the cloud uses
    TTL             \* seconds an id is retained (limits.replayTtlSec)

(* applyDefaults replaces zero; a negative retention, which Validate does  *)
(* not look for, is left out.                                              *)
ASSUME TTLAssumption == TTL \in Nat \ {0}

VARIABLES
    now,            \* the host clock, in whole seconds
    seen,           \* the in-memory map d.seen
    disk            \* what the file at d.path holds

Absent == -1

Nothing == [j \in JobId |-> Absent]

Book == [JobId -> Int]

(* A store that counts the last second of the retention twice. *)
LiveInclusive(book, j) == book[j] # Absent /\ now - book[j] <= TTL

(* An id counts as seen while it is younger than the retention time. *)
Live(book, j) == book[j] # Absent /\ now - book[j] < TTL

(* Entries older than the retention time are dropped; one of exactly that  *)
(* age is kept, though it is no longer live.                               *)
pruneLocked(book) ==
    [j \in JobId |-> IF book[j] < now - TTL THEN Absent ELSE book[j]]

(* SeenOrRecord answers TRUE: the id is live, nothing changes. *)
Suppress(j) ==
    /\ Live(seen, j)
    /\ UNCHANGED <<seen, disk>>

(* A store that records in memory and leaves the file to a later flush. *)
RecordUnflushed(j) ==
    /\ ~Live(seen, j)
    /\ seen' = [pruneLocked(seen) EXCEPT ![j] = now]
    /\ UNCHANGED disk

(* A store that records whatever its map says. *)
RecordBlind(j) ==
    /\ seen' = [pruneLocked(seen) EXCEPT ![j] = now]
    /\ disk' = seen'

(* SeenOrRecord answers FALSE: the id is recorded and the whole map is on *)
(* disk (temp file, then rename) before the call returns.                 *)
Record(j) ==
    /\ ~Live(seen, j)
    /\ seen' = [pruneLocked(seen) EXCEPT ![j] = now]
    /\ disk' = seen'

(* A store that forgets to take the record back when the flush fails. *)
RecordFailsPhantom(j) ==
    /\ ~Live(seen, j)
    /\ seen' = [pruneLocked(seen) EXCEPT ![j] = now]
    /\ UNCHANGED disk

(* SeenOrRecord answers an error: the flush failed, the file is as it was, *)
(* the in-memory record is taken back, the pruning is not.                 *)
RecordFails(j) ==
    /\ ~Live(seen, j)
    /\ seen' = [pruneLocked(seen) EXCEPT ![j] = Absent]
    /\ UNCHANGED disk

(* Open: the map is read back from the file and pruned in memory only. *)
Open ==
    /\ seen' = pruneLocked(disk)
    /\ UNCHANGED disk
=============================================================================
