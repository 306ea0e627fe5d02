---------------------------- MODULE MCSyncQueue ----------------------------
(* SyncQueue for TLC: the symmetry of its identifiers. *)
EXTENDS SyncQueue, TLC

Symmetry == Permutations(Assets) \cup Permutations(JobIds)
              \cup Permutations(Workers) \cup Permutations(Requests)
=============================================================================
