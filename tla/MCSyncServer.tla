---------------------------- MODULE MCSyncServer ----------------------------
(* TLC instances of SyncServer.                                            *)
EXTENDS SyncServer, TLC

Symmetric ==
  Permutations(Category) \cup Permutations(Transaction)
    \cup Permutations(OpId) \cup Permutations(Name)
=============================================================================
