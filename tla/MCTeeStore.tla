----------------------------- MODULE MCTeeStore -----------------------------
(* Instances of TeeStore for TLC.  Dispatch 1 is allocated by a requester  *)
(* that never comes to write it, dispatch 2 goes through the queue.        *)
EXTENDS TeeStoreProperties
=============================================================================
