-------------------------- MODULE MCLockFreeQueue ---------------------------
(* Instances of LockFreeQueue for TLC. *)
EXTENDS LockFreeQueue, TLC

CONSTANTS MaxQueueSize   \* the constructor's argument

MCCapacity == BitCeil(MaxQueueSize)

\* Threads are interchangeable; used by the safety runs only.
ThreadSymmetry == Permutations(Threads)

=============================================================================
