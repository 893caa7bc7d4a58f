---------------------------- MODULE ExclusiveRun ----------------------------
(***************************************************************************)
(* What DistributedLock.run() and runScheduled() promise their callers     *)
(* (system/core/distributed_lock.ts): a call runs its callback at most     *)
(* once, while no other call runs one, or ends without running it.         *)
(***************************************************************************)
CONSTANT Calls        \* calls of run() for one key

VARIABLE phase        \* where each call is

ExclusiveInit == phase = [c \in Calls |-> "waiting"]

Enter(c) ==
    /\ phase[c] = "waiting"
    /\ \A d \in Calls : phase[d] # "running"
    /\ phase' = [phase EXCEPT ![c] = "running"]

End(c) ==
    /\ phase[c] # "over"
    /\ phase' = [phase EXCEPT ![c] = "over"]

ExclusiveNext == \E c \in Calls : Enter(c) \/ End(c)

ExclusiveSpec == ExclusiveInit /\ [][ExclusiveNext]_phase
=============================================================================
