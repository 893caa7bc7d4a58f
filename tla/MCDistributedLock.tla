------------------------- MODULE MCDistributedLock -------------------------
(***************************************************************************)
(* Small instances of DistributedLock: one call renews its lease and runs  *)
(* longer than the lease, the others do not renew.                         *)
(***************************************************************************)
EXTENDS DistributedLock, TLC

CONSTANTS r1, n1, n2    \* a renewing call, two others

MCMaxRun == [c \in Calls |-> IF c \in AutoRenew THEN 7 ELSE 3]

MCLongRun == [c \in Calls |-> Ttl + 1]

ASSUME TtlInWholeSeconds == InitialTtl >= Ttl /\ InitialTtl < Ttl + Second
=============================================================================
