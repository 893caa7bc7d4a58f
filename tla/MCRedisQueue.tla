---------------------------- MODULE MCRedisQueue ----------------------------
(***************************************************************************)
(* Small instances of RedisQueue: two workers, with and without failures.  *)
(***************************************************************************)
EXTENDS RedisQueue, TLC

CONSTANTS c1, c2, j1, j2    \* clients, job ids

MCBackoff == <<1>>
=============================================================================
