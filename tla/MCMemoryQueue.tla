--------------------------- MODULE MCMemoryQueue ---------------------------
(***************************************************************************)
(* Small instances of MemoryQueue.  A unit of the clock stands for the     *)
(* shortest delay that matters; the delays below keep the order of the     *)
(* code's ones (retry delays grow up to the cap).                          *)
(***************************************************************************)
EXTENDS MemoryQueue, TLC

MCBackoff == <<1>>

\* The form retryDelay has in the model is the code's, for its own constants.
ASSUME RetryDelayOfTheCode ==
    \A attempt \in 0 .. 12 :
       (IF attempt < 3 THEN <<5, 25, 125>>[attempt + 1] ELSE 300)
         = Min({5 * 5 ^ attempt, 300})

Symmetric == Permutations(Jobs) \cup Permutations(Ticks)
=============================================================================
