------------------------------ MODULE MCQueues ------------------------------
(* The queues for TLC, two parts that share nothing here: a behaviour is one *)
(* of one part while the other rests.  CacheQueues has two processes and two *)
(* items; in WaitingKeys two application locks make two threads wait for the *)
(* queue at the same time.                                                   *)
EXTENDS CacheQueues, WaitingKeys, TLC

CONSTANTS p1, p2, a, b, t1, t2, t3, A, B

MCCalls == t1 :> 2 @@ t2 :> 1 @@ t3 :> 1

VARIABLE part

MCInit ==
    /\ part \in {"items", "keys"}
    /\ InitQueues /\ (part = "keys" => backend = "other")
    /\ Init

MCItems == part = "items" /\ [NextQueues]_cacheQueueVars /\ UNCHANGED vars

MCKeys == part = "keys" /\ Next /\ UNCHANGED cacheQueueVars

MCNext == (MCItems \/ MCKeys) /\ UNCHANGED part

\* Nothing of the part that rests is enabled.
MCSpec == /\ MCInit /\ [][MCNext]_<<part, cacheQueueVars, vars>>
          /\ Fairness
          /\ \A t \in Threads : WF_vars(Step(t)) /\ SF_vars(Acquire(t))
=============================================================================
