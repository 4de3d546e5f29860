------------------------------- MODULE Lockstep -------------------------------
(***************************************************************************)
(* What the rounds of a session promise: nobody publishes its message of a *)
(* round before everybody has published that of the round before.          *)
(***************************************************************************)
EXTENDS Naturals

CONSTANT Node

VARIABLE done       \* round messages each node has published so far

LockstepInit == done = [n \in Node |-> 0]

Publish(n) ==
    /\ \A m \in Node : done[n] <= done[m]
    /\ done' = [done EXCEPT ![n] = done[n] + 1]

LockstepSpec == LockstepInit /\ [][\E n \in Node : Publish(n)]_done
===============================================================================
