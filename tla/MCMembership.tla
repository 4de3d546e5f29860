----------------------------- MODULE MCMembership -----------------------------
(***************************************************************************)
(* Small instances of Membership for TLC.  Ports are only compared for     *)
(* equality, so it is no loss that they are started for the first time in  *)
(* their order.                                                            *)
(***************************************************************************)
EXTENDS Membership

VARIABLES
    overlapped,     \* an operation came before the last one had settled
    reset           \* the chain was reset and no process has started since

(* The replies of Redis and what a node sends to itself come first. *)
OwnEnds(n) == {e \in DOMAIN wires : NodeOf(e) = n /\ NodeOf(Peer(e)) = n /\ wires[e] # <<>>}
Prompt ==
    \/ \E n \in Node : TakeReply(n)
    \/ \E n \in Node : AddBlock(n)
    \/ \E e \in DOMAIN wires :
         /\ awaiting[NodeOf(e)] = <<>>
         /\ OwnEnds(NodeOf(e)) # {} => e = CHOOSE x \in OwnEnds(NodeOf(e)) : TRUE
         /\ Receive(e)

(***************************************************************************)
(* Operations come one at a time, each when the last has settled, except   *)
(* that between two processes the last one of all may come at any moment.  *)
(***************************************************************************)
Operate ==
    /\ ~ overlapped
    /\ overlapped' = ~ Quiet
    /\ \/ \E n \in Node : ResetState(n) /\ reset' = TRUE
       \/ \E n \in Node : Start(n) /\ reset' = FALSE
       \/ \E n \in Node : FromOutside(n) /\ UNCHANGED reset

MCInit == Init /\ overlapped = FALSE /\ reset = FALSE
Settle == Prompt /\ UNCHANGED <<overlapped, reset>>
MCNext == Settle \/ Operate
MCVars == <<memberVars, overlapped, reset>>
MCSpec == MCInit /\ [][MCNext]_MCVars /\ WF_MCVars(Settle)

InOrder == \A m, n \in Node : m < n /\ lives'[n] > 0 => lives'[m] > 0
OnlyTwoOverlap == overlapped' => \A n \in Node : n > 2 => lives'[n] = 0

(* What the properties of Membership say while no two processes overlap.   *)
InTurn(P) == ~ overlapped => P

(* With nothing under way every listed validator counts the same ones, in  *)
(* the same order, and they are the ones that run and are listed           *)
(* (server.ts:133-150, keygenSession.ts:45, index.ts:7-23).                *)
ListsAgreeInTurn == InTurn(ListsAgree)

(* Every node follows the leader of Redis, or itself (server.ts:137-146).  *)
LeaderOfRedisInTurn == InTurn(LeaderOfRedis)

(* Unless the chain was reset, listed validators hold the chain of Redis,  *)
(* the ones started later included (server.ts:284-285, consesnsus.ts:64).  *)
ChainOfRedisInTurn == InTurn(reset \/ ChainOfRedis)

(* The chain of each node passes isValidChain, a reset one included, which *)
(* longer chains of peers replace (consesnsus.ts:85-121, 160-163).         *)
OwnChainValidInTurn == InTurn(OwnChainValid)

(* A process that starts is in the end known to, and counted by, every     *)
(* listed validator (index.ts:25-53, server.ts:69-131, 280-293).           *)
JoinsMesh ==
    \A n \in Node :
        status[n] = "starting" ~>
            \/ overlapped
            \/ \A m \in Node : status[m] = "on" => n \in DOMAIN neighbors[m] /\ n \in ToSet(validators[m])
===============================================================================
