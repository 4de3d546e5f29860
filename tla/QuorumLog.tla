------------------------------ MODULE QuorumLog -------------------------------
(***************************************************************************)
(* What a pBFT ledger promises, without its messages: a block enters a log *)
(* only after a quorum of validators has voted for it, and a validator     *)
(* votes only for a block that a quorum of validators has endorsed.        *)
(*                                                                         *)
(* The promise says nothing of the order of the blocks in two logs, nor    *)
(* that a block enters a log once: the code below does not keep to either  *)
(* when two proposals overlap or more than three validators take part.     *)
(***************************************************************************)
EXTENDS Integers, FiniteSets, Sequences

CONSTANTS
    Validator,      \* the validators
    Proposal,       \* the blocks that may be proposed
    First,          \* what every log begins with
    Majority        \* how many validators make a quorum

VARIABLES
    endorsed,       \* the validators that found the block valid
    voted,          \* the validators that voted for the block
    log             \* the log of each validator

logVars == <<endorsed, voted, log>>

LogInit ==
    /\ endorsed = [b \in Proposal |-> {}]
    /\ voted = [b \in Proposal |-> {}]
    /\ log = [v \in Validator |-> <<First>>]

Endorse(v, b) ==
    /\ endorsed' = [endorsed EXCEPT ![b] = endorsed[b] \cup {v}]
    /\ UNCHANGED <<voted, log>>

VoteFor(v, b) ==
    /\ Cardinality(endorsed[b]) >= Majority
    /\ voted' = [voted EXCEPT ![b] = voted[b] \cup {v}]
    /\ UNCHANGED <<endorsed, log>>

Enter(v, b) ==
    /\ Cardinality(voted[b]) >= Majority
    /\ log' = [log EXCEPT ![v] = Append(log[v], b)]
    /\ UNCHANGED <<endorsed, voted>>

LogNext ==
    \E v \in Validator, b \in Proposal : Endorse(v, b) \/ VoteFor(v, b) \/ Enter(v, b)

LogSpec == LogInit /\ [][LogNext]_logVars

===============================================================================
