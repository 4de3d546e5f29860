------------------------------- MODULE MCLedger -------------------------------
(***************************************************************************)
(* Small instances of Ledger for TLC.                                      *)
(***************************************************************************)
EXTENDS Ledger, TLC

TwoPorts == <<1, 2>>
ThreePorts == <<1, 2, 3>>
FourPorts == <<1, 2, 3, 4>>
OnlyIdle == {FALSE}
Alike == Permutations(Tx)

(***************************************************************************)
(* A message that its reader has pooled already will be turned away        *)
(* whenever it is read, as long as no pool loses an entry: at three nodes  *)
(* no list of messages is ever started anew, and a pool of transactions is *)
(* emptied only by a delay.  Reading such messages first leaves out no     *)
(* state of the pools.                                                     *)
(***************************************************************************)
Pooled(s, d) ==
    /\ links[s][d] # <<>>
    /\ LET m == Head(links[s][d])
       IN  TurnedAway(d, m) /\ (m.type = "pre_prepare" => m.hash \in blockPool[d])
SomePooled == \E s, d \in Node : Pooled(s, d)
SkipPooled ==
    LET link == CHOOSE l \in Node \X Node : Pooled(l[1], l[2])
    IN  IgnoreMessage(link[1], link[2])

(* Delays of 500 ms outlast the delivery of what is under way, and end in  *)
(* the order they began: that of a round before that of its election.      *)
Settled ==
    IF SomePooled THEN SkipPooled
    ELSE \/ \E s, d \in Node : Deliver(s, d)
         \/ \E n \in Node : UpdatePeerReplica(n)
         \/ \E n \in Node : OpenElection(n) /\ UNCHANGED ledgerVars
         \/ Drained(links) /\ \E n \in Node : FinishRound(n)
         \/ /\ Drained(links) /\ \A n \in Node : clearing[n] = 0
            /\ \E n \in Node : AnnounceLeader(n) /\ UNCHANGED ledgerVars

(* One round at a time, of a transaction created at a node that does not lead. *)
RoundsNext ==
    \/ Quiet /\ \E n \in Node, t \in Tx : leader[n] # n /\ CreateTransaction(n, t)
    \/ Settled
RoundsSpec == Init /\ [][RoundsNext]_vars /\ WF_vars(Settled)

(* As RoundsSpec, with the transactions created anywhere. *)
AnywhereNext ==
    \/ Quiet /\ \E n \in Node, t \in Tx : CreateTransaction(n, t)
    \/ Settled
AnywhereSpec == Init /\ [][AnywhereNext]_vars

(***************************************************************************)
(* One order of delivery at four nodes: packets for node 4 go first, then  *)
(* those of the lowest sender, so that node 4 is ahead of the others with  *)
(* one block when the next is proposed.  What a node repeats because it    *)
(* throws stays on its link to itself, and it is out of the Redis list at  *)
(* once: no handler reads that.  The moments at which node 2 creates       *)
(* transactions vary.  Used as an action constraint of Spec.               *)
(***************************************************************************)
Before(l, o) ==
    \/ l[2] = 4 /\ o[2] # 4
    \/ /\ l[2] = 4 <=> o[2] = 4
       /\ l[1] < o[1] \/ (l[1] = o[1] /\ l[2] <= o[2])
First(ls) == CHOOSE l \in ls : \A o \in ls : Before(l, o)
Waiting == {n \in Node : electing[n] # <<>> \/ announcing[n] > 0 \/ clearing[n] > 0}
Unlisting == {n \in Node : HasRead(registry, n)}
NextPacket ==
    LET ready == {l \in Node \X Node : ENABLED Deliver(l[1], l[2])}
        throwing == {l \in ready : ENABLED ThrowAfterRepeat(l[1], l[2])}
        pending == IF ready # throwing THEN ready \ throwing ELSE {l \in ready : l[1] # l[2]}
    IN  IF pending # {}
        THEN LET l == First(pending) IN Deliver(l[1], l[2])
        ELSE Waiting # {} /\ Resume(CHOOSE n \in Waiting : \A o \in Waiting : n <= o)
FourthAhead ==
    \/ \E t \in Tx : CreateTransaction(2, t)
    \/ IF Unlisting # {} THEN \E n \in Unlisting : UpdatePeerReplica(n) ELSE NextPacket
===============================================================================
