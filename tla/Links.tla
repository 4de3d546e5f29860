-------------------------------- MODULE Links --------------------------------
(***************************************************************************)
(* The mesh of WebSocket connections between the validators                *)
(* (src/p2p/server.ts).  Every node connects to every listed port, its own *)
(* included, so a broadcast is one packet on every link out of the sender, *)
(* the link to itself too.  A link is one TCP connection: what is sent on  *)
(* it arrives in order, and nothing orders two different links.  A packet  *)
(* carries a uuid as its origin, never the sender's port, so the transport *)
(* itself floods nothing further: every repetition of a message is one a   *)
(* consensus handler asks for.                                             *)
(***************************************************************************)
EXTENDS Integers, Sequences

CONSTANT Node    \* the ports of the validators that are connected

(* No packet is under way. *)
NoPackets == [s \in Node |-> [d \in Node |-> <<>>]]

(* A mutant of Broadcast: what one handler sends goes out the wrong way round. *)
BroadcastReversed(ls, n, out) ==
    [ls EXCEPT ![n] = [d \in Node |-> ls[n][d] \o [i \in DOMAIN out |-> out[Len(out) + 1 - i]]]]

(* Node n sends the messages of the sequence out, in order, to everyone. *)
Broadcast(ls, n, out) == [ls EXCEPT ![n] = [d \in Node |-> ls[n][d] \o out]]

(* Node n sends the single message m to node d.  A direct packet counts as *)
(* seen once it is sent, so the one that returns to its sender is dropped. *)
SendDirect(ls, n, d, m) ==
    IF d = n THEN ls ELSE [ls EXCEPT ![n] = [ls[n] EXCEPT ![d] = Append(ls[n][d], m)]]

(* The links once node d has taken the oldest packet that s sent it. *)
Taken(ls, s, d) == [ls EXCEPT ![s] = [ls[s] EXCEPT ![d] = Tail(ls[s][d])]]

(* Nothing is under way between any two nodes. *)
Drained(ls) == \A s, d \in Node : ls[s][d] = <<>>
==============================================================================
