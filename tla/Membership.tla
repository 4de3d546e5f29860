------------------------------ MODULE Membership ------------------------------
(***************************************************************************)
(* Which validators there are, and what each of them knows of it: the      *)
(* "validators" key of Redis that a process reads and writes back when it  *)
(* starts and stops (src/protocol/index.ts), the connections it opens, the *)
(* handshakes, what a connect and a disconnect make a node read from Redis *)
(* (src/p2p/server.ts), and the chain it takes over on the way             *)
(* (src/consensus/consesnsus.ts:64-121, 160-163).                          *)
(*                                                                         *)
(* Redis applies a command when it is issued and a client gets its replies *)
(* in that order, so awaiting[n] is a queue: each entry names what the     *)
(* code does when the reply is there, with what the reply says.            *)
(***************************************************************************)
EXTENDS Integers, Sequences, SequencesExt

CONSTANTS
    Node,           \* the ports, one process each
    MaxOps,         \* bound: starts, signals, kills, resets and blocks
    MaxBlocks       \* bound: blocks proposed

ASSUME MembershipAssumption ==
    /\ Node \subseteq Nat \ {0}
    /\ MaxOps \in Nat
    /\ MaxBlocks \in Nat

VARIABLES
    status,         \* of each process; "unlisted": it runs, out of the list
    lives,          \* how often it has been started
    awaiting,       \* replies of Redis each process waits for
    neighbors,      \* port -> the end of the connection it last shook hands on
    wires,          \* open connection end -> packets on their way to it
    leader, validators, chain,              \* of each P2pServer
    registry, redisLeader, redisChain,      \* the three keys of Redis
    blocks,         \* what each proposed block extends
    certified,      \* blocks whose round is over and that a node has to append
    ops             \* operations from outside so far

redisVars == <<registry, redisLeader, redisChain>>
replicaVars == <<leader, validators>>
roundVars == <<blocks, certified>>
memberVars == <<status, lives, awaiting, neighbors, wires, replicaVars, chain, redisVars,
                roundVars, ops>>

-------------------------------------------------------------------------------
None == 0                       \* no port: no leader in Redis
NoList == <<None>>              \* no list of validators in Redis
Genesis == <<0>>
Running(n) == status[n] \in {"on", "unlisted"}
NoEnds == [e \in {} |-> <<>>]

(* A connection has an end at the node that opened it, in its k-th life,   *)
(* and one at the node that accepted it; a node connects to itself too.    *)
End == [client : Node, server : Node, life : Nat, side : {"client", "server"}]
NodeOf(e) == IF e.side = "client" THEN e.client ELSE e.server
Peer(e) == [e EXCEPT !.side = IF e.side = "client" THEN "server" ELSE "client"]

Init ==
    /\ status = [n \in Node |-> "off"]
    /\ lives = [n \in Node |-> 0]
    /\ awaiting = [n \in Node |-> <<>>]
    /\ neighbors = [n \in Node |-> NoEnds]
    /\ wires = NoEnds
    /\ leader = [n \in Node |-> None]
    /\ validators = [n \in Node |-> <<>>]
    /\ chain = [n \in Node |-> Genesis]
    /\ registry = NoList
    /\ redisLeader \in {None} \cup Node
    /\ redisChain = <<>>
    /\ blocks = <<>>
    /\ certified = [n \in Node |-> {}]
    /\ ops = 0

Operation == ops < MaxOps /\ ops' = ops + 1

(* Node n issues a command whose reply is taken up by r. *)
Await(n, r) == awaiting' = [awaiting EXCEPT ![n] = Append(awaiting[n], r)]
(* The oldest reply at n has been taken up, and the commands of rs issued. *)
TakeUp(n, rs) == awaiting' = [awaiting EXCEPT ![n] = Tail(awaiting[n]) \o rs]
Replied(n, to) == awaiting[n] # <<>> /\ Head(awaiting[n]).to = to

(* ws with the packet m sent to the end e; it is lost if e is closed. *)
Sent(ws, e, m) == IF e \in DOMAIN ws THEN [ws EXCEPT ![e] = Append(ws[e], m)] ELSE ws
(* ws with m sent by n to all its neighbors. *)
SentToAll(ws, n, m) ==
    [e \in DOMAIN ws |-> IF \E v \in DOMAIN neighbors[n] : neighbors[n][v] = Peer(e)
                         THEN Append(ws[e], m) ELSE ws[e]]

-------------------------------------------------------------------------------
(***************************************************************************)
(* updatePeerReplica: the list is read, changed and written back.  If      *)
(* there is none it is first written with the one port alone.  then says   *)
(* what follows: the start of the server, the exit, or nothing.            *)
(***************************************************************************)
ReadList(then) == [to |-> "updatePeerReplica", peers |-> registry, then |-> then]
StillWithPort(peers, n) == peers    \* a mutant: the port stays
(* filter, as a recursive function: SelectSeq cannot be proved about. *)
Without(ps, p) ==
    LET kept[i \in 0..Len(ps)] ==
            IF i = 0 THEN <<>>
            ELSE IF ps[i] = p THEN kept[i - 1] ELSE Append(kept[i - 1], ps[i])
    IN  kept[Len(ps)]
WithoutPort(peers, n) == Without(peers, n)
WithPortAgain(peers, n) == Append(peers, n)    \* a mutant: listed twice
WithPort(peers, n) == IF n \in ToSet(peers) THEN peers ELSE Append(peers, n)
WrittenList(peers, n, then) ==
    IF then = "listen" THEN WithPort(peers, n) ELSE WithoutPort(peers, n)

InitList(n) ==
    /\ Replied(n, "updatePeerReplica")
    /\ Head(awaiting[n]).peers = NoList
    /\ registry' = <<n>>
    /\ TakeUp(n, <<[to |-> "updatePeerReplica", peers |-> <<n>>, then |-> Head(awaiting[n]).then]>>)
    /\ UNCHANGED <<status, lives, neighbors, wires, replicaVars, chain, redisLeader, redisChain,
                   roundVars, ops>>

UpdatePeerReplica(n) ==
    /\ Replied(n, "updatePeerReplica")
    /\ Head(awaiting[n]).peers # NoList
    /\ LET r == Head(awaiting[n])
           peers == WrittenList(r.peers, n, r.then)
       IN  /\ registry' = peers
           /\ TakeUp(n, <<[to |-> r.then, peers |-> peers]>>)
           /\ status' = IF r.then = "carry on" THEN [status EXCEPT ![n] = "unlisted"] ELSE status
    /\ UNCHANGED <<lives, neighbors, wires, replicaVars, chain, redisLeader, redisChain,
                   roundVars, ops>>

CarryOn(n) ==
    /\ Replied(n, "carry on")
    /\ TakeUp(n, <<>>)
    /\ UNCHANGED <<status, lives, neighbors, wires, replicaVars, chain, redisVars, roundVars, ops>>

(* startProtocol, up to its first await. *)
Start(n) ==
    /\ Operation
    /\ status[n] \in {"off", "killed"}
    /\ status' = [status EXCEPT ![n] = "starting"]
    /\ lives' = [lives EXCEPT ![n] = lives[n] + 1]
    /\ Await(n, ReadList("listen"))
    /\ UNCHANGED <<neighbors, wires, replicaVars, chain, redisVars, roundVars>>

(* SIGINT takes the port out of the list and exits; SIGTERM carries on. *)
Interrupt(n) ==
    /\ Operation
    /\ Running(n)
    /\ \E then \in {"exit", "carry on"} : Await(n, ReadList(then))
    /\ UNCHANGED <<status, lives, neighbors, wires, replicaVars, chain, redisVars, roundVars>>

(***************************************************************************)
(* The process ends: its connections close, which the other ends see after *)
(* what it had sent, and it forgets all it knew.                           *)
(***************************************************************************)
Vanish(n, how) ==
    /\ status' = [status EXCEPT ![n] = how]
    /\ awaiting' = [awaiting EXCEPT ![n] = <<>>]
    /\ neighbors' = [neighbors EXCEPT ![n] = NoEnds]
    /\ wires' = [e \in {x \in DOMAIN wires : NodeOf(x) # n} |->
                   IF NodeOf(Peer(e)) = n THEN Append(wires[e], [type |-> "close"]) ELSE wires[e]]
    /\ leader' = [leader EXCEPT ![n] = None]
    /\ validators' = [validators EXCEPT ![n] = <<>>]
    /\ chain' = [chain EXCEPT ![n] = Genesis]
    /\ certified' = [certified EXCEPT ![n] = {}]
    /\ UNCHANGED <<lives, redisVars, blocks>>
Exit(n) == Replied(n, "exit") /\ Vanish(n, "off") /\ UNCHANGED ops
Kill(n) == Operation /\ Running(n) /\ Vanish(n, "killed")

-------------------------------------------------------------------------------
(***************************************************************************)
(* updateReplica: the list and the leader are read one after the other.    *)
(***************************************************************************)
ReadReplica(of, type) == [to |-> "readLeader", of |-> of, type |-> type, peers |-> registry]

ReadLeader(n) ==
    /\ Replied(n, "readLeader")
    /\ LET r == Head(awaiting[n])
       IN  TakeUp(n, <<[to |-> "updateReplica", of |-> r.of, type |-> r.type,
                        peers |-> r.peers, leader |-> redisLeader]>>)
    /\ UNCHANGED <<status, lives, neighbors, wires, replicaVars, chain, redisVars, roundVars, ops>>

(* Without a leader in Redis a node leads itself: its port is its first key. *)
KnownItself(n, r) == n    \* a mutant: the leader of Redis is not asked for
KnownLeader(n, r) == IF r.leader = None THEN n ELSE r.leader
KnownPeers(r) == IF r.peers = NoList THEN <<>> ELSE r.peers
Connected(peers, p) == IF p \in ToSet(peers) THEN peers ELSE Append(peers, p)
Disconnected(peers, p) == Without(peers, p)
UpdateReplica(n) ==
    /\ Replied(n, "updateReplica")
    /\ LET r == Head(awaiting[n])
           lost == r.type = "DISCONNECT" /\ KnownLeader(n, r) = r.of
       IN  /\ leader' = [leader EXCEPT ![n] = KnownLeader(n, r)]
           /\ validators' = [validators EXCEPT ![n] =
                 IF r.type = "CONNECT" THEN Connected(KnownPeers(r), r.of)
                 ELSE Disconnected(KnownPeers(r), r.of)]
           /\ redisLeader' = IF lost THEN r.of ELSE redisLeader
           /\ TakeUp(n, IF lost THEN <<[to |-> "electNewLeader", leader |-> r.of]>> ELSE <<>>)
    /\ UNCHANGED <<status, lives, neighbors, wires, chain, registry, redisChain, roundVars, ops>>

(* electNewLeader for a leader that has left: it is restated to everyone. *)
RestateLeader(n) ==
    /\ Replied(n, "electNewLeader")
    /\ TakeUp(n, <<>>)
    /\ wires' = SentToAll(wires, n, [type |-> "SetNewLeader", leader |-> Head(awaiting[n]).leader])
    /\ UNCHANGED <<status, lives, neighbors, replicaVars, chain, redisVars, roundVars, ops>>

-------------------------------------------------------------------------------
(***************************************************************************)
(* The list is written: the server listens and connects to every port in   *)
(* it that accepts, its own included.                                      *)
(***************************************************************************)
Accepting(n, peers) == {p \in ToSet(peers) : p = n \/ Running(p)}
NewEnds(n, peers) ==
    {[client |-> n, server |-> p, life |-> lives[n], side |-> s] :
        p \in Accepting(n, peers), s \in {"client", "server"}}
Listen(n) ==
    /\ Replied(n, "listen")
    /\ status' = [status EXCEPT ![n] = "on"]
    /\ LET new == NewEnds(n, Head(awaiting[n]).peers)
       IN  wires' = [e \in new \cup DOMAIN wires |->
                       IF e \notin new THEN wires[e]
                       ELSE IF e.side = "client" THEN <<[type |-> "open"], [type |-> "handshake"]>>
                       ELSE <<>>]
    /\ TakeUp(n, <<ReadReplica(n, "CONNECT")>>)
    /\ UNCHANGED <<lives, neighbors, replicaVars, chain, redisVars, roundVars, ops>>

Arrives(e, type) == wires[e] # <<>> /\ Head(wires[e]).type = type
Received(e) == [wires EXCEPT ![e] = Tail(wires[e])]

OpenSilently(e) ==    \* a mutant: the one that connects does not say who it is
    /\ Arrives(e, "open")
    /\ wires' = Received(e)
    /\ Await(NodeOf(e), ReadReplica(NodeOf(e), "CONNECT"))
    /\ UNCHANGED <<status, lives, neighbors, replicaVars, chain, redisVars, roundVars, ops>>
Open(e) ==
    /\ Arrives(e, "open")
    /\ wires' = Sent(Received(e), Peer(e), [type |-> "handshake"])
    /\ Await(NodeOf(e), ReadReplica(NodeOf(e), "CONNECT"))
    /\ UNCHANGED <<status, lives, neighbors, replicaVars, chain, redisVars, roundVars, ops>>

(* The other end says who it is; the node reads the chain from Redis. *)
WithNeighbor(n, v, e) ==
    [w \in DOMAIN neighbors[n] \cup {v} |-> IF w = v THEN e ELSE neighbors[n][w]]
Handshake(e) ==
    LET n == NodeOf(e)
        v == NodeOf(Peer(e))
    IN  /\ Arrives(e, "handshake")
        /\ neighbors' = [neighbors EXCEPT ![n] = WithNeighbor(n, v, e)]
        /\ wires' = Received(e)
        /\ Await(n, [to |-> "handlePeerConnection", of |-> v, chain |-> redisChain])
        /\ UNCHANGED <<status, lives, replicaVars, chain, redisVars, roundVars, ops>>

TakenNever(n, c) == chain[n]    \* a mutant: that of Redis is left alone
Taken(n, c) == IF c = <<>> THEN chain[n] ELSE c

(* The chain of Redis replaces the node's own, unchecked, and goes to the  *)
(* peer.  Sending to one that has left meanwhile throws: nothing catches   *)
(* it, and the node takes itself out of the list.                          *)
HandlePeerConnection(n) ==
    /\ Replied(n, "handlePeerConnection")
    /\ LET r == Head(awaiting[n])
           c == Taken(n, r.chain)
           gone == r.of \notin DOMAIN neighbors[n]
       IN  /\ chain' = [chain EXCEPT ![n] = c]
           /\ wires' = IF r.of = n \/ gone THEN wires
                       ELSE Sent(wires, Peer(neighbors[n][r.of]), [type |-> "chain", chain |-> c])
           /\ TakeUp(n, <<ReadReplica(r.of, "CONNECT")>> \o
                        (IF gone THEN <<ReadList("carry on")>> ELSE <<>>))
    /\ UNCHANGED <<status, lives, neighbors, replicaVars, redisVars, roundVars, ops>>

(* findNodeId.  (Mutants: it finds nothing; it goes by the port.) *)
FoundNever(e) == {}
FoundByPort(e) == {v \in DOMAIN neighbors[NodeOf(e)] : v = NodeOf(Peer(e))}
Found(e) == {v \in DOMAIN neighbors[NodeOf(e)] : neighbors[NodeOf(e)][v] = e}

(* A connection closes; only that of the last handshake counts. *)
Close(e) ==
    LET n == NodeOf(e)
        lost == Found(e)
    IN  /\ Arrives(e, "close")
        /\ wires' = [x \in DOMAIN wires \ {e} |-> wires[x]]
        /\ neighbors' = [neighbors EXCEPT ![n] =
                           [v \in DOMAIN neighbors[n] \ lost |-> neighbors[n][v]]]
        /\ IF lost = {} THEN UNCHANGED awaiting
           ELSE Await(n, ReadReplica(NodeOf(Peer(e)), "DISCONNECT"))
        /\ UNCHANGED <<status, lives, replicaVars, chain, redisVars, roundVars, ops>>

HandleNewElectionRoundResult(e) ==
    /\ Arrives(e, "SetNewLeader")
    /\ leader' = [leader EXCEPT ![NodeOf(e)] = Head(wires[e]).leader]
    /\ redisLeader' = Head(wires[e]).leader
    /\ wires' = Received(e)
    /\ UNCHANGED <<status, lives, awaiting, neighbors, validators, chain, registry, redisChain,
                   roundVars, ops>>

-------------------------------------------------------------------------------
(* isValidChain: from the genesis block on each block extends the last. *)
IsValidChain(c) == c[1] = 0 /\ \A i \in 2..Len(c) : blocks[c[i]] = c[i - 1]

(* The chain of a peer is taken over only if it is longer and valid.  (It  *)
(* is then handled as a transaction too, without effect: it has no         *)
(* signature to verify.)                                                   *)
ReplaceChain(e) ==
    LET n == NodeOf(e)
    IN  /\ Arrives(e, "chain")
        /\ wires' = Received(e)
        /\ LET c == Head(wires[e]).chain
               better == Len(c) > Len(chain[n]) /\ IsValidChain(c)
           IN  /\ chain' = IF better THEN [chain EXCEPT ![n] = c] ELSE chain
               /\ redisChain' = IF better THEN c ELSE redisChain
        /\ UNCHANGED <<status, lives, awaiting, neighbors, replicaVars, registry, redisLeader,
                       roundVars, ops>>

(* What a round of the ledger comes to: a block on the tip of its proposer *)
(* is accepted by the nodes whose tip it extends, each of which appends it *)
(* in its own time, without asking again (Ledger has the rounds).          *)
Tip(n) == chain[n][Len(chain[n])]
Accepts(n, p) == Running(n)    \* a mutant of Extends: whatever its tip
Extends(n, p) == Running(n) /\ Tip(n) = Tip(p)
Certify(p) ==
    /\ Operation
    /\ Running(p)
    /\ Len(blocks) < MaxBlocks
    /\ blocks' = Append(blocks, Tip(p))
    /\ certified' = [n \in Node |-> IF Extends(n, p)
                                    THEN certified[n] \cup {Len(blocks) + 1} ELSE certified[n]]
    /\ UNCHANGED <<status, lives, awaiting, neighbors, wires, replicaVars, chain, redisVars>>
AddBlock(n) ==
    \E h \in certified[n] :
        /\ certified' = [certified EXCEPT ![n] = certified[n] \ {h}]
        /\ chain' = [chain EXCEPT ![n] = Append(chain[n], h)]
        /\ redisChain' = Append(chain[n], h)
        /\ UNCHANGED <<status, lives, awaiting, neighbors, wires, replicaVars, registry,
                       redisLeader, blocks, ops>>

(* POST /reset-state *)
ResetState(n) ==
    /\ Operation
    /\ Running(n)
    /\ chain' = [chain EXCEPT ![n] = Genesis]
    /\ redisChain' = Genesis
    /\ UNCHANGED <<status, lives, awaiting, neighbors, wires, replicaVars, registry, redisLeader,
                   roundVars>>

-------------------------------------------------------------------------------
TakeReply(n) ==
    \/ InitList(n)
    \/ UpdatePeerReplica(n)
    \/ CarryOn(n)
    \/ Exit(n)
    \/ Listen(n)
    \/ ReadLeader(n)
    \/ UpdateReplica(n)
    \/ RestateLeader(n)
    \/ HandlePeerConnection(n)
Receive(e) ==
    \/ Open(e)
    \/ Handshake(e)
    \/ Close(e)
    \/ HandleNewElectionRoundResult(e)
    \/ ReplaceChain(e)
Proceed(n) ==
    \/ TakeReply(n)
    \/ \E e \in DOMAIN wires : NodeOf(e) = n /\ Receive(e)
    \/ AddBlock(n)
FromOutside(n) == Interrupt(n) \/ Kill(n) \/ Certify(n)

Next == \E n \in Node : Proceed(n) \/ Start(n) \/ FromOutside(n) \/ ResetState(n)
Spec == Init /\ [][Next]_memberVars

(* Redis answers, packets arrive, and a round that is decided ends. *)
Fairness == \A n \in Node : WF_memberVars(Proceed(n))
FairSpec == Spec /\ Fairness

-------------------------------------------------------------------------------
(* Nothing is under way, and no node awaits Redis or has a block to append. *)
Quiet ==
    /\ \A n \in Node : awaiting[n] = <<>> /\ certified[n] = {}
    /\ \A e \in DOMAIN wires : wires[e] = <<>>

(* Types of the membership state; no port is in the list of Redis twice    *)
(* (index.ts:13-20). *)
Chain == Seq(0..MaxBlocks)
MembershipTypeOK ==
    /\ status \in [Node -> {"off", "starting", "on", "unlisted", "killed"}]
    /\ lives \in [Node -> Nat]
    /\ leader \in [Node -> Node \cup {None}]
    /\ validators \in [Node -> Seq(Node)]
    /\ chain \in [Node -> Chain \ {<<>>}]
    /\ registry \in Seq(Node) \cup {NoList}
    /\ \A i, j \in DOMAIN registry : registry[i] = registry[j] => i = j
    /\ redisLeader \in Node \cup {None}
    /\ redisChain \in Chain
    /\ blocks \in Chain
    /\ certified \in [Node -> SUBSET (1..MaxBlocks)]
    /\ ops \in 0..MaxOps
    /\ DOMAIN wires \subseteq End

(* A node never keeps a neighbor whose connection has closed, and so never *)
(* sends to a socket that is not there (server.ts:95-102, 263-277), even   *)
(* with two connections to one port and a peer that is started again       *)
(* before the close of its last life is seen.                              *)
NeighborsOpen ==
    \A n \in Node : \A v \in DOMAIN neighbors[n] :
        /\ neighbors[n][v] \in DOMAIN wires
        /\ NodeOf(neighbors[n][v]) = n /\ NodeOf(Peer(neighbors[n][v])) = v

(* When all is delivered two nodes know each other or neither does, and    *)
(* they do if any connection between them is open (server.ts:78-102).      *)
Mutual ==
    Quiet =>
        \A n, v \in Node :
            v \in DOMAIN neighbors[n] <=> \E e \in DOMAIN wires : NodeOf(e) = n /\ NodeOf(Peer(e)) = v

(* With nothing under way every listed validator counts the same ones and  *)
(* in the same order: they wait for the same number of messages, and a     *)
(* keygen hashes the list as it is (server.ts:133-150, keygenSession.ts:   *)
(* 45).  Unless a process was killed or left the list without ending, they *)
(* are the ones that run, as Redis lists them.                             *)
ListsAgree ==
    Quiet =>
        /\ \A m, n \in Node :
              status[m] = "on" /\ status[n] = "on" => validators[m] = validators[n]
        /\ (\A n \in Node : status[n] \in {"off", "on"}) =>
              \A n \in Node : Running(n) =>
                  ToSet(validators[n]) = {m \in Node : Running(m)} /\ validators[n] = registry

(* Every node follows the leader that Redis holds, whoever has left        *)
(* meanwhile, and itself while there is none (server.ts:137-146, 184-190). *)
LeaderOfRedis ==
    Quiet => \A n \in Node : Running(n) => leader[n] = IF redisLeader = None THEN n ELSE redisLeader

(* Every listed validator holds the chain of Redis, the one that was there *)
(* before it was started included (server.ts:284-285, consesnsus.ts:64-67, *)
(* 102-114).                                                               *)
ChainOfRedis ==
    (Quiet /\ redisChain # <<>>) =>
        \A n \in Node : status[n] = "on" => chain[n] = redisChain

(* The chain of each node passes isValidChain, although that of Redis is   *)
(* taken over without asking (consesnsus.ts:85-100, server.ts:284-285).    *)
OwnChainValid == \A n \in Node : IsValidChain(chain[n])
===============================================================================
