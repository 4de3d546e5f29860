---------------------------- MODULE MembershipProof ----------------------------
(***************************************************************************)
(* A node never keeps a neighbor whose connection has closed, NeighborsOpen,*)
(* for any number of processes, however often they start and end and in    *)
(* whatever order packets and replies come.                                *)
(***************************************************************************)
EXTENDS Membership, WellFoundedInduction, TLAPS

(* Sending opens and closes no connection. *)
LEMMA SentDomain == ASSUME NEW ws, NEW e, NEW m PROVE DOMAIN Sent(ws, e, m) = DOMAIN ws
BY DEF Sent

(* Sending opens and closes no wire. *)
LEMMA SentToAllDomain ==
    ASSUME NEW ws, NEW n, NEW m PROVE DOMAIN SentToAll(ws, n, m) = DOMAIN ws
BY DEF SentToAll

(* Neither does receiving. *)
LEMMA ReceivedDomain == ASSUME NEW e PROVE DOMAIN Received(e) = DOMAIN wires
BY DEF Received

(* Every process has neighbors, and NeighborsOpen. *)
NeighborsInv == DOMAIN neighbors = Node /\ NeighborsOpen

(* What leaves the neighbors alone and closes no connection keeps it. *)
LEMMA KeptOpen ==
    ASSUME NeighborsInv, UNCHANGED neighbors, DOMAIN wires \subseteq DOMAIN wires'
    PROVE  NeighborsInv'
BY DEF NeighborsInv, NeighborsOpen, NodeOf, Peer

(* Before anything has started nobody has a neighbor. *)
LEMMA InitOpen == Init => NeighborsInv
BY DEF Init, NeighborsInv, NeighborsOpen, NoEnds

(* A process that ends closes only its own ends, and forgets its neighbors.*)
LEMMA VanishOpen ==
    ASSUME NeighborsInv, NEW n \in Node, NEW how, Vanish(n, how)
    PROVE  NeighborsInv'
<1>1. DOMAIN neighbors' = Node
  BY DEF Vanish, NeighborsInv
<1>2. ASSUME NEW m \in Node, NEW v \in DOMAIN neighbors'[m]
      PROVE  /\ m # n
             /\ neighbors'[m] = neighbors[m]
  <2>1. m # n
    BY <1>2 DEF Vanish, NeighborsInv, NoEnds
  <2> QED
    BY <2>1 DEF Vanish, NeighborsInv
<1>3. DOMAIN wires' = {e \in DOMAIN wires : NodeOf(e) # n}
  BY DEF Vanish
<1> QED
  BY <1>1, <1>2, <1>3 DEF NeighborsInv, NeighborsOpen

(* A handshake adds the peer of the connection that it came on.           *)
LEMMA HandshakeOpen ==
    ASSUME NeighborsInv, NEW n \in Node, NEW e \in DOMAIN wires, NodeOf(e) = n, Handshake(e)
    PROVE  NeighborsInv'
<1> DEFINE v == NodeOf(Peer(e))
<1>1. neighbors' = [neighbors EXCEPT ![n] = WithNeighbor(n, v, e)]
  BY DEF Handshake
<1>2. DOMAIN neighbors' = Node /\ DOMAIN wires' = DOMAIN wires
  BY <1>1, ReceivedDomain DEF Handshake, NeighborsInv
<1>3. ASSUME NEW m \in Node, NEW w \in DOMAIN neighbors'[m]
      PROVE  /\ neighbors'[m][w] \in DOMAIN wires
             /\ NodeOf(neighbors'[m][w]) = m /\ NodeOf(Peer(neighbors'[m][w])) = w
  <2>1. CASE m # n
    BY <1>1, <1>3, <2>1 DEF NeighborsInv, NeighborsOpen
  <2>2. CASE m = n
    <3>1. neighbors'[m] = WithNeighbor(n, v, e)
      BY <1>1, <2>2 DEF NeighborsInv
    <3>2. CASE w = v
      <4>1. neighbors'[m][w] = e
        BY <3>1, <3>2 DEF WithNeighbor
      <4> QED
        BY <4>1, <3>2, <2>2
    <3>3. CASE w # v
      <4>1. w \in DOMAIN neighbors[m] /\ neighbors'[m][w] = neighbors[m][w]
        BY <1>3, <2>2, <3>1, <3>3 DEF WithNeighbor
      <4> QED
        BY <4>1 DEF NeighborsInv, NeighborsOpen
    <3> QED
      BY <3>2, <3>3
  <2> QED
    BY <2>1, <2>2
<1> QED
  BY <1>2, <1>3 DEF NeighborsInv, NeighborsOpen

(* Closing removes the neighbor whose connection this is, and no one else  *)
(* has a neighbor on that end.                                             *)
LEMMA CloseOpen ==
    ASSUME NeighborsInv, NEW n \in Node, NEW e \in DOMAIN wires, NodeOf(e) = n, Close(e)
    PROVE  NeighborsInv'
<1>1. /\ neighbors' = [neighbors EXCEPT ![n] =
                         [v \in DOMAIN neighbors[n] \ Found(e) |-> neighbors[n][v]]]
      /\ DOMAIN wires' = DOMAIN wires \ {e}
  BY DEF Close
<1>2. DOMAIN neighbors' = Node
  BY <1>1 DEF NeighborsInv
<1>3. ASSUME NEW m \in Node, NEW w \in DOMAIN neighbors'[m]
      PROVE  /\ w \in DOMAIN neighbors[m]
             /\ neighbors'[m][w] = neighbors[m][w]
             /\ neighbors[m][w] # e
  <2>1. CASE m # n
    BY <1>1, <1>3, <2>1 DEF NeighborsInv, NeighborsOpen
  <2>2. CASE m = n
    <3>1. neighbors'[m] = [v \in DOMAIN neighbors[n] \ Found(e) |-> neighbors[n][v]]
      BY <1>1, <2>2 DEF NeighborsInv
    <3>2. Found(e) = {v \in DOMAIN neighbors[n] : neighbors[n][v] = e}
      BY DEF Found
    <3> QED
      BY <1>3, <2>2, <3>1, <3>2
  <2> QED
    BY <2>1, <2>2
<1>4. ASSUME NEW m \in Node, NEW w \in DOMAIN neighbors'[m]
      PROVE  /\ neighbors'[m][w] \in DOMAIN wires'
             /\ NodeOf(neighbors'[m][w]) = m /\ NodeOf(Peer(neighbors'[m][w])) = w
  <2>1. /\ neighbors[m][w] \in DOMAIN wires
        /\ NodeOf(neighbors[m][w]) = m /\ NodeOf(Peer(neighbors[m][w])) = w
    BY <1>3, <1>4 DEF NeighborsInv, NeighborsOpen
  <2> QED
    BY <1>1, <1>3, <1>4, <2>1
<1> QED
  BY <1>2, <1>4 DEF NeighborsInv, NeighborsOpen

(* What a reply of Redis starts leaves neighbors alone, unless it ends the *)
(* process.                                                                *)
LEMMA TakeReplyOpen ==
    ASSUME NeighborsInv, NEW n \in Node, TakeReply(n)
    PROVE  NeighborsInv'
<1>1. CASE InitList(n) \/ UpdatePeerReplica(n) \/ CarryOn(n) \/ ReadLeader(n) \/ UpdateReplica(n)
  BY <1>1, KeptOpen DEF InitList, UpdatePeerReplica, CarryOn, ReadLeader, UpdateReplica
<1>2. CASE Exit(n)
  BY <1>2, VanishOpen DEF Exit
<1>3. CASE Listen(n)
  <2>1. DOMAIN wires \subseteq DOMAIN wires'
    BY <1>3 DEF Listen
  <2> QED
    BY <1>3, <2>1, KeptOpen DEF Listen
<1>4. CASE RestateLeader(n)
  BY <1>4, KeptOpen, SentToAllDomain DEF RestateLeader
<1>5. CASE HandlePeerConnection(n)
  BY <1>5, KeptOpen, SentDomain DEF HandlePeerConnection
<1> QED
  BY <1>1, <1>2, <1>3, <1>4, <1>5 DEF TakeReply

(* Of the packets only a handshake and a close change neighbors.           *)
LEMMA ReceiveOpen ==
    ASSUME NeighborsInv, NEW n \in Node, NEW e \in DOMAIN wires, NodeOf(e) = n, Receive(e)
    PROVE  NeighborsInv'
<1>1. CASE Open(e)
  <2>1. DOMAIN wires' = DOMAIN wires
    BY <1>1, SentDomain, ReceivedDomain DEF Open
  <2> QED
    BY <1>1, <2>1, KeptOpen DEF Open
<1>2. CASE Handshake(e)
  BY <1>2, HandshakeOpen
<1>3. CASE Close(e)
  BY <1>3, CloseOpen
<1>4. CASE HandleNewElectionRoundResult(e)
  BY <1>4, KeptOpen, ReceivedDomain DEF HandleNewElectionRoundResult
<1>5. CASE ReplaceChain(e)
  BY <1>5, KeptOpen, ReceivedDomain DEF ReplaceChain
<1> QED
  BY <1>1, <1>2, <1>3, <1>4, <1>5 DEF Receive

(* Every step keeps the invariant. *)
LEMMA StepOpen == NeighborsInv /\ [Next]_memberVars => NeighborsInv'
<1> SUFFICES ASSUME NeighborsInv, [Next]_memberVars PROVE NeighborsInv'
  OBVIOUS
<1>1. CASE UNCHANGED memberVars
  BY <1>1, KeptOpen DEF memberVars
<1>2. ASSUME NEW n \in Node, Proceed(n) PROVE NeighborsInv'
  <2>1. CASE AddBlock(n)
    BY <2>1, KeptOpen DEF AddBlock
  <2> QED
    BY <1>2, <2>1, TakeReplyOpen, ReceiveOpen DEF Proceed
<1>3. ASSUME NEW n \in Node, Start(n) \/ FromOutside(n) \/ ResetState(n) PROVE NeighborsInv'
  <2>1. CASE Start(n) \/ Interrupt(n) \/ Certify(n) \/ ResetState(n)
    BY <2>1, KeptOpen DEF Start, Interrupt, Certify, ResetState
  <2>2. CASE Kill(n)
    BY <2>2, VanishOpen DEF Kill
  <2> QED
    BY <1>3, <2>1, <2>2 DEF FromOutside
<1> QED
  BY <1>1, <1>2, <1>3 DEF Next

(* No process ever sends to a connection that has closed on its side: the  *)
(* disconnect of server.ts:95-102 finds every neighbor it has to remove.   *)
THEOREM NeighborsOpenHolds == Spec => []NeighborsOpen
<1>1. NeighborsInv => NeighborsOpen
  BY DEF NeighborsInv
<1> QED
  BY <1>1, InitOpen, StepOpen, PTL DEF Spec
-------------------------------------------------------------------------------
(***************************************************************************)
(* Types.  The list of Redis has no port twice because every list that a   *)
(* process has read and will write back has none (MemberInv): removing a   *)
(* port keeps that, and a port is added only where it is not.              *)
(***************************************************************************)
(* Every set of naturals has a least element: what an induction is made of.*)
LEMMA LeastOf ==
    ASSUME NEW T \in SUBSET Nat, T # {}
    PROVE  \E x \in T : \A y \in T : x <= y
<1> DEFINE R == OpToRel(<, Nat)
<1>1. R = {ss \in Nat \X Nat : ss[1] < ss[2]}
  BY DEF OpToRel
<1>2. IsWellFoundedOn(R, Nat)
  BY NatLessThanWellFounded
<1> HIDE DEF R
<1>3. PICK x \in T : \A y \in T : <<y, x>> \notin R
  BY <1>2, WFMin
<1>4. ASSUME NEW y \in T PROVE x <= y
  <2>1. x \in Nat /\ y \in Nat /\ <<y, x>> \in Nat \X Nat
    OBVIOUS
  <2>2. ~ (<<y, x>>[1] < <<y, x>>[2])
    BY <1>1, <1>3, <2>1
  <2> QED
    BY <2>1, <2>2
<1> QED
  BY <1>4

(* One step of the recursion of Without. *)
KeptStep(f, ps, p, i) ==
    f[i] = IF i = 0 THEN <<>> ELSE IF ps[i] = p THEN f[i - 1] ELSE Append(f[i - 1], ps[i])

(* The recursion defines a function. *)
LEMMA KeptExists ==
    ASSUME NEW S, NEW ps \in Seq(S), NEW p, NEW k \in 0..Len(ps)
    PROVE  \E f : DOMAIN f = 0..k /\ f = [i \in 0..k |-> f[i]] /\ \A i \in 0..k : KeptStep(f, ps, p, i)
<1> DEFINE Good(k0) == \E f : /\ DOMAIN f = 0..k0 /\ f = [i \in 0..k0 |-> f[i]]
                             /\ \A i \in 0..k0 : KeptStep(f, ps, p, i)
           T == {k0 \in 0..Len(ps) : ~ Good(k0)}
<1>1. Good(0)
  <2> DEFINE f == [i \in 0..0 |-> <<>>]
  <2>1. DOMAIN f = 0..0 /\ f = [i \in 0..0 |-> f[i]] /\ \A i \in 0..0 : KeptStep(f, ps, p, i)
    BY DEF KeptStep
  <2> HIDE DEF f
  <2> QED
    BY <2>1
<1>2. ASSUME NEW m \in 0..Len(ps), m # 0, Good(m - 1) PROVE Good(m)
  <2>1. PICK f : /\ DOMAIN f = 0..(m-1) /\ f = [i \in 0..(m-1) |-> f[i]]
                /\ \A i \in 0..(m-1) : KeptStep(f, ps, p, i)
    BY <1>2
  <2> DEFINE g == [i \in 0..m |-> IF i < m THEN f[i]
                     ELSE IF ps[m] = p THEN f[m - 1] ELSE Append(f[m - 1], ps[m])]
  <2>2. ASSUME NEW i \in 0..m PROVE KeptStep(g, ps, p, i)
    <3>1. CASE i < m
      BY <2>1, <3>1 DEF KeptStep
    <3>2. CASE i = m
      BY <1>2, <3>2 DEF KeptStep
    <3> QED
      BY <3>1, <3>2
  <2>3. DOMAIN g = 0..m /\ g = [i \in 0..m |-> g[i]]
    OBVIOUS
  <2> HIDE DEF g
  <2> QED
    BY <2>2, <2>3
<1>3. T = {}
  <2> SUFFICES ASSUME T # {} PROVE FALSE
    OBVIOUS
  <2> HIDE DEF Good
  <2>1. PICK m \in T : \A y \in T : m <= y
    <3>1. T \subseteq Nat
      OBVIOUS
    <3> HIDE DEF T
    <3> QED
      BY <3>1, LeastOf
  <2>2. m # 0 /\ m - 1 \in 0..Len(ps) /\ m - 1 \notin T
    BY <1>1, <2>1
  <2> QED
    BY <1>2, <2>1, <2>2
<1> HIDE DEF Good
<1>4. Good(k)
  BY <1>3
<1> QED
  BY <1>4 DEF Good

(* Without keeps what is there and other than p, each once if it was there once. *)
LEMMA WithoutType ==
    ASSUME NEW S, NEW ps \in Seq(S), NEW p
    PROVE  /\ Without(ps, p) \in Seq(S)
           /\ \A j \in 1..Len(Without(ps, p)) : \E i \in 1..Len(ps) : ps[i] = Without(ps, p)[j] /\ ps[i] # p
           /\ (\A i, j \in DOMAIN ps : ps[i] = ps[j] => i = j) =>
                \A i, j \in DOMAIN Without(ps, p) : Without(ps, p)[i] = Without(ps, p)[j] => i = j
<1> DEFINE D == 0..Len(ps)
           f == CHOOSE f : f = [i \in 0..Len(ps) |-> IF i = 0 THEN <<>>
            ELSE IF ps[i] = p THEN f[i - 1] ELSE Append(f[i - 1], ps[i])]
<1>1. Without(ps, p) = f[Len(ps)]
  BY DEF Without
<1>2. f = [i \in D |-> IF i = 0 THEN <<>>
            ELSE IF ps[i] = p THEN f[i - 1] ELSE Append(f[i - 1], ps[i])]
  <2>0. Len(ps) \in 0..Len(ps)
    OBVIOUS
  <2>1. PICK g : DOMAIN g = D /\ g = [i \in D |-> g[i]] /\ \A i \in D : KeptStep(g, ps, p, i)
    BY <2>0, KeptExists
  <2>2. g = [i \in D |-> IF i = 0 THEN <<>>
            ELSE IF ps[i] = p THEN g[i - 1] ELSE Append(g[i - 1], ps[i])]
    BY <2>1 DEF KeptStep
  <2> QED
    BY <2>2
<1> HIDE DEF f
<1>7. ASSUME NEW i \in D, i # 0
      PROVE  f[i] = IF ps[i] = p THEN f[i - 1] ELSE Append(f[i - 1], ps[i])
  BY <1>2, <1>7
<1> DEFINE Right(i) ==
              /\ f[i] \in Seq(S)
              /\ \A j \in 1..Len(f[i]) : \E l \in 1..i : ps[l] = f[i][j] /\ ps[l] # p
              /\ (\A a, b \in DOMAIN ps : ps[a] = ps[b] => a = b) =>
                   \A a, b \in DOMAIN f[i] : f[i][a] = f[i][b] => a = b
           T == {i \in D : ~ Right(i)}
<1>3. Right(0)
  BY <1>2
<1>4. ASSUME NEW i \in D, i # 0, Right(i - 1) PROVE Right(i)
  <2>0. i \in 1..Len(ps) /\ i - 1 \in D
    BY <1>4
  <2>1. CASE ps[i] = p
    <3>1. f[i] = f[i - 1]
      BY <1>4, <1>7, <2>1
    <3> HIDE DEF D
    <3> QED
      BY <3>1, <1>4, <2>0
  <2>2. CASE ps[i] # p
    <3>1. f[i] = Append(f[i - 1], ps[i])
      BY <1>4, <1>7, <2>2
    <3> DEFINE g == f[i - 1]
    <3>2. g \in Seq(S) /\ ps[i] \in S
      BY <1>4, <2>0
    <3>3. \A j \in 1..Len(g) : \E l \in 1..(i - 1) : ps[l] = g[j] /\ ps[l] # p
      BY <1>4
    <3> HIDE DEF g, D
    <3>4. Append(g, ps[i]) \in Seq(S)
      BY <3>2
    <3>5. ASSUME NEW j \in 1..Len(Append(g, ps[i]))
          PROVE  \E l \in 1..i : ps[l] = Append(g, ps[i])[j] /\ ps[l] # p
      <4>1. CASE j = Len(g) + 1
        BY <3>2, <2>0, <2>2, <4>1
      <4>2. CASE j \in 1..Len(g)
        BY <3>2, <3>3, <2>0, <4>2
      <4> QED
        BY <3>2, <4>1, <4>2
    <3>6. ASSUME \A a, b \in DOMAIN ps : ps[a] = ps[b] => a = b,
                 NEW a \in DOMAIN Append(g, ps[i]), NEW b \in DOMAIN Append(g, ps[i]),
                 Append(g, ps[i])[a] = Append(g, ps[i])[b]
          PROVE  a = b
      <4>1. \A c \in 1..Len(g) : g[c] # ps[i]
        BY <3>3, <3>6, <2>0, SMTT(30)
      <4>2. \A c, d \in 1..Len(g) : g[c] = g[d] => c = d
        BY <1>4, <3>2, <3>6 DEF g
      <4>3. DOMAIN Append(g, ps[i]) = 1..(Len(g) + 1) /\ Len(g) \in Nat
        BY <3>2
      <4> QED
        BY <3>2, <3>6, <4>1, <4>2, <4>3
    <3> QED
      BY <3>1, <3>4, <3>5, <3>6 DEF g
  <2> QED
    BY <2>1, <2>2
<1>5. T = {}
  <2> SUFFICES ASSUME T # {} PROVE FALSE
    OBVIOUS
  <2> HIDE DEF Right
  <2>1. PICK m \in T : \A y \in T : m <= y
    <3>1. T \subseteq Nat
      OBVIOUS
    <3> HIDE DEF T
    <3> QED
      BY <3>1, LeastOf
  <2>2. m # 0 /\ m - 1 \in D /\ m - 1 \notin T
    BY <1>3, <2>1
  <2> QED
    BY <1>4, <2>1, <2>2
<1>6. Right(Len(ps))
  <2> HIDE DEF Right
  <2> QED
    BY <1>5
<1> QED
  BY <1>1, <1>6

Ports == {s \in Seq(Node) : \A i, j \in DOMAIN s : s[i] = s[j] => i = j}
Lists == Ports \cup {NoList}
Change == {"CONNECT", "DISCONNECT"}
Reply ==
    [to : {"updatePeerReplica"}, peers : Lists, then : {"listen", "exit", "carry on"}]
        \cup [to : {"listen", "exit", "carry on"}, peers : Ports]
        \cup [to : {"readLeader"}, of : Node, type : Change, peers : Lists]
        \cup [to : {"updateReplica"}, of : Node, type : Change, peers : Lists,
              leader : Node \cup {None}]
        \cup [to : {"electNewLeader"}, leader : Node]
        \cup [to : {"handlePeerConnection"}, of : Node, chain : Chain]
Packet ==
    [type : {"open", "handshake", "close"}]
        \cup [type : {"SetNewLeader"}, leader : Node]
        \cup [type : {"chain"}, chain : Chain]
WiresOK(ws) == DOMAIN ws \subseteq End /\ \A e \in DOMAIN ws : ws[e] \in Seq(Packet)
Known ==
    /\ leader \in [Node -> Node \cup {None}]
    /\ validators \in [Node -> Seq(Node)]
    /\ chain \in [Node -> Chain \ {<<>>}]
Stored == registry \in Lists /\ redisLeader \in Node \cup {None} /\ redisChain \in Chain
Processes ==
    /\ status \in [Node -> {"off", "starting", "on", "unlisted", "killed"}]
    /\ lives \in [Node -> Nat]
    /\ ops \in 0..MaxOps
Rounds == blocks \in Chain /\ certified \in [Node -> SUBSET (1..MaxBlocks)]
MemberInv ==
    /\ Known
    /\ Stored
    /\ Processes
    /\ Rounds
    /\ awaiting \in [Node -> Seq(Reply)]
    /\ WiresOK(wires)

(* The type invariant of the run follows from the inductive one. *)
LEMMA MemberInvTypes == MemberInv => MembershipTypeOK
<1> SUFFICES ASSUME MemberInv PROVE MembershipTypeOK
  OBVIOUS
<1>1. /\ registry \in Seq(Node) \cup {NoList}
      /\ \A i, j \in DOMAIN registry : registry[i] = registry[j] => i = j
  <2>1. CASE registry \in Ports
    BY <2>1 DEF Ports
  <2>2. CASE registry = NoList
    BY <2>2 DEF NoList
  <2> QED
    BY <2>1, <2>2 DEF MemberInv, Stored, Lists
<1> QED
  BY <1>1 DEF MemberInv, MembershipTypeOK, Known, Stored, Processes, Rounds, WiresOK

(* The initial states. *)
LEMMA InitTypes == Init => MemberInv
<1> SUFFICES ASSUME Init PROVE MemberInv
  OBVIOUS
<1>1. Known /\ Rounds
  BY MembershipAssumption DEF Init, Known, Rounds, Chain, Genesis, None
<1>2. Stored /\ Processes
  BY MembershipAssumption DEF Init, Stored, Processes, Lists, Chain, None
<1>3. awaiting \in [Node -> Seq(Reply)]
  BY DEF Init
<1>4. WiresOK(wires)
  BY DEF Init, WiresOK, NoEnds
<1> QED
  BY <1>1, <1>2, <1>3, <1>4 DEF MemberInv

(* A list of one element. *)
LEMMA SingletonType == ASSUME NEW S, NEW x \in S PROVE <<x>> \in Seq(S)
OBVIOUS

(* The last element of a list. *)
LEMMA LastType == ASSUME NEW S, NEW s \in Seq(S), s # <<>> PROVE s[Len(s)] \in S
OBVIOUS

(* Issuing a command and taking a reply up keep the queue of replies typed. *)
LEMMA AwaitType ==
    ASSUME awaiting \in [Node -> Seq(Reply)], NEW n \in Node, NEW r \in Reply, Await(n, r)
    PROVE  awaiting' \in [Node -> Seq(Reply)]
BY DEF Await

(* A node takes up the next reply it awaits. *)
LEMMA TakeUpType ==
    ASSUME awaiting \in [Node -> Seq(Reply)], NEW n \in Node, awaiting[n] # <<>>,
           NEW rs \in Seq(Reply), TakeUp(n, rs)
    PROVE  awaiting' \in [Node -> Seq(Reply)]
<1>1. Tail(awaiting[n]) \o rs \in Seq(Reply)
  OBVIOUS
<1> QED
  BY <1>1 DEF TakeUp

(* The reply a node takes up. *)
LEMMA HeadType ==
    ASSUME awaiting \in [Node -> Seq(Reply)], NEW n \in Node, awaiting[n] # <<>>
    PROVE  Head(awaiting[n]) \in Reply
OBVIOUS

(* A packet is sent on one wire. *)
LEMMA SentType ==
    ASSUME NEW ws, WiresOK(ws), NEW e, NEW m \in Packet
    PROVE  WiresOK(Sent(ws, e, m))
BY DEF WiresOK, Sent

(* A packet is broadcast. *)
LEMMA SentToAllType ==
    ASSUME NEW ws, WiresOK(ws), NEW n, NEW m \in Packet
    PROVE  WiresOK(SentToAll(ws, n, m))
BY DEF WiresOK, SentToAll

(* A packet is received. *)
LEMMA ReceivedType ==
    ASSUME WiresOK(wires), NEW e \in DOMAIN wires, wires[e] # <<>>
    PROVE  WiresOK(Received(e)) /\ Head(wires[e]) \in Packet
BY DEF WiresOK, Received

(* A list written back is one of ports, each once. *)
LEMMA WrittenType ==
    ASSUME NEW ps \in Ports, NEW n \in Node, NEW then
    PROVE  WrittenList(ps, n, then) \in Ports
<1>1. ps \in Seq(Node) /\ \A i, j \in DOMAIN ps : ps[i] = ps[j] => i = j
  BY DEF Ports
<1>2. Without(ps, n) \in Ports
  BY <1>1, WithoutType DEF Ports
<1>3. WithPort(ps, n) \in Ports
  <2>1. CASE n \in ToSet(ps)
    BY <2>1 DEF WithPort
  <2>2. CASE n \notin ToSet(ps)
    <3>1. \A i \in 1..Len(ps) : ps[i] # n
      BY <1>1, <2>2 DEF ToSet
    <3>2. Append(ps, n) \in Seq(Node) /\ DOMAIN Append(ps, n) = 1..(Len(ps) + 1)
      BY <1>1
    <3>3. ASSUME NEW i \in 1..(Len(ps) + 1), NEW j \in 1..(Len(ps) + 1),
                 Append(ps, n)[i] = Append(ps, n)[j]
          PROVE  i = j
      BY <1>1, <3>1, <3>3
    <3> QED
      BY <2>2, <3>2, <3>3 DEF WithPort, Ports
  <2> QED
    BY <2>1, <2>2
<1> QED
  BY <1>2, <1>3 DEF WrittenList, WithoutPort

(* What a node does that is about one reply of Redis and its list.         *)
LEMMA RegistryTypes ==
    ASSUME MemberInv, NEW n \in Node, InitList(n) \/ UpdatePeerReplica(n) \/ CarryOn(n)
    PROVE  MemberInv'
<1> DEFINE r == Head(awaiting[n])
<1>1. awaiting[n] # <<>> /\ r \in Reply
  BY HeadType DEF MemberInv, InitList, UpdatePeerReplica, CarryOn, Replied
<1>2. CASE InitList(n)
  <2>1. r.to = "updatePeerReplica"
    BY <1>2 DEF InitList, Replied
  <2> DEFINE q == [to |-> "updatePeerReplica", peers |-> <<n>>, then |-> r.then]
  <2>2. r.then \in {"listen", "exit", "carry on"}
    <3>1. r \in [to : {"updatePeerReplica"}, peers : Lists, then : {"listen", "exit", "carry on"}]
      BY <1>1, <2>1 DEF Reply
    <3> HIDE DEF r
    <3> QED
      BY <3>1
  <2>3. <<n>> \in Lists
    BY DEF Lists, Ports
  <2>5. q \in Reply
    BY <2>2, <2>3 DEF Reply
  <2>6. TakeUp(n, <<q>>)
    BY <1>2 DEF InitList
  <2> HIDE DEF q
  <2>7. awaiting' \in [Node -> Seq(Reply)]
    <3>1. <<q>> \in Seq(Reply)
      BY <2>5
    <3> QED
      BY <1>1, <2>6, <3>1, TakeUpType DEF MemberInv
  <2> QED
    BY <1>2, <2>3, <2>7 DEF InitList, MemberInv, Known, Stored, Processes, Rounds, WiresOK,
                            replicaVars, roundVars
<1>3. CASE UpdatePeerReplica(n)
  <2>1. r.to = "updatePeerReplica" /\ r.peers # NoList
    BY <1>3 DEF UpdatePeerReplica, Replied
  <2>2. r.peers \in Ports /\ r.then \in {"listen", "exit", "carry on"}
    <3>1. r \in [to : {"updatePeerReplica"}, peers : Lists, then : {"listen", "exit", "carry on"}]
      BY <1>1, <2>1 DEF Reply
    <3> HIDE DEF r
    <3> QED
      BY <2>1, <3>1 DEF Lists
  <2> DEFINE ps == WrittenList(r.peers, n, r.then)
  <2>3. ps \in Ports
    BY <2>2, WrittenType
  <2>4. registry' = ps /\ TakeUp(n, <<[to |-> r.then, peers |-> ps]>>)
    BY <1>3 DEF UpdatePeerReplica
  <2>5. status' \in [Node -> {"off", "starting", "on", "unlisted", "killed"}]
    BY <1>3 DEF UpdatePeerReplica, MemberInv, Processes
  <2> HIDE DEF r, ps
  <2>6. awaiting' \in [Node -> Seq(Reply)]
    <3>1. [to |-> r.then, peers |-> ps] \in Reply
      BY <2>2, <2>3 DEF Reply
    <3>2. <<[to |-> r.then, peers |-> ps]>> \in Seq(Reply)
      BY <3>1
    <3> QED
      BY <1>1, <2>4, <3>2, TakeUpType DEF MemberInv
  <2> QED
    BY <1>3, <2>3, <2>4, <2>5, <2>6
    DEF UpdatePeerReplica, MemberInv, Known, Stored, Processes, Rounds, WiresOK, Lists,
        replicaVars, roundVars
<1>4. CASE CarryOn(n)
  <2>1. TakeUp(n, <<>>)
    BY <1>4 DEF CarryOn
  <2>2. awaiting' \in [Node -> Seq(Reply)]
    <3>1. <<>> \in Seq(Reply)
      OBVIOUS
    <3> QED
      BY <1>1, <2>1, <3>1, TakeUpType DEF MemberInv
  <2> QED
    BY <1>4, <2>2 DEF CarryOn, MemberInv, Known, Stored, Processes, Rounds, WiresOK,
                      replicaVars, redisVars, roundVars
<1> QED
  BY <1>2, <1>3, <1>4

(* The end of a process. *)
LEMMA VanishTypes ==
    ASSUME MemberInv, NEW n \in Node, NEW how \in {"off", "killed"}, Vanish(n, how),
           ops' \in 0..MaxOps
    PROVE  MemberInv'
<1>1. WiresOK(wires')
  <2> DEFINE kept == {x \in DOMAIN wires : NodeOf(x) # n}
  <2>1. /\ DOMAIN wires' = kept
        /\ \A e \in kept : wires'[e] \in {wires[e], Append(wires[e], [type |-> "close"])}
    BY DEF Vanish
  <2>2. [type |-> "close"] \in Packet
    BY DEF Packet
  <2>3. \A e \in kept : e \in End /\ wires[e] \in Seq(Packet)
    BY DEF MemberInv, WiresOK
  <2> HIDE DEF kept
  <2>4. \A e \in kept : Append(wires[e], [type |-> "close"]) \in Seq(Packet)
    BY <2>2, <2>3
  <2> QED
    BY <2>1, <2>3, <2>4 DEF WiresOK
<1>2. awaiting' \in [Node -> Seq(Reply)]
  BY DEF Vanish, MemberInv
<1>3. Known'
  BY MembershipAssumption DEF Vanish, MemberInv, Known, Chain, Genesis, None
<1>4. Processes' /\ Rounds'
  BY DEF Vanish, MemberInv, Processes, Rounds
<1>5. Stored'
  BY DEF Vanish, MemberInv, Stored, redisVars
<1> QED
  BY <1>1, <1>2, <1>3, <1>4, <1>5 DEF MemberInv, WiresOK

(* The replies that follow a start or a change of connections. *)
LEMMA ReplicaTypes ==
    ASSUME MemberInv, NEW n \in Node, ReadLeader(n) \/ UpdateReplica(n)
    PROVE  MemberInv'
<1> DEFINE r == Head(awaiting[n])
<1>1. awaiting[n] # <<>> /\ r \in Reply
  BY HeadType DEF MemberInv, ReadLeader, UpdateReplica, Replied
<1>2. CASE ReadLeader(n)
  <2>1. r.of \in Node /\ r.type \in Change /\ r.peers \in Lists
    <3>1. r \in [to : {"readLeader"}, of : Node, type : Change, peers : Lists]
      BY <1>1, <1>2 DEF Reply, ReadLeader, Replied
    <3> HIDE DEF r
    <3> QED
      BY <3>1
  <2> DEFINE q == [to |-> "updateReplica", of |-> r.of, type |-> r.type,
                   peers |-> r.peers, leader |-> redisLeader]
  <2>2. TakeUp(n, <<q>>)
    BY <1>2 DEF ReadLeader
  <2>3. q \in Reply
    BY <2>1 DEF Reply, MemberInv, Stored
  <2> HIDE DEF q
  <2>4. awaiting' \in [Node -> Seq(Reply)]
    <3>1. <<q>> \in Seq(Reply)
      BY <2>3
    <3> QED
      BY <1>1, <2>2, <3>1, TakeUpType DEF MemberInv
  <2> QED
    BY <1>2, <2>4 DEF ReadLeader, MemberInv, Known, Stored, Processes, Rounds, WiresOK,
                      replicaVars, redisVars, roundVars
<1>3. CASE UpdateReplica(n)
  <2>1. /\ r.of \in Node /\ r.type \in Change
        /\ r.peers \in Lists /\ r.leader \in Node \cup {None}
    <3>1. r \in [to : {"updateReplica"}, of : Node, type : Change, peers : Lists,
                 leader : Node \cup {None}]
      BY <1>1, <1>3 DEF Reply, UpdateReplica, Replied
    <3> HIDE DEF r
    <3> QED
      BY <3>1
  <2>2. KnownLeader(n, r) \in Node
    BY <2>1 DEF KnownLeader
  <2>3. KnownPeers(r) \in Seq(Node)
    BY <2>1 DEF KnownPeers, Lists, Ports
  <2>4. /\ Connected(KnownPeers(r), r.of) \in Seq(Node)
        /\ Disconnected(KnownPeers(r), r.of) \in Seq(Node)
    <3>1. Connected(KnownPeers(r), r.of) \in Seq(Node)
      BY <2>1, <2>3 DEF Connected
    <3>2. Disconnected(KnownPeers(r), r.of) \in Seq(Node)
      BY <2>3, WithoutType DEF Disconnected
    <3> QED
      BY <3>1, <3>2
  <2> DEFINE lost == r.type = "DISCONNECT" /\ KnownLeader(n, r) = r.of
             rs == IF lost THEN <<[to |-> "electNewLeader", leader |-> r.of]>> ELSE <<>>
  <2>5. /\ leader' = [leader EXCEPT ![n] = KnownLeader(n, r)]
        /\ validators' = [validators EXCEPT ![n] =
              IF r.type = "CONNECT" THEN Connected(KnownPeers(r), r.of)
              ELSE Disconnected(KnownPeers(r), r.of)]
        /\ redisLeader' = IF lost THEN r.of ELSE redisLeader
        /\ TakeUp(n, rs)
    BY <1>3 DEF UpdateReplica
  <2>6. rs \in Seq(Reply)
    <3>1. [to |-> "electNewLeader", leader |-> r.of] \in Reply
      BY <2>1 DEF Reply
    <3> HIDE DEF lost
    <3> QED
      BY <3>1
  <2> HIDE DEF r, rs
  <2>7. awaiting' \in [Node -> Seq(Reply)]
    BY <1>1, <2>5, <2>6, TakeUpType DEF MemberInv
  <2>8. Known'
    BY <1>3, <2>2, <2>4, <2>5 DEF UpdateReplica, MemberInv, Known
  <2>9. Stored'
    BY <1>3, <2>1, <2>5 DEF UpdateReplica, MemberInv, Stored
  <2> QED
    BY <1>3, <2>7, <2>8, <2>9 DEF UpdateReplica, MemberInv, Processes, Rounds, WiresOK, roundVars
<1> QED
  BY <1>2, <1>3

(* A node restates the leader it reads from Redis. *)
LEMMA RestateTypes ==
    ASSUME MemberInv, NEW n \in Node, RestateLeader(n)
    PROVE  MemberInv'
<1> DEFINE r == Head(awaiting[n])
<1>1. awaiting[n] # <<>> /\ r \in Reply /\ r.to = "electNewLeader"
  BY HeadType DEF MemberInv, RestateLeader, Replied
<1>2. r.leader \in Node
  <2>1. r \in [to : {"electNewLeader"}, leader : Node]
    BY <1>1 DEF Reply
  <2> HIDE DEF r
  <2> QED
    BY <2>1
<1> DEFINE m == [type |-> "SetNewLeader", leader |-> r.leader]
<1>3. m \in Packet
  BY <1>2 DEF Packet
<1>4. wires' = SentToAll(wires, n, m) /\ TakeUp(n, <<>>)
  BY DEF RestateLeader
<1> HIDE DEF m, r
<1>5. WiresOK(wires')
  BY <1>3, <1>4, SentToAllType DEF MemberInv
<1>6. awaiting' \in [Node -> Seq(Reply)]
  <2>1. <<>> \in Seq(Reply)
    OBVIOUS
  <2> QED
    BY <1>1, <1>4, <2>1, TakeUpType DEF MemberInv
<1> QED
  BY <1>5, <1>6 DEF RestateLeader, MemberInv, Known, Stored, Processes, Rounds, WiresOK,
                    replicaVars, redisVars, roundVars

(* The chain of Redis replaces the node's own only if it is there. *)
LEMMA PeerTypes ==
    ASSUME MemberInv, NEW n \in Node, HandlePeerConnection(n)
    PROVE  MemberInv'
<1> DEFINE r == Head(awaiting[n])
           c == Taken(n, r.chain)
           gone == r.of \notin DOMAIN neighbors[n]
           rs == <<ReadReplica(r.of, "CONNECT")>> \o (IF gone THEN <<ReadList("carry on")>> ELSE <<>>)
<1>1. awaiting[n] # <<>> /\ r \in Reply /\ r.to = "handlePeerConnection"
  BY HeadType DEF MemberInv, HandlePeerConnection, Replied
<1>2. r.of \in Node /\ r.chain \in Chain
  <2>1. r \in [to : {"handlePeerConnection"}, of : Node, chain : Chain]
    BY <1>1 DEF Reply
  <2> HIDE DEF r
  <2> QED
    BY <2>1
<1>3. c \in Chain \ {<<>>}
  BY <1>2 DEF Taken, MemberInv, Known
<1>4. rs \in Seq(Reply)
  <2>1. ReadReplica(r.of, "CONNECT") \in Reply /\ ReadList("carry on") \in Reply
    BY <1>2 DEF ReadReplica, ReadList, Reply, Change, MemberInv, Stored
  <2> DEFINE read == ReadReplica(r.of, "CONNECT")
             list == ReadList("carry on")
  <2> HIDE DEF r, gone, read, list
  <2>2. <<read>> \in Seq(Reply) /\ <<list>> \in Seq(Reply)
    BY <2>1, SingletonType DEF read, list
  <2>3. (IF gone THEN <<list>> ELSE <<>>) \in Seq(Reply)
    BY <2>2
  <2>4. <<read>> \o (IF gone THEN <<list>> ELSE <<>>) \in Seq(Reply)
    BY <2>2, <2>3
  <2> QED
    BY <2>4 DEF read, list
<1>5. /\ chain' = [chain EXCEPT ![n] = c]
      /\ wires' = IF r.of = n \/ gone THEN wires
                  ELSE Sent(wires, Peer(neighbors[n][r.of]), [type |-> "chain", chain |-> c])
      /\ TakeUp(n, rs)
  BY DEF HandlePeerConnection
<1> HIDE DEF r, c, gone, rs
<1>6. awaiting' \in [Node -> Seq(Reply)]
  BY <1>1, <1>4, <1>5, TakeUpType DEF MemberInv
<1>7. WiresOK(wires')
  <2>1. [type |-> "chain", chain |-> c] \in Packet
    BY <1>3 DEF Packet
  <2> QED
    BY <1>5, <2>1, SentType DEF MemberInv
<1>8. Known'
  BY <1>3, <1>5 DEF HandlePeerConnection, MemberInv, Known, replicaVars
<1> QED
  BY <1>6, <1>7, <1>8 DEF HandlePeerConnection, MemberInv, Stored, Processes, Rounds,
                          redisVars, roundVars

(* The server listens: the new connections have ends of known ports. *)
LEMMA ListenTypes ==
    ASSUME MemberInv, NEW n \in Node, Listen(n)
    PROVE  MemberInv'
<1> DEFINE r == Head(awaiting[n])
           new == NewEnds(n, r.peers)
<1>1. awaiting[n] # <<>> /\ r \in Reply /\ r.to = "listen"
  BY HeadType DEF MemberInv, Listen, Replied
<1>2. r.peers \in Seq(Node)
  <2>1. r \in [to : {"listen", "exit", "carry on"}, peers : Ports]
    BY <1>1 DEF Reply
  <2> HIDE DEF r
  <2> QED
    BY <2>1 DEF Ports
<1>3. new \subseteq End
  <2>1. ToSet(r.peers) \subseteq Node
    BY <1>2 DEF ToSet
  <2>2. lives[n] \in Nat
    BY DEF MemberInv, Processes
  <2> HIDE DEF r
  <2> QED
    BY <2>1, <2>2 DEF NewEnds, Accepting, End
<1>4. /\ wires' = [e \in new \cup DOMAIN wires |->
                     IF e \notin new THEN wires[e]
                     ELSE IF e.side = "client" THEN <<[type |-> "open"], [type |-> "handshake"]>>
                     ELSE <<>>]
      /\ TakeUp(n, <<ReadReplica(n, "CONNECT")>>)
      /\ status' = [status EXCEPT ![n] = "on"]
  BY DEF Listen
<1> HIDE DEF r, new
<1>5. WiresOK(wires')
  <2>1. [type |-> "open"] \in Packet /\ [type |-> "handshake"] \in Packet
    BY DEF Packet
  <2>2. /\ <<[type |-> "open"], [type |-> "handshake"]>> \in Seq(Packet)
        /\ <<>> \in Seq(Packet)
    BY <2>1
  <2> QED
    BY <1>3, <1>4, <2>2 DEF MemberInv, WiresOK
<1>6. awaiting' \in [Node -> Seq(Reply)]
  <2>1. ReadReplica(n, "CONNECT") \in Reply
    BY DEF ReadReplica, Reply, Change, MemberInv, Stored
  <2>2. <<ReadReplica(n, "CONNECT")>> \in Seq(Reply)
    BY <2>1
  <2> QED
    BY <1>1, <1>4, <2>2, TakeUpType DEF MemberInv
<1> QED
  BY <1>4, <1>5, <1>6 DEF Listen, MemberInv, Known, Stored, Processes, Rounds,
                          replicaVars, redisVars, roundVars

(* Packets. *)
LEMMA ReceiveTypes ==
    ASSUME MemberInv, NEW n \in Node, NEW e \in DOMAIN wires, NodeOf(e) = n, Receive(e)
    PROVE  MemberInv'
<1>1. e \in End /\ NodeOf(e) \in Node /\ NodeOf(Peer(e)) \in Node
  <2>1. e \in End
    BY DEF MemberInv, WiresOK
  <2>2. e.client \in Node /\ e.server \in Node /\ Peer(e).client = e.client /\ Peer(e).server = e.server
    BY <2>1 DEF End, Peer
  <2> QED
    BY <2>1, <2>2 DEF NodeOf
<1>2. wires[e] # <<>> /\ WiresOK(Received(e)) /\ Head(wires[e]) \in Packet
  BY ReceivedType
     DEF MemberInv, Receive, Arrives, Open, Handshake, Close, HandleNewElectionRoundResult, ReplaceChain
<1>3. CASE Open(e) \/ Handshake(e) \/ Close(e)
  <2>1. WiresOK(wires')
    <3>1. CASE Open(e)
      <4>1. [type |-> "handshake"] \in Packet
        BY DEF Packet
      <4> QED
        BY <1>2, <3>1, <4>1, SentType DEF Open
    <3>2. CASE Handshake(e)
      BY <1>2, <3>2 DEF Handshake
    <3>3. CASE Close(e)
      BY <3>3 DEF Close, MemberInv, WiresOK
    <3> QED
      BY <1>3, <3>1, <3>2, <3>3
  <2>2. awaiting' \in [Node -> Seq(Reply)]
    <3>1. ASSUME NEW p \in Node, NEW t \in Change PROVE ReadReplica(p, t) \in Reply
      BY DEF ReadReplica, Reply, MemberInv, Stored
    <3>2. CASE Open(e)
      BY <1>1, <3>1, <3>2, AwaitType DEF Open, MemberInv, Change
    <3>3. CASE Handshake(e)
      <4>1. [to |-> "handlePeerConnection", of |-> NodeOf(Peer(e)), chain |-> redisChain] \in Reply
        BY <1>1 DEF Reply, MemberInv, Stored
      <4> QED
        BY <1>1, <3>3, <4>1, AwaitType DEF Handshake, MemberInv
    <3>4. CASE Close(e)
      BY <1>1, <3>1, <3>4, AwaitType DEF Close, MemberInv, Change
    <3> QED
      BY <1>3, <3>2, <3>3, <3>4
  <2> QED
    BY <1>3, <2>1, <2>2 DEF Open, Handshake, Close, MemberInv, Known, Stored, Processes, Rounds,
                            replicaVars, redisVars, roundVars
<1>4. CASE HandleNewElectionRoundResult(e)
  <2>1. Head(wires[e]).leader \in Node
    <3> DEFINE m == Head(wires[e])
    <3>1. m \in [type : {"SetNewLeader"}, leader : Node]
      BY <1>2, <1>4 DEF HandleNewElectionRoundResult, Arrives, Packet
    <3> HIDE DEF m
    <3>2. m.leader \in Node
      BY <3>1
    <3> QED
      BY <3>2 DEF m
  <2> QED
    BY <1>2, <1>4, <2>1 DEF HandleNewElectionRoundResult, MemberInv, Known, Stored, Processes,
                            Rounds, roundVars
<1>5. CASE ReplaceChain(e)
  <2> DEFINE c == Head(wires[e]).chain
             better == Len(c) > Len(chain[n]) /\ IsValidChain(c)
  <2>1. c \in Chain
    <3> DEFINE m == Head(wires[e])
    <3>1. m \in [type : {"chain"}, chain : Chain]
      BY <1>2, <1>5 DEF ReplaceChain, Arrives, Packet
    <3> HIDE DEF m
    <3>2. m.chain \in Chain
      BY <3>1
    <3> QED
      BY <3>2 DEF m
  <2>2. /\ chain' = IF better THEN [chain EXCEPT ![n] = c] ELSE chain
        /\ redisChain' = IF better THEN c ELSE redisChain
        /\ wires' = Received(e)
    BY <1>5 DEF ReplaceChain
  <2>3. better => c # <<>>
    BY <2>1 DEF Chain, MemberInv, Known
  <2> HIDE DEF c, better
  <2>4. Known' /\ Stored'
    BY <1>5, <2>1, <2>2, <2>3 DEF ReplaceChain, MemberInv, Known, Stored, replicaVars
  <2> QED
    BY <1>2, <1>5, <2>2, <2>4 DEF ReplaceChain, MemberInv, Processes, Rounds, roundVars
<1> QED
  BY <1>3, <1>4, <1>5 DEF Receive

(* Operations from outside, and a decided block that is appended. *)
LEMMA OperationType == ASSUME ops \in 0..MaxOps, Operation PROVE ops' \in 0..MaxOps
BY MembershipAssumption DEF Operation

(* A node starts, is interrupted, or has its state reset. *)
LEMMA OutsideTypes ==
    ASSUME MemberInv, NEW n \in Node, Start(n) \/ Interrupt(n) \/ ResetState(n)
    PROVE  MemberInv'
<1>1. ops' \in 0..MaxOps
  <2>1. Operation
    BY DEF Start, Interrupt, ResetState
  <2> QED
    BY <2>1, OperationType DEF MemberInv, Processes
<1>2. \A then \in {"listen", "exit", "carry on"} : ReadList(then) \in Reply
  BY DEF ReadList, Reply, MemberInv, Stored
<1>3. CASE Start(n)
  <2>1. awaiting' \in [Node -> Seq(Reply)]
    BY <1>2, <1>3, AwaitType DEF Start, MemberInv
  <2>2. Processes'
    BY <1>1, <1>3 DEF Start, MemberInv, Processes
  <2> QED
    BY <1>3, <2>1, <2>2 DEF Start, MemberInv, Known, Stored, Rounds, WiresOK,
                            replicaVars, redisVars, roundVars
<1>4. CASE Interrupt(n)
  <2>1. awaiting' \in [Node -> Seq(Reply)]
    BY <1>2, <1>4, AwaitType DEF Interrupt, MemberInv
  <2> QED
    BY <1>1, <1>4, <2>1 DEF Interrupt, MemberInv, Known, Stored, Processes, Rounds, WiresOK,
                            replicaVars, redisVars, roundVars
<1>5. CASE ResetState(n)
  <2>1. Genesis \in Chain \ {<<>>}
    BY MembershipAssumption DEF Genesis, Chain
  <2>2. Known' /\ Stored'
    BY <1>5, <2>1 DEF ResetState, MemberInv, Known, Stored, replicaVars
  <2> QED
    BY <1>1, <1>5, <2>2 DEF ResetState, MemberInv, Processes, Rounds, WiresOK, roundVars
<1> QED
  BY <1>3, <1>4, <1>5

(* A node certifies a block or adds one. *)
LEMMA BlockTypes ==
    ASSUME MemberInv, NEW n \in Node, Certify(n) \/ AddBlock(n)
    PROVE  MemberInv'
<1>1. CASE Certify(n)
  <2>1. ops' \in 0..MaxOps
    BY <1>1, OperationType DEF Certify, MemberInv, Processes
  <2>2. Tip(n) \in 0..MaxBlocks
    <3>1. chain[n] \in Seq(0..MaxBlocks) /\ chain[n] # <<>>
      BY DEF MemberInv, Known, Chain
    <3> QED
      BY <3>1, LastType DEF Tip
  <2>3. blocks \in Seq(0..MaxBlocks) /\ Len(blocks) \in Nat /\ Len(blocks) < MaxBlocks
    BY <1>1 DEF Certify, MemberInv, Rounds, Chain
  <2>4. blocks' \in Chain
    BY <1>1, <2>2, <2>3 DEF Certify, Chain
  <2>5. Len(blocks) + 1 \in 1..MaxBlocks
    BY <2>3, MembershipAssumption
  <2>6. certified' \in [Node -> SUBSET (1..MaxBlocks)]
    BY <1>1, <2>5 DEF Certify, MemberInv, Rounds
  <2> QED
    BY <1>1, <2>1, <2>4, <2>6 DEF Certify, MemberInv, Known, Stored, Processes, Rounds, WiresOK,
                                  replicaVars, redisVars
<1>2. CASE AddBlock(n)
  <2>1. PICK h \in certified[n] :
           /\ certified' = [certified EXCEPT ![n] = certified[n] \ {h}]
           /\ chain' = [chain EXCEPT ![n] = Append(chain[n], h)]
           /\ redisChain' = Append(chain[n], h)
           /\ UNCHANGED <<status, lives, awaiting, neighbors, wires, replicaVars, registry,
                          redisLeader, blocks, ops>>
    BY <1>2 DEF AddBlock
  <2>2. h \in 0..MaxBlocks /\ chain[n] \in Seq(0..MaxBlocks)
    BY DEF MemberInv, Rounds, Known, Chain
  <2>3. Append(chain[n], h) \in Seq(0..MaxBlocks) /\ Append(chain[n], h) # <<>>
    BY <2>2
  <2>4. Append(chain[n], h) \in Chain \ {<<>>}
    BY <2>3 DEF Chain
  <2>5. Known' /\ Stored'
    BY <2>1, <2>4 DEF MemberInv, Known, Stored, replicaVars
  <2> QED
    BY <2>1, <2>5 DEF MemberInv, Processes, Rounds, WiresOK
<1> QED
  BY <1>1, <1>2

(* Every step keeps the inductive invariant. *)
LEMMA StepTypes == MemberInv /\ [Next]_memberVars => MemberInv'
<1> SUFFICES ASSUME MemberInv, [Next]_memberVars PROVE MemberInv'
  OBVIOUS
<1>1. CASE UNCHANGED memberVars
  BY <1>1 DEF memberVars, MemberInv, Known, Stored, Processes, Rounds, WiresOK,
              replicaVars, redisVars, roundVars
<1>2. ASSUME NEW n \in Node, TakeReply(n) PROVE MemberInv'
  <2>1. CASE Exit(n)
    BY <2>1, VanishTypes DEF Exit, MemberInv, Processes
  <2> QED
    BY <1>2, <2>1, RegistryTypes, ReplicaTypes, RestateTypes, PeerTypes, ListenTypes DEF TakeReply
<1>3. ASSUME NEW n \in Node, Proceed(n) PROVE MemberInv'
  BY <1>2, <1>3, ReceiveTypes, BlockTypes DEF Proceed
<1>4. ASSUME NEW n \in Node, Start(n) \/ FromOutside(n) \/ ResetState(n) PROVE MemberInv'
  <2>1. CASE Kill(n)
    <3>1. ops' \in 0..MaxOps
      BY <2>1, OperationType DEF Kill, MemberInv, Processes
    <3> QED
      BY <2>1, <3>1, VanishTypes DEF Kill
  <2> QED
    BY <1>4, <2>1, OutsideTypes, BlockTypes DEF FromOutside
<1> QED
  BY <1>1, <1>3, <1>4 DEF Next

(* Types, and that the list of Redis, which every process reads, changes   *)
(* and writes back, never has a port twice (index.ts:13-20), although      *)
(* those of several processes interleave.                                  *)
THEOREM MembershipTypeCorrect == Spec => []MembershipTypeOK
<1> QED
  BY InitTypes, StepTypes, MemberInvTypes, PTL DEF Spec
===============================================================================
