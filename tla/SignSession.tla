------------------------------ MODULE SignSession ------------------------------
(***************************************************************************)
(* Signing between the validators: the session manager, of which every     *)
(* signSessionInit makes a new one (src/protocol/signingProtocol.ts,       *)
(* abstractProtocolHnadler.ts, src/p2p/server.ts), and what each of the    *)
(* five rounds takes from one message to the next (src/mpc/signing/).      *)
(*                                                                         *)
(* What a node picks is fresh, so it is named by its number: the pair of k *)
(* and gamma of a first round, the masks (betas) of a second, the delta    *)
(* and chi of a third by its place in "contributions".  A proof holds when *)
(* the numbers it speaks of are those the verifier has.  The rounds are    *)
(* objects of the process: a session works on what earlier ones left in    *)
(* them.  A handler that throws is an unhandled rejection: the node begins *)
(* to take itself out of the Redis list (module Registry).                 *)
(***************************************************************************)
EXTENDS Links, Registry, FiniteSets

CONSTANT MaxStarts      \* bound: requests for a session

ASSUME SignAssumption == Node \subseteq Int /\ IsFiniteSet(Node) /\ MaxStarts \in 0..5

VARIABLES
    links,              \* packets under way
    managers,           \* per node: superseded managers, then the one in use
    starting,           \* signSessionInit messages that await their 500 ms
    sharing,            \* direct messages that await their 500 ms
    picks, masks,       \* first and second rounds a node has run
    contributions,      \* third rounds a node has run: what its delta is made of
    sigmas,             \* fourth rounds a node has run: what its sigma is made of
    store,              \* what the round objects of each process hold
    keyParties,         \* the parties of the key that has been generated
    registry,           \* the "validators" key of Redis
    starts              \* requests so far

roundVars == <<picks, masks, contributions, sigmas, store>>
signVars == <<links, managers, starting, sharing, roundVars, keyParties, registry, starts>>

FinalRound == 5
IsBroadcastRound(k) == k \in 1..4
IsDirectMessageRound(k) == k \in 1..3
Threshold == Cardinality(Node)      \* the length of the validators list

(* One number of each node, 0 for undefined. *)
Key == [Node -> Nat]
NoKey == [j \in Node |-> 0]
Complete(key) == \A j \in Node : key[j] # 0

(* What a delta is made of: the own pair, its masks, the Gamma shares that *)
(* were added up and the products that were received.                      *)
Product == [k : Nat, gamma : Nat, mask : Nat]
NoProduct == [k |-> 0, gamma |-> 0, mask |-> 0]
Contribution == [own : Nat, mask : Nat, gammas : Key, alphas : [Node -> Product]]
SigmaShare == [share : Nat, deltas : Key]
NoSigma == [share |-> 0, deltas |-> NoKey]

RoundMessage == [type : {"signSessionRoundHandler"}, round : 1..5, share : Nat, deltas : Key]
DirectMessage == [type : {"signSessionDirectMessageHandler"}, round : 1..3,
                  share : Nat, c : Nat, k : Nat, mask : Nat]
SignMessage == [type : {"signSessionInit"}] \cup RoundMessage \cup DirectMessage

NoEntry == [round |-> 0, share |-> 0, deltas |-> NoKey]
EmptyQueue == [k \in 1..4 |-> [j \in Node |-> NoEntry]]
NoHash == <<>>

(* A manager whose session has been initialized, or could not be. *)
NewManager(initialized) ==
    [active |-> initialized, currentRound |-> 0, finished |-> {0},
     messages |-> EmptyQueue, directMessages |-> [k \in 1..3 |-> <<>>],
     broadcastHashes |-> {}, dmHashes |-> [k \in 1..3 |-> NoHash],
     signature |-> NoSigma, resting |-> <<>>, waiting |-> {}]

FreshRounds ==
    [out1 |-> 0, in2 |-> 0, K |-> NoKey, out2 |-> <<0, 0>>, in3 |-> <<0, 0>>,
     Gamma |-> NoKey, alphas |-> [j \in Node |-> NoProduct], out3 |-> 0, in4 |-> 0,
     Delta |-> NoKey, out4 |-> NoSigma, in5 |-> NoSigma,
     Sigma |-> [j \in Node |-> NoSigma]]

(* Everyone took part in the key, or one validator has joined since. *)
SignInit ==
    /\ links = NoPackets
    /\ managers = [n \in Node |-> <<>>]
    /\ starting = [n \in Node |-> 0]
    /\ sharing = [n \in Node |-> {}]
    /\ picks = [n \in Node |-> 0] /\ masks = [n \in Node |-> 0]
    /\ contributions = [n \in Node |-> <<>>] /\ sigmas = [n \in Node |-> <<>>]
    /\ store = [n \in Node |-> FreshRounds]
    /\ keyParties \in {Node} \cup {Node \ {n} : n \in Node}
    /\ registry = Listing(Node)
    /\ starts = 0

Current(n) == Len(managers[n])
HasManager(n) == managers[n] # <<>>
Manager(n) == managers[n][Current(n)]
Incoming(s, d, type) == links[s][d] # <<>> /\ Head(links[s][d]).type = type

-------------------------------------------------------------------------------
(* A request for a session: any node may make one, at any time. *)
StartSign(n) ==
    /\ starts < MaxStarts
    /\ starts' = starts + 1
    /\ links' = Broadcast(links, n, <<[type |-> "signSessionInit"]>>)
    /\ UNCHANGED <<managers, starting, sharing, roundVars, keyParties, registry>>

(* Of a manager that no timer refers to any more nothing is kept. *)
Pending(m) == m.resting # <<>> \/ m.waiting # {}
Superseded(ms) == [i \in DOMAIN ms |-> IF Pending(ms[i]) THEN ms[i] ELSE NewManager(FALSE)]

(* A mutant of HandleInit: a session in progress is kept. *)
HandleInitOnce(s, d) ==
    /\ Incoming(s, d, "signSessionInit")
    /\ d \in keyParties
    /\ links' = Taken(links, s, d)
    /\ managers' = [managers EXCEPT ![d] =
                      IF HasManager(d) /\ Manager(d).active THEN @
                      ELSE Append(Superseded(@), NewManager(keyParties = Node))]
    /\ IF keyParties = Node
       THEN starting' = [starting EXCEPT ![d] = starting[d] + 1] /\ UNCHANGED registry
       ELSE registry' = ReadBy(registry, d) /\ UNCHANGED starting
    /\ UNCHANGED <<sharing, roundVars, keyParties, starts>>

(* A request arrives: whatever is in progress, a new manager takes over,   *)
(* and waits for 500 ms.  The session cannot be initialized when a         *)
(* validator is no party of the key.                                       *)
HandleInit(s, d) ==
    /\ Incoming(s, d, "signSessionInit")
    /\ d \in keyParties
    /\ links' = Taken(links, s, d)
    /\ managers' = [managers EXCEPT ![d] =
                      Append(Superseded(@), NewManager(keyParties = Node))]
    /\ IF keyParties = Node
       THEN starting' = [starting EXCEPT ![d] = starting[d] + 1] /\ UNCHANGED registry
       ELSE registry' = ReadBy(registry, d) /\ UNCHANGED starting
    /\ UNCHANGED <<sharing, roundVars, keyParties, starts>>

(* A mutant of RefuseInit: what it throws is caught. *)
RefuseInitQuietly(s, d) ==
    /\ Incoming(s, d, "signSessionInit")
    /\ d \notin keyParties
    /\ links' = Taken(links, s, d)
    /\ UNCHANGED <<managers, starting, sharing, roundVars, keyParties, registry, starts>>

(* A validator without a key share cannot even construct the manager. *)
RefuseInit(s, d) ==
    /\ Incoming(s, d, "signSessionInit")
    /\ d \notin keyParties
    /\ links' = Taken(links, s, d)
    /\ registry' = ReadBy(registry, d)
    /\ UNCHANGED <<managers, starting, sharing, roundVars, keyParties, starts>>

(* startNewRound: the round takes what its predecessor's object has put    *)
(* out.  When the last round has not finished the number grows all the     *)
(* same.                                                                   *)
Input(st, k) ==
    [st EXCEPT !.in2 = IF k = 2 THEN st.out1 ELSE @,
               !.in3 = IF k = 3 THEN st.out2 ELSE @,
               !.in4 = IF k = 4 THEN st.out3 ELSE @,
               !.in5 = IF k = 5 THEN st.out4 ELSE @]
StartNewRound(m) ==
    [m EXCEPT !.currentRound = @ + 1,
              !.finished = IF m.currentRound \in @ THEN @ \ {m.currentRound + 1} ELSE @]
FinalizeRound(m, k, rounds) ==
    StartNewRound([m EXCEPT !.finished = @ \cup {k}, !.resting = Append(@, rounds)])
InputAfter(st, m, k) ==
    IF m.currentRound \in m.finished \cup {k} THEN Input(st, m.currentRound + 1) ELSE st

(* The 500 ms are over: finalizeCurrentRound(0), of the manager in use now. *)
BeginSession(n) ==
    /\ starting[n] > 0
    /\ Manager(n).active
    /\ starting' = [starting EXCEPT ![n] = starting[n] - 1]
    /\ managers' = [managers EXCEPT ![n][Current(n)] = FinalizeRound(@, 0, <<>>)]
    /\ store' = [store EXCEPT ![n] = InputAfter(@, Manager(n), 0)]
    /\ UNCHANGED <<links, sharing, picks, masks, contributions, sigmas, keyParties, registry,
                   starts>>

-------------------------------------------------------------------------------
(***************************************************************************)
(* The hashes of the direct messages, made for each round a message had to *)
(* wait in: each needs those of the rounds before, as they were.           *)
(***************************************************************************)
Lengths(m, k) == [r \in 1..k |-> Len(m.directMessages[r])]
CanHash(m, k) == m.active /\ \A r \in 1..(k - 1) : m.dmHashes[r] = Lengths(m, r)
HashFails(m, rounds) == \E i \in DOMAIN rounds : ~ CanHash(m, rounds[i])
Hashed(m, rounds) ==
    [m EXCEPT !.dmHashes =
        [r \in 1..3 |-> IF \E i \in DOMAIN rounds :
                              rounds[i] = r /\ \A h \in 1..i : CanHash(m, rounds[h])
                        THEN Lengths(m, r) ELSE @[r]]]

(***************************************************************************)
(* sessionRoundVerifier, when the 1500 ms are over: the node takes in what *)
(* the round before has collected, and publishes its message of the round. *)
(***************************************************************************)
Verifying(n, i, k) ==
    /\ i \in DOMAIN managers[n]
    /\ managers[n][i].resting # <<>>
    /\ managers[n][i].active
    /\ managers[n][i].currentRound = k
    /\ Threshold >= 3

(* The broadcasts are handled in the order of the ports, up to one of the  *)
(* wrong kind.                                                             *)
OfRound(queue, k) == \A j \in Node : queue[j] = NoEntry \/ queue[j].round = k
TakenIn(old, queue, k) ==
    [j \in Node |-> IF queue[j].round = k
                       /\ \A i \in Node : i < j => queue[i] = NoEntry \/ queue[i].round = k
                    THEN queue[j].share ELSE old[j]]

(* The verifier has published: its timer is over, and then the hashes of   *)
(* the messages that have waited for this are made.                        *)
Published(m) == Hashed([m EXCEPT !.resting = Tail(@)], Head(m.resting))
Entry(k, share, deltas) == [round |-> k, share |-> share, deltas |-> deltas]
Publish(n, i, k, share, deltas, signature) ==
    LET m == managers[n][i]
        kept == IF IsBroadcastRound(k)
                THEN [m EXCEPT !.messages[k][n] = Entry(k, share, deltas)]
                ELSE [m EXCEPT !.signature = signature]
    IN  /\ managers' = [managers EXCEPT ![n][i] = Published(kept)]
        /\ registry' = IF HashFails(m, Head(m.resting)) THEN ReadBy(registry, n) ELSE registry
        /\ links' = Broadcast(links, n, <<[type |-> "signSessionRoundHandler", round |-> k,
                                           share |-> share, deltas |-> deltas]>>)
Shares(k, share, c, ks, mask) ==
    [round |-> k, share |-> share, c |-> c, ks |-> ks, mask |-> mask]

(* A mutant of SignRound1: a pair that was picked once is used again. *)
SignRound1Again(n, i) ==
    LET pair == IF store[n].out1 = 0 THEN picks[n] + 1 ELSE store[n].out1
    IN  /\ Verifying(n, i, 1)
        /\ picks' = [picks EXCEPT ![n] = @ + 1]
        /\ store' = [store EXCEPT ![n].out1 = pair]
        /\ Publish(n, i, 1, pair, NoKey, NoSigma)
        /\ sharing' = [sharing EXCEPT ![n] = @ \cup {Shares(1, pair, 0, NoKey, 0)}]
        /\ UNCHANGED <<starting, masks, contributions, sigmas, keyParties, starts>>

(* Round 1: k and gamma are picked. *)
SignRound1(n, i) ==
    /\ Verifying(n, i, 1)
    /\ picks' = [picks EXCEPT ![n] = @ + 1]
    /\ store' = [store EXCEPT ![n].out1 = picks[n] + 1]
    /\ Publish(n, i, 1, picks[n] + 1, NoKey, NoSigma)
    /\ sharing' = [sharing EXCEPT ![n] = @ \cup {Shares(1, picks[n] + 1, 0, NoKey, 0)}]
    /\ UNCHANGED <<starting, masks, contributions, sigmas, keyParties, starts>>

(* Round 2: everyone's K and G, each with its proof, and the products with *)
(* the other k are masked.                                                 *)
Ciphertexts(n, m) ==
    IF store[n].in2 = 0 THEN store[n].K ELSE TakenIn(store[n].K, m.messages[1], 1)
AcceptsRound2(n, m) ==
    /\ store[n].in2 # 0
    /\ OfRound(m.messages[1], 1)
    /\ \A x \in DOMAIN m.directMessages[1] :
          LET dm == m.directMessages[1][x]
          IN  dm.round = 1 /\ dm.share = Ciphertexts(n, m)[dm.from]
    /\ \A j \in Node \ {n} : Ciphertexts(n, m)[j] # 0
SignRound2(n, i) ==
    LET K == Ciphertexts(n, managers[n][i])
        gamma == store[n].in2
    IN  /\ Verifying(n, i, 2)
        /\ AcceptsRound2(n, managers[n][i])
        /\ masks' = [masks EXCEPT ![n] = @ + 1]
        /\ store' = [store EXCEPT ![n].K = K, ![n].out2 = <<gamma, masks[n] + 1>>]
        /\ Publish(n, i, 2, gamma, NoKey, NoSigma)
        /\ sharing' = [sharing EXCEPT ![n] = @ \cup {Shares(2, gamma, K[n], K, masks[n] + 1)}]
        /\ UNCHANGED <<starting, picks, contributions, sigmas, keyParties, starts>>

(* Round 3: everyone's Gamma, and a product is kept if it is of the node's *)
(* own K with the Gamma and the G of its sender.                           *)
GammaShares(n, m) == TakenIn(store[n].Gamma, m.messages[2], 2)
ProductHolds(n, m, dm) ==
    /\ dm.round = 2 /\ store[n].in3 # <<0, 0>>
    /\ dm.k = store[n].K[n]
    /\ dm.share = GammaShares(n, m)[dm.from]
    /\ dm.c = dm.share /\ dm.c = store[n].K[dm.from]
Products(n, m) ==
    LET dms == m.directMessages[2]
        good == {x \in DOMAIN dms : \A y \in 1..x : ProductHolds(n, m, dms[y])}
        last(j) == {x \in good : dms[x].from = j /\ \A y \in good : dms[y].from = j => y <= x}
    IN  [j \in Node |->
            IF ~ OfRound(m.messages[2], 2) \/ last(j) = {} THEN store[n].alphas[j]
            ELSE LET dm == dms[CHOOSE x \in last(j) : TRUE]
                 IN  [k |-> dm.k, gamma |-> dm.share, mask |-> dm.mask]]
AcceptsRound3(n, m) ==
    /\ store[n].in3 # <<0, 0>>
    /\ OfRound(m.messages[2], 2)
    /\ \A x \in DOMAIN m.directMessages[2] : ProductHolds(n, m, m.directMessages[2][x])
    /\ \A j \in Node \ {n} : Products(n, m)[j] # NoProduct
SignRound3(n, i) ==
    LET m == managers[n][i]
        delta == Len(contributions[n]) + 1
    IN  /\ Verifying(n, i, 3)
        /\ AcceptsRound3(n, m)
        /\ contributions' = [contributions EXCEPT ![n] = Append(@,
              [own |-> store[n].in3[1], mask |-> store[n].in3[2],
               gammas |-> GammaShares(n, m), alphas |-> Products(n, m)])]
        /\ store' = [store EXCEPT ![n].Gamma = GammaShares(n, m), ![n].alphas = Products(n, m),
                                  ![n].out3 = delta]
        /\ Publish(n, i, 3, delta, NoKey, NoSigma)
        /\ sharing' = [sharing EXCEPT ![n] = @ \cup {Shares(3, delta, store[n].K[n], NoKey, 0)}]
        /\ UNCHANGED <<starting, picks, masks, sigmas, keyParties, starts>>

(* Round 4: everyone's delta.  Its proof speaks of the sender's K, of its  *)
(* Delta and of the sum of the Gammas; the deltas must add up, that is,    *)
(* every product must cancel the mask it was made with.                    *)
DeltaShares(n, m) == TakenIn(store[n].Delta, m.messages[3], 3)
DeltaHolds(n, m, dm) ==
    LET sent == contributions[dm.from][dm.share]
        kept == DeltaShares(n, m)[dm.from]
    IN  /\ dm.round = 3 /\ store[n].in4 # 0 /\ kept # 0
        /\ dm.c = sent.own /\ dm.c = store[n].K[dm.from]
        /\ contributions[dm.from][kept].own = sent.own
        /\ contributions[dm.from][kept].gammas = sent.gammas
        /\ contributions[n][store[n].in4].gammas = sent.gammas
Cancel(deltas) ==
    LET d(j) == contributions[j][deltas[j]]
    IN  \A i, j \in Node :
            IF i = j THEN d(i).gammas[i] = d(i).own
            ELSE d(i).alphas[j] = [k |-> d(i).own, gamma |-> d(i).gammas[j], mask |-> d(j).mask]
AcceptsRound4(n, m) ==
    /\ store[n].in4 # 0
    /\ OfRound(m.messages[3], 3)
    /\ \A x \in DOMAIN m.directMessages[3] : DeltaHolds(n, m, m.directMessages[3][x])
    /\ Complete(DeltaShares(n, m))
    /\ Cancel(DeltaShares(n, m))
SignRound4(n, i) ==
    LET deltas == DeltaShares(n, managers[n][i])
        sigma == [share |-> store[n].in4, deltas |-> deltas]
    IN  /\ Verifying(n, i, 4)
        /\ AcceptsRound4(n, managers[n][i])
        /\ sigmas' = [sigmas EXCEPT ![n] = Append(@, sigma)]
        /\ store' = [store EXCEPT ![n].Delta = deltas, ![n].out4 = sigma]
        /\ Publish(n, i, 4, sigma.share, deltas, NoSigma)
        /\ UNCHANGED <<starting, sharing, picks, masks, contributions, keyParties, starts>>

(* Round 5: the sigmas are added up, and are a signature if all of them    *)
(* are of the same deltas and Gammas.                                      *)
SigmaShares(n, m) ==
    [j \in Node |-> IF m.messages[4][j] = NoEntry THEN store[n].Sigma[j]
                    ELSE IF m.messages[4][j].round # 4 THEN NoSigma
                    ELSE [share |-> m.messages[4][j].share, deltas |-> m.messages[4][j].deltas]]
Verified(R, sigma) ==
    /\ R # NoSigma
    /\ \A j \in Node :
          /\ sigma[j] # NoSigma
          /\ sigma[j].deltas = R.deltas
          /\ sigma[j].share = R.deltas[j]
          /\ contributions[j][R.deltas[j]].gammas = [h \in Node |-> contributions[h][R.deltas[h]].own]
SignRound5(n, i) ==
    LET sigma == SigmaShares(n, managers[n][i])
    IN  /\ Verifying(n, i, 5)
        /\ Verified(store[n].in5, sigma)
        /\ store' = [store EXCEPT ![n].Sigma = sigma]
        /\ Publish(n, i, 5, 0, NoKey, store[n].in5)
        /\ UNCHANGED <<starting, sharing, picks, masks, contributions, sigmas, keyParties, starts>>

(* Something is missing, stale or does not hold: the verifier throws, with *)
(* what it had taken in until then left in the round's object.             *)
FailRound(n, i) ==
    LET m == managers[n][i]
    IN  /\ \/ /\ Verifying(n, i, 2)
              /\ ~ AcceptsRound2(n, m)
              /\ store' = [store EXCEPT ![n].K = Ciphertexts(n, m)]
           \/ /\ Verifying(n, i, 3)
              /\ ~ AcceptsRound3(n, m)
              /\ store' = [store EXCEPT ![n].Gamma = GammaShares(n, m), ![n].alphas = Products(n, m)]
           \/ /\ Verifying(n, i, 4)
              /\ ~ AcceptsRound4(n, m)
              /\ store' = [store EXCEPT ![n].Delta = DeltaShares(n, m)]
           \/ /\ Verifying(n, i, 5)
              /\ ~ Verified(store[n].in5, SigmaShares(n, m))
              /\ store' = [store EXCEPT ![n].Sigma = SigmaShares(n, m)]
        /\ managers' = [managers EXCEPT ![n][i].resting = Tail(@)]
        /\ registry' = ReadBy(registry, n)
        /\ UNCHANGED <<links, starting, sharing, picks, masks, contributions, sigmas, keyParties,
                       starts>>

(* "need 3 peers to start keygen", or the session is over. *)
RefuseRound(n, i) ==
    /\ i \in DOMAIN managers[n]
    /\ managers[n][i].resting # <<>>
    /\ Threshold < 3 \/ ~ managers[n][i].active \/ managers[n][i].currentRound > FinalRound
    /\ managers' = [managers EXCEPT ![n][i].resting = Tail(@)]
    /\ registry' = ReadBy(registry, n)
    /\ UNCHANGED <<links, starting, sharing, roundVars, keyParties, starts>>
RefuseBegin(n) ==
    /\ starting[n] > 0
    /\ ~ Manager(n).active
    /\ starting' = [starting EXCEPT ![n] = starting[n] - 1]
    /\ registry' = ReadBy(registry, n)
    /\ UNCHANGED <<links, managers, sharing, roundVars, keyParties, starts>>

(* The direct messages of one round have one delay and leave together. *)
SendShares(n) ==
    \E x \in sharing[n] :
        /\ sharing' = [sharing EXCEPT ![n] = @ \ {x}]
        /\ links' = [links EXCEPT ![n] = [d \in Node |->
               IF d = n THEN links[n][d]
               ELSE Append(links[n][d], [type |-> "signSessionDirectMessageHandler",
                      round |-> x.round, share |-> x.share, c |-> x.c, k |-> x.ks[d],
                      mask |-> x.mask])]]
        /\ UNCHANGED <<managers, starting, roundVars, keyParties, registry, starts>>

-------------------------------------------------------------------------------
(***************************************************************************)
(* The handlers of a session's messages.                                   *)
(***************************************************************************)
InUse(d) == HasManager(d) /\ Manager(d).active

(* A direct message is kept only in a round that has them, and throws past *)
(* the last round. *)
HandleDirectMessage(s, d) ==
    /\ Incoming(s, d, "signSessionDirectMessageHandler")
    /\ links' = Taken(links, s, d)
    /\ LET dm == Head(links[s][d])
           k == Manager(d).currentRound
       IN  /\ managers' = IF InUse(d) /\ IsDirectMessageRound(k)
                          THEN [managers EXCEPT ![d][Current(d)].directMessages[k] =
                                  Append(@, [from |-> s, round |-> dm.round, share |-> dm.share,
                                             c |-> dm.c, k |-> dm.k, mask |-> dm.mask])]
                          ELSE managers
           /\ registry' = IF InUse(d) /\ k > FinalRound THEN ReadBy(registry, d) ELSE registry
    /\ UNCHANGED <<starting, sharing, roundVars, keyParties, starts>>

AwaitsShares(m) ==
    /\ IsDirectMessageRound(m.currentRound)
    /\ Len(m.directMessages[m.currentRound]) < Threshold - 1

(* A message that carries a broadcast of somebody else is kept, in the     *)
(* round its reader is in.                                                 *)
Stored(n, m, s, msg) ==
    IF IsBroadcastRound(m.currentRound) /\ s # n /\ IsBroadcastRound(msg.round)
    THEN [m EXCEPT !.messages[m.currentRound][s] = Entry(msg.round, msg.share, msg.deltas)]
    ELSE m
ReceivedAll(m) ==
    /\ IsBroadcastRound(m.currentRound)
    /\ \A j \in Node : m.messages[m.currentRound][j] # NoEntry
    /\ IsDirectMessageRound(m.currentRound)
          => Len(m.directMessages[m.currentRound]) = Threshold - 1

(* The hashes of the broadcasts are made one round after the other. *)
InSequence(m) == \A r \in 1..(m.currentRound - 1) : r < 3 => r \in m.broadcastHashes

(***************************************************************************)
(* sessionRoundProcessor: the manager m of node n reads msg of node s,     *)
(* which had to wait in "rounds" before.  In the last round any message    *)
(* ends the session, or throws where there is no signature yet.            *)
(***************************************************************************)
Over(m) == [m EXCEPT !.active = FALSE, !.currentRound = 0, !.finished = {},
                     !.messages = EmptyQueue, !.directMessages = [k \in 1..3 |-> <<>>]]
StoreBroadcast(n, i, m, s, msg, rounds) ==
    /\ m.currentRound < FinalRound
    /\ ~ ReceivedAll(Stored(n, m, s, msg))
    /\ managers' = [managers EXCEPT ![n][i] = Hashed(Stored(n, m, s, msg), rounds)]
    /\ registry' = IF HashFails(m, rounds) THEN ReadBy(registry, n) ELSE registry
    /\ UNCHANGED store
FinalizeCurrentRound(n, i, m, s, msg, rounds) ==
    LET k == m.currentRound
        kept == Stored(n, m, s, msg)
    IN  /\ ReceivedAll(kept)
        /\ InSequence(m)
        /\ managers' = [managers EXCEPT ![n][i] =
                          FinalizeRound([kept EXCEPT !.broadcastHashes = @ \cup {k}], k, rounds)]
        /\ store' = [store EXCEPT ![n] = InputAfter(@, kept, k)]
        /\ UNCHANGED registry
RefuseToFinalize(n, i, m, s, msg) ==
    /\ \/ ReceivedAll(Stored(n, m, s, msg)) /\ ~ InSequence(m)
       \/ m.currentRound > FinalRound
    /\ managers' = [managers EXCEPT ![n][i] = Stored(n, m, s, msg)]
    /\ registry' = ReadBy(registry, n)
    /\ UNCHANGED store
VerifyAndEndSession(n, i, m, rounds) ==
    /\ m.currentRound = FinalRound
    /\ managers' = [managers EXCEPT ![n][i] = IF m.signature = NoSigma THEN m ELSE Over(m)]
    /\ registry' = IF m.signature = NoSigma \/ rounds # <<>> THEN ReadBy(registry, n) ELSE registry
    /\ UNCHANGED store

SessionRoundProcessor(n, i, m, s, msg, rounds) ==
    \/ StoreBroadcast(n, i, m, s, msg, rounds)
    \/ FinalizeCurrentRound(n, i, m, s, msg, rounds)
    \/ RefuseToFinalize(n, i, m, s, msg)
    \/ VerifyAndEndSession(n, i, m, rounds)

(* A round message without a session is dropped. *)
DropRoundMessage(s, d) ==
    /\ Incoming(s, d, "signSessionRoundHandler")
    /\ ~ InUse(d)
    /\ links' = Taken(links, s, d)
    /\ UNCHANGED <<managers, starting, sharing, roundVars, keyParties, registry, starts>>

(* A round message comes before the direct messages do: it has to wait. *)
DeferRoundMessage(s, d) ==
    /\ Incoming(s, d, "signSessionRoundHandler")
    /\ InUse(d)
    /\ AwaitsShares(Manager(d))
    /\ links' = Taken(links, s, d)
    /\ managers' = [managers EXCEPT ![d][Current(d)].waiting = @ \cup
                      {[from |-> s, message |-> Head(links[s][d]),
                        rounds |-> <<Manager(d).currentRound>>]}]
    /\ UNCHANGED <<starting, sharing, roundVars, keyParties, registry, starts>>

HandleRoundMessage(s, d) ==
    /\ Incoming(s, d, "signSessionRoundHandler")
    /\ InUse(d)
    /\ ~ AwaitsShares(Manager(d))
    /\ SessionRoundProcessor(d, Current(d), Manager(d), s, Head(links[s][d]), <<>>)
    /\ links' = Taken(links, s, d)
    /\ UNCHANGED <<starting, sharing, picks, masks, contributions, sigmas, keyParties, starts>>

(* After 200 ms a message that has waited is handled in the round its      *)
(* manager is in by now, where it may have to wait again.                  *)
RetryRoundMessage(n, i) ==
    /\ i \in DOMAIN managers[n]
    /\ managers[n][i].active
    /\ ~ AwaitsShares(managers[n][i])
    /\ \E w \in managers[n][i].waiting :
          SessionRoundProcessor(n, i, [managers[n][i] EXCEPT !.waiting = @ \ {w}],
                                w.from, w.message, w.rounds)
    /\ UNCHANGED <<links, starting, sharing, picks, masks, contributions, sigmas, keyParties,
                   starts>>
WaitAgain(n, i) ==
    /\ i \in DOMAIN managers[n]
    /\ managers[n][i].active
    /\ AwaitsShares(managers[n][i])
    /\ \E w \in managers[n][i].waiting :
          /\ Head(w.rounds) # managers[n][i].currentRound
          /\ managers' = [managers EXCEPT ![n][i].waiting = (@ \ {w}) \cup
                            {[w EXCEPT !.rounds = <<managers[n][i].currentRound>> \o @]}]
    /\ UNCHANGED <<links, starting, sharing, roundVars, keyParties, registry, starts>>

(* It has waited longer than the session lasted: making its hashes throws. *)
DropWaiting(n, i) ==
    /\ i \in DOMAIN managers[n]
    /\ ~ managers[n][i].active
    /\ \E w \in managers[n][i].waiting :
          managers' = [managers EXCEPT ![n][i].waiting = @ \ {w}]
    /\ registry' = ReadBy(registry, n)
    /\ UNCHANGED <<links, starting, sharing, roundVars, keyParties, starts>>

(* Redis has answered a node that has thrown: it writes the list back. *)
UpdatePeerReplica(n) ==
    /\ HasRead(registry, n)
    /\ registry' = WrittenBy(registry, n)
    /\ UNCHANGED <<links, managers, starting, sharing, roundVars, keyParties, starts>>

-------------------------------------------------------------------------------
DeliverMessage(s, d) ==
    \/ HandleInit(s, d)
    \/ RefuseInit(s, d)
    \/ HandleDirectMessage(s, d)
    \/ DropRoundMessage(s, d)
    \/ DeferRoundMessage(s, d)
    \/ HandleRoundMessage(s, d)

VerifyRound(n, i) ==
    \/ SignRound1(n, i)
    \/ SignRound2(n, i)
    \/ SignRound3(n, i)
    \/ SignRound4(n, i)
    \/ SignRound5(n, i)
    \/ FailRound(n, i)
    \/ RefuseRound(n, i)
RetryMessage(n, i) ==
    \/ RetryRoundMessage(n, i)
    \/ WaitAgain(n, i)
    \/ DropWaiting(n, i)
SignTimer(n) ==
    \/ UpdatePeerReplica(n)
    \/ BeginSession(n)
    \/ RefuseBegin(n)
    \/ SendShares(n)

SignNext ==
    \/ \E n \in Node : \/ StartSign(n)
                       \/ SignTimer(n)
                       \/ \E i \in 1..MaxStarts : VerifyRound(n, i) \/ RetryMessage(n, i)
    \/ \E s, d \in Node : DeliverMessage(s, d)

SignSpec == SignInit /\ [][SignNext]_signVars

-------------------------------------------------------------------------------
(* Nothing of a session is under way, though one may have got stuck. *)
SessionsQuiet ==
    /\ Drained(links)
    /\ \A n \in Node :
          /\ starting[n] = 0 /\ sharing[n] = {}
          /\ \A i \in DOMAIN managers[n] :
                /\ managers[n][i].resting = <<>>
                /\ managers[n][i].waiting # {}
                     => managers[n][i].active /\ AwaitsShares(managers[n][i])

(* Types of the session state. *)
SignTypeOK ==
    /\ links \in [Node -> [Node -> Seq(SignMessage)]]
    /\ \A n \in Node : \A i \in DOMAIN managers[n] :
          LET m == managers[n][i]
          IN  /\ m.active \in BOOLEAN
              /\ m.currentRound \in 0..(FinalRound + MaxStarts)
              /\ m.messages \in [1..4 -> [Node -> [round : 0..4, share : Nat, deltas : Key]]]
              /\ m.signature \in SigmaShare
              /\ m.resting \in Seq(Seq(1..3))
              /\ m.waiting \subseteq [from : Node, message : RoundMessage, rounds : Seq(1..3)]
    /\ starting \in [Node -> Nat]
    /\ picks \in Key /\ masks \in Key
    /\ contributions \in [Node -> Seq(Contribution)]
    /\ sigmas \in [Node -> Seq(SigmaShare)]
    /\ keyParties \subseteq Node /\ registry \in RegistryOf(Node)
    /\ starts \in 0..MaxStarts

(* No two signature shares are ever published with the same k: whatever    *)
(* requests overlap and whatever an earlier session left in the rounds'    *)
(* objects, two equations never give a node's k and its key away           *)
(* (signingProtocol.ts:186-225, 271-309 over the objects that              *)
(* mpc/signing/index.ts:23-30 makes once for the process).                 *)
NonceUsedOnce ==
    \A n \in Node : \A a, b \in DOMAIN sigmas[n] :
        contributions[n][sigmas[n][a].share].own = contributions[n][sigmas[n][b].share].own
            => sigmas[n][a] = sigmas[n][b]

(* What a request does to a session in progress depends on when it comes.  *)
(* It is in turn when no timer and no message that has waited can take the *)
(* session it supersedes past its second round, and the 500 ms are over    *)
(* before the session has gone past its second round (500 ms,              *)
(* server.ts:311-318, against the 1500 ms of signingProtocol.ts:243-248).  *)
Spent(m) ==
    m.active => \/ m.currentRound <= 1
                \/ m.currentRound = 2 /\ m.directMessages[2] = <<>>
                \/ m.resting = <<>> /\ (m.waiting = {} \/ AwaitsShares(m))
RequestsInTurn ==
    /\ \A s, d \in Node :
          Incoming(s, d, "signSessionInit") /\ HasManager(d) => Spent(Manager(d))
    /\ \A n \in Node :
          starting[n] > 0 /\ InUse(n) => Manager(n).currentRound <= 2

(* A signature is made of what everybody picked for this very session, and *)
(* of nothing a session before or a round behind left in the objects       *)
(* (signRound2.ts:33-63, signRound3.ts:36-103, signRound4.ts:35-78).       *)
ConcludedSignature ==
    \A n \in Node :
        InUse(n) /\ Manager(n).signature # NoSigma =>
            \A j \in Node :
                contributions[j][Manager(n).signature.deltas[j]].own = picks[j]

(* The types of the state, and what a signature is made of (round objects  *)
(* that outlive their session, mpc/signing/index.ts:23-30), where requests *)
(* come in turn.                                                           *)
SignInv == SignTypeOK /\ ConcludedSignature /\ RequestsInTurn

(* A session that is asked for once while no other is under way ends, at   *)
(* every node and with the same signature, whatever sessions before it got *)
(* stuck: unless another request comes (server.ts:309-321,                 *)
(* signingProtocol.ts:186-311).                                            *)
Asked ==
    /\ keyParties = Node /\ Drained(links)
    /\ \A n \in Node :
          /\ starting[n] = 1 /\ sharing[n] = {}
          /\ \A i \in DOMAIN managers[n] : managers[n][i].resting = <<>>
Signed(n) == HasManager(n) /\ ~ Manager(n).active /\ Manager(n).signature # NoSigma
SignedTogether == \A n, j \in Node : Signed(n) /\ Manager(n).signature = Manager(j).signature
LaterSessionEnds ==
    \A k \in 1..MaxStarts : (Asked /\ starts = k) ~> (SignedTogether \/ starts > k)

(* With a validator that is no party of the key every node throws at a     *)
(* request for a signature, and takes itself out of the Redis list         *)
(* (server.ts:311-318, signSession.ts:47-54).  All of them do so at the    *)
(* same broadcast, and what one writes may put others back, but the list   *)
(* is never complete again (protocol/index.ts:7-23).                       *)
NewcomerUnlistsNodes ==
    \A n \in Node :
        LET asked == keyParties # Node /\ \E s \in Node : Incoming(s, n, "signSessionInit")
        IN  /\ asked ~> n \notin registry.peers
            /\ asked ~> [](registry.peers # Node)
===============================================================================
