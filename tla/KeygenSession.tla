----------------------------- MODULE KeygenSession ----------------------------
(***************************************************************************)
(* Key generation between the validators: the session manager and its      *)
(* queues (src/protocol/keygenProtocol.ts, abstractProtocolHnadler.ts,     *)
(* message/), and what each of the five rounds takes from one message to   *)
(* the next (src/mpc/keygen/).                                             *)
(*                                                                         *)
(* What a node contributes to a key is fresh in every session, so it is    *)
(* named by the number of that node's session: a commitment, its opening   *)
(* and a share belong together when their numbers are equal.  The rounds   *)
(* are objects of the process and keep what an earlier session left in     *)
(* them.  A handler that throws is an unhandled rejection: the node begins *)
(* to take itself out of the Redis list (module Registry).                 *)
(***************************************************************************)
EXTENDS Election, Registry

CONSTANT MaxStarts      \* bound: calls of POST /start

ASSUME KeygenAssumption == MaxStarts \in Nat

VARIABLES
    currentRound,       \* 0 while no session is active
    sessionNo,          \* sessions a node has started so far
    starting,           \* keygenInit messages that await their 500 ms
    resting,            \* rounds that await their 1500 ms
    messages,           \* the MessageQueueMap: per round, one entry of each sender
    directMessages,     \* the MessageQueueArray of round 3
    waiting,            \* round messages that await 200 ms at a time
    sharing,            \* direct messages that await their 500 ms
    proofs,             \* the proofs of the last round, as they came
    ending,             \* verifyAndEndSession calls under way: the leader each read
    commitments, opened, shares,    \* kept by rounds 2, 3 and 4: of which session
    keyShare,           \* validator.PartyKeyShare
    posted,             \* transactions of proofs a node has created
    registry,           \* the "validators" key of Redis
    starts              \* calls of POST /start so far

sessionVars == <<currentRound, sessionNo, starting, resting, messages, directMessages,
                 waiting, sharing, proofs, ending, commitments, opened, shares, keyShare,
                 posted, registry, starts>>
keygenVars == <<electionVars, sessionVars>>

(* The parts of the state that steps leave alone together. *)
partVars == <<leader, votes, announcing, requests>>
dataVars == <<commitments, opened, shares, keyShare>>

FinalRound == 5
IsBroadcastRound(k) == k \in 1..4
IsDirectMessageRound(k) == k = 3
Threshold == Cardinality(Node)      \* the length of the validators list

(* A key is the sessions of the contributions it is made of, 0 if missing. *)
NoKey == [j \in Node |-> 0]
Complete(key) == \A j \in Node : key[j] # 0

NoEntry == [round |-> 0, session |-> 0]
EmptyQueue == [k \in 1..4 |-> [j \in Node |-> NoEntry]]

Key == [Node -> Nat]
RoundMessage == [type : {"keygenRoundHandler"}, round : 1..5, session : Nat, key : Key]
DirectMessage == [type : {"keygenDirectMessageHandler"}, session : Nat, key : Key]
SessionMessage == [type : {"keygenInit"}] \cup RoundMessage \cup DirectMessage

KeygenInit ==
    /\ ElectionInit
    /\ currentRound = [n \in Node |-> 0]
    /\ sessionNo = [n \in Node |-> 0]
    /\ starting = [n \in Node |-> 0]
    /\ resting = [n \in Node |-> 0]
    /\ messages = [n \in Node |-> EmptyQueue]
    /\ directMessages = [n \in Node |-> {}]
    /\ waiting = [n \in Node |-> {}]
    /\ sharing = [n \in Node |-> {}]
    /\ proofs = [n \in Node |-> <<>>]
    /\ ending = [n \in Node |-> <<>>]
    /\ commitments = [n \in Node |-> NoKey]
    /\ opened = [n \in Node |-> NoKey]
    /\ shares = [n \in Node |-> NoKey]
    /\ keyShare = [n \in Node |-> [public |-> NoKey, secret |-> NoKey]]
    /\ posted = [n \in Node |-> 0]
    /\ registry = Listing(Node)
    /\ starts = 0

Incoming(s, d, type) == links[s][d] # <<>> /\ Head(links[s][d]).type = type

-------------------------------------------------------------------------------
(* POST /start at the leader; anywhere else it is refused. *)
StartKeygen(n) ==
    /\ starts < MaxStarts
    /\ leader[n] = n
    /\ starts' = starts + 1
    /\ links' = Broadcast(links, n, <<[type |-> "keygenInit"]>>)
    /\ UNCHANGED <<partVars, electing, redisLeader, currentRound, sessionNo, starting, resting,
                   messages, directMessages, waiting, sharing, proofs, ending, dataVars, posted,
                   registry>>

(* The request for a session arrives: the node waits for 500 ms. *)
HandleInit(s, d) ==
    /\ Incoming(s, d, "keygenInit")
    /\ links' = Taken(links, s, d)
    /\ starting' = [starting EXCEPT ![d] = starting[d] + 1]
    /\ UNCHANGED <<partVars, electing, redisLeader, currentRound, sessionNo, resting, messages,
                   directMessages, waiting, sharing, proofs, ending, dataVars, posted, registry,
                   starts>>

(* startNewSession and finalizeCurrentRound(0), up to the delay of 1500 ms. *)
StartNewSession(n) ==
    /\ starting[n] > 0
    /\ currentRound[n] = 0
    /\ starting' = [starting EXCEPT ![n] = starting[n] - 1]
    /\ sessionNo' = [sessionNo EXCEPT ![n] = sessionNo[n] + 1]
    /\ currentRound' = [currentRound EXCEPT ![n] = 1]
    /\ resting' = [resting EXCEPT ![n] = resting[n] + 1]
    /\ messages' = [messages EXCEPT ![n] = EmptyQueue]
    /\ directMessages' = [directMessages EXCEPT ![n] = {}]
    /\ UNCHANGED <<partVars, electing, redisLeader, links, waiting, sharing, proofs, ending,
                   dataVars, posted, registry, starts>>

(* "there is already a keygen session n progress" *)
RefuseSession(n) ==
    /\ starting[n] > 0
    /\ currentRound[n] > 0
    /\ starting' = [starting EXCEPT ![n] = starting[n] - 1]
    /\ registry' = ReadBy(registry, n)
    /\ UNCHANGED <<partVars, electing, redisLeader, links, currentRound, sessionNo, resting,
                   messages, directMessages, waiting, sharing, proofs, ending, dataVars, posted,
                   starts>>

-------------------------------------------------------------------------------
(***************************************************************************)
(* sessionRoundVerifier, when the 1500 ms are over: the node takes in what *)
(* the round before has collected, and publishes its message of the round. *)
(***************************************************************************)
VerifyingAnyNumber(n, k) ==    \* a mutant: two validators are enough
    /\ resting[n] > 0
    /\ currentRound[n] = k
    /\ resting' = [resting EXCEPT ![n] = resting[n] - 1]
Verifying(n, k) ==
    /\ resting[n] > 0
    /\ currentRound[n] = k
    /\ Threshold >= 3
    /\ resting' = [resting EXCEPT ![n] = resting[n] - 1]

Publish(n, k) ==
    /\ messages' = IF IsBroadcastRound(k)
                   THEN [messages EXCEPT ![n][k][n] = [round |-> k, session |-> sessionNo[n]]]
                   ELSE messages
    /\ links' = Broadcast(links, n,
                  <<[type |-> "keygenRoundHandler", round |-> k, session |-> sessionNo[n],
                     key |-> IF k = FinalRound THEN opened[n] ELSE NoKey]>>)

untouchedByRound == <<partVars, electing, redisLeader, currentRound, sessionNo, starting,
                      directMessages, waiting, proofs, ending, posted, starts>>

KeygenRound1(n) ==
    /\ Verifying(n, 1)
    /\ Publish(n, 1)
    /\ UNCHANGED <<untouchedByRound, sharing, dataVars, registry>>

CommittedOnce(n) ==    \* a mutant: the commitment of an earlier session stays
    [j \in Node |-> IF commitments[n][j] = 0 /\ messages[n][1][j].round = 1
                    THEN messages[n][1][j].session ELSE commitments[n][j]]
(* Only a commitment is kept; an entry of another round is logged. *)
Committed(n) ==
    [j \in Node |-> IF messages[n][1][j].round = 1 THEN messages[n][1][j].session
                    ELSE commitments[n][j]]
KeygenRound2(n) ==
    /\ Verifying(n, 2)
    /\ commitments' = [commitments EXCEPT ![n] = Committed(n)]
    /\ Publish(n, 2)
    /\ UNCHANGED <<untouchedByRound, sharing, opened, shares, keyShare, registry>>

(* An opening is kept if it is that of the commitment. *)
Openings(n) ==
    [j \in Node |-> IF /\ messages[n][2][j].round = 2
                       /\ messages[n][2][j].session = commitments[n][j]
                    THEN commitments[n][j]
                    ELSE opened[n][j]]
KeygenRound3(n) ==
    /\ Verifying(n, 3)
    /\ Complete(Openings(n))
    /\ opened' = [opened EXCEPT ![n] = Openings(n)]
    /\ Publish(n, 3)
    /\ sharing' = [sharing EXCEPT ![n] = sharing[n] \cup {[type |-> "keygenDirectMessageHandler",
                                            session |-> sessionNo[n], key |-> Openings(n)]}]
    /\ UNCHANGED <<untouchedByRound, commitments, shares, keyShare, registry>>

(* A share is kept if its proof is about the same key and it is a point of *)
(* the polynomial its sender has opened.                                   *)
Received(n) ==
    [j \in Node |-> IF j = n THEN sessionNo[n]
                    ELSE IF \E dm \in directMessages[n] :
                               dm.from = j /\ dm.key = opened[n] /\ dm.session = opened[n][j]
                    THEN opened[n][j]
                    ELSE shares[n][j]]
KeygenRound4(n) ==
    /\ Verifying(n, 4)
    /\ Complete(Received(n))
    /\ shares' = [shares EXCEPT ![n] = Received(n)]
    /\ Publish(n, 4)
    /\ UNCHANGED <<untouchedByRound, sharing, commitments, opened, keyShare, registry>>

KeygenRound5(n) ==
    /\ Verifying(n, 5)
    /\ keyShare' = [keyShare EXCEPT ![n] = [public |-> opened[n], secret |-> shares[n]]]
    /\ Publish(n, 5)
    /\ UNCHANGED <<untouchedByRound, sharing, commitments, opened, shares, registry>>

(* process() has no output because something is missing: the verifier throws. *)
FailRound(n) ==
    /\ \/ /\ Verifying(n, 3)
          /\ ~ Complete(Openings(n))
          /\ opened' = [opened EXCEPT ![n] = Openings(n)]
          /\ UNCHANGED shares
       \/ /\ Verifying(n, 4)
          /\ ~ Complete(Received(n))
          /\ shares' = [shares EXCEPT ![n] = Received(n)]
          /\ UNCHANGED opened
    /\ registry' = ReadBy(registry, n)
    /\ UNCHANGED <<untouchedByRound, links, messages, sharing, commitments, keyShare>>

(* "need 3 peers to start keygen", or the session is over. *)
RefuseRound(n) ==
    /\ resting[n] > 0
    /\ Threshold < 3 \/ currentRound[n] = 0
    /\ resting' = [resting EXCEPT ![n] = resting[n] - 1]
    /\ registry' = ReadBy(registry, n)
    /\ UNCHANGED <<untouchedByRound, links, messages, sharing, dataVars>>

(* The direct messages of one round have one delay and leave together. *)
SendShares(n) ==
    \E dm \in sharing[n] :
        /\ sharing' = [sharing EXCEPT ![n] = sharing[n] \ {dm}]
        /\ links' = [links EXCEPT ![n] =
                       [d \in Node |-> IF d = n THEN links[n][d] ELSE Append(links[n][d], dm)]]
        /\ UNCHANGED <<untouchedByRound, resting, messages, dataVars, registry>>

-------------------------------------------------------------------------------
(***************************************************************************)
(* The handlers of a session's messages.                                   *)
(***************************************************************************)
untouchedByMessage == <<partVars, electing, redisLeader, sessionNo, starting, sharing,
                        dataVars, starts>>

(* A direct message is kept only in a round that has them. *)
HandleDirectMessage(s, d) ==
    /\ Incoming(s, d, "keygenDirectMessageHandler")
    /\ links' = Taken(links, s, d)
    /\ directMessages' =
         IF IsDirectMessageRound(currentRound[d])
         THEN [directMessages EXCEPT ![d] = directMessages[d] \cup
                 {[from |-> s, session |-> Head(links[s][d]).session, key |-> Head(links[s][d]).key]}]
         ELSE directMessages
    /\ UNCHANGED <<untouchedByMessage, currentRound, resting, messages, waiting, proofs, ending,
                   posted, registry>>

HasAllShares(n) == Cardinality(directMessages[n]) >= Threshold - 1
NeverAwaits(n) == FALSE    \* a mutant: broadcasts do not wait for the shares
AwaitsShares(n) == IsDirectMessageRound(currentRound[n]) /\ ~ HasAllShares(n)

(* A message that carries a broadcast of somebody else. *)
CanAccept(n, s, m) == s # n /\ IsBroadcastRound(m.round)

(* The reader's current round is where a message is kept, whatever its own. *)
Stored(n, s, m) ==
    IF CanAccept(n, s, m)
    THEN [messages[n] EXCEPT ![currentRound[n]][s] = [round |-> m.round, session |-> m.session]]
    ELSE messages[n]
ReceivedNearlyAll(n, queue) ==    \* a mutant: one peer may be missing
    /\ Cardinality({j \in Node : queue[currentRound[n]][j] # NoEntry}) >= Threshold - 1
    /\ IsDirectMessageRound(currentRound[n]) => Cardinality(directMessages[n]) = Threshold - 1
ReceivedAll(n, queue) ==
    /\ \A j \in Node : queue[currentRound[n]][j] # NoEntry
    /\ IsDirectMessageRound(currentRound[n]) => Cardinality(directMessages[n]) = Threshold - 1

StoreBroadcast(n, s, m) ==
    /\ IsBroadcastRound(currentRound[n])
    /\ ~ ReceivedAll(n, Stored(n, s, m))
    /\ messages' = [messages EXCEPT ![n] = Stored(n, s, m)]
    /\ UNCHANGED <<currentRound, resting, proofs, ending, posted>>

(* The last broadcast: finalizeCurrentRound and startNewRound. *)
FinalizeCurrentRound(n, s, m) ==
    /\ IsBroadcastRound(currentRound[n])
    /\ ReceivedAll(n, Stored(n, s, m))
    /\ messages' = [messages EXCEPT ![n] = Stored(n, s, m)]
    /\ currentRound' = [currentRound EXCEPT ![n] = currentRound[n] + 1]
    /\ resting' = [resting EXCEPT ![n] = resting[n] + 1]
    /\ UNCHANGED <<proofs, ending, posted>>

(* The last round: a proof is counted if there is one.  When there are as  *)
(* many as validators, all but the last are compared, the leader is read   *)
(* and validators[0] posts them; the session is reset 200 ms later.        *)
WithProof(n, m) == IF m.round = FinalRound THEN Append(proofs[n], m.key) ELSE proofs[n]
Agree(ps) == \A i, j \in 1..(Threshold - 1) : ps[i] = ps[j]
LastPeerProof(n, m) ==    \* a mutant: the proofs of the peers are enough
    currentRound[n] = FinalRound /\ Len(WithProof(n, m)) = Threshold - 1
LastProof(n, m) == currentRound[n] = FinalRound /\ Len(WithProof(n, m)) = Threshold
StorePeerProofs(n, m) ==
    /\ currentRound[n] = FinalRound
    /\ proofs' = [proofs EXCEPT ![n] = WithProof(n, m)]
    /\ IF LastProof(n, m) /\ Agree(WithProof(n, m))
       THEN /\ ending' = [ending EXCEPT ![n] = Append(ending[n], redisLeader)]
            /\ posted' = IF n = Validators[1] THEN [posted EXCEPT ![n] = posted[n] + 1] ELSE posted
       ELSE UNCHANGED <<ending, posted>>
    /\ UNCHANGED <<messages, currentRound, resting>>

SessionRoundProcessor(n, s, m) ==
    \/ StoreBroadcast(n, s, m)
    \/ FinalizeCurrentRound(n, s, m)
    \/ StorePeerProofs(n, m)

(* A round message without a session is dropped. *)
DropRoundMessage(s, d) ==
    /\ Incoming(s, d, "keygenRoundHandler")
    /\ currentRound[d] = 0
    /\ links' = Taken(links, s, d)
    /\ UNCHANGED <<untouchedByMessage, currentRound, resting, messages, directMessages, waiting,
                   proofs, ending, posted, registry>>

(* A round message comes before the direct messages do: it has to wait. *)
DeferRoundMessage(s, d) ==
    /\ Incoming(s, d, "keygenRoundHandler")
    /\ AwaitsShares(d)
    /\ links' = Taken(links, s, d)
    /\ waiting' = [waiting EXCEPT ![d] = waiting[d] \cup {[from |-> s, message |-> Head(links[s][d])]}]
    /\ UNCHANGED <<untouchedByMessage, currentRound, resting, messages, directMessages, proofs,
                   ending, posted, registry>>

HandleRoundMessage(s, d) ==
    /\ Incoming(s, d, "keygenRoundHandler")
    /\ currentRound[d] > 0
    /\ ~ AwaitsShares(d)
    /\ SessionRoundProcessor(d, s, Head(links[s][d]))
    /\ links' = Taken(links, s, d)
    /\ registry' = IF LastProof(d, Head(links[s][d])) /\ ~ Agree(WithProof(d, Head(links[s][d])))
                   THEN ReadBy(registry, d) ELSE registry
    /\ UNCHANGED <<untouchedByMessage, directMessages, waiting>>

(* A message that has waited is handled in the round the session is in by  *)
(* now.  The hashes of the direct messages that are made after it throw if *)
(* it has ended the session.                                               *)
RetryRoundMessage(n) ==
    \E w \in waiting[n] :
        /\ currentRound[n] > 0
        /\ ~ AwaitsShares(n)
        /\ SessionRoundProcessor(n, w.from, w.message)
        /\ waiting' = [waiting EXCEPT ![n] = waiting[n] \ {w}]
        /\ registry' = IF LastProof(n, w.message) THEN ReadBy(registry, n) ELSE registry
        /\ UNCHANGED <<untouchedByMessage, links, directMessages>>

(* A message that has waited longer than the session lasted: they throw.   *)
DropWaiting(n) ==
    \E w \in waiting[n] :
        /\ currentRound[n] = 0
        /\ waiting' = [waiting EXCEPT ![n] = waiting[n] \ {w}]
        /\ registry' = ReadBy(registry, n)
        /\ UNCHANGED <<untouchedByMessage, links, currentRound, resting, messages,
                       directMessages, proofs, ending, posted>>

(* Mutants of CloseSession: the proofs stay; validators[0] elects. *)
CloseKeepingProofs(n) ==
    /\ ending[n] # <<>>
    /\ ending' = [ending EXCEPT ![n] = Tail(ending[n])]
    /\ currentRound' = [currentRound EXCEPT ![n] = 0]
    /\ IF n = Head(ending[n]) THEN ElectNewLeader(n) ELSE UNCHANGED <<electing, redisLeader>>
    /\ UNCHANGED <<partVars, links, sessionNo, starting, resting, messages, directMessages,
                   waiting, sharing, proofs, dataVars, posted, registry, starts>>
CloseAndElectFirst(n) ==
    /\ ending[n] # <<>>
    /\ ending' = [ending EXCEPT ![n] = Tail(ending[n])]
    /\ proofs' = [proofs EXCEPT ![n] = <<>>]
    /\ currentRound' = [currentRound EXCEPT ![n] = 0]
    /\ IF n = Validators[1] THEN ElectNewLeader(n) ELSE UNCHANGED <<electing, redisLeader>>
    /\ UNCHANGED <<partVars, links, sessionNo, starting, resting, messages, directMessages,
                   waiting, sharing, dataVars, posted, registry, starts>>

(* The 200 ms are over: the session is reset, and whoever led when it      *)
(* ended calls for an election.                                            *)
CloseSession(n) ==
    /\ ending[n] # <<>>
    /\ ending' = [ending EXCEPT ![n] = Tail(ending[n])]
    /\ proofs' = [proofs EXCEPT ![n] = <<>>]
    /\ currentRound' = [currentRound EXCEPT ![n] = 0]
    /\ IF n = Head(ending[n]) THEN ElectNewLeader(n) ELSE UNCHANGED <<electing, redisLeader>>
    /\ UNCHANGED <<partVars, links, sessionNo, starting, resting, messages, directMessages,
                   waiting, sharing, dataVars, posted, registry, starts>>

(* Redis has answered a node that has thrown: it writes the list back. *)
UpdatePeerReplica(n) ==
    /\ HasRead(registry, n)
    /\ registry' = WrittenBy(registry, n)
    /\ UNCHANGED <<electionVars, currentRound, sessionNo, starting, resting, messages,
                   directMessages, waiting, sharing, proofs, ending, dataVars, posted, starts>>

-------------------------------------------------------------------------------
HandleSessionMessage(s, d) ==
    \/ HandleInit(s, d)
    \/ HandleDirectMessage(s, d)
    \/ DropRoundMessage(s, d)
    \/ DeferRoundMessage(s, d)
    \/ HandleRoundMessage(s, d)
DeliverMessage(s, d) ==
    \/ HandleSessionMessage(s, d)
    \/ HandleElectionMessage(s, d) /\ UNCHANGED sessionVars

VerifyRound(n) ==
    \/ KeygenRound1(n)
    \/ KeygenRound2(n)
    \/ KeygenRound3(n)
    \/ KeygenRound4(n)
    \/ KeygenRound5(n)
    \/ FailRound(n)
    \/ RefuseRound(n)
ResumeSession(n) ==
    \/ UpdatePeerReplica(n)
    \/ StartNewSession(n)
    \/ RefuseSession(n)
    \/ SendShares(n)
    \/ RetryRoundMessage(n)
    \/ DropWaiting(n)
    \/ CloseSession(n)
    \/ OpenElectionWhen(n, currentRound[n] > 0) /\ UNCHANGED sessionVars
    \/ AnnounceLeader(n) /\ UNCHANGED sessionVars

KeygenNext ==
    \/ \E n \in Node : \/ StartKeygen(n)
                       \/ RequestElection(n) /\ UNCHANGED sessionVars
                       \/ ResumeSession(n)
                       \/ VerifyRound(n)
    \/ \E s, d \in Node : DeliverMessage(s, d)

KeygenSpec == KeygenInit /\ [][KeygenNext]_keygenVars

(* Every packet is delivered and every timer ends. *)
KeygenFairness ==
    /\ \A n \in Node : WF_keygenVars(ResumeSession(n)) /\ WF_keygenVars(VerifyRound(n))
    /\ \A s, d \in Node : WF_keygenVars(DeliverMessage(s, d))

FairKeygenSpec == KeygenSpec /\ KeygenFairness

-------------------------------------------------------------------------------
(* Nothing of a session or of an election is under way. *)
InSession(n) ==
    \/ currentRound[n] > 0 \/ starting[n] > 0 \/ resting[n] > 0
    \/ waiting[n] # {} \/ sharing[n] # {} \/ ending[n] # <<>>
SessionsQuiet == ElectionQuiet /\ \A n \in Node : ~ InSession(n)

(* The key of everyone's contributions to their session number k. *)
KeyOf(k) == [j \in Node |-> k]

(* Types of the session state. *)
KeygenTypeOK ==
    /\ leader \in [Node -> Node]
    /\ electing \in [Node -> Seq(Node)]
    /\ redisLeader \in Node
    /\ links \in [Node -> [Node -> Seq(ElectionMessage \cup SessionMessage)]]
    /\ currentRound \in [Node -> 0..FinalRound]
    /\ sessionNo \in [Node -> Nat]
    /\ starting \in [Node -> Nat]
    /\ resting \in [Node -> Nat]
    /\ messages \in [Node -> [1..4 -> [Node -> [round : 0..4, session : Nat]]]]
    /\ directMessages \in [Node -> SUBSET [from : Node, session : Nat, key : Key]]
    /\ waiting \in [Node -> SUBSET [from : Node, message : RoundMessage]]
    /\ sharing \in [Node -> SUBSET DirectMessage]
    /\ proofs \in [Node -> Seq(Key)]
    /\ ending \in [Node -> Seq(Node)]
    /\ commitments \in [Node -> Key] /\ opened \in [Node -> Key] /\ shares \in [Node -> Key]
    /\ keyShare \in [Node -> [public : Key, secret : Key]]
    /\ posted \in [Node -> Nat]
    /\ registry \in RegistryOf(Node)
    /\ starts \in 0..MaxStarts

(* A node that has collected the proofs of a session holds the key of that *)
(* very session: every public part and every share of the secret is of the *)
(* contributions everyone made to it, and of nothing an earlier session or *)
(* another round left behind, however late any message came                *)
(* (keygenProtocol.ts:104-145, 233-239 and abstractProtocolHnadler.ts:     *)
(* 101-126, which store what comes in the reader's current round).         *)
ConcludedKey ==
    \A n \in Node :
        ending[n] # <<>> =>
            keyShare[n] = [public |-> KeyOf(sessionNo[n]), secret |-> KeyOf(sessionNo[n])]

(* The types of the state, and the key of a session that concludes, with a *)
(* reader as slow as it likes (keygenProtocol.ts:104-145).                 *)
KeygenInv == KeygenTypeOK /\ ConcludedKey

(* The rounds of a session are in step: nobody publishes its message of a  *)
(* round before everyone has published that of the round before, whatever  *)
(* the delays are (keygenProtocol.ts:124-140, abstractProtocolHnadler.ts:  *)
(* 101-115, 145-163: a message counts for the round of its reader).        *)
PublishedInSession(n) ==
    IF currentRound[n] = 0 THEN FinalRound
    ELSE Cardinality({k \in 1..4 : messages[n][k][n] # NoEntry})
         + (IF currentRound[n] = FinalRound /\ resting[n] = 0 THEN 1 ELSE 0)
Published ==
    [n \in Node |-> IF sessionNo[n] = 0 THEN 0
                    ELSE FinalRound * (sessionNo[n] - 1) + PublishedInSession(n)]
Rounds == INSTANCE Lockstep WITH done <- Published
KeepsStep == Rounds!LockstepSpec

(* When nothing is under way nothing of a session is left that stands in   *)
(* the way of the next: no proof is left, and each session has made one    *)
(* transaction, at validators[0] (keygenProtocol.ts:233-272).              *)
NothingLeft ==
    SessionsQuiet =>
        \A n \in Node :
            /\ proofs[n] = <<>>
            /\ posted[n] = IF n = Validators[1] THEN sessionNo[n] ELSE 0

(* Every session that begins ends, everywhere (keygenProtocol.ts:206-272). *)
SessionEnds == (\E n \in Node : currentRound[n] > 0) ~> SessionsQuiet

(* After a session that the first leader led it does not lead any more     *)
(* (keygenProtocol.ts:245, 268-271: the session must be reset before the   *)
(* election is called).                                                    *)
SessionRotatesLeader ==
    (currentRound[FirstLeader] = 1 /\ leader[FirstLeader] = FirstLeader)
        ~> (\A k \in Node : leader[k] # FirstLeader)

(* Fewer than three validators generate no key (keygenProtocol.ts:171): a  *)
(* session that is asked for throws once it has been announced as active.  *)
(* It is never over, so that the node refuses every session that follows.  *)
(* The node takes itself out of the Redis list; both throw at about the    *)
(* same time, and what one writes may put the other back, but never again  *)
(* are both of them listed (protocol/index.ts:7-23).                       *)
RefusedSessionStays ==
    \A n \in Node :
        /\ starting[n] > 0 ~> n \notin registry.peers
        /\ starting[n] > 0 ~> [](currentRound[n] > 0 /\ registry.peers # Node)
===============================================================================
