------------------------------ MODULE KeygenProof -----------------------------
(***************************************************************************)
(* Theorems about KeygenSession, for any number of validators.             *)
(***************************************************************************)
EXTENDS KeygenSession, ElectionProof, FiniteSetTheorems

-------------------------------------------------------------------------------
(***************************************************************************)
(* Types, of the election's state and of the session's.                    *)
(***************************************************************************)
Message == ElectionMessage \cup SessionMessage
Entry == {NoEntry} \cup [round : 1..4, session : Nat]
Queue == [1..4 -> [Node -> Entry]]
Waiting == [from : Node, message : RoundMessage]
Share == [from : Node, session : Nat, key : Key]

RoundsOK ==
    /\ currentRound \in [Node -> 0..5]
    /\ sessionNo \in [Node -> Nat]
    /\ starting \in [Node -> Nat]
    /\ resting \in [Node -> Nat]
    /\ messages \in [Node -> Queue]
    /\ directMessages \in [Node -> SUBSET Share]
TimersOK ==
    /\ waiting \in [Node -> SUBSET Waiting]
    /\ sharing \in [Node -> SUBSET DirectMessage]
    /\ proofs \in [Node -> Seq(Key)]
    /\ ending \in [Node -> Seq(Node)]
DataOK ==
    /\ commitments \in [Node -> Key]
    /\ opened \in [Node -> Key]
    /\ shares \in [Node -> Key]
    /\ keyShare \in [Node -> [public : Key, secret : Key]]
CountsOK ==
    /\ posted \in [Node -> Nat]
    /\ registry \in RegistryOf(Node)
    /\ starts \in 0..MaxStarts
SessionOK == RoundsOK /\ TimersOK /\ DataOK /\ CountsOK
KeygenTyped == ElectionStateOK /\ links \in LinksOf(Message) /\ SessionOK

(* The type invariant of the runs follows from the inductive one. *)
LEMMA KeygenTypedOK == KeygenTyped => KeygenTypeOK
<1> SUFFICES ASSUME KeygenTyped PROVE KeygenTypeOK
  OBVIOUS
<1>1. messages \in [Node -> [1..4 -> [Node -> [round : 0..4, session : Nat]]]]
  <2>1. Entry \subseteq [round : 0..4, session : Nat]
    BY DEF Entry, NoEntry
  <2> QED
    BY <2>1 DEF KeygenTyped, SessionOK, RoundsOK, Queue
<1> QED
  BY <1>1 DEF KeygenTyped, KeygenTypeOK, ElectionStateOK, LinksOf, SessionOK, RoundsOK, TimersOK,
              DataOK, CountsOK, Message, Waiting, Share, FinalRound

(* The empty key, entry and queue are typed. *)
LEMMA KeyTypes ==
    /\ NoKey \in Key
    /\ NoEntry \in Entry
    /\ EmptyQueue \in Queue
BY DEF NoKey, Key, NoEntry, Entry, EmptyQueue, Queue

(* The initial states are typed. *)
LEMMA KeygenTypedInit == KeygenInit => KeygenTyped
<1> SUFFICES ASSUME KeygenInit PROVE KeygenTyped
  OBVIOUS
<1>1. ElectionStateOK /\ links \in LinksOf(Message)
  BY NoPacketsType, ElectionTypedInit DEF KeygenInit, ElectionInit
<1>2. RoundsOK
  BY KeyTypes DEF KeygenInit, RoundsOK
<1>3. TimersOK
  BY DEF KeygenInit, TimersOK
<1>4. DataOK
  BY KeyTypes DEF KeygenInit, DataOK
<1>5. CountsOK
  BY KeygenAssumption, ListingType DEF KeygenInit, CountsOK
<1> QED
  BY <1>1, <1>2, <1>3, <1>4, <1>5 DEF KeygenTyped, SessionOK

(* What an election does to the state that it shares with the sessions. *)
LEMMA ElectionMessageTypes ==
    /\ ElectionMessage \subseteq Message
    /\ \A m \in Message : m.type \in {"LeaderElection", "LeaderVote", "SetNewLeader"}
                              => m \in ElectionMessage
BY DEF Message, SessionMessage, RoundMessage, DirectMessage

(* The oldest packet of a session's type is a message of that type. *)
LEMMA SessionMessageTypes ==
    ASSUME links \in LinksOf(Message), NEW s \in Node, NEW d \in Node, NEW type, Incoming(s, d, type)
    PROVE  /\ Taken(links, s, d) \in LinksOf(Message)
           /\ type = "keygenRoundHandler" => Head(links[s][d]) \in RoundMessage
           /\ type = "keygenDirectMessageHandler" => Head(links[s][d]) \in DirectMessage
<1>1. Head(links[s][d]) \in Message /\ Taken(links, s, d) \in LinksOf(Message)
  BY TakenType DEF Incoming
<1> DEFINE m == Head(links[s][d])
<1>2. m.type = type
  BY DEF Incoming
<1> HIDE DEF m
<1> QED
  BY <1>1, <1>2 DEF Message, ElectionMessage, SessionMessage, RoundMessage, DirectMessage, m

(* A step of the session leaves the election as it is. *)
LEMMA UntouchedElection ==
    ASSUME ElectionStateOK, UNCHANGED <<partVars, electing, redisLeader>>
    PROVE  ElectionStateOK'
BY DEF ElectionStateOK, partVars

(* A step of the election leaves the session as it is. *)
LEMMA UntouchedSession == ASSUME SessionOK, UNCHANGED sessionVars PROVE SessionOK'
BY DEF SessionOK, RoundsOK, TimersOK, DataOK, CountsOK, sessionVars

-------------------------------------------------------------------------------
(* The start of a session. *)
LEMMA StartTypes ==
    ASSUME KeygenTyped, NEW n \in Node,
           StartKeygen(n) \/ StartNewSession(n) \/ RefuseSession(n)
    PROVE  KeygenTyped'
<1> USE DEF KeygenTyped, SessionOK
<1>1. ElectionStateOK'
  BY UntouchedElection DEF StartKeygen, StartNewSession, RefuseSession
<1>2. links' \in LinksOf(Message)
  <2>1. [type |-> "keygenInit"] \in Message
    BY DEF Message, SessionMessage
  <2> QED
    BY <2>1, BroadcastOneType DEF StartKeygen, StartNewSession, RefuseSession
<1>3. RoundsOK'
  BY KeyTypes DEF RoundsOK, StartKeygen, StartNewSession, RefuseSession
<1>4. TimersOK' /\ DataOK'
  BY DEF TimersOK, DataOK, StartKeygen, StartNewSession, RefuseSession, dataVars
<1>5. CountsOK'
  BY KeygenAssumption, ReadByType DEF CountsOK, StartKeygen, StartNewSession, RefuseSession
<1> QED
  BY <1>1, <1>2, <1>3, <1>4, <1>5

(* startSession on an invitation. *)
LEMMA InitTypes ==
    ASSUME KeygenTyped, NEW s \in Node, NEW d \in Node, HandleInit(s, d)
    PROVE  KeygenTyped'
<1> USE DEF KeygenTyped, SessionOK
<1>1. ElectionStateOK'
  BY UntouchedElection DEF HandleInit
<1>2. links' \in LinksOf(Message)
  BY SessionMessageTypes DEF HandleInit
<1>3. RoundsOK'
  BY DEF RoundsOK, HandleInit
<1>4. TimersOK' /\ DataOK' /\ CountsOK'
  BY DEF TimersOK, DataOK, CountsOK, HandleInit, dataVars
<1> QED
  BY <1>1, <1>2, <1>3, <1>4

-------------------------------------------------------------------------------
(* The rounds.  What a round keeps is a key: a session number of everyone. *)
LEMMA EntriesType ==
    ASSUME RoundsOK, NEW n \in Node, NEW k \in 1..4, NEW j \in Node
    PROVE  messages[n][k][j] \in Entry
BY DEF RoundsOK, Queue

(* What a round commits to, opens and has received are keys. *)
LEMMA RoundOutputs ==
    ASSUME RoundsOK, DataOK, NEW n \in Node
    PROVE  Committed(n) \in Key /\ Openings(n) \in Key /\ Received(n) \in Key
<1>1. ASSUME NEW j \in Node, NEW k \in 1..4
      PROVE  messages[n][k][j].session \in Nat
  <2>1. messages[n][k][j] \in Entry
    BY EntriesType
  <2> QED
    BY <2>1 DEF Entry, NoEntry
<1>2. commitments[n] \in Key /\ opened[n] \in Key /\ shares[n] \in Key /\ sessionNo[n] \in Nat
  BY DEF RoundsOK, DataOK
<1> QED
  BY <1>1, <1>2 DEF Committed, Openings, Received, Key

(* A round records its message with its own manager and broadcasts it. *)
LEMMA PublishTypes ==
    ASSUME KeygenTyped, NEW n \in Node, NEW k \in 1..5, Publish(n, k)
    PROVE  messages' \in [Node -> Queue] /\ links' \in LinksOf(Message)
<1>1. sessionNo[n] \in Nat /\ opened[n] \in Key
  BY DEF KeygenTyped, SessionOK, RoundsOK, DataOK
<1>2. messages' \in [Node -> Queue]
  <2>1. CASE k \in 1..4
    <3> DEFINE e == [round |-> k, session |-> sessionNo[n]]
    <3>1. messages[n] \in Queue /\ e \in Entry
      BY <1>1, <2>1 DEF KeygenTyped, SessionOK, RoundsOK, Entry
    <3>2. messages' = [messages EXCEPT ![n] = [messages[n] EXCEPT ![k] = [messages[n][k] EXCEPT ![n] = e]]]
      BY <2>1 DEF Publish, IsBroadcastRound
    <3> HIDE DEF e
    <3>3. [messages[n][k] EXCEPT ![n] = e] \in [Node -> Entry]
      BY <3>1, <2>1 DEF Queue
    <3>4. [messages[n] EXCEPT ![k] = [messages[n][k] EXCEPT ![n] = e]] \in Queue
      BY <3>1, <3>3, <2>1 DEF Queue
    <3> QED
      BY <3>2, <3>4 DEF KeygenTyped, SessionOK, RoundsOK
  <2>2. CASE k = 5
    BY <2>2 DEF Publish, IsBroadcastRound, KeygenTyped, SessionOK, RoundsOK
  <2> QED
    BY <2>1, <2>2
<1>3. links' \in LinksOf(Message)
  <2> DEFINE m == [type |-> "keygenRoundHandler", round |-> k, session |-> sessionNo[n],
                   key |-> IF k = FinalRound THEN opened[n] ELSE NoKey]
  <2>1. m \in Message
    BY <1>1, KeyTypes DEF Message, SessionMessage, RoundMessage
  <2>2. links' = Broadcast(links, n, <<m>>)
    BY DEF Publish
  <2> HIDE DEF m
  <2> QED
    BY <2>1, <2>2, BroadcastOneType DEF KeygenTyped
<1> QED
  BY <1>2, <1>3

(* The timer of a round that is being verified is one less. *)
LEMMA RestingType ==
    ASSUME RoundsOK, NEW n \in Node, NEW k, Verifying(n, k)
    PROVE  resting' \in [Node -> Nat]
BY DEF RoundsOK, Verifying

(* What no round changes stays typed. *)
LEMMA UntouchedByRoundTypes ==
    ASSUME KeygenTyped, UNCHANGED untouchedByRound
    PROVE  /\ ElectionStateOK'
           /\ (messages' \in [Node -> Queue] /\ resting' \in [Node -> Nat]) => RoundsOK'
           /\ sharing' \in [Node -> SUBSET DirectMessage] => TimersOK'
           /\ registry' \in RegistryOf(Node) => CountsOK'
<1>1. ElectionStateOK'
  BY UntouchedElection DEF KeygenTyped, untouchedByRound
<1> QED
  BY <1>1 DEF KeygenTyped, SessionOK, RoundsOK, TimersOK, CountsOK, untouchedByRound

(* verifyCurrentRound: it fails, is refused, or one of the five rounds publishes. *)
LEMMA RoundTypes ==
    ASSUME KeygenTyped, NEW n \in Node, VerifyRound(n)
    PROVE  KeygenTyped'
<1> DEFINE Others == UNCHANGED untouchedByRound
<1>1. Others /\ resting' \in [Node -> Nat]
  BY RestingType
     DEF KeygenTyped, SessionOK, RoundsOK, VerifyRound, KeygenRound1, KeygenRound2, KeygenRound3, KeygenRound4,
         KeygenRound5, FailRound, RefuseRound
<1>2. messages' \in [Node -> Queue] /\ links' \in LinksOf(Message)
  <2>1. ASSUME NEW k \in 1..5, Publish(n, k)
        PROVE  messages' \in [Node -> Queue] /\ links' \in LinksOf(Message)
    BY <2>1, PublishTypes
  <2>2. CASE FailRound(n) \/ RefuseRound(n)
    BY <2>2 DEF FailRound, RefuseRound, KeygenTyped, SessionOK, RoundsOK
  <2>3. 1 \in 1..5 /\ 2 \in 1..5 /\ 3 \in 1..5 /\ 4 \in 1..5 /\ 5 \in 1..5
    OBVIOUS
  <2> QED
    BY <2>1, <2>2, <2>3
       DEF VerifyRound, KeygenRound1, KeygenRound2, KeygenRound3, KeygenRound4, KeygenRound5
<1>3. sharing' \in [Node -> SUBSET DirectMessage]
  <2>1. CASE KeygenRound3(n)
    <3>1. [type |-> "keygenDirectMessageHandler", session |-> sessionNo[n], key |-> Openings(n)]
             \in DirectMessage
      BY RoundOutputs DEF DirectMessage, KeygenTyped, SessionOK, RoundsOK
    <3> QED
      BY <2>1, <3>1 DEF KeygenRound3, KeygenTyped, SessionOK, TimersOK
  <2>2. CASE sharing' = sharing
    BY <2>2 DEF KeygenTyped, SessionOK, TimersOK
  <2> QED
    BY <2>1, <2>2
       DEF VerifyRound, KeygenRound1, KeygenRound2, KeygenRound4, KeygenRound5, FailRound, RefuseRound
<1>4. DataOK'
  <2>1. /\ Committed(n) \in Key /\ Openings(n) \in Key /\ Received(n) \in Key
        /\ opened[n] \in Key /\ shares[n] \in Key
    BY RoundOutputs DEF KeygenTyped, SessionOK, DataOK
  <2>2. [public |-> opened[n], secret |-> shares[n]] \in [public : Key, secret : Key]
    BY <2>1
  <2> USE DEF KeygenTyped, SessionOK, DataOK
  <2>3. CASE KeygenRound1(n) \/ RefuseRound(n)
    BY <2>3 DEF KeygenRound1, RefuseRound, dataVars
  <2>4. CASE KeygenRound2(n) \/ KeygenRound3(n) \/ KeygenRound4(n) \/ FailRound(n)
    BY <2>1, <2>4 DEF KeygenRound2, KeygenRound3, KeygenRound4, FailRound
  <2>5. CASE KeygenRound5(n)
    BY <2>2, <2>5 DEF KeygenRound5
  <2> QED
    BY <2>3, <2>4, <2>5 DEF VerifyRound
<1>5. registry' \in RegistryOf(Node)
  BY ReadByType
     DEF VerifyRound, KeygenRound1, KeygenRound2, KeygenRound3, KeygenRound4, KeygenRound5, FailRound,
         RefuseRound, KeygenTyped, SessionOK, CountsOK
<1> HIDE DEF Others
<1> QED
  BY <1>1, <1>2, <1>3, <1>4, <1>5, UntouchedByRoundTypes DEF KeygenTyped, SessionOK, Others

(* The shares of round 3 go out after their 500 ms. *)
LEMMA SendTypes ==
    ASSUME KeygenTyped, NEW n \in Node, SendShares(n)
    PROVE  KeygenTyped'
<1>1. PICK dm \in sharing[n] :
        /\ sharing' = [sharing EXCEPT ![n] = sharing[n] \ {dm}]
        /\ links' = [links EXCEPT ![n] =
                       [d \in Node |-> IF d = n THEN links[n][d] ELSE Append(links[n][d], dm)]]
        /\ UNCHANGED <<untouchedByRound, resting, messages, dataVars, registry>>
  BY DEF SendShares
<1>2. dm \in Message
  BY DEF KeygenTyped, SessionOK, TimersOK, Message, SessionMessage
<1>3. \A d \in Node : links[n][d] \in Seq(Message) /\ Append(links[n][d], dm) \in Seq(Message)
  BY <1>2 DEF KeygenTyped, LinksOf
<1>4. [d \in Node |-> IF d = n THEN links[n][d] ELSE Append(links[n][d], dm)] \in [Node -> Seq(Message)]
  BY <1>3
<1>5. links' \in LinksOf(Message)
  BY <1>1, <1>4 DEF KeygenTyped, LinksOf
<1>6. sharing' \in [Node -> SUBSET DirectMessage]
  BY <1>1 DEF KeygenTyped, SessionOK, TimersOK
<1>7. DataOK'
  BY <1>1 DEF KeygenTyped, SessionOK, DataOK, dataVars
<1>8. messages' \in [Node -> Queue] 
      /\ resting' \in [Node -> Nat] /\ registry' \in RegistryOf(Node)
  BY <1>1 DEF KeygenTyped, SessionOK, RoundsOK, CountsOK
<1> QED
  BY <1>1, <1>5, <1>6, <1>7, <1>8, UntouchedByRoundTypes DEF KeygenTyped, SessionOK

-------------------------------------------------------------------------------
(* The messages of a session, when they come and when they have waited. *)
LEMMA StoredType ==
    ASSUME RoundsOK, NEW n \in Node, NEW s \in Node, NEW m \in RoundMessage
    PROVE  Stored(n, s, m) \in Queue
<1>1. messages[n] \in Queue
  BY DEF RoundsOK
<1>2. CASE CanAccept(n, s, m) /\ currentRound[n] \in 1..4
  <2> DEFINE e == [round |-> m.round, session |-> m.session]
             k == currentRound[n]
  <2>1. e \in Entry /\ k \in 1..4
    BY <1>2 DEF CanAccept, IsBroadcastRound, RoundMessage, Entry
  <2>2. Stored(n, s, m) = [messages[n] EXCEPT ![k] = [messages[n][k] EXCEPT ![s] = e]]
    BY <1>2 DEF Stored
  <2> HIDE DEF e, k
  <2>3. [messages[n][k] EXCEPT ![s] = e] \in [Node -> Entry]
    BY <1>1, <2>1 DEF Queue
  <2> QED
    BY <1>1, <2>1, <2>2, <2>3 DEF Queue
<1>3. CASE CanAccept(n, s, m) /\ currentRound[n] \notin 1..4
  BY <1>1, <1>3 DEF Stored, Queue
<1>4. CASE ~ CanAccept(n, s, m)
  BY <1>1, <1>4 DEF Stored
<1> QED
  BY <1>2, <1>3, <1>4

(* sessionRoundProcessor on a round message. *)
LEMMA ProcessorTypes ==
    ASSUME KeygenTyped, NEW n \in Node, NEW s \in Node, NEW m \in RoundMessage,
           SessionRoundProcessor(n, s, m)
    PROVE  /\ messages' \in [Node -> Queue]
           /\ currentRound' \in [Node -> 0..5]
           /\ resting' \in [Node -> Nat]
           /\ proofs' \in [Node -> Seq(Key)]
           /\ ending' \in [Node -> Seq(Node)]
           /\ posted' \in [Node -> Nat]
<1>1. Stored(n, s, m) \in Queue
  BY StoredType DEF KeygenTyped, SessionOK
<1>2. WithProof(n, m) \in Seq(Key)
  <2>1. m.key \in Key /\ proofs[n] \in Seq(Key)
    BY DEF RoundMessage, KeygenTyped, SessionOK, TimersOK
  <2> QED
    BY <2>1 DEF WithProof
<1>3. Append(ending[n], redisLeader) \in Seq(Node)
  BY DEF KeygenTyped, SessionOK, TimersOK, ElectionStateOK
<1> USE DEF KeygenTyped, SessionOK, RoundsOK, TimersOK, CountsOK
<1>4. CASE StoreBroadcast(n, s, m)
  BY <1>1, <1>4 DEF StoreBroadcast
<1>5. CASE FinalizeCurrentRound(n, s, m)
  <2>1. currentRound[n] + 1 \in 0..5 /\ resting[n] + 1 \in Nat
    <3>1. currentRound[n] \in 1..4
      BY <1>5 DEF FinalizeCurrentRound, IsBroadcastRound
    <3>2. resting[n] \in Nat
      OBVIOUS
    <3> QED
      BY ONLY <3>1, <3>2
  <2>2. UNCHANGED <<proofs, ending, posted>>
    BY <1>5 DEF FinalizeCurrentRound
  <2>3. messages' \in [Node -> Queue]
    BY <1>1, <1>5 DEF FinalizeCurrentRound
  <2>4. currentRound' \in [Node -> 0..5] /\ resting' \in [Node -> Nat]
    BY <1>5, <2>1 DEF FinalizeCurrentRound
  <2> QED
    BY <2>2, <2>3, <2>4
<1>6. CASE StorePeerProofs(n, m)
  <2>1. /\ UNCHANGED <<messages, currentRound, resting>>
        /\ proofs' = [proofs EXCEPT ![n] = WithProof(n, m)]
        /\ ending' \in {ending, [ending EXCEPT ![n] = Append(ending[n], redisLeader)]}
        /\ posted' \in {posted, [posted EXCEPT ![n] = posted[n] + 1]}
    BY <1>6 DEF StorePeerProofs
  <2>2. proofs' \in [Node -> Seq(Key)]
    BY <1>2, <2>1
  <2>3. ending' \in [Node -> Seq(Node)]
    BY <1>3, <2>1
  <2>4. posted' \in [Node -> Nat]
    <3>1. posted \in [Node -> Nat]
      OBVIOUS
    <3>2. posted[n] + 1 \in Nat
      BY <3>1
    <3> QED
      BY <2>1, <3>1, <3>2
  <2> QED
    BY <2>1, <2>2, <2>3, <2>4
<1> QED
  BY <1>4, <1>5, <1>6 DEF SessionRoundProcessor

(* What no session message changes stays typed. *)
LEMMA UntouchedByMessageTypes ==
    ASSUME KeygenTyped, UNCHANGED untouchedByMessage
    PROVE  /\ ElectionStateOK' /\ DataOK'
           /\ sessionNo' = sessionNo /\ starting' = starting /\ sharing' = sharing /\ starts' = starts
<1>1. ElectionStateOK'
  BY UntouchedElection DEF KeygenTyped, untouchedByMessage
<1> QED
  BY <1>1 DEF KeygenTyped, SessionOK, DataOK, untouchedByMessage, dataVars

(* A direct message with a share. *)
LEMMA DirectTypes ==
    ASSUME KeygenTyped, NEW s \in Node, NEW d \in Node, HandleDirectMessage(s, d)
    PROVE  KeygenTyped'
<1> DEFINE m == Head(links[s][d])
           dm == [from |-> s, session |-> m.session, key |-> m.key]
<1>1. m \in DirectMessage /\ Taken(links, s, d) \in LinksOf(Message)
  BY SessionMessageTypes DEF HandleDirectMessage, KeygenTyped
<1>2. dm \in Share
  <2> HIDE DEF m
  <2> QED
    BY <1>1 DEF DirectMessage, Share
<1>3. directMessages' \in [Node -> SUBSET Share]
  <2>1. directMessages' \in {directMessages,
                             [directMessages EXCEPT ![d] = directMessages[d] \cup {dm}]}
    BY DEF HandleDirectMessage
  <2> HIDE DEF dm
  <2> QED
    BY <1>2, <2>1 DEF KeygenTyped, SessionOK, RoundsOK
<1>4. /\ links' = Taken(links, s, d)
      /\ UNCHANGED <<untouchedByMessage, currentRound, resting, messages, waiting, proofs, ending,
                     posted, registry>>
  BY DEF HandleDirectMessage
<1> QED
  BY <1>1, <1>3, <1>4, UntouchedByMessageTypes
     DEF KeygenTyped, SessionOK, RoundsOK, TimersOK, CountsOK

(* A round message is dropped, kept for later, or handled. *)
LEMMA RoundMessageTypes ==
    ASSUME KeygenTyped, NEW s \in Node, NEW d \in Node,
           DropRoundMessage(s, d) \/ DeferRoundMessage(s, d) \/ HandleRoundMessage(s, d)
    PROVE  KeygenTyped'
<1> DEFINE m == Head(links[s][d])
<1>1. m \in RoundMessage /\ Taken(links, s, d) \in LinksOf(Message)
  BY SessionMessageTypes DEF DropRoundMessage, DeferRoundMessage, HandleRoundMessage, KeygenTyped
<1>2. /\ links' = Taken(links, s, d)
      /\ UNCHANGED <<untouchedByMessage, directMessages>>
  BY DEF DropRoundMessage, DeferRoundMessage, HandleRoundMessage
<1>3. waiting' \in [Node -> SUBSET Waiting]
  <2>1. [from |-> s, message |-> m] \in Waiting
    BY <1>1 DEF Waiting
  <2> HIDE DEF m
  <2>2. waiting' \in {waiting, [waiting EXCEPT ![d] = waiting[d] \cup {[from |-> s, message |-> m]}]}
    BY DEF DropRoundMessage, DeferRoundMessage, HandleRoundMessage, m
  <2>3. waiting \in [Node -> SUBSET Waiting]
    BY DEF KeygenTyped, SessionOK, TimersOK
  <2> QED
    BY <2>1, <2>2, <2>3
<1>4. CASE DropRoundMessage(s, d) \/ DeferRoundMessage(s, d)
  <2>1. UNCHANGED <<currentRound, resting, messages, proofs, ending, posted, registry>>
    BY <1>4 DEF DropRoundMessage, DeferRoundMessage
  <2> QED
    BY <1>1, <1>2, <1>3, <2>1, UntouchedByMessageTypes
       DEF KeygenTyped, SessionOK, RoundsOK, TimersOK, CountsOK
<1>5. CASE HandleRoundMessage(s, d)
  <2>1. SessionRoundProcessor(d, s, m) /\ registry' \in {registry, ReadBy(registry, d)}
    BY <1>5 DEF HandleRoundMessage
  <2> HIDE DEF m
  <2>2. registry' \in RegistryOf(Node)
    BY <2>1, ReadByType DEF KeygenTyped, SessionOK, CountsOK
  <2>3. /\ messages' \in [Node -> Queue]
        /\ currentRound' \in [Node -> 0..5]
        /\ resting' \in [Node -> Nat]
        /\ proofs' \in [Node -> Seq(Key)]
        /\ ending' \in [Node -> Seq(Node)]
        /\ posted' \in [Node -> Nat]
    BY <1>1, <2>1, ProcessorTypes
  <2> QED
    BY <1>1, <1>2, <1>3, <2>2, <2>3, UntouchedByMessageTypes
       DEF KeygenTyped, SessionOK, RoundsOK, TimersOK, CountsOK
<1> QED
  BY <1>4, <1>5

(* A message that was kept is handled when its 500 ms are over, or dropped. *)
LEMMA WaitingTypes ==
    ASSUME KeygenTyped, NEW n \in Node, RetryRoundMessage(n) \/ DropWaiting(n)
    PROVE  KeygenTyped'
<1>1. CASE RetryRoundMessage(n)
  <2>1. PICK w \in waiting[n] :
          /\ SessionRoundProcessor(n, w.from, w.message)
          /\ waiting' = [waiting EXCEPT ![n] = waiting[n] \ {w}]
          /\ registry' \in {registry, ReadBy(registry, n)}
          /\ UNCHANGED <<untouchedByMessage, links, directMessages>>
    BY <1>1 DEF RetryRoundMessage
  <2>2. w.from \in Node /\ w.message \in RoundMessage
    BY DEF KeygenTyped, SessionOK, TimersOK, Waiting
  <2>3. /\ messages' \in [Node -> Queue]
        /\ currentRound' \in [Node -> 0..5]
        /\ resting' \in [Node -> Nat]
        /\ proofs' \in [Node -> Seq(Key)]
        /\ ending' \in [Node -> Seq(Node)]
        /\ posted' \in [Node -> Nat]
    BY <2>1, <2>2, ProcessorTypes
  <2>4. waiting' \in [Node -> SUBSET Waiting] /\ registry' \in RegistryOf(Node)
    BY <2>1, ReadByType DEF KeygenTyped, SessionOK, TimersOK, CountsOK
  <2> QED
    BY <2>1, <2>3, <2>4, UntouchedByMessageTypes
       DEF KeygenTyped, SessionOK, RoundsOK, TimersOK, CountsOK
<1>2. CASE DropWaiting(n)
  <2>1. PICK w \in waiting[n] :
          /\ waiting' = [waiting EXCEPT ![n] = waiting[n] \ {w}]
          /\ registry' = ReadBy(registry, n)
          /\ UNCHANGED <<untouchedByMessage, links, currentRound, resting, messages,
                         directMessages, proofs, ending, posted>>
    BY <1>2 DEF DropWaiting
  <2>2. waiting' \in [Node -> SUBSET Waiting] /\ registry' \in RegistryOf(Node)
    BY <2>1, ReadByType DEF KeygenTyped, SessionOK, TimersOK, CountsOK
  <2> QED
    BY <2>1, <2>2, UntouchedByMessageTypes
       DEF KeygenTyped, SessionOK, RoundsOK, TimersOK, CountsOK
<1> QED
  BY <1>1, <1>2

(* Redis answers a node that has thrown (src/protocol/index.ts:45-51). *)
LEMMA UnlistTypes ==
    ASSUME KeygenTyped, NEW n \in Node, UpdatePeerReplica(n)
    PROVE  KeygenTyped'
<1>1. registry' \in RegistryOf(Node)
  BY WrittenByType DEF UpdatePeerReplica, KeygenTyped, SessionOK, CountsOK
<1>2. UNCHANGED <<electionVars, currentRound, sessionNo, starting, resting, messages,
                  directMessages, waiting, sharing, proofs, ending, dataVars, posted, starts>>
  BY DEF UpdatePeerReplica
<1> QED
  BY <1>1, <1>2 DEF electionVars, dataVars, KeygenTyped, ElectionStateOK, SessionOK, RoundsOK,
                    TimersOK, DataOK, CountsOK

(* The session ends: what it leaves behind is typed. *)
LEMMA CloseTypes ==
    ASSUME KeygenTyped, NEW n \in Node, CloseSession(n)
    PROVE  KeygenTyped'
<1>1. electing' \in [Node -> Seq(Node)] /\ redisLeader' \in Node
  BY ElectNewLeaderType DEF CloseSession, KeygenTyped, ElectionStateOK
<1>2. ElectionStateOK'
  BY <1>1 DEF CloseSession, KeygenTyped, ElectionStateOK, partVars
<1>3. ending' \in [Node -> Seq(Node)]
  <2>1. Tail(ending[n]) \in Seq(Node)
    BY DEF CloseSession, KeygenTyped, SessionOK, TimersOK
  <2> QED
    BY <2>1 DEF CloseSession, KeygenTyped, SessionOK, TimersOK
<1>4. proofs' \in [Node -> Seq(Key)] /\ currentRound' \in [Node -> 0..5]
  <2>1. << >> \in Seq(Key)
    OBVIOUS
  <2>2. proofs' \in [Node -> Seq(Key)]
    BY <2>1 DEF CloseSession, KeygenTyped, SessionOK, TimersOK
  <2>3. currentRound' \in [Node -> 0..5]
    BY DEF CloseSession, KeygenTyped, SessionOK, RoundsOK
  <2> QED
    BY <2>2, <2>3
<1>5. UNCHANGED <<links, sessionNo, starting, resting, messages, directMessages, waiting, sharing,
                  dataVars, posted, registry, starts>>
  BY DEF CloseSession
<1> QED
  BY <1>2, <1>3, <1>4, <1>5 DEF KeygenTyped, SessionOK, RoundsOK, TimersOK, DataOK, CountsOK, dataVars

(* The steps of an election: only the flag that electNewLeader reads is    *)
(* the session's.                                                          *)
LEMMA OpenWhenType ==
    ASSUME ElectionStateOK, links \in LinksOf(Message), NEW n \in Node, NEW flag \in BOOLEAN,
           OpenElectionWhen(n, flag)
    PROVE  ElectionStateOK' /\ links' \in LinksOf(Message)
<1>1. Head(electing[n]) \in Node /\ Tail(electing[n]) \in Seq(Node)
  BY DEF OpenElectionWhen, ElectionStateOK
<1>2. ElectionStateOK'
  BY <1>1 DEF OpenElectionWhen, ElectionStateOK
<1>3. \A l \in Node : /\ [type |-> "LeaderElection", leader |-> l] \in Message
                      /\ [type |-> "SetNewLeader", leader |-> l] \in Message
  BY DEF ElectionMessage, Message
<1>4. PICK m \in Message : links' = Broadcast(links, n, <<m>>)
  BY <1>1, <1>3 DEF OpenElectionWhen
<1> QED
  BY <1>2, <1>4, BroadcastOneType

(* A step of the election under the session. *)
LEMMA ElectionTypes ==
    ASSUME KeygenTyped, UNCHANGED sessionVars,
           \/ \E n \in Node : \/ RequestElection(n)
                              \/ OpenElectionWhen(n, currentRound[n] > 0)
                              \/ AnnounceLeader(n)
           \/ \E s, d \in Node : HandleElectionMessage(s, d)
    PROVE  KeygenTyped'
<1>1. ASSUME NEW n \in Node, RequestElection(n)
      PROVE  ElectionStateOK' /\ links' \in LinksOf(Message)
  <2>1. electing' \in [Node -> Seq(Node)] /\ redisLeader' \in Node
    BY <1>1, ElectNewLeaderType DEF RequestElection, KeygenTyped, ElectionStateOK
  <2>2. requests' \in 0..MaxRequests
    BY <1>1, ElectionAssumption DEF RequestElection, KeygenTyped, ElectionStateOK
  <2>3. UNCHANGED <<leader, votes, announcing, links>>
    BY <1>1 DEF RequestElection
  <2> QED
    BY <2>1, <2>2, <2>3 DEF KeygenTyped, ElectionStateOK
<1>2. ASSUME NEW n \in Node, OpenElectionWhen(n, currentRound[n] > 0)
      PROVE  ElectionStateOK' /\ links' \in LinksOf(Message)
  <2>1. (currentRound[n] > 0) \in BOOLEAN
    OBVIOUS
  <2> QED
    BY <1>2, <2>1, OpenWhenType DEF KeygenTyped
<1>3. ASSUME NEW n \in Node, AnnounceLeader(n)
      PROVE  ElectionStateOK' /\ links' \in LinksOf(Message)
  BY <1>3, ResumeElectionType, ElectionMessageTypes DEF ResumeElection, KeygenTyped
<1>4. ASSUME NEW s \in Node, NEW d \in Node, HandleElectionMessage(s, d)
      PROVE  ElectionStateOK' /\ links' \in LinksOf(Message)
  BY <1>4, HandleElectionMessageType, ElectionMessageTypes DEF KeygenTyped
<1> QED
  BY <1>1, <1>2, <1>3, <1>4, UntouchedSession DEF KeygenTyped

(* Every step keeps the state typed. *)
LEMMA KeygenTypedStep == KeygenTyped /\ [KeygenNext]_keygenVars => KeygenTyped'
<1> SUFFICES ASSUME KeygenTyped, [KeygenNext]_keygenVars PROVE KeygenTyped'
  OBVIOUS
<1>1. CASE UNCHANGED keygenVars
  BY <1>1, UntouchedSession DEF KeygenTyped, keygenVars, electionVars, ElectionStateOK
<1>2. ASSUME NEW n \in Node, ResumeSession(n) PROVE KeygenTyped'
  BY <1>2, UnlistTypes, StartTypes, SendTypes, WaitingTypes, CloseTypes, ElectionTypes
     DEF ResumeSession
<1>3. ASSUME NEW s \in Node, NEW d \in Node, DeliverMessage(s, d) PROVE KeygenTyped'
  BY <1>3, InitTypes, DirectTypes, RoundMessageTypes, ElectionTypes
     DEF DeliverMessage, HandleSessionMessage
<1>4. ASSUME NEW n \in Node, RequestElection(n) /\ UNCHANGED sessionVars PROVE KeygenTyped'
  BY <1>4, ElectionTypes
<1> QED
  BY <1>1, <1>2, <1>3, <1>4, StartTypes, RoundTypes DEF KeygenNext

(* The state of the sessions is well typed in every reachable state,       *)
(* however late messages and timers are and however often a session is     *)
(* asked for (keygenProtocol.ts:60-272).                                   *)
THEOREM KeygenTypeCorrect == KeygenSpec => []KeygenTypeOK
<1> QED
  BY KeygenTypedInit, KeygenTypedStep, KeygenTypedOK, PTL DEF KeygenSpec
-------------------------------------------------------------------------------
(***************************************************************************)
(* Sessions of KeygenSession that are asked for one after the other.  For  *)
(* any number of validators, however late messages and timers are: their   *)
(* rounds are in step, and the first session concludes with its own key.   *)
(***************************************************************************)

(***************************************************************************)
(* What a session has under way on a link: the invitation is its stage 0,  *)
(* a round message the stage of its round.                                 *)
(***************************************************************************)
Stage(m) ==
    IF m.type = "keygenRoundHandler" THEN m.round ELSE IF m.type = "keygenInit" THEN 0 ELSE 6
Stages(q) == {Stage(q[i]) : i \in DOMAIN q} \cap 0..5
WithoutStage(S, m) == S \ {Stage(m)}
WithStage(S, m) == S \cup ({Stage(m)} \cap 0..5)
Single(q) == \A a, b \in DOMAIN q : a # b /\ Stage(q[a]) = Stage(q[b]) => Stage(q[a]) = 6

(* Every message has a stage. *)
LEMMA StageType == \A m \in Message : Stage(m) \in 0..6
BY DEF Message, ElectionMessage, SessionMessage, RoundMessage, DirectMessage, Stage

(* What is taken from a link is not on it any more. *)
LEMMA StagesTail ==
    ASSUME NEW q \in Seq(Message), q # <<>>, Single(q)
    PROVE  /\ Single(Tail(q))
           /\ Stages(Tail(q)) = Stages(q) \ {Stage(Head(q))}
           /\ Stage(Head(q)) # 6 => Stage(Head(q)) \in Stages(q)
<1>1. /\ Tail(q) \in Seq(Message)
      /\ Len(Tail(q)) = Len(q) - 1
      /\ \A i \in 1..Len(Tail(q)) : Tail(q)[i] = q[i + 1]
  BY HeadTailProperties
<1>2. /\ DOMAIN q = 1..Len(q) /\ Len(q) \in Nat \ {0} /\ Head(q) = q[1]
      /\ DOMAIN Tail(q) = 1..Len(Tail(q))
  BY <1>1, EmptySeq, LenProperties
<1>3. \A i \in DOMAIN q : Stage(q[i]) \in 0..6
  BY StageType, ElementOfSeq, <1>2
<1>4. \A i \in DOMAIN Tail(q) : i + 1 \in DOMAIN q /\ i + 1 # 1 /\ Tail(q)[i] = q[i + 1]
  BY <1>1, <1>2
<1>5. \A i \in DOMAIN q : i # 1 => i - 1 \in DOMAIN Tail(q) /\ Tail(q)[i - 1] = q[i]
  BY <1>1, <1>2
<1>6. 1 \in DOMAIN q
  BY <1>2
<1>7. Single(Tail(q))
  BY <1>4, <1>2 DEF Single
<1>8. Stages(Tail(q)) \subseteq Stages(q) \ {Stage(Head(q))}
  <2> SUFFICES ASSUME NEW i \in DOMAIN Tail(q), Stage(Tail(q)[i]) \in 0..5
               PROVE  Stage(Tail(q)[i]) \in Stages(q) \ {Stage(Head(q))}
    BY DEF Stages
  <2>1. i + 1 \in DOMAIN q /\ i + 1 # 1 /\ Tail(q)[i] = q[i + 1]
    BY <1>4
  <2>2. Stage(q[i + 1]) # Stage(q[1])
    BY <1>6, <2>1 DEF Single
  <2> QED
    BY <1>2, <2>1, <2>2 DEF Stages
<1>9. Stages(q) \ {Stage(Head(q))} \subseteq Stages(Tail(q))
  <2> SUFFICES ASSUME NEW i \in DOMAIN q, Stage(q[i]) \in 0..5, Stage(q[i]) # Stage(q[1])
               PROVE  Stage(q[i]) \in Stages(Tail(q))
    BY <1>2 DEF Stages
  <2>1. i # 1
    OBVIOUS
  <2> QED
    BY <1>5, <2>1 DEF Stages
<1>10. Stage(Head(q)) # 6 => Stage(Head(q)) \in Stages(q)
  BY <1>2, <1>3, <1>6 DEF Stages
<1> QED
  BY <1>7, <1>8, <1>9, <1>10

(* What is sent on a link is on it, once if it was not there before. *)
LEMMA StagesAppend ==
    ASSUME NEW q \in Seq(Message), NEW m \in Message, Single(q), Stage(m) \notin Stages(q)
    PROVE  /\ Single(Append(q, m))
           /\ Stages(Append(q, m)) = WithStage(Stages(q), m)
<1> DEFINE p == Append(q, m)
<1>1. /\ DOMAIN q = 1..Len(q) /\ DOMAIN p = 1..(Len(q) + 1) /\ Len(q) \in Nat
      /\ p[Len(q) + 1] = m
      /\ \A i \in 1..Len(q) : p[i] = q[i]
  BY AppendProperties, LenProperties
<1>2. \A i \in DOMAIN q : Stage(q[i]) \in 0..6
  BY StageType, ElementOfSeq, <1>1
<1>3. Stage(m) \in 0..6
  BY StageType
<1> HIDE DEF p
<1>4. \A i \in DOMAIN p : i \in DOMAIN q \/ i = Len(q) + 1
  BY <1>1
<1>5. Single(p)
  <2> SUFFICES ASSUME NEW a \in DOMAIN p, NEW b \in DOMAIN p, a # b, Stage(p[a]) = Stage(p[b])
               PROVE  Stage(p[a]) = 6
    BY DEF Single
  <2>1. CASE a \in DOMAIN q /\ b \in DOMAIN q
    BY <1>1, <2>1 DEF Single
  <2>2. \A i \in DOMAIN q : Stage(q[i]) = Stage(m) => Stage(m) = 6
    BY <1>2, <1>3 DEF Stages
  <2> QED
    BY <1>1, <1>4, <2>1, <2>2
<1>6. Stages(p) \subseteq Stages(q) \cup ({Stage(m)} \cap 0..5)
  <2> SUFFICES ASSUME NEW i \in DOMAIN p, Stage(p[i]) \in 0..5
               PROVE  Stage(p[i]) \in Stages(q) \/ Stage(p[i]) = Stage(m)
    BY DEF Stages
  <2>1. CASE i \in DOMAIN q
    BY <1>1, <2>1 DEF Stages
  <2> QED
    BY <1>1, <1>4, <2>1
<1>7. Stages(q) \subseteq Stages(p)
  BY <1>1 DEF Stages
<1>8. {Stage(m)} \cap 0..5 \subseteq Stages(p)
  <2>1. Len(q) + 1 \in DOMAIN p
    BY <1>1
  <2> QED
    BY <1>1, <2>1 DEF Stages
<1> QED
  BY <1>5, <1>6, <1>7, <1>8 DEF p, WithStage

SingleOn(ls) == \A s, d \in Node : Single(ls[s][d])

(* A packet is taken. *)
LEMMA StagesTaken ==
    ASSUME NEW ls \in LinksOf(Message), SingleOn(ls), NEW s \in Node, NEW d \in Node,
           ls[s][d] # <<>>, NEW ms, ms = Taken(ls, s, d)
    PROVE  /\ ms \in LinksOf(Message) /\ SingleOn(ms)
           /\ \A a, b \in Node :
                Stages(ms[a][b]) = IF a = s /\ b = d THEN WithoutStage(Stages(ls[a][b]), Head(ls[a][b]))
                                   ELSE Stages(ls[a][b])
           /\ Stage(Head(ls[s][d])) # 6 => Stage(Head(ls[s][d])) \in Stages(ls[s][d])
<1>1. ms[s][d] = Tail(ls[s][d])
  BY DEF Taken, LinksOf
<1>2. \A a, b \in Node : a # s \/ b # d => ms[a][b] = ls[a][b]
  BY DEF Taken, LinksOf
<1>3. ls[s][d] \in Seq(Message)
  BY DEF LinksOf
<1>4. /\ Single(Tail(ls[s][d]))
      /\ Stages(Tail(ls[s][d])) = WithoutStage(Stages(ls[s][d]), Head(ls[s][d]))
      /\ Stage(Head(ls[s][d])) # 6 => Stage(Head(ls[s][d])) \in Stages(ls[s][d])
  BY <1>3, StagesTail DEF SingleOn, WithoutStage
<1>5. SingleOn(ms)
  BY <1>1, <1>2, <1>4 DEF SingleOn
<1>6. ms \in LinksOf(Message)
  BY TakenType
<1> QED
  BY <1>1, <1>2, <1>4, <1>5, <1>6

(* A message is sent from s to those of the nodes in To. *)
Sent(ls, s, To, m) ==
    [ls EXCEPT ![s] = [d \in Node |-> IF d \in To THEN Append(ls[s][d], m) ELSE ls[s][d]]]

(* What is sent to some nodes is on their links, once if it was not there before. *)
LEMMA StagesSent ==
    ASSUME NEW ls \in LinksOf(Message), SingleOn(ls), NEW s \in Node, NEW To, To \subseteq Node,
           NEW m \in Message, \A d \in To : Stage(m) \notin Stages(ls[s][d]),
           NEW ms, ms = Sent(ls, s, To, m)
    PROVE  /\ ms \in LinksOf(Message) /\ SingleOn(ms)
           /\ \A a, b \in Node :
                Stages(ms[a][b]) = IF a = s /\ b \in To THEN WithStage(Stages(ls[a][b]), m)
                                   ELSE Stages(ls[a][b])
<1>1. \A d \in To : ms[s][d] = Append(ls[s][d], m)
  BY DEF LinksOf, Sent
<1>2. \A a, b \in Node : a # s \/ b \notin To => ms[a][b] = ls[a][b]
  BY DEF LinksOf, Sent
<1>3. ASSUME NEW d \in To
      PROVE  /\ Single(Append(ls[s][d], m)) /\ Append(ls[s][d], m) \in Seq(Message)
             /\ Stages(Append(ls[s][d], m)) = WithStage(Stages(ls[s][d]), m)
  <2>1. ls[s][d] \in Seq(Message) /\ Single(ls[s][d]) /\ Stage(m) \notin Stages(ls[s][d])
    BY DEF LinksOf, SingleOn
  <2>2. Append(ls[s][d], m) \in Seq(Message)
    BY <2>1
  <2> QED
    BY <2>1, <2>2, StagesAppend
<1>4. SingleOn(ms)
  <2>1. ASSUME NEW a \in Node, NEW b \in Node PROVE Single(ms[a][b])
    <3>1. CASE a = s /\ b \in To
      BY <1>1, <1>3, <3>1
    <3>2. CASE a # s \/ b \notin To
      BY <1>2, <3>2 DEF SingleOn
    <3> QED
      BY <3>1, <3>2
  <2> QED
    BY <2>1 DEF SingleOn
<1>5. ms \in LinksOf(Message)
  <2>1. [d \in Node |-> IF d \in To THEN Append(ls[s][d], m) ELSE ls[s][d]] \in [Node -> Seq(Message)]
    BY <1>3 DEF LinksOf
  <2> QED
    BY <2>1 DEF LinksOf, Sent
<1> QED
  BY <1>1, <1>2, <1>3, <1>4, <1>5

(* A broadcast sends to everyone, a direct message to at most one. *)
LEMMA BroadcastIsSent ==
    ASSUME NEW ls \in LinksOf(Message), NEW s \in Node, NEW m \in Message
    PROVE  Broadcast(ls, s, <<m>>) = Sent(ls, s, Node, m)
<1>1. \A d \in Node : ls[s][d] \o <<m>> = Append(ls[s][d], m)
  <2> SUFFICES ASSUME NEW d \in Node PROVE ls[s][d] \o <<m>> = Append(ls[s][d], m)
    OBVIOUS
  <2>1. ls[s][d] \in Seq(Message)
    BY DEF LinksOf
  <2> QED
    BY <2>1, AppendIsConcat
<1>2. [d \in Node |-> ls[s][d] \o <<m>>]
        = [d \in Node |-> IF d \in Node THEN Append(ls[s][d], m) ELSE ls[s][d]]
  BY <1>1
<1> QED
  BY <1>2 DEF Broadcast, Sent

(* A direct message is sent to its one receiver, if that is another node. *)
LEMMA DirectIsSent ==
    ASSUME NEW ls \in LinksOf(Message), NEW s \in Node, NEW l \in Node, NEW m \in Message
    PROVE  SendDirect(ls, s, l, m) = Sent(ls, s, {l} \ {s}, m)
<1> DEFINE out == [d \in Node |-> IF d \in {l} \ {s} THEN Append(ls[s][d], m) ELSE ls[s][d]]
<1>1. CASE l = s
  <2>1. out = ls[s]
    BY <1>1 DEF LinksOf
  <2>2. [ls EXCEPT ![s] = ls[s]] = ls
    BY DEF LinksOf
  <2> QED
    BY <1>1, <2>1, <2>2 DEF SendDirect, Sent
<1>2. CASE l # s
  <2>1. [ls[s] EXCEPT ![l] = Append(ls[s][l], m)] = out
    BY <1>2 DEF LinksOf
  <2> QED
    BY <1>2, <2>1 DEF SendDirect, Sent
<1> QED
  BY <1>1, <1>2

(* What the session has under way from s to d, each of it once. *)
Under(s, d) == Stages(links[s][d])
OnceUnder == SingleOn(links)

(* What is under way. *)
LEMMA UnderType ==
    ASSUME NEW s \in Node, NEW d \in Node
    PROVE  Under(s, d) \subseteq 0..5
BY DEF Under, Stages

(* A step that has nothing to do with a session's stages. *)
QuietStep == OnceUnder' /\ \A a, b \in Node : Under(a, b)' = Under(a, b)

(* A packet that is taken is under way no more. *)
LEMMA UnderTaken ==
    ASSUME links \in LinksOf(Message), OnceUnder, NEW s \in Node, NEW d \in Node,
           links[s][d] # <<>>, links' = Taken(links, s, d)
    PROVE  /\ OnceUnder'
           /\ Under(s, d)' = Under(s, d) \ {Stage(Head(links[s][d]))}
           /\ \A a, b \in Node : a # s \/ b # d => Under(a, b)' = Under(a, b)
           /\ Stage(Head(links[s][d])) # 6 => Stage(Head(links[s][d])) \in Under(s, d)
           /\ Stage(Head(links[s][d])) = 6 => QuietStep
<1>1. /\ SingleOn(links')
      /\ \A a, b \in Node :
           Stages(links'[a][b]) = IF a = s /\ b = d THEN WithoutStage(Stages(links[a][b]), Head(links[a][b]))
                                  ELSE Stages(links[a][b])
      /\ Stage(Head(links[s][d])) # 6 => Stage(Head(links[s][d])) \in Stages(links[s][d])
  BY StagesTaken DEF OnceUnder
<1>2. Stages(links[s][d]) \subseteq 0..5
  BY DEF Stages
<1>3. ASSUME Stage(Head(links[s][d])) = 6
      PROVE  QuietStep
  <2>1. WithoutStage(Stages(links[s][d]), Head(links[s][d])) = Stages(links[s][d])
    BY <1>2, <1>3 DEF WithoutStage
  <2>2. \A a, b \in Node : Stages(links'[a][b]) = Stages(links[a][b])
    BY <1>1, <2>1
  <2> QED
    BY <1>1, <2>2 DEF OnceUnder, Under, QuietStep
<1>4. Stages(links'[s][d]) = Stages(links[s][d]) \ {Stage(Head(links[s][d]))}
  BY <1>1 DEF WithoutStage
<1>5. \A a, b \in Node : a # s \/ b # d => Stages(links'[a][b]) = Stages(links[a][b])
  BY <1>1
<1> QED
  BY <1>1, <1>3, <1>4, <1>5 DEF OnceUnder, Under

(* A message that is broadcast is under way to every node. *)
LEMMA UnderBroadcast ==
    ASSUME links \in LinksOf(Message), OnceUnder, NEW s \in Node, NEW m \in Message,
           \A d \in Node : Stage(m) \notin Under(s, d), links' = Broadcast(links, s, <<m>>)
    PROVE  /\ OnceUnder'
           /\ \A d \in Node : Under(s, d)' = WithStage(Under(s, d), m)
           /\ \A a, b \in Node : a # s => Under(a, b)' = Under(a, b)
           /\ Stage(m) = 6 => QuietStep
<1>1. links' = Sent(links, s, Node, m)
  BY BroadcastIsSent
<1>2. Node \subseteq Node /\ \A d \in Node : Stage(m) \notin Stages(links[s][d])
  BY DEF Under
<1>3. /\ SingleOn(links')
      /\ \A d \in Node : Stages(links'[s][d]) = WithStage(Stages(links[s][d]), m)
      /\ \A a, b \in Node : a # s => Stages(links'[a][b]) = Stages(links[a][b])
  <2>1. SingleOn(links')
    BY <1>1, <1>2, StagesSent DEF OnceUnder
  <2>2. \A a, b \in Node :
          Stages(links'[a][b]) = IF a = s /\ b \in Node THEN WithStage(Stages(links[a][b]), m)
                                 ELSE Stages(links[a][b])
    BY <1>1, <1>2, StagesSent DEF OnceUnder
  <2> QED
    BY <2>1, <2>2
<1>4. ASSUME Stage(m) = 6
      PROVE  QuietStep
  <2>1. \A d \in Node : WithStage(Stages(links[s][d]), m) = Stages(links[s][d])
    BY <1>4 DEF WithStage
  <2>2. \A a, b \in Node : Stages(links'[a][b]) = Stages(links[a][b])
    BY <1>3, <2>1
  <2> QED
    BY <1>3, <2>2 DEF OnceUnder, Under, QuietStep
<1> QED
  BY <1>3, <1>4 DEF OnceUnder, Under

-------------------------------------------------------------------------------
(* What elections and shares do to the links is no stage of a session. *)
QuietLinks(ls, ms) ==
    /\ ms \in LinksOf(Message) /\ SingleOn(ms)
    /\ \A a, b \in Node : Stages(ms[a][b]) = Stages(ls[a][b])

(* Taking what belongs to no stage changes nothing that is under way. *)
LEMMA QuietTaken ==
    ASSUME NEW ls \in LinksOf(Message), SingleOn(ls), NEW s \in Node, NEW d \in Node,
           ls[s][d] # <<>>, Stage(Head(ls[s][d])) = 6
    PROVE  QuietLinks(ls, Taken(ls, s, d))
<1>1. WithoutStage(Stages(ls[s][d]), Head(ls[s][d])) = Stages(ls[s][d])
  BY DEF Stages, WithoutStage
<1> DEFINE ms == Taken(ls, s, d)
<1>2. /\ ms \in LinksOf(Message) /\ SingleOn(ms)
      /\ \A a, b \in Node :
           Stages(ms[a][b]) = IF a = s /\ b = d THEN WithoutStage(Stages(ls[a][b]), Head(ls[a][b]))
                              ELSE Stages(ls[a][b])
  BY StagesTaken
<1> HIDE DEF ms
<1>3. \A a, b \in Node : Stages(ms[a][b]) = Stages(ls[a][b])
  BY <1>1, <1>2
<1> QED
  BY <1>2, <1>3 DEF QuietLinks, ms

(* Nor does sending it. *)
LEMMA QuietSent ==
    ASSUME NEW ls \in LinksOf(Message), SingleOn(ls), NEW s \in Node, NEW To, To \subseteq Node,
           NEW m \in Message, Stage(m) = 6
    PROVE  QuietLinks(ls, Sent(ls, s, To, m))
<1>1. \A a, b \in Node : /\ WithStage(Stages(ls[a][b]), m) = Stages(ls[a][b])
                         /\ Stage(m) \notin Stages(ls[a][b])
  BY DEF Stages, WithStage
<1>2. \A d \in To : Stage(m) \notin Stages(ls[s][d])
  BY <1>1
<1>3. /\ Sent(ls, s, To, m) \in LinksOf(Message) /\ SingleOn(Sent(ls, s, To, m))
      /\ \A a, b \in Node :
           Stages(Sent(ls, s, To, m)[a][b]) = IF a = s /\ b \in To THEN WithStage(Stages(ls[a][b]), m)
                                              ELSE Stages(ls[a][b])
  BY <1>2, StagesSent
<1> QED
  BY <1>1, <1>3 DEF QuietLinks

(* Two quiet changes are one. *)
LEMMA QuietTwice ==
    ASSUME NEW ls, NEW ms, NEW ns, QuietLinks(ls, ms), QuietLinks(ms, ns)
    PROVE  QuietLinks(ls, ns)
BY DEF QuietLinks

(* A step that changes the links quietly is quiet. *)
LEMMA QuietIsQuiet == QuietLinks(links, links') => QuietStep
BY DEF QuietLinks, QuietStep, OnceUnder, Under

(* The election under the session is quiet. *)
LEMMA ElectionIsQuiet ==
    ASSUME KeygenTyped, OnceUnder,
           \/ \E n \in Node : \/ RequestElection(n)
                              \/ OpenElectionWhen(n, currentRound[n] > 0)
                              \/ AnnounceLeader(n)
           \/ \E s, d \in Node : HandleElectionMessage(s, d)
    PROVE  QuietStep
<1>1. links \in LinksOf(Message) /\ SingleOn(links)
  BY DEF KeygenTyped, OnceUnder
<1>2. \A m \in ElectionMessage : m \in Message /\ Stage(m) = 6
  BY DEF Message, ElectionMessage, Stage
<1>3. \A l \in Node : /\ [type |-> "LeaderElection", leader |-> l] \in ElectionMessage
                      /\ [type |-> "SetNewLeader", leader |-> l] \in ElectionMessage
                      /\ [type |-> "LeaderVote", vote |-> l] \in ElectionMessage
  BY DEF ElectionMessage
<1>4. ASSUME NEW ls \in LinksOf(Message), SingleOn(ls), NEW n \in Node, NEW m \in ElectionMessage
      PROVE  /\ QuietLinks(ls, Broadcast(ls, n, <<m>>))
             /\ \A l \in Node : QuietLinks(ls, SendDirect(ls, n, l, m))
  <2>1. m \in Message /\ Stage(m) = 6
    BY <1>2
  <2>2. Broadcast(ls, n, <<m>>) = Sent(ls, n, Node, m)
    BY <1>4, <2>1, BroadcastIsSent
  <2>3. \A l \in Node : SendDirect(ls, n, l, m) = Sent(ls, n, {l} \ {n}, m)
    BY <1>4, <2>1, DirectIsSent
  <2>4. QuietLinks(ls, Sent(ls, n, Node, m))
    BY <1>4, <2>1, QuietSent
  <2>5. \A l \in Node : QuietLinks(ls, Sent(ls, n, {l} \ {n}, m))
    BY <1>4, <2>1, QuietSent
  <2> QED
    BY <2>2, <2>3, <2>4, <2>5
<1>5. ASSUME NEW n \in Node,
             RequestElection(n) \/ OpenElectionWhen(n, currentRound[n] > 0) \/ AnnounceLeader(n)
      PROVE  QuietLinks(links, links')
  <2>1. CASE RequestElection(n)
    BY <1>1, <2>1 DEF RequestElection, QuietLinks
  <2>2. CASE OpenElectionWhen(n, currentRound[n] > 0)
    <3>1. Head(electing[n]) \in Node
      BY <2>2 DEF OpenElectionWhen, KeygenTyped, ElectionStateOK
    <3>2. PICK m \in ElectionMessage : links' = Broadcast(links, n, <<m>>)
      BY <1>3, <2>2, <3>1 DEF OpenElectionWhen
    <3> QED
      BY <1>1, <1>4, <3>2
  <2>3. CASE AnnounceLeader(n)
    <3>1. leader[n] \in Node
      BY DEF KeygenTyped, ElectionStateOK
    <3>2. PICK m \in ElectionMessage : links' = Broadcast(links, n, <<m>>)
      BY <1>3, <2>3, <3>1 DEF AnnounceLeader
    <3> QED
      BY <1>1, <1>4, <3>2
  <2> QED
    BY <1>5, <2>1, <2>2, <2>3
<1>6. ASSUME NEW s \in Node, NEW d \in Node, HandleElectionMessage(s, d)
      PROVE  QuietLinks(links, links')
  <2> DEFINE m == Head(links[s][d])
             now == Taken(links, s, d)
  <2>1. links[s][d] # <<>> /\ m.type \in {"LeaderElection", "LeaderVote", "SetNewLeader"}
    BY <1>6 DEF HandleElectionMessage, HandleNewElectionRound, CastVote, FailVote,
                HandleNewElectionRoundVote, CountVote, DecideElection, HandleNewElectionRoundResult
  <2>2. m \in Message
    BY <1>1, <2>1, TakenType
  <2> HIDE DEF m
  <2>3. m \in ElectionMessage
    BY <2>1, <2>2, ElectionMessageTypes
  <2>4. QuietLinks(links, now) /\ now \in LinksOf(Message) /\ SingleOn(now)
    BY <1>1, <1>2, <2>1, <2>3, QuietTaken DEF m, QuietLinks
  <2> HIDE DEF now
  <2>5. CASE CastVote(s, d) \/ FailVote(s, d)
    <3>1. m.type = "LeaderElection" /\ m.leader \in Node
      BY <2>3, <2>5 DEF CastVote, FailVote, ElectionMessage, m
    <3>2. CASE CastVote(s, d)
      <4>1. PICK i \in VoteIndex(Len(Eligible(m.leader))) :
              /\ i < Len(Eligible(m.leader))
              /\ links' = SendDirect(now, d, m.leader, [type |-> "LeaderVote", vote |-> Eligible(m.leader)[i + 1]])
        BY <3>2 DEF CastVote, m, now
      <4>2. Eligible(m.leader)[i + 1] \in Node
        BY <3>1, <4>1, EligibleExcludesLeader DEF VoteIndex
      <4> QED
        BY <1>3, <1>4, <2>4, <3>1, <4>1, <4>2, QuietTwice
    <3>3. CASE FailVote(s, d)
      <4>1. links' = Broadcast(now, d, <<[type |-> "SetNewLeader", leader |-> m.leader]>>)
        BY <3>3 DEF FailVote, m, now
      <4> QED
        BY <1>3, <1>4, <2>4, <3>1, <4>1, QuietTwice
    <3> QED
      BY <2>5, <3>2, <3>3
  <2>6. CASE links' = now
    BY <2>4, <2>6
  <2> QED
    BY <1>6, <2>5, <2>6
       DEF HandleElectionMessage, HandleNewElectionRound, HandleNewElectionRoundVote, CountVote,
           DecideElection, HandleNewElectionRoundResult, now
<1> QED
  BY <1>5, <1>6, QuietIsQuiet

(* The direct messages with the shares are quiet. *)
LEMMA SharesAreQuiet ==
    ASSUME KeygenTyped, OnceUnder, NEW n \in Node, SendShares(n)
    PROVE  QuietStep
<1>1. PICK dm \in sharing[n] :
        links' = [links EXCEPT ![n] =
                    [d \in Node |-> IF d = n THEN links[n][d] ELSE Append(links[n][d], dm)]]
  BY DEF SendShares
<1>2. dm \in DirectMessage
  BY DEF KeygenTyped, SessionOK, TimersOK
<1>3. dm \in Message /\ Stage(dm) = 6
  BY <1>2 DEF Message, SessionMessage, DirectMessage, Stage
<1>4. [d \in Node |-> IF d = n THEN links[n][d] ELSE Append(links[n][d], dm)]
        = [d \in Node |-> IF d \in Node \ {n} THEN Append(links[n][d], dm) ELSE links[n][d]]
  OBVIOUS
<1>5. links' = Sent(links, n, Node \ {n}, dm)
  BY <1>1, <1>4 DEF Sent
<1>6. QuietLinks(links, links')
  <2>1. Node \ {n} \subseteq Node /\ links \in LinksOf(Message) /\ SingleOn(links)
    BY DEF KeygenTyped, OnceUnder
  <2> QED
    BY <1>3, <1>5, <2>1, QuietSent
<1> QED
  BY <1>6, QuietIsQuiet

-------------------------------------------------------------------------------
(***************************************************************************)
(* The state of a session that comes in its turn.                          *)
(***************************************************************************)
Kept(n, k, j) == messages[n][k][j].round    \* 0 if there is no entry
Joined(n) == starts > 0 /\ sessionNo[n] = starts

(* The round of the current session whose message n has published last. *)
HasSaid(n) ==
    IF currentRound[n] = FinalRound THEN resting[n] = 0 ELSE Kept(n, currentRound[n], n) # 0
Said(n) ==
    IF ~ Joined(n) THEN 0
    ELSE IF currentRound[n] = 0 THEN FinalRound
    ELSE IF HasSaid(n) THEN currentRound[n] ELSE currentRound[n] - 1

(* A node takes part in the session it was invited to last, or is invited. *)
InTurn(n) ==
    /\ sessionNo[n] = starts \/ sessionNo[n] = starts - 1
    /\ currentRound[n] > 0 => Joined(n)
    /\ currentRound[n] = 0 => resting[n] = 0 /\ proofs[n] = <<>>
    /\ ~ Joined(n) => waiting[n] = {} /\ ending[n] = <<>>
    /\ ending[n] # <<>> => Said(n) = FinalRound

(* Its own messages are those of the rounds it has been in. *)
InOrder(n) ==
    /\ resting[n] <= 1
    /\ currentRound[n] > 0 =>
         /\ Kept(n, 1, n) # 0 => Threshold >= 3
         /\ \A k \in 1..4 :
              /\ k < currentRound[n] => Kept(n, k, n) # 0
              /\ k > currentRound[n] => Kept(n, k, n) = 0
              /\ k = currentRound[n] /\ Kept(n, k, n) # 0 => resting[n] = 0

(* One invitation is on its way to every node that has not taken its own. *)
Invited(n) == starting[n] > 0 \/ \E s \in Node : 0 \in Under(s, n)
InvitedOnce(n) ==
    /\ sessionNo[n] = starts <=> ~ Invited(n)
    /\ starting[n] <= 1
    /\ \A s, t \in Node : 0 \in Under(s, n) =>
         /\ starting[n] = 0
         /\ 0 \in Under(t, n) => s = t

(* What is under way from j to n has been said, and is at one place.  What *)
(* waits for its shares at n is not under way, and waits once.             *)
Waits(w, j) == w.from = j
Heard(j, n) ==
    /\ Under(j, n) \subseteq 0..Said(j)
    /\ \A w \in waiting[n] : Waits(w, j) =>
         /\ w.message.round <= Said(j)
         /\ w.message.round \notin Under(j, n)
         /\ \A v \in waiting[n] : Waits(v, j) /\ v.message.round = w.message.round => v = w

(* What n keeps of another node j is something j has said, is at no other  *)
(* place, and there is some for every round before the current one.        *)
Recorded(j, n) ==
    currentRound[n] > 0 /\ j # n =>
        \A k \in 1..4 :
            /\ k < currentRound[n] => Kept(n, k, j) # 0
            /\ Kept(n, k, j) # 0 =>
                 /\ Kept(n, k, j) <= Said(j)
                 /\ Kept(n, k, j) \notin Under(j, n)
                 /\ \A w \in waiting[n] : Waits(w, j) => w.message.round # Kept(n, k, j)
                 /\ \A l \in 1..4 : l # k => Kept(n, l, j) # Kept(n, k, j)

(* The proofs of n are of different nodes, whose last message it has read. *)
Proven(n) ==
    {j \in Node : /\ Said(j) = FinalRound
                  /\ FinalRound \notin Under(j, n)
                  /\ \A w \in waiting[n] : Waits(w, j) => w.message.round # FinalRound}
Counted(n) == Len(proofs[n]) <= Cardinality(Proven(n))

TurnInv ==
    /\ OnceUnder
    /\ \A n \in Node : InTurn(n) /\ InOrder(n) /\ InvitedOnce(n) /\ Counted(n)
    /\ \A j, n \in Node : Heard(j, n) /\ Recorded(j, n)

(* An entry of a queue is of a round, and is there when its round is not 0. *)
LEMMA KeptType ==
    ASSUME KeygenTyped, NEW n \in Node, NEW k \in 1..4, NEW j \in Node
    PROVE  /\ Kept(n, k, j) \in 0..4
           /\ messages[n][k][j] # NoEntry <=> Kept(n, k, j) # 0
<1>1. messages[n][k][j] \in Entry
  BY EntriesType DEF KeygenTyped, SessionOK
<1> DEFINE e == messages[n][k][j]
<1> HIDE DEF e
<1>2. e \in Entry => e.round \in 0..4 /\ (e # NoEntry <=> e.round # 0)
  BY DEF Entry, NoEntry
<1> QED
  BY <1>1, <1>2 DEF Kept, e

(* The counters of a node, and what it keeps for later. *)
LEMMA CountTypes ==
    ASSUME KeygenTyped, NEW n \in Node
    PROVE  /\ currentRound[n] \in 0..5 /\ sessionNo[n] \in Nat /\ starting[n] \in Nat
           /\ resting[n] \in Nat /\ starts \in Nat
           /\ proofs[n] \in Seq(Key) /\ ending[n] \in Seq(Node)
           /\ \A w \in waiting[n] : w.from \in Node /\ w.message \in RoundMessage
                                    /\ w.message.round \in 1..5
BY KeygenAssumption
   DEF KeygenTyped, SessionOK, RoundsOK, TimersOK, CountsOK, Waiting, RoundMessage

(* A node has published the round it is in, or the one before. *)
LEMMA SaidType ==
    ASSUME KeygenTyped, NEW n \in Node
    PROVE  /\ Said(n) \in 0..5
           /\ currentRound[n] > 0 /\ Joined(n) => Said(n) \in {currentRound[n], currentRound[n] - 1}
BY CountTypes DEF Said, FinalRound

(* A step after which everyone has said what it had. *)
SameSaid == starts' = starts /\ \A n \in Node : Said(n)' = Said(n)

(* The validators are finitely many. *)
LEMMA NodesFinite == IsFiniteSet(Node) /\ Cardinality(Node) \in Nat
BY NodesCounted, FS_CardinalityType

(* So are those whose proof has arrived. *)
LEMMA ProvenType ==
    ASSUME NEW n \in Node
    PROVE  Proven(n) \subseteq Node /\ IsFiniteSet(Proven(n)) /\ Cardinality(Proven(n)) \in Nat
<1>1. Proven(n) \in SUBSET Node
  BY DEF Proven
<1> QED
  BY <1>1, NodesFinite, FS_Subset, FS_CardinalityType

(* A proof that counts goes on counting. *)
LEMMA CountedOn ==
    ASSUME KeygenTyped, NEW n \in Node, Counted(n), proofs'[n] = proofs[n],
           Proven(n) \subseteq Proven(n)'
    PROVE  Counted(n)'
<1>1. Proven(n)' \in SUBSET Node
  BY DEF Proven
<1>2. IsFiniteSet(Proven(n)') /\ Cardinality(Proven(n)') \in Nat
  BY <1>1, NodesFinite, FS_Subset, FS_CardinalityType
<1>3. Cardinality(Proven(n)) <= Cardinality(Proven(n)')
  <2>1. Proven(n) \in SUBSET (Proven(n)')
    OBVIOUS
  <2> QED
    BY <1>2, <2>1, FS_Subset
<1>4. Len(proofs[n]) \in Nat /\ Cardinality(Proven(n)) \in Nat
  BY CountTypes, ProvenType
<1> QED
  BY <1>2, <1>3, <1>4 DEF Counted

(* A proof that has arrived stays so when its sender says nothing new. *)
LEMMA ProvenOn ==
    ASSUME NEW n \in Node, waiting'[n] \subseteq waiting[n],
           \A j \in Node : /\ Said(j)' = Said(j)
                           /\ Under(j, n)' \subseteq Under(j, n)
    PROVE  Proven(n) \subseteq Proven(n)'
BY DEF Proven

(* No proofs are as many as there are senders. *)
LEMMA NoProofsCounted ==
    ASSUME NEW n \in Node, proofs'[n] = <<>>
    PROVE  Counted(n)'
<1>1. Proven(n)' \in SUBSET Node
  BY DEF Proven
<1>2. Cardinality(Proven(n)') \in Nat
  BY <1>1, NodesFinite, FS_Subset, FS_CardinalityType
<1>3. Len(<<>>) = 0
  OBVIOUS
<1> QED
  BY <1>2, <1>3 DEF Counted

(* A step that at most takes what is under way or waits. *)
Lessens ==
    /\ UNCHANGED <<starts, sessionNo, currentRound, starting, resting, messages, proofs, ending>>
    /\ OnceUnder'
    /\ \A a, b \in Node : /\ Under(a, b)' \subseteq Under(a, b)
                          /\ 0 \in Under(a, b) => 0 \in Under(a, b)'
    /\ \A n \in Node : waiting'[n] \subseteq waiting[n]

(* What a node has published depends on its own manager alone. *)
LEMMA SaidStays ==
    ASSUME NEW n \in Node, starts' = starts, sessionNo'[n] = sessionNo[n],
           currentRound'[n] = currentRound[n], resting'[n] = resting[n],
           \A k \in 1..4 : Kept(n, k, n)' = Kept(n, k, n), currentRound[n] \in 0..5
    PROVE  Said(n)' = Said(n)
BY DEF Said, HasSaid, Joined, FinalRound

(* A message stays accounted for at a reader that only takes. *)
LEMMA HeardStill ==
    ASSUME NEW j \in Node, NEW n \in Node, Heard(j, n), Said(j)' = Said(j),
           Under(j, n)' \subseteq Under(j, n), waiting'[n] \subseteq waiting[n]
    PROVE  Heard(j, n)'
BY DEF Heard

(* So does an entry at a reader whose queues are the same. *)
LEMMA RecordedStill ==
    ASSUME NEW j \in Node, NEW n \in Node, Recorded(j, n), Said(j)' = Said(j),
           Under(j, n)' \subseteq Under(j, n), waiting'[n] \subseteq waiting[n],
           currentRound'[n] = currentRound[n], messages'[n] = messages[n]
    PROVE  Recorded(j, n)'
BY DEF Recorded, Kept

(* The invariant survives a step that only takes: what is under way or kept for later gets less. *)
LEMMA TurnLessens ==
    ASSUME KeygenTyped, KeygenTyped', TurnInv, Lessens
    PROVE  TurnInv' /\ SameSaid
<1>1. \A n \in Node : Said(n)' = Said(n)
  BY SaidStays, CountTypes DEF Lessens, Kept
<1>2. ASSUME NEW n \in Node PROVE InTurn(n)' /\ InOrder(n)'
  <2>1. InTurn(n)'
    BY <1>1 DEF TurnInv, InTurn, Joined, Lessens
  <2>2. InOrder(n)'
    BY <1>1 DEF TurnInv, InOrder, Kept, Lessens
  <2> QED
    BY <2>1, <2>2
<1>3. ASSUME NEW n \in Node PROVE InvitedOnce(n)'
  <2>1. \A s \in Node : 0 \in Under(s, n)' <=> 0 \in Under(s, n)
    BY DEF Lessens
  <2> QED
    BY <2>1 DEF TurnInv, InvitedOnce, Invited, Lessens
<1>4. ASSUME NEW n \in Node PROVE Counted(n)'
  BY <1>1, CountedOn, ProvenOn DEF TurnInv, Lessens
<1>5. ASSUME NEW j \in Node, NEW n \in Node PROVE Heard(j, n)' /\ Recorded(j, n)'
  BY <1>1, HeardStill, RecordedStill DEF TurnInv, Lessens
<1> QED
  BY <1>1, <1>2, <1>3, <1>4, <1>5 DEF TurnInv, SameSaid, Lessens

-------------------------------------------------------------------------------
(* The steps that take a message which changes nothing of the session, and *)
(* those that have nothing to do with it.                                  *)
LEMMA ReadStages ==
    ASSUME KeygenTyped, TurnInv, NEW s \in Node, NEW d \in Node, NEW type, Incoming(s, d, type),
           links' = Taken(links, s, d)
    PROVE  /\ OnceUnder'
           /\ \A a, b \in Node : a # s \/ b # d => Under(a, b)' = Under(a, b)
           /\ type = "keygenInit" => 0 \in Under(s, d) /\ Under(s, d)' = Under(s, d) \ {0}
           /\ type = "keygenRoundHandler" =>
                /\ Head(links[s][d]) \in RoundMessage
                /\ Head(links[s][d]).round \in 1..5
                /\ Head(links[s][d]).round \in Under(s, d)
                /\ Under(s, d)' = Under(s, d) \ {Head(links[s][d]).round}
           /\ type = "keygenDirectMessageHandler" => QuietStep
<1> DEFINE m == Head(links[s][d])
<1>1. links \in LinksOf(Message) /\ OnceUnder /\ links[s][d] # <<>> /\ m.type = type
  BY DEF KeygenTyped, TurnInv, Incoming
<1>2. /\ OnceUnder'
      /\ Under(s, d)' = Under(s, d) \ {Stage(m)}
      /\ \A a, b \in Node : a # s \/ b # d => Under(a, b)' = Under(a, b)
      /\ Stage(m) # 6 => Stage(m) \in Under(s, d)
      /\ Stage(m) = 6 => QuietStep
  BY <1>1, UnderTaken
<1>3. type = "keygenRoundHandler" => m \in RoundMessage
  BY <1>1, SessionMessageTypes
<1> HIDE DEF m
<1>4. type = "keygenRoundHandler" => m.round \in 1..5
  BY <1>3 DEF RoundMessage
<1>5. /\ type = "keygenInit" => Stage(m) = 0
      /\ type = "keygenRoundHandler" => Stage(m) = m.round
      /\ type = "keygenDirectMessageHandler" => Stage(m) = 6
  BY <1>1 DEF Stage
<1> QED
  BY <1>2, <1>3, <1>4, <1>5 DEF m

turnVars == <<starts, sessionNo, currentRound, starting, resting, messages, waiting, proofs, ending>>

(* A quiet step takes nothing. *)
LEMMA QuietLessens ==
    ASSUME UNCHANGED turnVars, QuietStep
    PROVE  Lessens
BY DEF turnVars, QuietStep, Lessens

(* The steps that are of no round: they only take. *)
LEMMA OtherStepsLessen ==
    ASSUME KeygenTyped, TurnInv,
           \/ UNCHANGED keygenVars
           \/ /\ UNCHANGED sessionVars
              /\ \/ \E n \in Node : \/ RequestElection(n)
                                    \/ OpenElectionWhen(n, currentRound[n] > 0)
                                    \/ AnnounceLeader(n)
                 \/ \E s, d \in Node : HandleElectionMessage(s, d)
           \/ \E n \in Node : SendShares(n) \/ DropWaiting(n) \/ UpdatePeerReplica(n)
           \/ \E s, d \in Node : HandleDirectMessage(s, d) \/ DropRoundMessage(s, d)
    PROVE  Lessens
<1>1. CASE UNCHANGED keygenVars \/ \E n \in Node : UpdatePeerReplica(n)
  <2>1. QuietStep
    BY <1>1 DEF QuietStep, TurnInv, OnceUnder, Under, UpdatePeerReplica, keygenVars, electionVars
  <2> QED
    BY <1>1, <2>1, QuietLessens DEF UpdatePeerReplica, keygenVars, sessionVars, turnVars
<1>2. CASE /\ UNCHANGED sessionVars
           /\ \/ \E n \in Node : \/ RequestElection(n)
                                 \/ OpenElectionWhen(n, currentRound[n] > 0)
                                 \/ AnnounceLeader(n)
              \/ \E s, d \in Node : HandleElectionMessage(s, d)
  <2>1. QuietStep
    BY <1>2, ElectionIsQuiet DEF TurnInv
  <2> QED
    BY <1>2, <2>1, QuietLessens DEF sessionVars, turnVars
<1>3. ASSUME NEW n \in Node, SendShares(n) PROVE Lessens
  <2>1. QuietStep
    BY <1>3, SharesAreQuiet DEF TurnInv
  <2> QED
    BY <1>3, <2>1, QuietLessens DEF SendShares, untouchedByRound, turnVars
<1>4. ASSUME NEW n \in Node, DropWaiting(n) PROVE Lessens
  <2>1. PICK w \in waiting[n] : waiting' = [waiting EXCEPT ![n] = waiting[n] \ {w}]
    BY <1>4 DEF DropWaiting
  <2>2. \A k \in Node : waiting'[k] \subseteq waiting[k]
    BY <2>1 DEF KeygenTyped, SessionOK, TimersOK
  <2>3. UNCHANGED <<starts, sessionNo, currentRound, starting, resting, messages, proofs, ending, links>>
    BY <1>4 DEF DropWaiting, untouchedByMessage
  <2> QED
    BY <2>2, <2>3 DEF Lessens, OnceUnder, Under, TurnInv
<1>5. ASSUME NEW s \in Node, NEW d \in Node, HandleDirectMessage(s, d) PROVE Lessens
  <2>1. QuietStep
    BY <1>5, ReadStages DEF HandleDirectMessage
  <2> QED
    BY <1>5, <2>1, QuietLessens DEF HandleDirectMessage, untouchedByMessage, turnVars
<1>6. ASSUME NEW s \in Node, NEW d \in Node, DropRoundMessage(s, d) PROVE Lessens
  <2> DEFINE e == Head(links[s][d]).round
  <2>1. /\ OnceUnder'
        /\ \A a, b \in Node : a # s \/ b # d => Under(a, b)' = Under(a, b)
        /\ e \in 1..5 /\ Under(s, d)' = Under(s, d) \ {e}
    BY <1>6, ReadStages DEF DropRoundMessage
  <2> HIDE DEF e
  <2>2. \A a, b \in Node : /\ Under(a, b)' \subseteq Under(a, b)
                           /\ 0 \in Under(a, b) => 0 \in Under(a, b)'
    BY <2>1
  <2>3. UNCHANGED <<starts, sessionNo, currentRound, starting, resting, messages, proofs, ending, waiting>>
    BY <1>6 DEF DropRoundMessage, untouchedByMessage
  <2> QED
    BY <2>1, <2>2, <2>3 DEF Lessens
<1> QED
  BY <1>1, <1>2, <1>3, <1>4, <1>5, <1>6

(* A round message waits for the shares: it moves from the link to waiting. *)
LEMMA DeferTurns ==
    ASSUME KeygenTyped, TurnInv, NEW s \in Node, NEW d \in Node, DeferRoundMessage(s, d)
    PROVE  TurnInv' /\ SameSaid
<1> DEFINE m == Head(links[s][d])
           v == [from |-> s, message |-> m]
<1>1. /\ OnceUnder'
      /\ \A a, b \in Node : a # s \/ b # d => Under(a, b)' = Under(a, b)
      /\ m \in RoundMessage /\ m.round \in 1..5
      /\ m.round \in Under(s, d) /\ Under(s, d)' = Under(s, d) \ {m.round}
  BY ReadStages DEF DeferRoundMessage
<1>2. UNCHANGED <<starts, sessionNo, currentRound, starting, resting, messages, proofs, ending>>
  BY DEF DeferRoundMessage, untouchedByMessage
<1>3. currentRound[d] > 0
  BY DEF DeferRoundMessage, AwaitsShares, IsDirectMessageRound
<1>4. waiting'[d] = waiting[d] \cup {v} /\ \A n \in Node : n # d => waiting'[n] = waiting[n]
  BY DEF DeferRoundMessage, KeygenTyped, SessionOK, TimersOK
<1>5. v.from = s /\ v.message = m
  OBVIOUS
<1> HIDE DEF m, v
<1>6. \A n \in Node : Said(n)' = Said(n)
  BY <1>2, SaidStays, CountTypes DEF Kept
<1>7. \A a, b \in Node : /\ Under(a, b)' \subseteq Under(a, b)
                         /\ 0 \in Under(a, b)' <=> 0 \in Under(a, b)
  BY <1>1
<1>8. ASSUME NEW n \in Node PROVE InTurn(n)' /\ InOrder(n)'
  <2>1. InOrder(n)'
    BY <1>2, <1>6 DEF TurnInv, InOrder, Kept
  <2>2. InTurn(n)'
    BY <1>2, <1>3, <1>4, <1>6 DEF TurnInv, InTurn, Joined
  <2> QED
    BY <2>1, <2>2
<1>9. ASSUME NEW n \in Node PROVE InvitedOnce(n)'
  BY <1>2, <1>7 DEF TurnInv, InvitedOnce, Invited
<1>10. ASSUME NEW j \in Node, NEW n \in Node, Waits(v, j), n = d
       PROVE  /\ m.round \in Under(j, n) /\ m.round \notin Under(j, n)'
              /\ \A w \in waiting[n] : Waits(w, j) => w.message.round # m.round
  <2>1. j = s
    BY <1>5, <1>10 DEF Waits
  <2> QED
    BY <1>1, <1>10, <2>1 DEF TurnInv, Heard
<1>11. ASSUME NEW n \in Node PROVE Counted(n)'
  <2>1. Proven(n) \subseteq Proven(n)'
    <3> SUFFICES ASSUME NEW j \in Proven(n) PROVE j \in Proven(n)'
      OBVIOUS
    <3>1. j \in Node /\ FinalRound \notin Under(j, n)
      BY DEF Proven
    <3>2. \A w \in waiting'[n] : Waits(w, j) => w.message.round # FinalRound
      BY <1>4, <1>5, <1>10, <3>1 DEF Proven
    <3> QED
      BY <1>6, <1>7, <3>1, <3>2 DEF Proven
  <2> QED
    BY <1>2, <2>1, CountedOn DEF TurnInv
<1>12. ASSUME NEW j \in Node, NEW n \in Node PROVE Heard(j, n)'
  <2>1. Heard(j, n)
    BY DEF TurnInv
  <2>2. Under(j, n)' \subseteq 0..Said(j)'
    BY <1>6, <1>7, <2>1 DEF Heard
  <2>3. ASSUME NEW w \in waiting'[n], Waits(w, j)
        PROVE  /\ w.message.round <= Said(j)'
               /\ w.message.round \notin Under(j, n)'
               /\ \A u \in waiting'[n] : Waits(u, j) /\ u.message.round = w.message.round => u = w
    <3>1. CASE w \in waiting[n]
      BY <1>4, <1>5, <1>6, <1>7, <1>10, <2>1, <2>3, <3>1 DEF Heard
    <3>2. CASE w = v /\ n = d
      <4>1. m.round \in 0..Said(j)
        BY <1>10, <2>1, <2>3, <3>2 DEF Heard
      <4>2. Said(j) \in Nat
        BY SaidType
      <4> QED
        BY <1>4, <1>5, <1>6, <1>10, <2>3, <3>2, <4>1, <4>2
    <3> QED
      BY <1>4, <2>3, <3>1, <3>2
  <2> QED
    BY <2>2, <2>3 DEF Heard
<1>13. ASSUME NEW j \in Node, NEW n \in Node PROVE Recorded(j, n)'
  <2>1. Recorded(j, n)
    BY DEF TurnInv
  <2> SUFFICES ASSUME currentRound[n] > 0, j # n, NEW k \in 1..4
               PROVE  /\ k < currentRound[n] => Kept(n, k, j) # 0
                      /\ Kept(n, k, j) # 0 =>
                           /\ Kept(n, k, j) <= Said(j)
                           /\ Kept(n, k, j) \notin Under(j, n)'
                           /\ \A w \in waiting'[n] : Waits(w, j) => w.message.round # Kept(n, k, j)
                           /\ \A l \in 1..4 : l # k => Kept(n, l, j) # Kept(n, k, j)
    BY <1>2, <1>6 DEF Recorded, Kept
  <2>2. Kept(n, k, j) # 0 => \A w \in waiting'[n] : Waits(w, j) => w.message.round # Kept(n, k, j)
    BY <1>4, <1>5, <1>10, <2>1 DEF Recorded
  <2> QED
    BY <1>7, <2>1, <2>2 DEF Recorded
<1> QED
  BY <1>1, <1>2, <1>6, <1>8, <1>9, <1>11, <1>12, <1>13 DEF TurnInv, SameSaid

(* An invitation comes. *)
LEMMA InitTurns ==
    ASSUME KeygenTyped, TurnInv, NEW s \in Node, NEW d \in Node, HandleInit(s, d)
    PROVE  TurnInv' /\ SameSaid
<1>1. /\ OnceUnder'
      /\ \A a, b \in Node : a # s \/ b # d => Under(a, b)' = Under(a, b)
      /\ 0 \in Under(s, d) /\ Under(s, d)' = Under(s, d) \ {0}
  BY ReadStages DEF HandleInit
<1>2. UNCHANGED <<starts, sessionNo, currentRound, resting, messages, waiting, proofs, ending>>
  BY DEF HandleInit
<1>3. starting'[d] = starting[d] + 1 /\ \A n \in Node : n # d => starting'[n] = starting[n]
  BY DEF HandleInit, KeygenTyped, SessionOK, RoundsOK
<1>4. \A n \in Node : Said(n)' = Said(n)
  BY <1>2, SaidStays, CountTypes DEF Kept
<1>5. \A a, b \in Node : Under(a, b)' \subseteq Under(a, b)
  BY <1>1
<1>6. ASSUME NEW n \in Node PROVE InTurn(n)' /\ InOrder(n)'
  <2>1. InOrder(n)'
    BY <1>2, <1>4 DEF TurnInv, InOrder, Kept
  <2>2. InTurn(n)'
    BY <1>2, <1>4 DEF TurnInv, InTurn, Joined
  <2> QED
    BY <2>1, <2>2
<1>7. ASSUME NEW n \in Node PROVE InvitedOnce(n)'
  <2>1. CASE n # d
    BY <1>1, <1>2, <1>3, <2>1 DEF TurnInv, InvitedOnce, Invited
  <2>2. CASE n = d
    <3>1. starting[d] = 0 /\ \A t \in Node : 0 \notin Under(t, d)'
      BY <1>1 DEF TurnInv, InvitedOnce
    <3>2. sessionNo[d] # starts
      BY <1>1 DEF TurnInv, InvitedOnce, Invited
    <3> QED
      BY <1>2, <1>3, <2>2, <3>1, <3>2 DEF InvitedOnce, Invited
  <2> QED
    BY <2>1, <2>2
<1>8. ASSUME NEW n \in Node PROVE Counted(n)'
  BY <1>2, <1>4, <1>5, CountedOn, ProvenOn DEF TurnInv
<1>9. ASSUME NEW j \in Node, NEW n \in Node PROVE Heard(j, n)' /\ Recorded(j, n)'
  BY <1>2, <1>4, <1>5, HeardStill, RecordedStill DEF TurnInv
<1> QED
  BY <1>1, <1>2, <1>4, <1>6, <1>7, <1>8, <1>9 DEF TurnInv, SameSaid

(* A node that was invited begins the session, with empty queues. *)
LEMMA NewSessionTurns ==
    ASSUME KeygenTyped, TurnInv, NEW n \in Node, StartNewSession(n)
    PROVE  TurnInv' /\ SameSaid
<1>1. UNCHANGED <<starts, links, waiting, proofs, ending>>
  BY DEF StartNewSession
<1>2. /\ starting[n] > 0 /\ currentRound[n] = 0
      /\ starting'[n] = starting[n] - 1 /\ sessionNo'[n] = sessionNo[n] + 1 /\ currentRound'[n] = 1
      /\ resting'[n] = resting[n] + 1 /\ messages'[n] = EmptyQueue
  BY DEF StartNewSession, KeygenTyped, SessionOK, RoundsOK
<1>3. \A k \in Node : k # n => /\ starting'[k] = starting[k] /\ sessionNo'[k] = sessionNo[k]
                               /\ currentRound'[k] = currentRound[k] /\ resting'[k] = resting[k]
                               /\ messages'[k] = messages[k]
  BY DEF StartNewSession, KeygenTyped, SessionOK, RoundsOK
<1>4. \A k \in 1..4, j \in Node : Kept(n, k, j)' = 0
  BY <1>2 DEF Kept, EmptyQueue, NoEntry
<1>5. /\ sessionNo[n] # starts /\ sessionNo[n] = starts - 1 /\ starting[n] = 1
      /\ \A s \in Node : 0 \notin Under(s, n)
  BY <1>2, CountTypes DEF TurnInv, InvitedOnce, Invited, InTurn
<1>6. sessionNo'[n] = starts /\ starts > 0 /\ ~ Joined(n) /\ Joined(n)'
  BY <1>1, <1>2, <1>5, CountTypes DEF Joined
<1>7. \A k \in Node : Said(k)' = Said(k)
  <2>1. ASSUME NEW k \in Node, k # n PROVE Said(k)' = Said(k)
    BY <1>1, <1>3, <2>1, SaidStays, CountTypes DEF Kept
  <2>2. Said(n) = 0
    BY <1>6 DEF Said
  <2>3. ~ HasSaid(n)'
    BY <1>2, <1>4 DEF HasSaid, FinalRound
  <2>4. Said(n)' = 0
    BY <1>2, <1>6, <2>3 DEF Said
  <2> QED
    BY <2>1, <2>2, <2>4
<1>8. \A a, b \in Node : Under(a, b)' = Under(a, b)
  BY <1>1 DEF Under
<1>9. ASSUME NEW k \in Node PROVE InTurn(k)' /\ InOrder(k)'
  <2>1. CASE k # n
    <3>1. InOrder(k)'
      BY <1>1, <1>3, <1>7, <2>1 DEF TurnInv, InOrder, Kept
    <3>2. InTurn(k)'
      BY <1>1, <1>3, <1>7, <2>1 DEF TurnInv, InTurn, Joined
    <3> QED
      BY <3>1, <3>2
  <2>2. CASE k = n
    <3>1. resting[n] = 0 /\ ending[n] = <<>>
      BY <1>2, <1>6 DEF TurnInv, InTurn
    <3>2. InOrder(n)'
      BY <1>2, <1>4, <3>1 DEF InOrder
    <3>3. InTurn(n)'
      BY <1>1, <1>2, <1>6, <3>1 DEF InTurn
    <3> QED
      BY <2>2, <3>2, <3>3
  <2> QED
    BY <2>1, <2>2
<1>10. ASSUME NEW k \in Node PROVE InvitedOnce(k)'
  <2>1. CASE k # n
    BY <1>1, <1>3, <1>8, <2>1 DEF TurnInv, InvitedOnce, Invited
  <2>2. CASE k = n
    <3>1. starting'[n] = 0 /\ \A s \in Node : 0 \notin Under(s, n)'
      BY <1>2, <1>5, <1>8
    <3> QED
      BY <1>1, <1>6, <2>2, <3>1 DEF InvitedOnce, Invited
  <2> QED
    BY <2>1, <2>2
<1>11. ASSUME NEW k \in Node PROVE Counted(k)'
  BY <1>1, <1>7, <1>8, CountedOn, ProvenOn DEF TurnInv
<1>12. ASSUME NEW j \in Node, NEW k \in Node PROVE Heard(j, k)' /\ Recorded(j, k)'
  <2>1. Heard(j, k)'
    BY <1>1, <1>7, <1>8, HeardStill DEF TurnInv
  <2>2. CASE k # n
    BY <1>1, <1>3, <1>7, <1>8, <2>1, <2>2, RecordedStill DEF TurnInv
  <2>3. CASE k = n
    BY <1>2, <1>4, <2>1, <2>3 DEF Recorded
  <2> QED
    BY <2>2, <2>3
<1> QED
  BY <1>1, <1>7, <1>9, <1>10, <1>11, <1>12 DEF TurnInv, SameSaid, OnceUnder

(* Nothing of a session waits or is on its way, and nobody is in one. *)
SessionOver ==
    /\ \A n \in Node : currentRound[n] = 0 /\ starting[n] = 0 /\ waiting[n] = {} /\ ending[n] = <<>>
    /\ \A s, d \in Node : Under(s, d) = {}

(* A session is asked for when that of before is over. *)
LEMMA StartTurns ==
    ASSUME KeygenTyped, TurnInv, SessionOver, NEW n \in Node, StartKeygen(n)
    PROVE  TurnInv' /\ UNCHANGED Published
<1>1. UNCHANGED <<sessionNo, currentRound, starting, resting, messages, waiting, proofs, ending>>
  BY DEF StartKeygen
<1>2. starts' = starts + 1 /\ starts \in Nat
  BY CountTypes DEF StartKeygen
<1>3. /\ OnceUnder'
      /\ \A d \in Node : Under(n, d)' = {0}
      /\ \A a, b \in Node : a # n => Under(a, b)' = {}
  <2> DEFINE m == [type |-> "keygenInit"]
  <2>1. m \in Message /\ Stage(m) = 0
    BY DEF Message, SessionMessage, Stage
  <2>2. links' = Broadcast(links, n, <<m>>)
    BY DEF StartKeygen
  <2> HIDE DEF m
  <2>3. /\ OnceUnder'
        /\ \A d \in Node : Under(n, d)' = WithStage(Under(n, d), m)
        /\ \A a, b \in Node : a # n => Under(a, b)' = Under(a, b)
    <3>1. \A d \in Node : Stage(m) \notin Under(n, d)
      BY DEF SessionOver
    <3>2. links \in LinksOf(Message) /\ OnceUnder
      BY DEF KeygenTyped, TurnInv
    <3> QED
      BY <2>1, <2>2, <3>1, <3>2, UnderBroadcast
  <2> QED
    BY <2>1, <2>3 DEF SessionOver, WithStage
<1>4. \A k \in Node : sessionNo'[k] = starts /\ ~ Joined(k)' /\ Said(k)' = 0
  <2>1. \A k \in Node : sessionNo[k] = starts
    BY DEF TurnInv, InvitedOnce, Invited, SessionOver
  <2> QED
    BY <1>1, <1>2, <2>1 DEF Joined, Said
<1>5. ASSUME NEW k \in Node PROVE InTurn(k)' /\ InOrder(k)'
  <2>1. currentRound[k] = 0 /\ waiting[k] = {} /\ ending[k] = <<>> /\ resting[k] = 0 /\ proofs[k] = <<>>
    BY DEF SessionOver, TurnInv, InTurn
  <2>2. InTurn(k)'
    BY <1>1, <1>2, <1>4, <2>1 DEF InTurn
  <2>3. InOrder(k)'
    BY <1>1, <2>1 DEF InOrder
  <2> QED
    BY <2>2, <2>3
<1>6. ASSUME NEW k \in Node PROVE InvitedOnce(k)'
  <2>1. starting'[k] = 0 /\ 0 \in Under(n, k)' /\ \A s \in Node : s # n => 0 \notin Under(s, k)'
    BY <1>1, <1>3 DEF SessionOver
  <2>2. sessionNo'[k] # starts'
    BY <1>2, <1>4
  <2> QED
    BY <2>1, <2>2 DEF InvitedOnce, Invited
<1>7. ASSUME NEW k \in Node PROVE Counted(k)'
  BY <1>1, NoProofsCounted DEF SessionOver, TurnInv, InTurn
<1>8. ASSUME NEW j \in Node, NEW k \in Node PROVE Heard(j, k)' /\ Recorded(j, k)'
  <2>1. currentRound'[k] = 0 /\ waiting'[k] = {}
    BY <1>1 DEF SessionOver
  <2>2. Under(j, k)' \subseteq {0}
    BY <1>3
  <2> QED
    BY <1>4, <2>1, <2>2 DEF Heard, Recorded
<1>9. UNCHANGED Published
  BY <1>1 DEF Published, PublishedInSession
<1> QED
  BY <1>3, <1>5, <1>6, <1>7, <1>8, <1>9 DEF TurnInv

(* The timer of a round ends and nothing is published. *)
LEMMA SilentTurns ==
    ASSUME KeygenTyped, TurnInv, NEW n \in Node, FailRound(n) \/ RefuseRound(n)
    PROVE  TurnInv' /\ SameSaid
<1>1. UNCHANGED <<starts, sessionNo, currentRound, starting, messages, links, waiting, proofs, ending>>
  BY DEF FailRound, RefuseRound, untouchedByRound
<1>2. resting[n] > 0 /\ resting' = [resting EXCEPT ![n] = resting[n] - 1]
  BY DEF FailRound, RefuseRound, Verifying
<1>3. resting[n] = 1 /\ resting'[n] = 0 /\ \A k \in Node : k # n => resting'[k] = resting[k]
  BY <1>2, CountTypes DEF TurnInv, InOrder, KeygenTyped, SessionOK, RoundsOK
<1>4. currentRound[n] \in 1..4
  <2>1. CASE FailRound(n)
    BY <2>1 DEF FailRound, Verifying
  <2>2. CASE RefuseRound(n) /\ currentRound[n] = 0
    BY <1>3, <2>2 DEF TurnInv, InTurn
  <2>3. CASE RefuseRound(n) /\ Threshold < 3 /\ currentRound[n] # 0
    <3>1. currentRound[n] \in 1..5 /\ Threshold \in Nat
      BY <2>3, CountTypes, NodesFinite DEF Threshold
    <3>2. Kept(n, 1, n) = 0
      BY <2>3, <3>1 DEF TurnInv, InOrder
    <3> QED
      BY <3>1, <3>2 DEF TurnInv, InOrder
  <2> QED
    BY <2>1, <2>2, <2>3 DEF RefuseRound
<1>5. Kept(n, currentRound[n], n) = 0
  BY <1>3, <1>4 DEF TurnInv, InOrder
<1>6. \A k \in Node : Said(k)' = Said(k)
  <2>1. ASSUME NEW k \in Node, k # n PROVE Said(k)' = Said(k)
    BY <1>1, <1>3, <2>1, SaidStays, CountTypes DEF Kept
  <2>2. Said(n)' = Said(n)
    BY <1>1, <1>4, <1>5 DEF Said, HasSaid, Joined, Kept, FinalRound
  <2> QED
    BY <2>1, <2>2
<1>7. \A a, b \in Node : Under(a, b)' = Under(a, b)
  BY <1>1 DEF Under
<1>8. ASSUME NEW k \in Node PROVE InTurn(k)' /\ InOrder(k)'
  <2>1. InTurn(k)'
    BY <1>1, <1>3, <1>4, <1>6 DEF TurnInv, InTurn, Joined
  <2>2. InOrder(k)'
    BY <1>1, <1>3, <1>4, <1>5 DEF TurnInv, InOrder, Kept
  <2> QED
    BY <2>1, <2>2
<1>9. ASSUME NEW k \in Node PROVE InvitedOnce(k)' /\ Counted(k)'
  <2>1. InvitedOnce(k)'
    BY <1>1, <1>7 DEF TurnInv, InvitedOnce, Invited
  <2> QED
    BY <1>1, <1>6, <1>7, <2>1, CountedOn, ProvenOn DEF TurnInv
<1>10. ASSUME NEW j \in Node, NEW k \in Node PROVE Heard(j, k)' /\ Recorded(j, k)'
  BY <1>1, <1>6, <1>7, HeardStill, RecordedStill DEF TurnInv
<1> QED
  BY <1>1, <1>6, <1>8, <1>9, <1>10 DEF TurnInv, SameSaid, OnceUnder

(* The timer of a round ends and the node publishes its message.           *)
RoundPublished(n, k) ==
    /\ Verifying(n, k) /\ Publish(n, k)
    /\ UNCHANGED <<starts, sessionNo, currentRound, starting, waiting, proofs, ending>>

(* A round that is published was the next one of its node, and only its node goes on. *)
LEMMA PublishTurns ==
    ASSUME KeygenTyped, TurnInv, NEW n \in Node, NEW k \in 1..5, RoundPublished(n, k)
    PROVE  /\ TurnInv' /\ starts' = starts
           /\ Joined(n) /\ Said(n) = k - 1 /\ Said(n)' = k
           /\ \A j \in Node : j # n => Said(j)' = Said(j)
<1>1. UNCHANGED <<starts, sessionNo, currentRound, starting, waiting, proofs, ending>>
  BY DEF RoundPublished
<1>2. /\ currentRound[n] = k /\ Threshold >= 3
      /\ resting[n] > 0 /\ resting' = [resting EXCEPT ![n] = resting[n] - 1]
  BY DEF RoundPublished, Verifying
<1>3. resting[n] = 1 /\ resting'[n] = 0 /\ \A j \in Node : j # n => resting'[j] = resting[j]
  BY <1>2, CountTypes DEF TurnInv, InOrder, KeygenTyped, SessionOK, RoundsOK
<1>4. Joined(n)
  BY <1>2 DEF TurnInv, InTurn
<1>5. /\ \A j \in Node, l \in 1..4, i \in Node :
           Kept(j, l, i)' = IF j = n /\ l = k /\ i = n THEN k ELSE Kept(j, l, i)
  <2>1. CASE k = 5
    BY <2>1 DEF RoundPublished, Publish, IsBroadcastRound, Kept
  <2>2. CASE k \in 1..4
    <3> DEFINE e == [round |-> k, session |-> sessionNo[n]]
    <3>1. messages' = [messages EXCEPT ![n] = [messages[n] EXCEPT ![k] = [messages[n][k] EXCEPT ![n] = e]]]
      BY <2>2 DEF RoundPublished, Publish, IsBroadcastRound
    <3>2. e.round = k
      OBVIOUS
    <3> HIDE DEF e
    <3>3. \A j \in Node, l \in 1..4, i \in Node :
            messages'[j][l][i] = IF j = n /\ l = k /\ i = n THEN e ELSE messages[j][l][i]
      BY <2>2, <3>1 DEF KeygenTyped, SessionOK, RoundsOK, Queue
    <3> QED
      BY <3>2, <3>3 DEF Kept
  <2> QED
    BY <2>1, <2>2
<1>6. k \in 1..4 => Kept(n, k, n) = 0
  BY <1>2, <1>3 DEF TurnInv, InOrder
<1>7. Said(n) = k - 1 /\ Said(n)' = k
  <2>1. ~ HasSaid(n)
    BY <1>2, <1>3, <1>6 DEF HasSaid, FinalRound
  <2>2. HasSaid(n)'
    BY <1>1, <1>2, <1>3, <1>5 DEF HasSaid, FinalRound
  <2>3. Joined(n)'
    BY <1>1, <1>4 DEF Joined
  <2> QED
    BY <1>1, <1>2, <1>4, <2>1, <2>2, <2>3 DEF Said
<1>8. \A j \in Node : j # n => Said(j)' = Said(j)
  BY <1>1, <1>3, <1>5, SaidStays, CountTypes
<1>9. /\ OnceUnder'
      /\ \A d \in Node : Under(n, d)' = Under(n, d) \cup {k}
      /\ \A a, b \in Node : a # n => Under(a, b)' = Under(a, b)
  <2> DEFINE m == [type |-> "keygenRoundHandler", round |-> k, session |-> sessionNo[n],
                   key |-> IF k = FinalRound THEN opened[n] ELSE NoKey]
  <2>1. m \in Message /\ Stage(m) = k
    <3>1. sessionNo[n] \in Nat /\ opened[n] \in Key
      BY DEF KeygenTyped, SessionOK, RoundsOK, DataOK
    <3> QED
      BY <3>1, KeyTypes DEF Message, SessionMessage, RoundMessage, Stage
  <2>2. links' = Broadcast(links, n, <<m>>)
    BY DEF RoundPublished, Publish
  <2> HIDE DEF m
  <2>3. \A d \in Node : Stage(m) \notin Under(n, d)
    <3>1. \A d \in Node : Under(n, d) \subseteq 0..(k - 1)
      BY <1>7 DEF TurnInv, Heard
    <3> QED
      BY <2>1, <3>1
  <2>4. links \in LinksOf(Message) /\ OnceUnder
    BY DEF KeygenTyped, TurnInv
  <2>5. /\ OnceUnder'
        /\ \A d \in Node : Under(n, d)' = WithStage(Under(n, d), m)
        /\ \A a, b \in Node : a # n => Under(a, b)' = Under(a, b)
    BY <2>1, <2>2, <2>3, <2>4, UnderBroadcast
  <2>6. \A d \in Node : WithStage(Under(n, d), m) = Under(n, d) \cup {k}
    <3>1. k \in 0..5
      OBVIOUS
    <3>2. {Stage(m)} \cap 0..5 = {k}
      BY <2>1, <3>1, Zenon
    <3> QED
      BY <3>2 DEF WithStage
  <2> QED
    BY <2>5, <2>6
<1>10. ASSUME NEW j \in Node PROVE InTurn(j)' /\ InOrder(j)'
  <2>1. InTurn(j)'
    <3>1. CASE j # n
      BY <1>1, <1>3, <1>8, <3>1 DEF TurnInv, InTurn, Joined
    <3>2. CASE j = n
      <4>1. ending[n] = <<>>
        BY <1>7 DEF TurnInv, InTurn, FinalRound
      <4> QED
        BY <1>1, <1>2, <1>4, <3>2, <4>1 DEF TurnInv, InTurn, Joined
    <3> QED
      BY <3>1, <3>2
  <2>2. InOrder(j)'
    <3>1. CASE j # n
      BY <1>1, <1>3, <1>5, <3>1 DEF TurnInv, InOrder
    <3>2. CASE j = n
      BY <1>1, <1>2, <1>3, <1>5, <3>2 DEF TurnInv, InOrder
    <3> QED
      BY <3>1, <3>2
  <2> QED
    BY <2>1, <2>2
<1>11. ASSUME NEW d \in Node PROVE InvitedOnce(d)'
  <2>1. \A a \in Node : 0 \in Under(a, d)' <=> 0 \in Under(a, d)
    BY <1>9
  <2> QED
    BY <1>1, <2>1 DEF TurnInv, InvitedOnce, Invited
<1>12. ASSUME NEW d \in Node PROVE Counted(d)'
  <2>1. Proven(d) \subseteq Proven(d)'
    <3> SUFFICES ASSUME NEW j \in Proven(d) PROVE j \in Proven(d)'
      OBVIOUS
    <3>1. j \in Node /\ Said(j) = FinalRound
      BY DEF Proven
    <3>2. j # n
      BY <1>7, <3>1 DEF FinalRound
    <3> QED
      BY <1>1, <1>8, <1>9, <3>1, <3>2 DEF Proven
  <2> QED
    BY <1>1, <2>1, CountedOn DEF TurnInv
<1>13. ASSUME NEW j \in Node, NEW d \in Node PROVE Heard(j, d)'
  <2>1. CASE j # n
    BY <1>1, <1>8, <1>9, <2>1, HeardStill DEF TurnInv
  <2>2. CASE j = n
    <3>1. Heard(n, d) /\ \A w \in waiting[d] : w.message.round \in 1..5
      BY CountTypes DEF TurnInv
    <3>2. Under(n, d)' \subseteq 0..Said(n)'
      BY <1>7, <1>9, <3>1 DEF Heard
    <3> QED
      BY <1>1, <1>7, <1>9, <2>2, <3>1, <3>2 DEF Heard
  <2> QED
    BY <2>1, <2>2
<1>14. ASSUME NEW j \in Node, NEW d \in Node PROVE Recorded(j, d)'
  <2> SUFFICES ASSUME currentRound[d] > 0, j # d PROVE Recorded(j, d)'
    BY <1>1 DEF Recorded
  <2>1. \A l \in 1..4 : Kept(d, l, j)' = Kept(d, l, j) /\ Kept(d, l, j) \in 0..4
    BY <1>5, KeptType
  <2>2. Recorded(j, d)
    BY DEF TurnInv
  <2>3. CASE j # n
    BY <1>1, <1>8, <1>9, <2>1, <2>2, <2>3 DEF Recorded
  <2>4. CASE j = n
    BY <1>1, <1>7, <1>9, <2>1, <2>2, <2>4 DEF Recorded
  <2> QED
    BY <2>3, <2>4
<1> QED
  BY <1>1, <1>4, <1>7, <1>8, <1>9, <1>10, <1>11, <1>12, <1>13, <1>14 DEF TurnInv

(* The session is reset. *)
LEMMA CloseTurns ==
    ASSUME KeygenTyped, TurnInv, NEW n \in Node, CloseSession(n)
    PROVE  TurnInv' /\ SameSaid
<1>1. UNCHANGED <<starts, sessionNo, starting, resting, messages, links, waiting>>
  BY DEF CloseSession
<1>2. /\ ending[n] # <<>> /\ currentRound'[n] = 0 /\ proofs'[n] = <<>>
      /\ \A k \in Node : k # n => /\ ending'[k] = ending[k] /\ currentRound'[k] = currentRound[k]
                                  /\ proofs'[k] = proofs[k]
  BY DEF CloseSession, KeygenTyped, SessionOK, RoundsOK, TimersOK
<1>3. Said(n) = 5 /\ Joined(n)
  BY <1>2 DEF TurnInv, InTurn, FinalRound
<1>4. resting[n] = 0
  <2>1. CASE currentRound[n] = 0
    BY <2>1 DEF TurnInv, InTurn
  <2>2. CASE currentRound[n] # 0
    BY <1>3, <2>2, CountTypes DEF Said, HasSaid, FinalRound
  <2> QED
    BY <2>1, <2>2
<1>5. \A k \in Node : Said(k)' = Said(k)
  <2>1. ASSUME NEW k \in Node, k # n PROVE Said(k)' = Said(k)
    BY <1>1, <1>2, <2>1, SaidStays, CountTypes DEF Kept
  <2>2. Said(n)' = 5
    BY <1>1, <1>2, <1>3 DEF Said, Joined, FinalRound
  <2> QED
    BY <1>3, <2>1, <2>2
<1>6. \A a, b \in Node : Under(a, b)' = Under(a, b)
  BY <1>1 DEF Under
<1>7. ASSUME NEW k \in Node PROVE InTurn(k)' /\ InOrder(k)'
  <2>1. CASE k # n
    <3>1. InTurn(k)'
      BY <1>1, <1>2, <1>5, <2>1 DEF TurnInv, InTurn, Joined
    <3>2. InOrder(k)'
      BY <1>1, <1>2, <2>1 DEF TurnInv, InOrder, Kept
    <3> QED
      BY <3>1, <3>2
  <2>2. CASE k = n
    <3>1. InTurn(n)'
      BY <1>1, <1>2, <1>3, <1>4, <1>5 DEF TurnInv, InTurn, Joined, FinalRound
    <3>2. InOrder(n)'
      BY <1>1, <1>2, <1>4 DEF InOrder
    <3> QED
      BY <2>2, <3>1, <3>2
  <2> QED
    BY <2>1, <2>2
<1>8. ASSUME NEW k \in Node PROVE InvitedOnce(k)' /\ Counted(k)'
  <2>1. InvitedOnce(k)'
    BY <1>1, <1>6 DEF TurnInv, InvitedOnce, Invited
  <2>2. Counted(k)'
    <3>1. CASE k = n
      BY <1>2, <3>1, NoProofsCounted
    <3>2. CASE k # n
      BY <1>1, <1>2, <1>5, <1>6, <3>2, CountedOn, ProvenOn DEF TurnInv
    <3> QED
      BY <3>1, <3>2
  <2> QED
    BY <2>1, <2>2
<1>9. ASSUME NEW j \in Node, NEW k \in Node PROVE Heard(j, k)' /\ Recorded(j, k)'
  <2>1. Heard(j, k)'
    BY <1>1, <1>5, <1>6, HeardStill DEF TurnInv
  <2>2. CASE k # n
    BY <1>1, <1>2, <1>5, <1>6, <2>1, <2>2, RecordedStill DEF TurnInv
  <2>3. CASE k = n
    BY <1>2, <2>1, <2>3 DEF Recorded
  <2> QED
    BY <2>2, <2>3
<1> QED
  BY <1>1, <1>5, <1>7, <1>8, <1>9 DEF TurnInv, SameSaid, OnceUnder

(***************************************************************************)
(* A round message of s is handled at n: it is not at n already, nor under *)
(* way or waiting any more.                                                *)
(***************************************************************************)
Arrives(n, s, m) ==
    /\ m.round <= Said(s)
    /\ m.round \notin Under(s, n)'
    /\ \A w \in waiting'[n] : Waits(w, s) => w.message.round # m.round
    /\ s # n => \A k \in 1..4 : Kept(n, k, s) # m.round
    /\ m.round = FinalRound => s \notin Proven(n)
OnlyTaken ==
    /\ OnceUnder'
    /\ \A a, b \in Node : /\ Under(a, b)' \subseteq Under(a, b)
                          /\ 0 \in Under(a, b) => 0 \in Under(a, b)'
    /\ \A a \in Node : waiting'[a] \subseteq waiting[a]

(* storeMessage changes the entry of the sender in the current queue, or nothing. *)
LEMMA StoredKept ==
    ASSUME KeygenTyped, NEW n \in Node, NEW s \in Node, NEW m \in RoundMessage,
           currentRound[n] \in 1..4, messages' = [messages EXCEPT ![n] = Stored(n, s, m)]
    PROVE  /\ \A k \in 1..4, j \in Node :
                Kept(n, k, j)' = IF CanAccept(n, s, m) /\ k = currentRound[n] /\ j = s THEN m.round
                                 ELSE Kept(n, k, j)
           /\ \A k \in Node : k # n => messages'[k] = messages[k]
<1>1. messages \in [Node -> Queue] /\ messages[n] \in Queue
  BY DEF KeygenTyped, SessionOK, RoundsOK
<1>2. messages'[n] = Stored(n, s, m) /\ \A k \in Node : k # n => messages'[k] = messages[k]
  BY <1>1
<1>3. CASE CanAccept(n, s, m)
  <2> DEFINE e == [round |-> m.round, session |-> m.session]
             r == currentRound[n]
  <2>1. Stored(n, s, m) = [messages[n] EXCEPT ![r] = [messages[n][r] EXCEPT ![s] = e]]
    BY <1>3 DEF Stored
  <2>2. e.round = m.round /\ r \in 1..4
    OBVIOUS
  <2> HIDE DEF e, r
  <2>3. \A k \in 1..4, j \in Node : messages'[n][k][j] = IF k = r /\ j = s THEN e ELSE messages[n][k][j]
    BY <1>1, <1>2, <2>1, <2>2 DEF Queue
  <2> QED
    BY <1>2, <1>3, <2>2, <2>3 DEF Kept, r
<1>4. CASE ~ CanAccept(n, s, m)
  BY <1>2, <1>4 DEF Stored, Kept
<1> QED
  BY <1>3, <1>4

(* sessionRoundProcessor on a message that is taken from a link or from those kept for later. *)
LEMMA ProcessorTurns ==
    ASSUME KeygenTyped, KeygenTyped', TurnInv, NEW n \in Node, NEW s \in Node,
           NEW m \in RoundMessage, m.round \in 1..5, currentRound[n] > 0,
           SessionRoundProcessor(n, s, m), UNCHANGED <<starts, sessionNo, starting>>,
           OnlyTaken, Arrives(n, s, m)
    PROVE  TurnInv' /\ SameSaid
<1>1. currentRound[n] \in 1..5 /\ Joined(n)
  BY CountTypes DEF TurnInv, InTurn
<1>2. ASSUME NEW k \in Node, k # n
      PROVE  /\ currentRound'[k] = currentRound[k] /\ resting'[k] = resting[k]
             /\ messages'[k] = messages[k] /\ proofs'[k] = proofs[k] /\ ending'[k] = ending[k]
  <2>1. /\ currentRound \in [Node -> 0..6] /\ DOMAIN resting = Node /\ DOMAIN messages = Node
        /\ DOMAIN proofs = Node /\ DOMAIN ending = Node
    BY DEF KeygenTyped, SessionOK, RoundsOK, TimersOK
  <2>2. CASE StoreBroadcast(n, s, m)
    BY <1>2, <2>1, <2>2 DEF StoreBroadcast
  <2>3. CASE FinalizeCurrentRound(n, s, m)
    BY <1>2, <2>1, <2>3 DEF FinalizeCurrentRound
  <2>4. CASE StorePeerProofs(n, m)
    BY <1>2, <2>1, <2>4 DEF StorePeerProofs
  <2> QED
    BY <2>2, <2>3, <2>4 DEF SessionRoundProcessor
(* The round the node is in afterwards, and what it keeps. *)
<1>3. /\ \A k \in 1..4, j \in Node :
           Kept(n, k, j)' = IF CanAccept(n, s, m) /\ k = currentRound[n] /\ j = s THEN m.round
                            ELSE Kept(n, k, j)
      /\ \/ currentRound'[n] = currentRound[n] /\ resting'[n] = resting[n]
         \/ /\ currentRound[n] \in 1..4 /\ currentRound'[n] = currentRound[n] + 1
            /\ resting'[n] = resting[n] + 1
            /\ \A j \in Node, k \in 1..4 : k = currentRound[n] => Kept(n, k, j)' # 0
  <2>1. CASE StoreBroadcast(n, s, m)
    BY <1>1, <2>1, StoredKept DEF StoreBroadcast, IsBroadcastRound
  <2>2. CASE FinalizeCurrentRound(n, s, m)
    <3>1. /\ currentRound[n] \in 1..4 /\ messages' = [messages EXCEPT ![n] = Stored(n, s, m)]
          /\ ReceivedAll(n, Stored(n, s, m))
      BY <2>2 DEF FinalizeCurrentRound, IsBroadcastRound
    <3>2. messages'[n] = Stored(n, s, m)
      BY <3>1 DEF KeygenTyped, SessionOK, RoundsOK
    <3>3. \A j \in Node : messages'[n][currentRound[n]][j] # NoEntry
      BY <3>1, <3>2 DEF ReceivedAll
    <3>4. \A j \in Node, k \in 1..4 : messages'[n][k][j] # NoEntry => Kept(n, k, j)' # 0
      <4>1. \A j \in Node, k \in 1..4 : messages'[n][k][j] \in Entry
        BY DEF KeygenTyped, SessionOK, RoundsOK, Queue
      <4>2. \A e \in Entry : e # NoEntry => e.round # 0
        BY DEF Entry, NoEntry
      <4> QED
        BY <4>1, <4>2 DEF Kept
    <3>5. \A j \in Node, k \in 1..4 : k = currentRound[n] => Kept(n, k, j)' # 0
      BY <3>3, <3>4
    <3>6. currentRound'[n] = currentRound[n] + 1 /\ resting'[n] = resting[n] + 1
      BY <2>2 DEF FinalizeCurrentRound, KeygenTyped, SessionOK, RoundsOK
    <3>7. \A k \in 1..4, j \in Node :
             Kept(n, k, j)' = IF CanAccept(n, s, m) /\ k = currentRound[n] /\ j = s THEN m.round
                              ELSE Kept(n, k, j)
      BY <3>1, StoredKept
    <3> HIDE DEF Kept
    <3> QED
      BY <3>1, <3>5, <3>6, <3>7
  <2>3. CASE StorePeerProofs(n, m)
    <3>1. currentRound[n] = 5 /\ UNCHANGED <<messages, currentRound, resting>>
      BY <2>3 DEF StorePeerProofs, FinalRound
    <3>2. ASSUME NEW k, NEW j PROVE Kept(n, k, j)' = Kept(n, k, j)
      BY ONLY <3>1 DEF Kept
    <3> HIDE DEF Kept
    <3> QED
      BY <3>1, <3>2
  <2> QED
    BY <2>1, <2>2, <2>3 DEF SessionRoundProcessor
<1>4. /\ \A k \in 1..4 : Kept(n, k, n)' = Kept(n, k, n)
      /\ CanAccept(n, s, m) => s # n /\ m.round \in 1..4
  BY <1>3 DEF CanAccept, IsBroadcastRound
<1>5. \A k \in Node : Said(k)' = Said(k)
  <2>1. ASSUME NEW k \in Node, k # n PROVE Said(k)' = Said(k)
    BY <1>2, <2>1, SaidStays, CountTypes DEF Kept
  <2>2. CASE currentRound'[n] = currentRound[n] /\ resting'[n] = resting[n]
    <3>1. sessionNo'[n] = sessionNo[n] /\ starts' = starts
      OBVIOUS
    <3>2. Said(n)' = Said(n)
      BY <1>4, <2>2, <3>1, SaidStays, CountTypes
    <3> QED
      BY <2>1, <3>2
  <2>3. CASE /\ currentRound[n] \in 1..4 /\ currentRound'[n] = currentRound[n] + 1
             /\ resting'[n] = resting[n] + 1
             /\ \A j \in Node, k \in 1..4 : k = currentRound[n] => Kept(n, k, j)' # 0
    <3>1. Said(n) = currentRound[n]
      BY <1>1, <1>4, <2>3 DEF Said, HasSaid, FinalRound
    <3>2. ~ HasSaid(n)'
      <4>1. \A k \in 1..4 : k = currentRound[n] + 1 => Kept(n, k, n)' = 0
        BY <1>1, <1>4, <2>3 DEF TurnInv, InOrder
      <4>2. resting'[n] # 0
        BY <2>3, CountTypes
      <4> QED
        BY <2>3, <4>1, <4>2 DEF HasSaid, FinalRound
    <3>3. Joined(n)'
      BY <1>1 DEF Joined
    <3> QED
      BY <2>1, <2>3, <3>1, <3>2, <3>3 DEF Said
  <2> QED
    BY <1>3, <2>1, <2>2, <2>3
<1>6. ASSUME NEW k \in Node PROVE InOrder(k)'
  <2>1. CASE k # n
    BY <1>2, <2>1 DEF TurnInv, InOrder, Kept
  <2>2. CASE currentRound'[n] = currentRound[n] /\ resting'[n] = resting[n]
    BY <1>4, <2>1, <2>2 DEF TurnInv, InOrder
  <2>3. CASE /\ currentRound[n] \in 1..4 /\ currentRound'[n] = currentRound[n] + 1
             /\ resting'[n] = resting[n] + 1
             /\ \A j \in Node, l \in 1..4 : l = currentRound[n] => Kept(n, l, j)' # 0
    <3>1. resting[n] = 0 /\ Kept(n, currentRound[n], n) # 0
      BY <1>4, <2>3 DEF TurnInv, InOrder
    <3>2. InOrder(n)'
      BY <1>4, <2>3, <3>1 DEF TurnInv, InOrder
    <3> QED
      BY <2>1, <3>2
  <2> QED
    BY <1>3, <2>1, <2>2, <2>3
<1>7. ASSUME NEW k \in Node PROVE InvitedOnce(k)'
  <2>1. \A a \in Node : 0 \in Under(a, k)' <=> 0 \in Under(a, k)
    BY DEF OnlyTaken
  <2> QED
    BY <2>1 DEF TurnInv, InvitedOnce, Invited
<1>8. \A k \in Node : Proven(k) \subseteq Proven(k)'
  BY <1>5, ProvenOn DEF OnlyTaken
(* One more proof is counted only if the message is that of the last round. *)
<1>9. Counted(n)'
  <2>1. CASE proofs'[n] = proofs[n]
    BY <1>8, <2>1, CountedOn DEF TurnInv
  <2>2. CASE m.round = FinalRound /\ proofs'[n] = Append(proofs[n], m.key)
    <3>1. Said(s)' = FinalRound
      BY <1>5, <2>2, SaidType DEF Arrives, FinalRound
    <3>2. s \in Proven(n)' /\ s \notin Proven(n)
      BY <2>2, <3>1 DEF Arrives, Proven
    <3>3. Proven(n)' \in SUBSET Node /\ Proven(n) \cup {s} \in SUBSET (Proven(n)')
      BY <1>8, <3>2 DEF Proven
    <3>4. IsFiniteSet(Proven(n)') /\ Cardinality(Proven(n)') \in Nat
      BY <3>3, NodesFinite, FS_Subset, FS_CardinalityType
    <3>5. Cardinality(Proven(n) \cup {s}) = Cardinality(Proven(n)) + 1
      BY <3>2, ProvenType, FS_AddElement
    <3>6. Cardinality(Proven(n) \cup {s}) <= Cardinality(Proven(n)')
      BY <3>3, <3>4, FS_Subset
    <3>7. Len(proofs'[n]) = Len(proofs[n]) + 1 /\ Len(proofs[n]) \in Nat
      <4>1. m.key \in Key /\ proofs[n] \in Seq(Key)
        BY CountTypes DEF RoundMessage
      <4> QED
        BY <2>2, <4>1
    <3>8. Len(proofs[n]) <= Cardinality(Proven(n)) /\ Cardinality(Proven(n)) \in Nat
      BY ProvenType DEF TurnInv, Counted
    <3> QED
      BY <3>4, <3>5, <3>6, <3>7, <3>8 DEF Counted
  <2>3. \/ proofs'[n] = proofs[n]
        \/ m.round = FinalRound /\ proofs'[n] = Append(proofs[n], m.key)
    BY DEF SessionRoundProcessor, StoreBroadcast, FinalizeCurrentRound, StorePeerProofs, WithProof,
           KeygenTyped, SessionOK, TimersOK
  <2> QED
    BY <2>1, <2>2, <2>3
<1>10. ASSUME NEW k \in Node PROVE Counted(k)'
  BY <1>2, <1>8, <1>9, CountedOn DEF TurnInv
(* With as many proofs as validators everyone has published its last one.  *)
<1>11. ending'[n] # <<>> => Said(n)' = FinalRound
  <2>1. CASE ending'[n] = ending[n]
    BY <1>5, <2>1 DEF TurnInv, InTurn
  <2>2. CASE Len(proofs'[n]) = Threshold
    <3>1. Proven(n)' \in SUBSET Node
      BY DEF Proven
    <3>2. Cardinality(Proven(n)') \in Nat /\ Cardinality(Proven(n)') <= Cardinality(Node)
      BY <3>1, NodesFinite, FS_Subset, FS_CardinalityType
    <3>3. Cardinality(Node) <= Cardinality(Proven(n)')
      BY <1>9, <2>2 DEF Counted, Threshold
    <3>4. Cardinality(Proven(n)') = Cardinality(Node)
      BY <3>2, <3>3, NodesFinite
    <3>5. Proven(n)' = Node
      BY <3>1, <3>4, NodesFinite, FS_Subset
    <3> QED
      BY <3>5 DEF Proven
  <2>3. ending'[n] = ending[n] \/ Len(proofs'[n]) = Threshold
    BY DEF SessionRoundProcessor, StoreBroadcast, FinalizeCurrentRound, StorePeerProofs, LastProof,
           KeygenTyped, SessionOK, TimersOK
  <2> QED
    BY <2>1, <2>2, <2>3
<1>12. ASSUME NEW k \in Node PROVE InTurn(k)'
  <2>1. waiting'[k] \subseteq waiting[k]
    BY DEF OnlyTaken
  <2>2. CASE k # n
    BY <1>2, <1>5, <2>1, <2>2 DEF TurnInv, InTurn, Joined
  <2>3. CASE k = n
    BY <1>1, <1>3, <1>11, <2>3 DEF TurnInv, InTurn, Joined
  <2> QED
    BY <2>2, <2>3
<1>13. ASSUME NEW j \in Node, NEW k \in Node PROVE Heard(j, k)'
  BY <1>5, HeardStill DEF TurnInv, OnlyTaken
<1>14. ASSUME NEW j \in Node, NEW d \in Node PROVE Recorded(j, d)'
  <2>1. CASE d # n
    BY <1>2, <1>5, <2>1, RecordedStill DEF TurnInv, OnlyTaken
  <2>2. CASE d = n
    <3> SUFFICES ASSUME j # n, NEW k \in 1..4
                 PROVE  /\ k < currentRound'[n] => Kept(n, k, j)' # 0
                        /\ Kept(n, k, j)' # 0 =>
                             /\ Kept(n, k, j)' <= Said(j)'
                             /\ Kept(n, k, j)' \notin Under(j, n)'
                             /\ \A w \in waiting'[n] : Waits(w, j) => w.message.round # Kept(n, k, j)'
                             /\ \A l \in 1..4 : l # k => Kept(n, l, j)' # Kept(n, k, j)'
      BY <2>2 DEF Recorded
    <3>1. Recorded(j, n) /\ currentRound[n] > 0
      BY DEF TurnInv
    <3>2. k < currentRound'[n] => Kept(n, k, j)' # 0
      <4>1. m.round # 0
        OBVIOUS
      <4> QED
        BY <1>1, <1>3, <3>1, <4>1 DEF Recorded
    <3>3. Under(j, n)' \subseteq Under(j, n) /\ waiting'[n] \subseteq waiting[n] /\ Said(j)' = Said(j)
      BY <1>5 DEF OnlyTaken
    <3>4. CASE CanAccept(n, s, m) /\ k = currentRound[n] /\ j = s
      <4>1. Kept(n, k, j)' = m.round /\ \A l \in 1..4 : l # k => Kept(n, l, j)' = Kept(n, l, j)
        BY <1>3, <3>4
      <4> QED
        BY <1>1, <1>3, <1>4, <3>2, <3>3, <3>4, <4>1 DEF Arrives
    <3>5. CASE ~ (CanAccept(n, s, m) /\ k = currentRound[n] /\ j = s)
      <4>1. Kept(n, k, j)' = Kept(n, k, j)
        BY <1>3, <3>5
      <4>2. ASSUME Kept(n, k, j) # 0, NEW l \in 1..4, l # k
            PROVE  Kept(n, l, j)' # Kept(n, k, j)
        BY <1>3, <1>4, <3>1, <4>2 DEF Recorded, Arrives
      <4> QED
        BY <3>1, <3>2, <3>3, <4>1, <4>2 DEF Recorded
    <3> QED
      BY <3>4, <3>5
  <2> QED
    BY <2>1, <2>2
<1> QED
  BY <1>5, <1>6, <1>7, <1>10, <1>12, <1>13, <1>14 DEF TurnInv, SameSaid, OnlyTaken

(* A round message that arrives and is handled. *)
LEMMA MessageTurns ==
    ASSUME KeygenTyped, KeygenTyped', TurnInv, NEW s \in Node, NEW d \in Node, HandleRoundMessage(s, d)
    PROVE  TurnInv' /\ SameSaid
<1> DEFINE m == Head(links[s][d])
<1>1. /\ OnceUnder'
      /\ \A a, b \in Node : a # s \/ b # d => Under(a, b)' = Under(a, b)
      /\ m \in RoundMessage /\ m.round \in 1..5
      /\ m.round \in Under(s, d) /\ Under(s, d)' = Under(s, d) \ {m.round}
  BY ReadStages DEF HandleRoundMessage
<1>2. currentRound[d] > 0 /\ SessionRoundProcessor(d, s, m) /\ waiting' = waiting
  BY DEF HandleRoundMessage
<1>3. UNCHANGED <<starts, sessionNo, starting>>
  BY DEF HandleRoundMessage, untouchedByMessage
<1> HIDE DEF m
<1>4. OnlyTaken
  <2>1. \A a, b \in Node : /\ Under(a, b)' \subseteq Under(a, b)
                           /\ 0 \in Under(a, b) => 0 \in Under(a, b)'
    BY <1>1
  <2> QED
    BY <1>1, <1>2, <2>1 DEF OnlyTaken
<1>5. Arrives(d, s, m)
  <2>1. Heard(s, d) /\ Recorded(s, d) /\ Said(s) \in 0..5
    BY SaidType DEF TurnInv
  <2>2. m.round <= Said(s)
    BY <1>1, <2>1 DEF Heard
  <2>3. \A w \in waiting'[d] : Waits(w, s) => w.message.round # m.round
    BY <1>1, <1>2, <2>1 DEF Heard
  <2>4. s # d => \A k \in 1..4 : Kept(d, k, s) # m.round
    BY <1>1, <1>2, <2>1 DEF Recorded
  <2> QED
    BY <1>1, <2>2, <2>3, <2>4 DEF Arrives, Proven
<1> QED
  BY <1>1, <1>2, <1>3, <1>4, <1>5, ProcessorTurns

(* A message that was kept and is handled. *)
LEMMA RetryTurns ==
    ASSUME KeygenTyped, KeygenTyped', TurnInv, NEW n \in Node, RetryRoundMessage(n)
    PROVE  TurnInv' /\ SameSaid
<1>1. PICK w \in waiting[n] :
        /\ currentRound[n] > 0 /\ SessionRoundProcessor(n, w.from, w.message)
        /\ waiting' = [waiting EXCEPT ![n] = waiting[n] \ {w}]
        /\ UNCHANGED <<untouchedByMessage, links, directMessages>>
  BY DEF RetryRoundMessage
<1> DEFINE s == w.from
           m == w.message
<1>2. s \in Node /\ m \in RoundMessage /\ m.round \in 1..5
  BY CountTypes
<1>3. waiting'[n] = waiting[n] \ {w} /\ \A a \in Node : waiting'[a] \subseteq waiting[a]
  BY <1>1 DEF KeygenTyped, SessionOK, TimersOK
<1>4. UNCHANGED <<starts, sessionNo, starting, links>>
  BY <1>1 DEF untouchedByMessage
<1>5. OnlyTaken
  BY <1>3, <1>4 DEF OnlyTaken, OnceUnder, Under, TurnInv
<1>6. Waits(w, s)
  BY DEF Waits
<1>7. Arrives(n, s, m)
  <2>1. Heard(s, n) /\ Recorded(s, n)
    BY <1>2 DEF TurnInv
  <2>2. m.round <= Said(s) /\ m.round \notin Under(s, n)'
    BY <1>4, <1>6, <2>1 DEF Heard, Under
  <2>3. \A v \in waiting'[n] : Waits(v, s) => v.message.round # m.round
    BY <1>3, <1>6, <2>1 DEF Heard
  <2>4. s # n => \A k \in 1..4 : Kept(n, k, s) # m.round
    BY <1>1, <1>2, <1>6, <2>1 DEF Recorded
  <2> QED
    BY <1>6, <2>2, <2>3, <2>4 DEF Arrives, Proven
<1> QED
  BY <1>1, <1>2, <1>4, <1>5, <1>7, ProcessorTurns

-------------------------------------------------------------------------------
(***************************************************************************)
(* All steps together.                                                     *)
(***************************************************************************)
LEMMA TurnInit == KeygenInit => TurnInv
<1> SUFFICES ASSUME KeygenInit PROVE TurnInv
  OBVIOUS
<1>1. /\ starts = 0
      /\ \A n \in Node : /\ sessionNo[n] = 0 /\ currentRound[n] = 0 /\ starting[n] = 0
                         /\ resting[n] = 0 /\ proofs[n] = <<>> /\ waiting[n] = {} /\ ending[n] = <<>>
  BY DEF KeygenInit
<1>2. \A s, d \in Node : links[s][d] = <<>>
  BY DEF KeygenInit, ElectionInit, NoPackets
<1>3. Single(<<>>) /\ Stages(<<>>) = {}
  BY DEF Single, Stages
<1>4. OnceUnder /\ \A s, d \in Node : Under(s, d) = {}
  BY <1>2, <1>3 DEF OnceUnder, SingleOn, Under
<1>5. ASSUME NEW n \in Node PROVE InTurn(n) /\ InOrder(n) /\ InvitedOnce(n)
  BY <1>1, <1>4 DEF InTurn, InOrder, InvitedOnce, Invited, Joined
<1>6. ASSUME NEW n \in Node PROVE Counted(n)
  <2>1. Len(<<>>) = 0
    OBVIOUS
  <2> QED
    BY <1>1, <2>1, ProvenType DEF Counted
<1>7. ASSUME NEW j \in Node, NEW n \in Node PROVE Heard(j, n) /\ Recorded(j, n)
  BY <1>1, <1>4 DEF Heard, Recorded
<1> QED
  BY <1>4, <1>5, <1>6, <1>7 DEF TurnInv

(* Nobody is asked for a session while in one. *)
LEMMA NeverRefused ==
    ASSUME KeygenTyped, TurnInv, NEW n \in Node
    PROVE  ~ RefuseSession(n)
<1> SUFFICES ASSUME starting[n] > 0, currentRound[n] > 0 PROVE FALSE
  BY DEF RefuseSession
<1>1. sessionNo[n] = starts
  BY DEF TurnInv, InTurn, Joined
<1> QED
  BY <1>1 DEF TurnInv, InvitedOnce, Invited

(* Of a session that was never asked for there is nothing. *)
LEMMA NothingAtFirst ==
    ASSUME KeygenTyped, TurnInv, starts = 0
    PROVE  SessionOver
<1>1. ASSUME NEW n \in Node
      PROVE  /\ ~ Joined(n) /\ currentRound[n] = 0 /\ waiting[n] = {} /\ ending[n] = <<>>
             /\ ~ Invited(n) /\ starting[n] = 0 /\ Said(n) = 0
  <2>1. ~ Joined(n)
    BY DEF Joined
  <2>2. currentRound[n] = 0 /\ waiting[n] = {} /\ ending[n] = <<>> /\ sessionNo[n] = starts
    BY <2>1, CountTypes DEF TurnInv, InTurn
  <2>3. ~ Invited(n)
    BY <2>2 DEF TurnInv, InvitedOnce
  <2> QED
    BY <2>1, <2>2, <2>3, CountTypes DEF Invited, Said
<1>2. ASSUME NEW s \in Node, NEW d \in Node PROVE Under(s, d) = {}
  <2>1. Under(s, d) \subseteq {0}
    BY <1>1 DEF TurnInv, Heard
  <2>2. 0 \notin Under(s, d)
    BY <1>1 DEF Invited
  <2> QED
    BY <2>1, <2>2
<1> QED
  BY <1>1, <1>2 DEF SessionOver

(* Each of the five rounds publishes its message. *)
LEMMA RoundsPublish ==
    ASSUME NEW n \in Node,
           \/ KeygenRound1(n) \/ KeygenRound2(n) \/ KeygenRound3(n) \/ KeygenRound4(n) \/ KeygenRound5(n)
    PROVE  \E k \in 1..5 : RoundPublished(n, k)
<1>1. ASSUME KeygenRound1(n) PROVE RoundPublished(n, 1)
  BY <1>1 DEF KeygenRound1, RoundPublished, untouchedByRound
<1>2. ASSUME KeygenRound2(n) PROVE RoundPublished(n, 2)
  BY <1>2 DEF KeygenRound2, RoundPublished, untouchedByRound
<1>3. ASSUME KeygenRound3(n) PROVE RoundPublished(n, 3)
  BY <1>3 DEF KeygenRound3, RoundPublished, untouchedByRound
<1>4. ASSUME KeygenRound4(n) PROVE RoundPublished(n, 4)
  BY <1>4 DEF KeygenRound4, RoundPublished, untouchedByRound
<1>5. ASSUME KeygenRound5(n) PROVE RoundPublished(n, 5)
  BY <1>5 DEF KeygenRound5, RoundPublished, untouchedByRound
<1>6. 1 \in 1..5 /\ 2 \in 1..5 /\ 3 \in 1..5 /\ 4 \in 1..5 /\ 5 \in 1..5
  OBVIOUS
<1> QED
  BY <1>1, <1>2, <1>3, <1>4, <1>5, <1>6

(* A session is asked for only when nothing is left of that of before. *)
AskedInTurn == \A n \in Node : StartKeygen(n) => SessionOver

(* A step that neither asks for a session nor ends the timer of a round    *)
(* leaves what was said as it is.                                          *)
LEMMA SaidOn ==
    ASSUME KeygenTyped, KeygenTyped', TurnInv, [KeygenNext]_keygenVars,
           \A n \in Node : ~ StartKeygen(n) /\ ~ VerifyRound(n)
    PROVE  TurnInv' /\ SameSaid
<1>1. ASSUME Lessens PROVE TurnInv' /\ SameSaid
  BY <1>1, TurnLessens
<1>2. CASE UNCHANGED keygenVars
  BY <1>1, <1>2, OtherStepsLessen
<1>3. ASSUME NEW n \in Node, RequestElection(n) /\ UNCHANGED sessionVars PROVE TurnInv' /\ SameSaid
  BY <1>1, <1>3, OtherStepsLessen
<1>4. ASSUME NEW n \in Node, ResumeSession(n) PROVE TurnInv' /\ SameSaid
  <2>1. CASE \/ SendShares(n) \/ DropWaiting(n) \/ UpdatePeerReplica(n)
             \/ OpenElectionWhen(n, currentRound[n] > 0) /\ UNCHANGED sessionVars
             \/ AnnounceLeader(n) /\ UNCHANGED sessionVars
    BY <1>1, <2>1, OtherStepsLessen
  <2>2. CASE StartNewSession(n) \/ RetryRoundMessage(n) \/ CloseSession(n)
    BY <2>2, NewSessionTurns, RetryTurns, CloseTurns
  <2>3. ~ RefuseSession(n)
    BY NeverRefused
  <2> QED
    BY <1>4, <2>1, <2>2, <2>3 DEF ResumeSession
<1>5. ASSUME NEW s \in Node, NEW d \in Node, DeliverMessage(s, d) PROVE TurnInv' /\ SameSaid
  <2>1. CASE \/ HandleDirectMessage(s, d) \/ DropRoundMessage(s, d)
             \/ HandleElectionMessage(s, d) /\ UNCHANGED sessionVars
    BY <1>1, <2>1, OtherStepsLessen
  <2>2. CASE HandleInit(s, d) \/ DeferRoundMessage(s, d) \/ HandleRoundMessage(s, d)
    BY <2>2, InitTurns, DeferTurns, MessageTurns
  <2> QED
    BY <1>5, <2>1, <2>2 DEF DeliverMessage, HandleSessionMessage
<1> QED
  BY <1>2, <1>3, <1>4, <1>5 DEF KeygenNext

(* A step leaves what was said as it is, or publishes the message of a     *)
(* round, and the sessions stay in turn.                                   *)
LEMMA TurnStep ==
    ASSUME KeygenTyped, KeygenTyped', TurnInv, [KeygenNext]_keygenVars, AskedInTurn
    PROVE  /\ TurnInv'
           /\ \/ SameSaid
              \/ UNCHANGED Published
              \/ \E n \in Node : \E k \in 1..5 : RoundPublished(n, k)
<1>1. ASSUME NEW n \in Node, StartKeygen(n) PROVE TurnInv' /\ UNCHANGED Published
  BY <1>1, StartTurns DEF AskedInTurn
<1>2. ASSUME NEW n \in Node, VerifyRound(n)
      PROVE  /\ TurnInv'
             /\ SameSaid \/ \E k \in 1..5 : RoundPublished(n, k)
  <2>1. CASE FailRound(n) \/ RefuseRound(n)
    BY <2>1, SilentTurns
  <2>2. ASSUME NEW k \in 1..5, RoundPublished(n, k) PROVE TurnInv'
    BY <2>2, PublishTurns
  <2> QED
    BY <1>2, <2>1, <2>2, RoundsPublish DEF VerifyRound
<1> QED
  BY <1>1, <1>2, SaidOn

-------------------------------------------------------------------------------
(***************************************************************************)
(* What has been published is what has been said, over all the sessions.   *)
(***************************************************************************)
LEMMA OwnEntries ==
    ASSUME KeygenTyped, TurnInv, NEW n \in Node, currentRound[n] > 0
    PROVE  PublishedInSession(n) = Said(n)
<1> DEFINE own == {k \in 1..4 : messages[n][k][n] # NoEntry}
           r == currentRound[n]
<1>1. r \in 1..5 /\ Joined(n)
  BY CountTypes DEF TurnInv, InTurn
<1>2. \A k \in 1..4 : k \in own <=> Kept(n, k, n) # 0
  BY KeptType
<1>3. ASSUME NEW p \in 0..4, \A k \in 1..4 : k \in own <=> k <= p PROVE Cardinality(own) = p
  <2>1. own = 1..p
    BY <1>3
  <2>2. Cardinality(1..p) = IF 1 > p THEN 0 ELSE p - 1 + 1
    BY FS_Interval
  <2>3. (IF 1 > p THEN 0 ELSE p - 1 + 1) = p
    OBVIOUS
  <2> QED
    BY <2>1, <2>2, <2>3, Zenon
<1>4. \A k \in 1..4 : /\ k < r => k \in own
                      /\ k > r => k \notin own
  BY <1>1, <1>2 DEF TurnInv, InOrder
<1>5. CASE r = 5
  <2>1. Cardinality(own) = 4
    BY <1>3, <1>4, <1>5
  <2>2. PublishedInSession(n) = IF resting[n] = 0 THEN 5 ELSE 4
    BY <1>5, <2>1 DEF PublishedInSession, FinalRound
  <2>3. Said(n) = IF resting[n] = 0 THEN 5 ELSE 4
    BY <1>1, <1>5 DEF Said, HasSaid, FinalRound
  <2> QED
    BY <2>2, <2>3
<1>6. CASE r \in 1..4
  <2>1. HasSaid(n) <=> r \in own
    BY <1>2, <1>6 DEF HasSaid, FinalRound
  <2>2. Said(n) = IF r \in own THEN r ELSE r - 1
    BY <1>1, <1>6, <2>1 DEF Said
  <2>3. Cardinality(own) = Said(n) /\ Said(n) \in 0..4
    <3>1. CASE r \in own
      BY <1>3, <1>4, <1>6, <2>2, <3>1
    <3>2. CASE r \notin own
      BY <1>3, <1>4, <1>6, <2>2, <3>2
    <3> QED
      BY <3>1, <3>2
  <2>4. PublishedInSession(n) = Cardinality(own) + 0
    BY <1>6 DEF PublishedInSession, FinalRound
  <2> QED
    BY <2>3, <2>4
<1> QED
  BY <1>1, <1>5, <1>6

(* The rounds a node has published in all: those of the earlier sessions, and those of this one. *)
LEMMA PublishedIsSaid ==
    ASSUME KeygenTyped, TurnInv, NEW n \in Node
    PROVE  Published[n] = IF starts = 0 THEN 0 ELSE 5 * (starts - 1) + Said(n)
<1>1. /\ sessionNo[n] \in Nat /\ starts \in Nat /\ currentRound[n] \in 0..5
      /\ sessionNo[n] = starts \/ sessionNo[n] = starts - 1
      /\ currentRound[n] > 0 => Joined(n)
  BY CountTypes DEF TurnInv, InTurn
<1>2. Published[n] = IF sessionNo[n] = 0 THEN 0 ELSE 5 * (sessionNo[n] - 1) + PublishedInSession(n)
  BY DEF Published, FinalRound
<1>3. CASE currentRound[n] > 0
  BY <1>1, <1>2, <1>3, OwnEntries DEF Joined
<1>4. CASE currentRound[n] = 0
  <2>1. PublishedInSession(n) = 5
    BY <1>4 DEF PublishedInSession, FinalRound
  <2>2. Said(n) = IF Joined(n) THEN 5 ELSE 0
    BY <1>4 DEF Said, FinalRound
  <2> QED
    BY <1>1, <1>2, <2>1, <2>2 DEF Joined
<1> QED
  BY <1>1, <1>3, <1>4

(* The same of the next state. *)
LEMMA PublishedIsSaidNext ==
    (KeygenTyped /\ TurnInv =>
       \A n \in Node : Published[n] = IF starts = 0 THEN 0 ELSE 5 * (starts - 1) + Said(n))'
<1>1. KeygenTyped /\ TurnInv =>
       \A n \in Node : Published[n] = IF starts = 0 THEN 0 ELSE 5 * (starts - 1) + Said(n)
  BY PublishedIsSaid
<1> QED
  BY <1>1, PTL

(* A step in which no node publishes is a stutter of Lockstep. *)
LEMMA SameSaidSame ==
    ASSUME KeygenTyped, KeygenTyped', TurnInv, TurnInv', SameSaid
    PROVE  UNCHANGED Published
<1>1. \A n \in Node : Published'[n] = Published[n]
  <2> SUFFICES ASSUME NEW n \in Node PROVE Published'[n] = Published[n]
    OBVIOUS
  <2>1. Published[n] = IF starts = 0 THEN 0 ELSE 5 * (starts - 1) + Said(n)
    BY PublishedIsSaid
  <2>2. Published'[n] = IF starts' = 0 THEN 0 ELSE 5 * (starts' - 1) + Said(n)'
    BY PublishedIsSaidNext
  <2> QED
    BY <2>1, <2>2 DEF SameSaid
<1> QED
  BY <1>1 DEF Published

(* A message of a round is published when everyone has published that of   *)
(* the round before: n keeps a different one of each for every such round. *)
LEMMA EveryoneHasSaid ==
    ASSUME KeygenTyped, TurnInv, NEW n \in Node, NEW j \in Node, currentRound[n] > 0
    PROVE  Said(j) >= currentRound[n] - 1
<1>1. CASE j = n
  BY <1>1, SaidType, CountTypes DEF TurnInv, InTurn
<1>2. CASE j # n
  <2> DEFINE kept == [k \in 1..4 |-> Kept(n, k, j)]
  <2>1. currentRound[n] \in 1..5 /\ Said(j) \in 0..5
    BY CountTypes, SaidType
  <2>2. \A k \in 1..4 : kept[k] \in 0..4
    BY KeptType
  <2>3. \A k \in 1..4 : k < currentRound[n] => kept[k] # 0 /\ kept[k] <= Said(j)
    BY <1>2 DEF TurnInv, Recorded
  <2>4. \A k, l \in 1..4 : k < currentRound[n] /\ l # k => kept[l] # kept[k]
    BY <1>2 DEF TurnInv, Recorded
  <2> HIDE DEF kept
  <2> QED
    BY <2>1, <2>2, <2>3, <2>4
<1> QED
  BY <1>1, <1>2

(* A round that is published is a step of Lockstep: nobody is a round behind. *)
LEMMA PublishIsPublish ==
    ASSUME KeygenTyped, KeygenTyped', TurnInv, TurnInv', NEW n \in Node, NEW k \in 1..5,
           RoundPublished(n, k)
    PROVE  Rounds!Publish(n)
<1>1. /\ starts' = starts /\ Joined(n) /\ currentRound[n] = k
      /\ Said(n) = k - 1 /\ Said(n)' = k /\ \A j \in Node : j # n => Said(j)' = Said(j)
  BY PublishTurns DEF RoundPublished, Verifying
<1>2. starts \in Nat \ {0}
  BY <1>1, CountTypes DEF Joined
<1>3. \A j \in Node : Published[j] = 5 * (starts - 1) + Said(j)
  BY <1>2, PublishedIsSaid
<1>4. \A j \in Node : Published'[j] = 5 * (starts - 1) + Said(j)'
  BY <1>1, <1>2, PublishedIsSaidNext
<1>5. \A j \in Node : Said(j) \in 0..5 /\ Said(j) >= k - 1
  BY <1>1, EveryoneHasSaid, SaidType
<1>6. \A j \in Node : Published[n] <= Published[j]
  BY <1>1, <1>2, <1>3, <1>5
<1>7. /\ Published'[n] = Published[n] + 1
      /\ \A j \in Node : j # n => Published'[j] = Published[j]
  BY <1>1, <1>2, <1>3, <1>4
<1>8. Published' = [Published EXCEPT ![n] = Published[n] + 1]
  <2>1. Published' = [j \in Node |-> Published'[j]]
    BY DEF Published
  <2>2. [Published EXCEPT ![n] = Published[n] + 1]
          = [j \in Node |-> IF j = n THEN Published[n] + 1 ELSE Published[j]]
    BY DEF Published
  <2> QED
    BY <1>7, <2>1, <2>2
<1> QED
  BY <1>6, <1>8 DEF Rounds!Publish

(* Initial states map to initial states. *)
LEMMA LockstepInitially == KeygenInit => Rounds!LockstepInit
BY DEF KeygenInit, Rounds!LockstepInit, Published

(* Every step keeps the invariant, and maps to a step of Lockstep or to a stutter. *)
LEMMA LockstepStep ==
    KeygenTyped /\ KeygenTyped' /\ TurnInv /\ [KeygenNext]_keygenVars /\ AskedInTurn
      => TurnInv' /\ [\E n \in Node : Rounds!Publish(n)]_Published
<1> SUFFICES ASSUME KeygenTyped, KeygenTyped', TurnInv, [KeygenNext]_keygenVars, AskedInTurn
             PROVE  TurnInv' /\ [\E n \in Node : Rounds!Publish(n)]_Published
  OBVIOUS
<1>1. TurnInv'
  BY TurnStep
<1> QED
  BY <1>1, TurnStep, SameSaidSame, PublishIsPublish

(* Sessions that are asked for one after the other, as late as messages    *)
(* and timers may be otherwise.                                            *)
TurnSpec == KeygenSpec /\ [][AskedInTurn]_keygenVars

(* A step that changes nothing asks for no session. *)
LEMMA AskedStutters == KeygenTyped /\ [AskedInTurn]_keygenVars => AskedInTurn
<1> SUFFICES ASSUME KeygenTyped, UNCHANGED keygenVars, NEW n \in Node, StartKeygen(n) PROVE FALSE
  BY DEF AskedInTurn
<1>1. starts' = starts + 1 /\ starts \in Nat
  BY CountTypes DEF StartKeygen
<1> QED
  BY <1>1 DEF keygenVars, sessionVars

(* Where sessions are asked for in turn the invariant always holds. *)
LEMMA TurnInvariant == TurnSpec => [](KeygenTyped /\ TurnInv)
<1>1. KeygenTyped /\ TurnInv /\ [KeygenNext]_keygenVars /\ [AskedInTurn]_keygenVars
        => (KeygenTyped /\ TurnInv)'
  BY KeygenTypedStep, LockstepStep, AskedStutters
<1> QED
  BY <1>1, KeygenTypedInit, TurnInit, PTL DEF TurnSpec, KeygenSpec

(* The rounds of sessions that follow one another are in step at every     *)
(* node: nobody publishes a round's message before everyone has published  *)
(* that of the round before, though a message is kept for the round its    *)
(* reader happens to be in (keygenProtocol.ts:124-140,                     *)
(* abstractProtocolHnadler.ts:101-115, 145-163).                           *)
THEOREM TurnsKeepStep == TurnSpec => KeepsStep
<1>1. KeygenTyped /\ TurnInv /\ KeygenTyped' /\ [KeygenNext]_keygenVars /\ [AskedInTurn]_keygenVars
        => [\E n \in Node : Rounds!Publish(n)]_Published
  BY LockstepStep, AskedStutters
<1> QED
  BY <1>1, TurnInvariant, LockstepInitially, PTL
     DEF TurnSpec, KeygenSpec, KeepsStep, Rounds!LockstepSpec

(* A single session is always in its turn. *)
LEMMA FirstIsInTurn ==
    ASSUME MaxStarts <= 1
    PROVE  KeygenTyped /\ TurnInv => AskedInTurn
<1> SUFFICES ASSUME KeygenTyped, TurnInv, NEW n \in Node, StartKeygen(n) PROVE SessionOver
  BY DEF AskedInTurn
<1>1. starts = 0
  BY CountTypes, KeygenAssumption DEF StartKeygen
<1> QED
  BY <1>1, NothingAtFirst

(* It holds of a single session, which has none before it. *)
LEMMA FirstInvariant == ASSUME MaxStarts <= 1 PROVE KeygenSpec => [](KeygenTyped /\ TurnInv)
<1>1. KeygenTyped /\ TurnInv /\ [KeygenNext]_keygenVars => (KeygenTyped /\ TurnInv)'
  BY KeygenTypedStep, LockstepStep, FirstIsInTurn
<1> QED
  BY <1>1, KeygenTypedInit, TurnInit, PTL DEF KeygenSpec

(* One session needs no condition on when it is asked for: whatever the    *)
(* delays are its rounds are in step (keygenProtocol.ts:124-140,           *)
(* abstractProtocolHnadler.ts:101-115, 145-163).                           *)
THEOREM SessionKeepsStep == ASSUME MaxStarts <= 1 PROVE KeygenSpec => KeepsStep
<1>1. KeygenTyped /\ TurnInv /\ KeygenTyped' /\ [KeygenNext]_keygenVars
        => [\E n \in Node : Rounds!Publish(n)]_Published
  BY LockstepStep, FirstIsInTurn
<1> QED
  BY <1>1, FirstInvariant, LockstepInitially, PTL
     DEF KeygenSpec, KeepsStep, Rounds!LockstepSpec

-------------------------------------------------------------------------------
(***************************************************************************)
(* The first session.  What a node keeps, what waits and what is under way *)
(* is of the first session: there was none before, and nobody has begun    *)
(* another.                                                                *)
(***************************************************************************)
EarlyMessage == {m \in Message : m.type = "keygenRoundHandler" => m.session <= 1}
EarlyHeld ==
    \A n \in Node : /\ \A w \in waiting[n] : w.message.session <= 1
                    /\ \A k \in 1..4, j \in Node : messages[n][k][j].session <= 1
EarlyKey(key) == \A j \in Node : key[j] <= 1
EarlyData == \A n \in Node : EarlyKey(commitments[n]) /\ EarlyKey(opened[n]) /\ EarlyKey(shares[n])
Early == links \in LinksOf(EarlyMessage) /\ EarlyHeld /\ EarlyData

(* Who has published its openings has all of them, and so on.              *)
Keyed ==
    \A n \in Node :
        /\ Said(n) >= 3 => Complete(opened[n])
        /\ Said(n) >= 4 => Complete(shares[n])
        /\ Said(n) >= 5 => keyShare[n] = [public |-> opened[n], secret |-> shares[n]]

(* An early key that lacks nothing is that of everyone's first session. *)
LEMMA KeyedConcludes ==
    ASSUME KeygenTyped, TurnInv, Early, Keyed, starts <= 1
    PROVE  ConcludedKey
<1> SUFFICES ASSUME NEW n \in Node, ending[n] # <<>>
             PROVE  keyShare[n] = [public |-> KeyOf(sessionNo[n]), secret |-> KeyOf(sessionNo[n])]
  BY DEF ConcludedKey
<1>1. Said(n) = 5 /\ Joined(n)
  BY DEF TurnInv, InTurn, FinalRound
<1>2. sessionNo[n] = 1
  BY <1>1, CountTypes DEF Joined
<1>3. Complete(opened[n]) /\ Complete(shares[n])
      /\ keyShare[n] = [public |-> opened[n], secret |-> shares[n]]
  BY <1>1 DEF Keyed
<1>4. ASSUME NEW key \in Key, Complete(key), EarlyKey(key) PROVE key = KeyOf(1)
  <2>1. \A j \in Node : key[j] \in Nat /\ key[j] # 0 /\ key[j] <= 1
    BY <1>4 DEF Key, Complete, EarlyKey
  <2>2. \A j \in Node : key[j] = 1
    BY <2>1
  <2> QED
    BY <2>2 DEF Key, KeyOf
<1>5. opened[n] = KeyOf(1) /\ shares[n] = KeyOf(1)
  BY <1>3, <1>4 DEF KeygenTyped, SessionOK, DataOK, Early, EarlyData
<1> QED
  BY <1>2, <1>3, <1>5

(* At first nothing has been said or stored. *)
LEMMA EarlyInit == KeygenInit => Early /\ Keyed
<1> SUFFICES ASSUME KeygenInit PROVE Early /\ Keyed
  OBVIOUS
<1>1. links \in LinksOf(EarlyMessage)
  BY NoPacketsType DEF KeygenInit, ElectionInit
<1>2. EarlyHeld
  BY DEF KeygenInit, EarlyHeld, EmptyQueue, NoEntry
<1>3. EarlyData
  BY DEF KeygenInit, EarlyData, EarlyKey, NoKey
<1>4. \A n \in Node : Said(n) = 0
  BY DEF KeygenInit, Said, Joined
<1>5. Keyed
  BY <1>4 DEF Keyed
<1> QED
  BY <1>1, <1>2, <1>3, <1>5 DEF Early

-------------------------------------------------------------------------------
(* What is sent is of the first session. *)
LEMMA EarlyMessages ==
    /\ ElectionMessage \subseteq EarlyMessage
    /\ [type |-> "keygenInit"] \in EarlyMessage
    /\ DirectMessage \subseteq EarlyMessage
    /\ \A m \in EarlyMessage : m.type \in {"LeaderElection", "LeaderVote", "SetNewLeader"}
                                   => m \in ElectionMessage
BY DEF EarlyMessage, Message, SessionMessage, ElectionMessage, RoundMessage, DirectMessage

(* A round that is published belongs to the first session. *)
LEMMA EarlyPublished ==
    ASSUME KeygenTyped, TurnInv, Early, starts <= 1, NEW n \in Node, NEW k \in 1..5, RoundPublished(n, k)
    PROVE  links' \in LinksOf(EarlyMessage) /\ EarlyHeld'
<1>1. sessionNo[n] \in Nat /\ sessionNo[n] <= 1
  BY CountTypes DEF TurnInv, InTurn
<1>2. links' \in LinksOf(EarlyMessage)
  <2> DEFINE m == [type |-> "keygenRoundHandler", round |-> k, session |-> sessionNo[n],
                   key |-> IF k = FinalRound THEN opened[n] ELSE NoKey]
  <2>1. m \in EarlyMessage
    <3>1. sessionNo[n] \in Nat /\ opened[n] \in Key
      BY <1>1 DEF KeygenTyped, SessionOK, DataOK
    <3>2. m \in RoundMessage
      BY <3>1, KeyTypes DEF RoundMessage
    <3> QED
      BY <1>1, <3>2 DEF EarlyMessage, Message, SessionMessage
  <2>2. links' = Broadcast(links, n, <<m>>)
    BY DEF RoundPublished, Publish
  <2> HIDE DEF m
  <2> QED
    BY <2>1, <2>2, BroadcastOneType DEF Early
<1>3. EarlyHeld'
  <2>1. CASE k = 5
    BY <2>1 DEF RoundPublished, Publish, IsBroadcastRound, EarlyHeld, Early
  <2>2. CASE k \in 1..4
    <3> DEFINE e == [round |-> k, session |-> sessionNo[n]]
    <3>1. messages' = [messages EXCEPT ![n] = [messages[n] EXCEPT ![k] = [messages[n][k] EXCEPT ![n] = e]]]
      BY <2>2 DEF RoundPublished, Publish, IsBroadcastRound
    <3>2. e.session <= 1
      BY <1>1
    <3> HIDE DEF e
    <3>3. \A j \in Node, l \in 1..4, i \in Node :
            messages'[j][l][i] = IF j = n /\ l = k /\ i = n THEN e ELSE messages[j][l][i]
      BY <2>2, <3>1 DEF KeygenTyped, SessionOK, RoundsOK, Queue
    <3> QED
      BY <3>2, <3>3 DEF RoundPublished, EarlyHeld, Early
  <2> QED
    BY <2>1, <2>2
<1> QED
  BY <1>2, <1>3

(* A round keeps what it has read, or what it kept before. *)
LEMMA EarlyOutputs ==
    ASSUME KeygenTyped, TurnInv, Early, starts <= 1, NEW n \in Node
    PROVE  EarlyKey(Committed(n)) /\ EarlyKey(Openings(n)) /\ EarlyKey(Received(n))
<1>1. sessionNo[n] <= 1
  BY CountTypes DEF TurnInv, InTurn
<1> QED
  BY <1>1 DEF Early, EarlyHeld, EarlyData, EarlyKey, Committed, Openings, Received

(* What a round stores belongs to the first session. *)
LEMMA EarlyRound ==
    ASSUME KeygenTyped, TurnInv, Early, starts <= 1, NEW n \in Node, VerifyRound(n)
    PROVE  Early'
<1>1. EarlyKey(Committed(n)) /\ EarlyKey(Openings(n)) /\ EarlyKey(Received(n))
  BY EarlyOutputs
<1>2. /\ commitments' \in {commitments, [commitments EXCEPT ![n] = Committed(n)]}
      /\ opened' \in {opened, [opened EXCEPT ![n] = Openings(n)]}
      /\ shares' \in {shares, [shares EXCEPT ![n] = Received(n)]}
  BY DEF VerifyRound, KeygenRound1, KeygenRound2, KeygenRound3, KeygenRound4, KeygenRound5, FailRound,
         RefuseRound, dataVars
<1>3. EarlyData'
  BY <1>1, <1>2 DEF Early, EarlyData, KeygenTyped, SessionOK, DataOK
<1>4. CASE FailRound(n) \/ RefuseRound(n)
  BY <1>3, <1>4 DEF FailRound, RefuseRound, untouchedByRound, Early, EarlyHeld
<1>5. CASE \E k \in 1..5 : RoundPublished(n, k)
  BY <1>3, <1>5, EarlyPublished DEF Early
<1> QED
  BY <1>4, <1>5, RoundsPublish DEF VerifyRound

(* So does what it records of a message of that session. *)
LEMMA EarlyStored ==
    ASSUME KeygenTyped, EarlyHeld, NEW n \in Node, NEW s \in Node, NEW m \in RoundMessage,
           m.session <= 1, SessionRoundProcessor(n, s, m), \A a \in Node : waiting'[a] \subseteq waiting[a]
    PROVE  EarlyHeld'
<1>1. ASSUME NEW j \in Node, NEW l \in 1..4, NEW i \in Node PROVE messages'[j][l][i].session <= 1
  <2>1. CASE messages' = messages
    BY <2>1 DEF EarlyHeld
  <2>2. CASE messages' = [messages EXCEPT ![n] = Stored(n, s, m)] /\ currentRound[n] \in 1..4
    <3> DEFINE e == [round |-> m.round, session |-> m.session]
               r == currentRound[n]
    <3>1. CASE CanAccept(n, s, m)
      <4>1. messages' = [messages EXCEPT ![n] = [messages[n] EXCEPT ![r] = [messages[n][r] EXCEPT ![s] = e]]]
        BY <2>2, <3>1 DEF Stored
      <4>2. e.session <= 1 /\ r \in 1..4
        BY <2>2
      <4> HIDE DEF e, r
      <4>3. messages'[j][l][i] = IF j = n /\ l = r /\ i = s THEN e ELSE messages[j][l][i]
        BY <4>1, <4>2 DEF KeygenTyped, SessionOK, RoundsOK, Queue
      <4> QED
        BY <4>2, <4>3 DEF EarlyHeld
    <3>2. CASE ~ CanAccept(n, s, m)
      BY <2>2, <3>2 DEF Stored, EarlyHeld, KeygenTyped, SessionOK, RoundsOK
    <3> QED
      BY <3>1, <3>2
  <2> QED
    BY <2>1, <2>2 DEF SessionRoundProcessor, StoreBroadcast, FinalizeCurrentRound, StorePeerProofs,
                      IsBroadcastRound
<1> QED
  BY <1>1 DEF EarlyHeld

(* Every step but that of a round keeps the data as they are, and holds    *)
(* what it held before or what comes from a link.                          *)
LEMMA EarlyElection ==
    ASSUME KeygenTyped, Early, UNCHANGED sessionVars,
           \/ \E n \in Node : \/ RequestElection(n)
                              \/ OpenElectionWhen(n, currentRound[n] > 0)
                              \/ AnnounceLeader(n)
           \/ \E s, d \in Node : HandleElectionMessage(s, d)
    PROVE  Early'
<1>1. ElectionStateOK /\ links \in LinksOf(EarlyMessage)
  BY DEF KeygenTyped, Early
<1>2. ASSUME NEW n \in Node, RequestElection(n) PROVE links' \in LinksOf(EarlyMessage)
  BY <1>1, <1>2 DEF RequestElection
<1>3. ASSUME NEW n \in Node, OpenElectionWhen(n, currentRound[n] > 0)
      PROVE  links' \in LinksOf(EarlyMessage)
  <2>1. Head(electing[n]) \in Node
    BY <1>3 DEF OpenElectionWhen, KeygenTyped, ElectionStateOK
  <2>2. \A l \in Node : /\ [type |-> "LeaderElection", leader |-> l] \in EarlyMessage
                        /\ [type |-> "SetNewLeader", leader |-> l] \in EarlyMessage
    BY EarlyMessages DEF ElectionMessage
  <2>3. PICK m \in EarlyMessage : links' = Broadcast(links, n, <<m>>)
    BY <1>3, <2>1, <2>2 DEF OpenElectionWhen
  <2> QED
    BY <1>1, <2>3, BroadcastOneType
<1>4. ASSUME NEW n \in Node, AnnounceLeader(n) PROVE links' \in LinksOf(EarlyMessage)
  BY <1>1, <1>4, EarlyMessages, ResumeElectionType DEF ResumeElection
<1>5. ASSUME NEW s \in Node, NEW d \in Node, HandleElectionMessage(s, d)
      PROVE  links' \in LinksOf(EarlyMessage)
  BY <1>1, <1>5, EarlyMessages, HandleElectionMessageType
<1>6. links' \in LinksOf(EarlyMessage)
  BY <1>2, <1>3, <1>4, <1>5
<1> QED
  BY <1>6 DEF Early, EarlyHeld, EarlyData, sessionVars

(* What is taken from a link belongs to the first session. *)
LEMMA EarlyTaken ==
    ASSUME KeygenTyped, Early, NEW s \in Node, NEW d \in Node, HandleSessionMessage(s, d)
    PROVE  Early'
<1> DEFINE m == Head(links[s][d])
<1>1. links[s][d] # <<>> /\ links' = Taken(links, s, d) /\ UNCHANGED dataVars
  BY DEF HandleSessionMessage, HandleInit, HandleDirectMessage, DropRoundMessage, DeferRoundMessage,
         HandleRoundMessage, Incoming, untouchedByMessage
<1>2. m \in EarlyMessage /\ links' \in LinksOf(EarlyMessage)
  BY <1>1, TakenType DEF Early
<1>3. Incoming(s, d, "keygenRoundHandler") => m \in RoundMessage /\ m.session <= 1
  BY <1>2, SessionMessageTypes DEF Incoming, EarlyMessage, KeygenTyped
<1>4. EarlyHeld'
  <2>1. CASE HandleInit(s, d) \/ HandleDirectMessage(s, d) \/ DropRoundMessage(s, d)
    BY <2>1 DEF HandleInit, HandleDirectMessage, DropRoundMessage, Early, EarlyHeld
  <2>2. CASE DeferRoundMessage(s, d)
    <3>1. /\ messages' = messages
          /\ waiting' = [waiting EXCEPT ![d] = waiting[d] \cup {[from |-> s, message |-> m]}]
      BY <2>2 DEF DeferRoundMessage
    <3>2. \A n \in Node : \A w \in waiting'[n] : w \in waiting[n] \/ w.message = m
      BY <3>1 DEF KeygenTyped, SessionOK, TimersOK
    <3> HIDE DEF m
    <3> QED
      BY <1>3, <2>2, <3>1, <3>2 DEF DeferRoundMessage, Early, EarlyHeld
  <2>3. CASE HandleRoundMessage(s, d)
    <3>1. SessionRoundProcessor(d, s, m) /\ waiting' = waiting
      BY <2>3 DEF HandleRoundMessage
    <3>2. m \in RoundMessage /\ m.session <= 1
      BY <1>3, <2>3 DEF HandleRoundMessage
    <3> HIDE DEF m
    <3> QED
      BY <3>1, <3>2, EarlyStored DEF Early
  <2> QED
    BY <2>1, <2>2, <2>3 DEF HandleSessionMessage
<1> QED
  BY <1>1, <1>2, <1>4 DEF Early, EarlyData, dataVars

(* The steps of timers bring nothing of another session. *)
LEMMA EarlyResumed ==
    ASSUME KeygenTyped, Early, NEW n \in Node,
           \/ StartKeygen(n) \/ StartNewSession(n) \/ SendShares(n) \/ RetryRoundMessage(n)
           \/ DropWaiting(n) \/ CloseSession(n) \/ UpdatePeerReplica(n)
    PROVE  Early'
<1>1. UNCHANGED dataVars
  BY DEF UpdatePeerReplica, StartKeygen, StartNewSession, SendShares, RetryRoundMessage, DropWaiting, CloseSession,
         untouchedByMessage
<1>2. links' \in LinksOf(EarlyMessage)
  <2>1. CASE StartKeygen(n)
    <3>1. [type |-> "keygenInit"] \in EarlyMessage
      BY EarlyMessages
    <3> QED
      BY <2>1, <3>1, BroadcastOneType DEF StartKeygen, Early
  <2>2. CASE SendShares(n)
    <3>1. PICK dm \in sharing[n] :
            links' = [links EXCEPT ![n] =
                        [d \in Node |-> IF d = n THEN links[n][d] ELSE Append(links[n][d], dm)]]
      BY <2>2 DEF SendShares
    <3>2. dm \in EarlyMessage
      BY EarlyMessages DEF KeygenTyped, SessionOK, TimersOK
    <3>3. \A d \in Node : links[n][d] \in Seq(EarlyMessage) /\ Append(links[n][d], dm) \in Seq(EarlyMessage)
      BY <3>2 DEF Early, LinksOf
    <3>4. [d \in Node |-> IF d = n THEN links[n][d] ELSE Append(links[n][d], dm)]
             \in [Node -> Seq(EarlyMessage)]
      BY <3>3
    <3> QED
      BY <3>1, <3>4 DEF Early, LinksOf
  <2>3. CASE \/ StartNewSession(n) \/ RetryRoundMessage(n) \/ DropWaiting(n) \/ CloseSession(n)
             \/ UpdatePeerReplica(n)
    BY <2>3 DEF UpdatePeerReplica, electionVars, StartNewSession, RetryRoundMessage, DropWaiting, CloseSession, Early
  <2> QED
    BY <2>1, <2>2, <2>3
<1>3. EarlyHeld'
  <2>1. CASE StartKeygen(n) \/ SendShares(n) \/ CloseSession(n) \/ UpdatePeerReplica(n)
    BY <2>1 DEF UpdatePeerReplica, StartKeygen, SendShares, CloseSession, untouchedByRound, Early, EarlyHeld
  <2>2. CASE StartNewSession(n)
    <3>1. waiting' = waiting /\ messages' = [messages EXCEPT ![n] = EmptyQueue]
      BY <2>2 DEF StartNewSession
    <3>2. \A k \in 1..4, j \in Node : EmptyQueue[k][j].session <= 1
      BY DEF EmptyQueue, NoEntry
    <3> QED
      BY <3>1, <3>2 DEF Early, EarlyHeld, KeygenTyped, SessionOK, RoundsOK
  <2>3. CASE RetryRoundMessage(n)
    <3>1. PICK w \in waiting[n] :
            /\ SessionRoundProcessor(n, w.from, w.message)
            /\ waiting' = [waiting EXCEPT ![n] = waiting[n] \ {w}]
      BY <2>3 DEF RetryRoundMessage
    <3>2. w.from \in Node /\ w.message \in RoundMessage /\ w.message.session <= 1
      BY CountTypes DEF Early, EarlyHeld
    <3>3. \A a \in Node : waiting'[a] \subseteq waiting[a]
      BY <3>1 DEF KeygenTyped, SessionOK, TimersOK
    <3> QED
      BY <3>1, <3>2, <3>3, EarlyStored DEF Early
  <2>4. CASE DropWaiting(n)
    <3>1. PICK w \in waiting[n] : waiting' = [waiting EXCEPT ![n] = waiting[n] \ {w}]
      BY <2>4 DEF DropWaiting
    <3>2. \A a \in Node : waiting'[a] \subseteq waiting[a]
      BY <3>1 DEF KeygenTyped, SessionOK, TimersOK
    <3> QED
      BY <2>4, <3>2 DEF DropWaiting, Early, EarlyHeld
  <2> QED
    BY <2>1, <2>2, <2>3, <2>4
<1> QED
  BY <1>1, <1>2, <1>3 DEF Early, EarlyData, dataVars

(* Nothing of another session comes up while the first one lasts. *)
LEMMA EarlyStep ==
    ASSUME KeygenTyped, TurnInv, Early, starts <= 1, [KeygenNext]_keygenVars
    PROVE  Early'
<1>1. CASE UNCHANGED keygenVars
  BY <1>1 DEF keygenVars, electionVars, sessionVars, Early, EarlyHeld, EarlyData
<1>2. ASSUME NEW n \in Node, ResumeSession(n) PROVE Early'
  BY <1>2, NeverRefused, EarlyResumed, EarlyElection DEF ResumeSession
<1>3. ASSUME NEW s \in Node, NEW d \in Node, DeliverMessage(s, d) PROVE Early'
  BY <1>3, EarlyTaken, EarlyElection DEF DeliverMessage
<1>4. ASSUME NEW n \in Node, RequestElection(n) /\ UNCHANGED sessionVars PROVE Early'
  BY <1>4, EarlyElection
<1> QED
  BY <1>1, <1>2, <1>3, <1>4, EarlyResumed, EarlyRound DEF KeygenNext

-------------------------------------------------------------------------------
(* The data of a round are there when its message is published, and no     *)
(* later round takes them away.                                            *)
LEMMA DataStay ==
    ASSUME [KeygenNext]_keygenVars, \A n \in Node : ~ VerifyRound(n)
    PROVE  UNCHANGED dataVars
<1>1. CASE UNCHANGED sessionVars
  BY <1>1 DEF sessionVars, dataVars
<1>2. CASE \E n \in Node : StartKeygen(n) \/ ResumeSession(n)
  BY <1>2 DEF StartKeygen, ResumeSession, UpdatePeerReplica, StartNewSession, RefuseSession, SendShares,
              RetryRoundMessage, DropWaiting, CloseSession, untouchedByMessage, sessionVars, dataVars
<1>3. CASE \E s, d \in Node : HandleSessionMessage(s, d)
  BY <1>3 DEF HandleSessionMessage, HandleInit, HandleDirectMessage, DropRoundMessage,
              DeferRoundMessage, HandleRoundMessage, untouchedByMessage, dataVars
<1> QED
  BY <1>1, <1>2, <1>3 DEF KeygenNext, DeliverMessage, keygenVars

(* Outside verifyCurrentRound a node says nothing, or starts anew. *)
LEMMA TurnSaid ==
    ASSUME KeygenTyped, KeygenTyped', TurnInv, [KeygenNext]_keygenVars, AskedInTurn,
           \A n \in Node : ~ VerifyRound(n)
    PROVE  \A n \in Node : Said(n)' = Said(n) \/ Said(n)' = 0
<1>1. CASE \E n \in Node : StartKeygen(n)
  <2>1. starts' = starts + 1 /\ starts \in Nat /\ sessionNo' = sessionNo
    BY <1>1, KeygenAssumption DEF StartKeygen, KeygenTyped, SessionOK, CountsOK
  <2>2. \A n \in Node : sessionNo[n] \in {starts, starts - 1}
    BY DEF TurnInv, InTurn
  <2> QED
    BY <2>1, <2>2 DEF Said, Joined
<1>2. CASE \A n \in Node : ~ StartKeygen(n)
  <2>1. SameSaid
    BY <1>2, SaidOn
  <2> QED
    BY <2>1 DEF SameSaid
<1> QED
  BY <1>1, <1>2

(* What the rounds have stored is kept by the steps that say nothing. *)
LEMMA KeyedStays ==
    ASSUME Keyed, UNCHANGED dataVars, \A n \in Node : Said(n)' = Said(n) \/ Said(n)' = 0
    PROVE  Keyed'
BY DEF Keyed, dataVars

(* A round that fails stores nothing. *)
LEMMA KeyedFailed ==
    ASSUME KeygenTyped, TurnInv, Keyed, NEW n \in Node, FailRound(n)
    PROVE  Keyed'
<1>1. \A j \in Node : Said(j)' = Said(j)
  BY SilentTurns DEF SameSaid
<1>2. UNCHANGED <<commitments, keyShare>>
  BY DEF FailRound
<1>3. /\ resting[n] > 0 /\ Joined(n) /\ \A k \in 1..4 : k = currentRound[n] => Kept(n, k, n) = 0
  BY CountTypes DEF FailRound, Verifying, TurnInv, InTurn, InOrder
<1>4. CASE currentRound[n] = 3 /\ opened' = [opened EXCEPT ![n] = Openings(n)] /\ shares' = shares
  <2>1. Said(n) = 2
    BY <1>3, <1>4 DEF Said, HasSaid, FinalRound
  <2>2. \A j \in Node : j # n => opened'[j] = opened[j]
    BY <1>4 DEF KeygenTyped, SessionOK, DataOK
  <2> QED
    BY <1>1, <1>2, <1>4, <2>1, <2>2 DEF Keyed
<1>5. CASE currentRound[n] = 4 /\ shares' = [shares EXCEPT ![n] = Received(n)] /\ opened' = opened
  <2>1. Said(n) = 3
    BY <1>3, <1>5 DEF Said, HasSaid, FinalRound
  <2>2. \A j \in Node : j # n => shares'[j] = shares[j]
    BY <1>5 DEF KeygenTyped, SessionOK, DataOK
  <2> QED
    <3>1. \A j \in Node : Said(j)' >= 4 => j # n
      BY <1>1, <2>1
    <3>2. \A j \in Node : Said(j)' >= 4 => Complete(shares'[j])
      BY <1>1, <2>2, <3>1 DEF Keyed
    <3>3. \A j \in Node : Said(j)' >= 5 =>
            shares'[j] = shares[j] /\ keyShare'[j] = [public |-> opened'[j], secret |-> shares[j]]
      BY <1>1, <1>2, <1>5, <2>1, <2>2 DEF Keyed
    <3> QED
      BY <1>1, <1>5, <3>2, <3>3 DEF Keyed
<1> QED
  BY <1>4, <1>5 DEF FailRound, Verifying

(* Each round stores what its node has heard of every validator. *)
LEMMA KeyedPublished ==
    ASSUME KeygenTyped, TurnInv, Keyed, NEW n \in Node, VerifyRound(n), ~ FailRound(n), ~ RefuseRound(n)
    PROVE  Keyed'
<1>1. PICK k \in 1..5 : RoundPublished(n, k)
  BY RoundsPublish DEF VerifyRound
<1>2. /\ Said(n) = k - 1 /\ Said(n)' = k /\ currentRound[n] = k
      /\ \A j \in Node : j # n => Said(j)' = Said(j)
  BY <1>1, PublishTurns DEF RoundPublished, Verifying
<1>3. opened \in [Node -> Key] /\ shares \in [Node -> Key]
      /\ keyShare \in [Node -> [public : Key, secret : Key]]
  BY DEF KeygenTyped, SessionOK, DataOK
<1>4. CASE k = 1
  BY <1>2, <1>4 DEF VerifyRound, KeygenRound1, KeygenRound2, KeygenRound3, KeygenRound4, KeygenRound5,
                    Verifying, dataVars, Keyed
<1>5. CASE k = 2
  BY <1>2, <1>5 DEF VerifyRound, KeygenRound1, KeygenRound2, KeygenRound3, KeygenRound4, KeygenRound5,
                    Verifying, Keyed
<1>6. CASE k = 3
  <2>1. KeygenRound3(n)
    BY <1>2, <1>6 DEF VerifyRound, KeygenRound1, KeygenRound2, KeygenRound4, KeygenRound5, Verifying
  <2>2. /\ Complete(opened'[n]) /\ UNCHANGED <<shares, keyShare>>
        /\ \A j \in Node : j # n => opened'[j] = opened[j]
    BY <1>3, <2>1 DEF KeygenRound3
  <2> QED
    BY <1>2, <1>6, <2>2 DEF Keyed, Complete
<1>7. CASE k = 4
  <2>1. KeygenRound4(n)
    BY <1>2, <1>7 DEF VerifyRound, KeygenRound1, KeygenRound2, KeygenRound3, KeygenRound5, Verifying
  <2>2. /\ Complete(shares'[n]) /\ UNCHANGED <<opened, keyShare>>
        /\ \A j \in Node : j # n => shares'[j] = shares[j]
    BY <1>3, <2>1 DEF KeygenRound4
  <2> QED
    <3>1. \A j \in Node : Said(j)' >= 4 => Complete(shares'[j])
      BY <1>2, <1>7, <2>2 DEF Keyed
    <3>2. \A j \in Node : Said(j)' >= 5 =>
            shares'[j] = shares[j] /\ keyShare'[j] = [public |-> opened'[j], secret |-> shares[j]]
      <4>1. \A j \in Node : Said(j)' >= 5 => j # n /\ Said(j) >= 5
        BY <1>2, <1>7
      <4>2. \A j \in Node : Said(j) >= 5 => keyShare[j] = [public |-> opened[j], secret |-> shares[j]]
        BY DEF Keyed
      <4> QED
        BY <2>2, <4>1, <4>2
    <3>3. \A j \in Node : Said(j)' >= 3 => Complete(opened'[j])
      <4>1. \A j \in Node : Said(j)' >= 3 => Said(j) >= 3
        BY <1>2, <1>7
      <4>2. \A j \in Node : Said(j) >= 3 => Complete(opened[j])
        BY DEF Keyed
      <4> QED
        BY <2>2, <4>1, <4>2
    <3> QED
      BY <3>1, <3>2, <3>3 DEF Keyed
<1>8. CASE k = 5
  <2>1. KeygenRound5(n)
    BY <1>2, <1>8 DEF VerifyRound, KeygenRound1, KeygenRound2, KeygenRound3, KeygenRound4, Verifying
  <2>2. /\ keyShare'[n] = [public |-> opened[n], secret |-> shares[n]]
        /\ UNCHANGED <<opened, shares>> /\ \A j \in Node : j # n => keyShare'[j] = keyShare[j]
    BY <1>3, <2>1 DEF KeygenRound5
  <2> QED
    BY <1>2, <1>8, <2>2 DEF Keyed
<1> QED
  BY <1>4, <1>5, <1>6, <1>7, <1>8

(* Every step keeps what the rounds have stored complete. *)
LEMMA KeyedStep ==
    ASSUME KeygenTyped, KeygenTyped', TurnInv, Keyed, [KeygenNext]_keygenVars, AskedInTurn
    PROVE  Keyed'
<1>1. ASSUME NEW n \in Node, VerifyRound(n) PROVE Keyed'
  <2>1. CASE FailRound(n)
    BY <2>1, KeyedFailed
  <2>2. CASE RefuseRound(n)
    BY <2>2, SilentTurns, KeyedStays DEF SameSaid, RefuseRound
  <2> QED
    BY <1>1, <2>1, <2>2, KeyedPublished
<1>2. CASE \A n \in Node : ~ VerifyRound(n)
  <2>1. UNCHANGED dataVars
    BY <1>2, DataStay
  <2>2. \A n \in Node : Said(n)' = Said(n) \/ Said(n)' = 0
    BY <1>2, TurnSaid
  <2> QED
    BY <2>1, <2>2, KeyedStays
<1> QED
  BY <1>1, <1>2

(* While a session is asked for at most once. *)
FirstInv == starts <= 1 => TurnInv /\ Early /\ Keyed

(* The request of the first session has nothing before it. *)
LEMMA StartsGrow ==
    ASSUME KeygenTyped, [KeygenNext]_keygenVars
    PROVE  /\ starts' <= 1 => starts <= 1
           /\ starts' <= 1 => AskedInTurn \/ ~ TurnInv
<1>1. ASSUME NEW n \in Node, StartKeygen(n) PROVE starts' = starts + 1
  BY <1>1 DEF StartKeygen
<1>2. CASE \A n \in Node : ~ StartKeygen(n)
  <2>1. ASSUME UNCHANGED sessionVars PROVE starts' = starts
    BY <2>1 DEF sessionVars
  <2>2. ASSUME NEW n \in Node, ResumeSession(n) \/ VerifyRound(n) PROVE starts' = starts
    BY <2>2 DEF ResumeSession, UpdatePeerReplica, StartNewSession, RefuseSession, SendShares, RetryRoundMessage,
                DropWaiting, CloseSession, untouchedByMessage, untouchedByRound, sessionVars, VerifyRound,
                KeygenRound1, KeygenRound2, KeygenRound3, KeygenRound4, KeygenRound5, FailRound, RefuseRound
  <2>3. ASSUME NEW s \in Node, NEW d \in Node, HandleSessionMessage(s, d) PROVE starts' = starts
    BY <2>3 DEF HandleSessionMessage, HandleInit, HandleDirectMessage, DropRoundMessage,
                DeferRoundMessage, HandleRoundMessage, untouchedByMessage
  <2>4. starts' = starts
    BY <1>2, <2>1, <2>2, <2>3 DEF KeygenNext, DeliverMessage, keygenVars
  <2> QED
    BY <1>2, <2>4 DEF AskedInTurn
<1>3. CASE \E n \in Node : StartKeygen(n)
  <2>1. starts' = starts + 1 /\ starts \in Nat
    BY <1>1, <1>3, KeygenAssumption DEF KeygenTyped, SessionOK, CountsOK
  <2>2. starts' <= 1 /\ TurnInv => SessionOver
    BY <2>1, NothingAtFirst
  <2> QED
    BY <2>1, <2>2 DEF AskedInTurn
<1> QED
  BY <1>2, <1>3

(* Every step keeps the invariant of the first session. *)
LEMMA FirstStep ==
    KeygenTyped /\ KeygenTyped' /\ FirstInv /\ [KeygenNext]_keygenVars => FirstInv'
<1> SUFFICES ASSUME KeygenTyped, KeygenTyped', FirstInv, [KeygenNext]_keygenVars, starts' <= 1
             PROVE  TurnInv' /\ Early' /\ Keyed'
  BY DEF FirstInv
<1>1. starts <= 1 /\ TurnInv /\ Early /\ Keyed /\ AskedInTurn
  BY StartsGrow DEF FirstInv
<1> QED
  BY <1>1, TurnStep, EarlyStep, KeyedStep

(* The invariant of the first session always holds. *)
LEMMA FirstAlways == KeygenSpec => [](KeygenTyped /\ FirstInv)
<1>1. KeygenInit => FirstInv
  BY TurnInit, EarlyInit DEF FirstInv
<1> QED
  BY <1>1, KeygenTypedInit, KeygenTypedStep, FirstStep, PTL DEF KeygenSpec

(* The first session that is asked for ends, wherever it ends, with the    *)
(* key of that session, whatever the delays are: what the queues of a      *)
(* round mix up never leaves a contribution out or puts a wrong one in     *)
(* (keygenProtocol.ts:104-145, 233-239, abstractProtocolHnadler.ts:        *)
(* 101-126).                                                               *)
THEOREM FirstSessionConcludes == KeygenSpec => [](starts <= 1 => ConcludedKey)
<1>1. KeygenTyped /\ FirstInv => (starts <= 1 => ConcludedKey)
  BY KeyedConcludes DEF FirstInv
<1> QED
  BY <1>1, FirstAlways, PTL

(* Where a session is asked for once at most, as KeygenInv says            *)
(* (keygenProtocol.ts:104-145).                                            *)
THEOREM KeygenInvHolds == ASSUME MaxStarts <= 1 PROVE KeygenSpec => []KeygenInv
<1>1. KeygenTyped /\ FirstInv => KeygenInv
  <2> SUFFICES ASSUME KeygenTyped, FirstInv PROVE KeygenInv
    OBVIOUS
  <2>1. starts <= 1
    BY KeygenAssumption DEF KeygenTyped, SessionOK, CountsOK
  <2> QED
    BY <2>1, KeyedConcludes, KeygenTypedOK DEF FirstInv, KeygenInv
<1> QED
  BY <1>1, FirstAlways, PTL
===============================================================================
