----------------------------- MODULE ElectionTurns -----------------------------
(***************************************************************************)
(* Elections that are called for one after the other leave every node and  *)
(* Redis with one leader and no vote: for any number of validators, any of *)
(* which may call, any number of elections, and any order in which their   *)
(* packets arrive.                                                         *)
(***************************************************************************)
EXTENDS MCElection, ElectionProof

(* A step of the election; a call is made when all the others are over.    *)
TurnStep ==
    \/ \E n \in Node : RequestElection(n) /\ ElectionQuiet
    \/ \E n \in Node : (\E b \in BOOLEAN : OpenElectionWhen(n, b)) \/ AnnounceLeader(n)
    \/ \E s, d \in Node : HandleElectionMessage(s, d)

CalledInTurn == \A n \in Node : RequestElection(n) => ElectionQuiet
SerialElections == ElectionSpec /\ [][CalledInTurn]_electionVars

-------------------------------------------------------------------------------
(***************************************************************************)
(* Three validators or more.  An election is calm (nothing but words that  *)
(* restate the leader is under way), called for (a node has called and     *)
(* awaits Redis), polling, decided (its conductor awaits the 500 ms), or   *)
(* announced.                                                              *)
(***************************************************************************)
Call(l) == [type |-> "LeaderElection", leader |-> l]
Result(c) == [type |-> "SetNewLeader", leader |-> c]
Ballot(v) == [type |-> "LeaderVote", vote |-> v]
Ballots == {Ballot(v) : v \in Node}

NoVotes(n) == votes[n] = <<>>
AllFollow(l) == redisLeader = l /\ \A n \in Node : leader[n] = l
NoneCalled == \A n \in Node : electing[n] = <<>>
NoneDecided == \A n \in Node : announcing[n] = 0

Calm(l) ==
    /\ AllFollow(l) /\ NoneCalled /\ NoneDecided
    /\ \A n \in Node : NoVotes(n)
    /\ links \in LinksOf({Result(l)})

CalledFor(l) ==
    /\ AllFollow(l) /\ NoneDecided /\ Drained(links)
    /\ \A n \in Node : NoVotes(n)
    /\ \E n \in Node : electing[n] = <<l>> /\ \A k \in Node \ {n} : electing[k] = <<>>

(* Everyone else has the call before it, or its vote is on its way, or it  *)
(* has been counted; somebody's has not.                                   *)
VoterIn(vs, d) == \E i \in DOMAIN vs : vs[i].voter = d
Voted(l, d) == VoterIn(votes[l], d)
Polled(l, d) ==
    \/ links[l][d] = <<Call(l)>> /\ links[d][l] = <<>> /\ ~ Voted(l, d)
    \/ links[l][d] = <<>> /\ (\E m \in Ballots : links[d][l] = <<m>>) /\ ~ Voted(l, d)
    \/ links[l][d] = <<>> /\ links[d][l] = <<>> /\ Voted(l, d)
OnlyAt(l) == \A s, d \in Node \ {l} : links[s][d] = <<>>
Polling(l) ==
    /\ AllFollow(l) /\ NoneCalled /\ NoneDecided
    /\ \A n \in Node \ {l} : NoVotes(n) /\ Polled(l, n)
    /\ \E d \in Node \ {l} : ~ Voted(l, d)
    /\ OnlyAt(l) /\ links[l][l] \in Seq({Call(l)})

(* The conductor may still have its own call before it. *)
Decided(l, c) ==
    /\ leader[l] = c /\ redisLeader = c /\ \A n \in Node \ {l} : leader[n] = l
    /\ NoneCalled
    /\ \A n \in Node : announcing[n] = IF n = l THEN 1 ELSE 0
    /\ \A n \in Node : NoVotes(n)
    /\ OnlyAt(l) /\ \A d \in Node \ {l} : links[l][d] = <<>> /\ links[d][l] = <<>>
    /\ links[l][l] \in Seq({Call(l)})

Announced(l, c) ==
    /\ leader[l] = c /\ redisLeader = c /\ NoneCalled /\ NoneDecided
    /\ \A n \in Node : NoVotes(n)
    /\ OnlyAt(l)
    /\ \A d \in Node \ {l} :
         /\ links[d][l] = <<>>
         /\ links[l][d] = <<Result(c)>> \/ (links[l][d] = <<>> /\ leader[d] = c)
    /\ links[l][l] \in Seq({Call(l), Result(c)})

OneElection ==
    \E l \in Node : \/ Calm(l) \/ CalledFor(l) \/ Polling(l)
                    \/ \E c \in Node : Decided(l, c) \/ Announced(l, c)

(* Whatever the phase, once it is quiet they all follow one leader         *)
(* (consesnsus.ts:202-213).                                                *)
LEMMA OneSettles ==
    ASSUME OneElection, ElectionQuiet
    PROVE  \E l \in Node : AllFollow(l) /\ \A n \in Node : NoVotes(n)
<1>1. PICK l \in Node : \/ Calm(l) \/ CalledFor(l) \/ Polling(l)
                        \/ \E c \in Node : Decided(l, c) \/ Announced(l, c)
    BY DEF OneElection
<1>2. /\ \A s, d \in Node : links[s][d] = <<>>
      /\ \A n \in Node : electing[n] = <<>> /\ announcing[n] = 0
    BY DEF ElectionQuiet, Drained
<1>3. CASE Calm(l)
    BY <1>3 DEF Calm
<1>4. CASE CalledFor(l)
    BY <1>2, <1>4 DEF CalledFor
<1>5. CASE Polling(l)
    BY <1>2, <1>5 DEF Polling, Polled
<1>6. ASSUME NEW c \in Node, Decided(l, c) PROVE FALSE
    BY <1>2, <1>6 DEF Decided
<1>7. ASSUME NEW c \in Node, Announced(l, c) PROVE AllFollow(c) /\ \A n \in Node : NoVotes(n)
    BY <1>2, <1>7 DEF Announced, AllFollow
<1>. QED
    BY <1>1, <1>3, <1>4, <1>5, <1>6, <1>7

(* Among three every index that is drawn is on the ballot (217-227).       *)
LEMMA BallotHits ==
    ASSUME Cardinality(Node) >= 3, NEW l \in Node, NEW i \in VoteIndex(Len(Eligible(l)))
    PROVE  i < Len(Eligible(l))
<1>1. Len(Eligible(l)) = Cardinality(Node) - 1 /\ Cardinality(Node) \in Nat
    BY NodesCounted, FS_CardinalityType DEF Eligible
<1>. QED
    BY <1>1 DEF VoteIndex

(* There is somebody else to wait for.                                     *)
LEMMA OtherNode ==
    ASSUME Cardinality(Node) >= 3, NEW l \in Node
    PROVE  \E d \in Node : d # l
<1>1. Len(Validators) \in Nat /\ Len(Validators) >= 3
    BY NodesCounted, ValidatorsAssumption
<1>2. Validators[1] \in Node /\ Validators[2] \in Node /\ Validators[1] # Validators[2]
    BY <1>1, ValidatorsAssumption
<1>. QED
    BY <1>2

(* Who has voted once one more vote is appended (250).                     *)
LEMMA VotedMore ==
    ASSUME NEW vs \in Seq(Vote), NEW v \in Vote, NEW d
    PROVE  VoterIn(Append(vs, v), d) <=> (v.voter = d \/ VoterIn(vs, d))
<1>. USE DEF VoterIn
<1>1. /\ DOMAIN vs = 1..Len(vs) /\ DOMAIN Append(vs, v) = 1..(Len(vs) + 1) /\ Len(vs) \in Nat
      /\ Append(vs, v)[Len(vs) + 1] = v
      /\ \A i \in 1..Len(vs) : Append(vs, v)[i] = vs[i]
    BY AppendProperties, LenProperties
<1>2. Len(vs) + 1 \in DOMAIN Append(vs, v)
    BY <1>1
<1>3. \A i \in DOMAIN Append(vs, v) : i = Len(vs) + 1 \/ i \in DOMAIN vs
    BY <1>1
<1>4. \A i \in DOMAIN vs : i \in DOMAIN Append(vs, v)
    BY <1>1
<1>. HIDE DEF Vote
<1>. QED
    BY <1>1, <1>2, <1>3, <1>4

(* One link changes, and what every other link carries is the same. *)
LEMMA OneTaken ==
    ASSUME ElectionTyped, NEW s \in Node, NEW d \in Node, links[s][d] # <<>>
    PROVE  /\ Taken(links, s, d)[s][d] = Tail(links[s][d])
           /\ \A a, b \in Node : a # s \/ b # d => Taken(links, s, d)[a][b] = links[a][b]
BY DEF Taken, ElectionTyped, LinksOf

(* What is sent to all is appended to every link of the sender.            *)
LEMMA SentEverywhere ==
    ASSUME ElectionTyped, NEW n \in Node, NEW m \in ElectionMessage
    PROVE  /\ \A b \in Node : Broadcast(links, n, <<m>>)[n][b] = links[n][b] \o <<m>>
           /\ \A a, b \in Node : a # n => Broadcast(links, n, <<m>>)[a][b] = links[a][b]
BY DEF Broadcast, ElectionTyped, LinksOf

(* A call when all is quiet (139-147).                                     *)
LEMMA TurnRequested ==
    ASSUME ElectionTyped, OneElection, ElectionQuiet, NEW n \in Node, RequestElection(n)
    PROVE  OneElection'
<1>1. PICK l \in Node : AllFollow(l) /\ \A k \in Node : NoVotes(k)
    BY OneSettles
<1>2. /\ electing' = [electing EXCEPT ![n] = Append(electing[n], l)]
      /\ redisLeader' = l
      /\ UNCHANGED <<leader, votes, announcing, links>>
    BY <1>1 DEF RequestElection, ElectNewLeader, AllFollow
<1>3. electing'[n] = <<l>> /\ \A k \in Node \ {n} : electing'[k] = <<>>
    <2>1. Append(<<>>, l) = <<l>>
        OBVIOUS
    <2>. QED
        BY <1>2, <2>1 DEF ElectionQuiet, ElectionTyped, ElectionStateOK
<1>4. CalledFor(l)'
    BY <1>1, <1>2, <1>3 DEF CalledFor, AllFollow, NoVotes, NoneDecided, ElectionQuiet, Drained
<1>. QED
    BY <1>4 DEF OneElection

(* The call is opened: by the leader as a poll, by another one as a word   *)
(* that the leader leads (148-157).                                        *)
LEMMA TurnOpened ==
    ASSUME Cardinality(Node) >= 3, ElectionTyped, OneElection, NEW n \in Node,
           NEW sessionInitialized, OpenElectionWhen(n, sessionInitialized)
    PROVE  OneElection'
<1>1. electing[n] # <<>>
    BY DEF OpenElectionWhen
<1>2. PICK l \in Node : CalledFor(l)
    BY <1>1 DEF OneElection, Calm, Polling, Decided, Announced, NoneCalled
<1>3. electing[n] = <<l>> /\ \A k \in Node \ {n} : electing[k] = <<>>
    BY <1>1, <1>2 DEF CalledFor
<1>4. Head(electing[n]) = l /\ Tail(electing[n]) = <<>>
    BY <1>3
<1>5. /\ electing' = [electing EXCEPT ![n] = <<>>]
      /\ UNCHANGED <<leader, votes, announcing, redisLeader>>
      /\ \/ n = l /\ links' = Broadcast(links, n, <<Call(l)>>)
         \/ links' = Broadcast(links, n, <<Result(l)>>)
    BY <1>4 DEF OpenElectionWhen, Call, Result
<1>6. (\A k \in Node : electing'[k] = <<>>) /\ NoneCalled'
    BY <1>3, <1>5 DEF ElectionTyped, ElectionStateOK, NoneCalled
<1>7. AllFollow(l)' /\ NoneDecided' /\ \A k \in Node : NoVotes(k) /\ NoVotes(k)'
    BY <1>2, <1>5 DEF CalledFor, AllFollow, NoneDecided, NoVotes
<1>8. \A a, b \in Node : links[a][b] = <<>>
    BY <1>2 DEF CalledFor, Drained
<1>9. CASE links' = Broadcast(links, n, <<Result(l)>>)
    <2>1. NoPackets \in LinksOf({Result(l)}) /\ links = NoPackets
        BY <1>8, NoPacketsType DEF NoPackets, ElectionTyped, LinksOf
    <2>2. links' \in LinksOf({Result(l)})
        BY <1>9, <2>1, BroadcastOneType
    <2>3. Calm(l)'
        BY <1>6, <1>7, <2>2 DEF Calm
    <2>. QED
        BY <2>3 DEF OneElection
<1>10. CASE n = l /\ links' = Broadcast(links, n, <<Call(l)>>)
    <2>1. Call(l) \in ElectionMessage
        BY DEF Call, ElectionMessage
    <2>2. \A a, b \in Node : links'[a][b] = IF a = l THEN <<Call(l)>> ELSE <<>>
        <3>1. \A b \in Node : links'[l][b] = links[l][b] \o <<Call(l)>>
            BY <1>10, <2>1, SentEverywhere
        <3>2. <<>> \o <<Call(l)>> = <<Call(l)>>
            OBVIOUS
        <3>3. \A b \in Node : links'[l][b] = <<Call(l)>>
            BY <1>8, <3>1, <3>2
        <3>4. \A a, b \in Node : a # l => links'[a][b] = <<>>
            BY <1>8, <1>10, <2>1, SentEverywhere
        <3>. QED
            BY <3>3, <3>4
    <2>3. \A d \in Node \ {l} : ~ Voted(l, d) /\ votes' = votes
        BY <1>5, <1>7 DEF NoVotes, Voted, VoterIn
    <2>4. \A d \in Node \ {l} : ~ Voted(l, d)'
        BY <2>3 DEF Voted
    <2>5. \A d \in Node \ {l} : Polled(l, d)'
        BY <2>2, <2>4 DEF Polled
    <2>6. OnlyAt(l)' /\ links'[l][l] \in Seq({Call(l)})
        <3>1. <<Call(l)>> \in Seq({Call(l)})
            OBVIOUS
        <3>. QED
            BY <2>2, <3>1 DEF OnlyAt
    <2>7. \E d \in Node \ {l} : ~ Voted(l, d)'
        BY <2>4, OtherNode
    <2>8. Polling(l)'
        BY <1>6, <1>7, <2>5, <2>6, <2>7 DEF Polling
    <2>. QED
        BY <2>8 DEF OneElection
<1>. QED
    BY <1>5, <1>9, <1>10

(* The winner is announced (267-268).                                      *)
LEMMA TurnAnnounced ==
    ASSUME ElectionTyped, OneElection, NEW n \in Node, AnnounceLeader(n)
    PROVE  OneElection'
<1>1. announcing[n] > 0
    BY DEF AnnounceLeader
<1>2. ~ (0 > 0)
    OBVIOUS
<1>3. PICK l \in Node, c \in Node : Decided(l, c)
    BY <1>1, <1>2 DEF OneElection, Calm, CalledFor, Polling, Announced, NoneDecided
<1>4. n = l
    BY <1>1, <1>2, <1>3 DEF Decided
<1>5. /\ announcing' = [announcing EXCEPT ![l] = announcing[l] - 1]
      /\ links' = Broadcast(links, l, <<Result(c)>>)
      /\ UNCHANGED <<leader, votes, electing, redisLeader>>
    BY <1>3, <1>4 DEF AnnounceLeader, Decided, Result
<1>6. NoneDecided'
    BY <1>3, <1>5 DEF Decided, NoneDecided, ElectionTyped, ElectionStateOK
<1>7. Result(c) \in ElectionMessage
    BY DEF Result, ElectionMessage
<1>8. /\ \A b \in Node : links'[l][b] = links[l][b] \o <<Result(c)>>
      /\ \A a, b \in Node : a # l => links'[a][b] = links[a][b]
    <2>. DEFINE sent == Broadcast(links, l, <<Result(c)>>)
    <2>1. \A b \in Node : sent[l][b] = links[l][b] \o <<Result(c)>>
        BY <1>7, SentEverywhere
    <2>2. \A a, b \in Node : a # l => sent[a][b] = links[a][b]
        BY <1>7, SentEverywhere
    <2>3. links' = sent
        BY <1>5
    <2>. HIDE DEF sent
    <2>. QED
        BY <2>1, <2>2, <2>3
<1>9. <<>> \o <<Result(c)>> = <<Result(c)>>
    OBVIOUS
<1>10. \A d \in Node \ {l} : links'[d][l] = <<>> /\ links'[l][d] = <<Result(c)>>
    BY <1>3, <1>8, <1>9 DEF Decided
<1>11. OnlyAt(l)'
    BY <1>3, <1>8 DEF Decided, OnlyAt
<1>12. links'[l][l] \in Seq({Call(l), Result(c)})
    <2>. DEFINE S == {Call(l), Result(c)}
    <2>1. links[l][l] \in Seq(S)
        BY <1>3, SeqMonotonic DEF Decided
    <2>2. <<Result(c)>> \in Seq(S)
        OBVIOUS
    <2>. QED
        BY <1>8, <2>1, <2>2, ConcatProperties
<1>13. Announced(l, c)'
    BY <1>3, <1>5, <1>6, <1>10, <1>11, <1>12 DEF Decided, Announced, NoneCalled, NoVotes
<1>. QED
    BY <1>13 DEF OneElection

(* A direct message to another node is appended to one link.               *)
LEMMA SentOn ==
    ASSUME NEW ls \in LinksOf(ElectionMessage), NEW n \in Node, NEW k \in Node \ {n}, NEW m
    PROVE  /\ SendDirect(ls, n, k, m)[n][k] = Append(ls[n][k], m)
           /\ \A a, b \in Node : a # n \/ b # k => SendDirect(ls, n, k, m)[a][b] = ls[a][b]
BY DEF SendDirect, LinksOf

(* A call is answered by a ballot for its leader (215-239).                *)
LEMMA TurnVotes ==
    ASSUME Cardinality(Node) >= 3, ElectionTyped,
           NEW s \in Node, NEW d \in Node, HandleElectionMessage(s, d),
           NEW l \in Node, Head(links[s][d]) = Call(l)
    PROVE  /\ UNCHANGED <<leader, votes, electing, announcing, redisLeader>>
           /\ \E v \in Node : links' = SendDirect(Taken(links, s, d), d, l, Ballot(v))
<1>1. Call(l).type = "LeaderElection" /\ Call(l).leader = l
    BY DEF Call
<1>2. CastVote(s, d) \/ FailVote(s, d)
    BY <1>1 DEF HandleElectionMessage, HandleNewElectionRound, HandleNewElectionRoundVote,
       CountVote, DecideElection, HandleNewElectionRoundResult
<1>3. ~ FailVote(s, d)
    <2>1. \A i \in VoteIndex(Len(Eligible(l))) : ~ (i >= Len(Eligible(l)))
        <3>. SUFFICES ASSUME NEW i \in VoteIndex(Len(Eligible(l)))
                      PROVE  ~ (i >= Len(Eligible(l)))
            OBVIOUS
        <3>1. Len(Eligible(l)) = Len(Validators) - 1 /\ Len(Validators) \in Nat
            BY ValidatorsAssumption DEF Eligible
        <3>2. i \in Int
            BY <3>1 DEF VoteIndex
        <3>. QED
            BY <3>1, <3>2, BallotHits
    <2>. QED
        BY <1>1, <2>1 DEF FailVote
<1>4. PICK i \in VoteIndex(Len(Eligible(l))) :
          /\ i < Len(Eligible(l))
          /\ links' = SendDirect(Taken(links, s, d), d, l,
                          [type |-> "LeaderVote", vote |-> Eligible(l)[i + 1]])
    BY <1>1, <1>2, <1>3 DEF CastVote
<1>5. Eligible(l)[i + 1] \in Node
    BY <1>4, EligibleExcludesLeader
<1>. QED
    BY <1>1, <1>2, <1>3, <1>4, <1>5 DEF CastVote, Ballot

(* A ballot is counted, the last one decides (240-274).                    *)
Increased(l, d, v) == Append(votes[l], [voter |-> d, vote |-> v])
LEMMA TurnCounts ==
    ASSUME ElectionTyped, NEW s \in Node, NEW d \in Node, HandleElectionMessage(s, d),
           NEW v \in Node, Head(links[s][d]) = Ballot(v)
    PROVE  LET vs == Increased(d, s, v)
           IN  /\ links' = Taken(links, s, d) /\ UNCHANGED electing
               /\ \/ /\ ~ EveryoneVoted(vs, d) /\ votes' = [votes EXCEPT ![d] = vs]
                     /\ UNCHANGED <<leader, announcing, redisLeader>>
                  \/ /\ EveryoneVoted(vs, d) /\ votes' = [votes EXCEPT ![d] = <<>>]
                     /\ announcing' = [announcing EXCEPT ![d] = announcing[d] + 1]
                     /\ \E c \in Node : /\ leader' = [leader EXCEPT ![d] = c]
                                        /\ redisLeader' = c
<1>1. Ballot(v).type = "LeaderVote" /\ Ballot(v).vote = v
    BY DEF Ballot
<1>2. CountVote(s, d) \/ DecideElection(s, d)
    BY <1>1 DEF HandleElectionMessage, HandleNewElectionRound, HandleNewElectionRoundVote,
       CastVote, FailVote, HandleNewElectionRoundResult
<1>. DEFINE vs == Append(votes[d], [voter |-> s, vote |-> v])
<1>3. vs \in Seq(Vote)
    <2>1. [voter |-> s, vote |-> v] \in Vote /\ votes[d] \in Seq(Vote)
        BY DEF Vote, ElectionTyped, ElectionStateOK
    <2>. QED
        BY <2>1, AppendProperties
<1>4. Candidates(vs) \subseteq Node
    BY <1>3, CandidatesType
<1>5. CASE CountVote(s, d)
    BY <1>1, <1>5 DEF CountVote, Increased
<1>6. CASE DecideElection(s, d)
    <2>1. \E c \in Candidates(vs) : leader' = [leader EXCEPT ![d] = c] /\ redisLeader' = c
        BY <1>1, <1>6 DEF DecideElection
    <2>2. \E c \in Node : leader' = [leader EXCEPT ![d] = c] /\ redisLeader' = c
        BY <1>4, <2>1
    <2>. QED
        BY <1>1, <1>6, <2>2 DEF DecideElection, Increased
<1>. QED
    BY <1>2, <1>5, <1>6

(* The word of a leader is taken (202-213).                                *)
LEMMA TurnFollows ==
    ASSUME NEW s \in Node, NEW d \in Node, HandleElectionMessage(s, d),
           NEW c \in Node, Head(links[s][d]) = Result(c)
    PROVE  /\ leader' = [leader EXCEPT ![d] = c] /\ redisLeader' = c
           /\ links' = Taken(links, s, d) /\ UNCHANGED <<votes, electing, announcing>>
<1>1. Result(c).type = "SetNewLeader" /\ Result(c).leader = c
    BY DEF Result
<1>2. HandleNewElectionRoundResult(s, d)
    BY <1>1 DEF HandleElectionMessage, HandleNewElectionRound, HandleNewElectionRoundVote,
       CastVote, FailVote, CountVote, DecideElection
<1>. QED
    BY <1>1, <1>2 DEF HandleNewElectionRoundResult

(* A handler has a packet to take.                                         *)
LEMMA TakenPacket ==
    ASSUME ElectionTyped, NEW s \in Node, NEW d \in Node, HandleElectionMessage(s, d)
    PROVE  /\ links[s][d] # <<>> /\ Head(links[s][d]) \in ElectionMessage
           /\ Taken(links, s, d) \in LinksOf(ElectionMessage)
<1>1. links[s][d] # <<>>
    BY DEF HandleElectionMessage, HandleNewElectionRound, CastVote, FailVote,
       HandleNewElectionRoundVote, CountVote, DecideElection, HandleNewElectionRoundResult
<1>. QED
    BY <1>1, TakenType DEF ElectionTyped

(* While all is calm only the leader is restated (202-213).                *)
LEMMA CalmTaken ==
    ASSUME ElectionTyped, NEW l \in Node, Calm(l),
           NEW s \in Node, NEW d \in Node, HandleElectionMessage(s, d)
    PROVE  Calm(l)'
<1>1. Head(links[s][d]) = Result(l) /\ Taken(links, s, d) \in LinksOf({Result(l)})
    BY TakenPacket, TakenType DEF Calm
<1>2. /\ leader' = [leader EXCEPT ![d] = l] /\ redisLeader' = l
      /\ links' = Taken(links, s, d) /\ UNCHANGED <<votes, electing, announcing>>
    BY <1>1, TurnFollows
<1>. QED
    BY <1>1, <1>2 DEF Calm, AllFollow, NoneCalled, NoneDecided, NoVotes, ElectionTyped, ElectionStateOK

(* A poll when another node takes the call: it votes (215-239).            *)
LEMMA PollAnswered ==
    ASSUME Cardinality(Node) >= 3, ElectionTyped, NEW l \in Node, Polling(l),
           NEW d \in Node \ {l}, HandleElectionMessage(l, d)
    PROVE  Polling(l)'
<1>1. links[l][d] = <<Call(l)>> /\ links[d][l] = <<>> /\ ~ Voted(l, d)
    BY TakenPacket DEF Polling, Polled
<1>2. Head(links[l][d]) = Call(l) /\ Tail(links[l][d]) = <<>>
    BY <1>1
<1>3. PICK v \in Node : links' = SendDirect(Taken(links, l, d), d, l, Ballot(v))
    BY <1>2, TurnVotes
<1>4. UNCHANGED <<leader, votes, electing, announcing, redisLeader>>
    BY <1>2, TurnVotes
<1>. DEFINE now == Taken(links, l, d)
<1>5. /\ now[l][d] = <<>>
      /\ \A a, b \in Node : a # l \/ b # d => now[a][b] = links[a][b]
    <2>1. links[l][d] # <<>>
        BY TakenPacket
    <2>2. now[l][d] = Tail(links[l][d])
        BY <2>1, OneTaken
    <2>3. \A a, b \in Node : a # l \/ b # d => now[a][b] = links[a][b]
        BY <2>1, OneTaken
    <2>. HIDE DEF now
    <2>. QED
        BY <1>2, <2>2, <2>3
<1>6. /\ links'[d][l] = Append(now[d][l], Ballot(v))
      /\ \A a, b \in Node : a # d \/ b # l => links'[a][b] = now[a][b]
    BY <1>3, TakenPacket, SentOn
<1>. HIDE DEF now
<1>7. Append(<<>>, Ballot(v)) = <<Ballot(v)>>
    OBVIOUS
<1>8. links'[d][l] = <<Ballot(v)>> /\ links'[l][d] = <<>>
    BY <1>1, <1>5, <1>6, <1>7
<1>9. /\ links'[l][l] = links[l][l] /\ OnlyAt(l)'
      /\ \A n \in Node \ {l, d} : links'[l][n] = links[l][n] /\ links'[n][l] = links[n][l]
    BY <1>5, <1>6 DEF Polling, OnlyAt
<1>10. \A n \in Node \ {l} : /\ NoVotes(n)' <=> NoVotes(n)
                             /\ Voted(l, n)' <=> Voted(l, n)
    BY <1>4 DEF NoVotes, Voted, VoterIn
<1>11. Polled(l, d)'
    BY <1>1, <1>8, <1>10 DEF Polled, Ballots
<1>12. \A n \in Node \ {l, d} : Polled(l, n)'
    BY <1>9, <1>10 DEF Polling, Polled
<1>. QED
    BY <1>4, <1>9, <1>10, <1>11, <1>12 DEF Polling, AllFollow, NoneCalled, NoneDecided

(* Who has voted once l has counted the vote of d (250).                   *)
LEMMA VoterAdded ==
    ASSUME ElectionTyped, NEW l \in Node, NEW d \in Node, NEW v \in Node,
           NEW vs, vs = Increased(l, d, v)
    PROVE  /\ vs \in Seq(Vote)
           /\ \A n \in Node : VoterIn(vs, n) <=> (n = d \/ Voted(l, n))
<1>. DEFINE w == [voter |-> d, vote |-> v]
<1>1. w \in Vote /\ w.voter = d /\ votes[l] \in Seq(Vote)
    BY DEF Vote, ElectionTyped, ElectionStateOK
<1>2. vs = Append(votes[l], w)
    BY DEF Increased
<1>. HIDE DEF w
<1>3. ASSUME NEW n \in Node
      PROVE  VoterIn(Append(votes[l], w), n) <=> (w.voter = n \/ VoterIn(votes[l], n))
    BY <1>1, VotedMore
<1>. QED
    BY <1>1, <1>2, <1>3, AppendProperties DEF Voted

(* A poll when a vote of another node is counted: the last one decides it  *)
(* (240-274).                                                              *)
LEMMA PollCounted ==
    ASSUME Cardinality(Node) >= 3, ElectionTyped, NEW l \in Node, Polling(l),
           NEW d \in Node \ {l}, HandleElectionMessage(d, l)
    PROVE  Polling(l)' \/ \E c \in Node : Decided(l, c)'
<1>1. PICK v \in Node : links[l][d] = <<>> /\ links[d][l] = <<Ballot(v)>> /\ ~ Voted(l, d)
    BY TakenPacket DEF Polling, Polled, Ballots
<1>2. Head(links[d][l]) = Ballot(v) /\ Tail(links[d][l]) = <<>>
    BY <1>1
<1>. DEFINE vs == Increased(l, d, v)
<1>3. /\ links' = Taken(links, d, l) /\ UNCHANGED electing
      /\ \/ /\ ~ EveryoneVoted(vs, l) /\ votes' = [votes EXCEPT ![l] = vs]
            /\ UNCHANGED <<leader, announcing, redisLeader>>
         \/ /\ EveryoneVoted(vs, l) /\ votes' = [votes EXCEPT ![l] = <<>>]
            /\ announcing' = [announcing EXCEPT ![l] = announcing[l] + 1]
            /\ \E c \in Node : /\ leader' = [leader EXCEPT ![l] = c]
                               /\ redisLeader' = c
    BY <1>2, TurnCounts
<1>4. /\ links'[d][l] = <<>>
      /\ \A a, b \in Node : a # d \/ b # l => links'[a][b] = links[a][b]
    <2>. DEFINE now == Taken(links, d, l)
    <2>1. links[d][l] # <<>>
        BY TakenPacket
    <2>2. now[d][l] = Tail(links[d][l])
        BY <2>1, OneTaken
    <2>3. \A a, b \in Node : a # d \/ b # l => now[a][b] = links[a][b]
        BY <2>1, OneTaken
    <2>4. links' = now
        BY <1>3
    <2>. HIDE DEF now
    <2>. QED
        BY <1>2, <2>2, <2>3, <2>4
<1>5. /\ links'[l][l] = links[l][l] /\ OnlyAt(l)'
      /\ links'[l][d] = <<>>
      /\ \A n \in Node \ {l, d} : links'[l][n] = links[l][n] /\ links'[n][l] = links[n][l]
    BY <1>1, <1>4 DEF Polling, OnlyAt
<1>6. \A n \in Node \ {l} : EveryoneVoted(vs, l) => n = d \/ Voted(l, n)
    <2>3. \A n \in Node : VoterIn(vs, n) <=> (n = d \/ Voted(l, n))
        BY VoterAdded
    <2>. QED
        BY <2>3 DEF EveryoneVoted, VoterIn
<1>7. CASE ~ EveryoneVoted(vs, l) /\ votes' = [votes EXCEPT ![l] = vs]
    <2>1. UNCHANGED <<leader, announcing, redisLeader, electing>>
        BY <1>3, <1>7
    <2>2. \A n \in Node : Voted(l, n)' <=> (n = d \/ Voted(l, n))
        <3>1. votes'[l] = vs
            BY <1>7 DEF ElectionTyped, ElectionStateOK
        <3>2. \A n \in Node : VoterIn(vs, n) <=> (n = d \/ Voted(l, n))
            BY VoterAdded
        <3>. HIDE DEF vs
        <3>. QED
            BY <3>1, <3>2 DEF Voted
    <2>3. \A n \in Node \ {l} : NoVotes(n)'
        BY <1>7 DEF NoVotes, Polling, ElectionTyped, ElectionStateOK
    <2>4. \E n \in Node \ {l} : ~ Voted(l, n)'
        <3>1. votes'[l] = vs
            BY <1>7 DEF ElectionTyped, ElectionStateOK
        <3>. QED
            BY <1>7, <3>1 DEF EveryoneVoted, Voted, VoterIn
    <2>5. Polled(l, d)'
        BY <1>4, <1>5, <2>2 DEF Polled
    <2>6. \A n \in Node \ {l, d} : Polled(l, n)'
        BY <1>5, <2>2 DEF Polled, Polling
    <2>7. Polling(l)'
        BY <1>5, <2>1, <2>3, <2>4, <2>5, <2>6 DEF Polling, AllFollow, NoneCalled, NoneDecided
    <2>. QED
        BY <2>7
<1>8. CASE EveryoneVoted(vs, l) /\ votes' = [votes EXCEPT ![l] = <<>>]
    <2>0. announcing' = [announcing EXCEPT ![l] = announcing[l] + 1]
        BY <1>3, <1>8
    <2>1. PICK c \in Node : leader' = [leader EXCEPT ![l] = c] /\ redisLeader' = c
        BY <1>3, <1>8
    <2>2. \A n \in Node \ {l} : links'[l][n] = <<>> /\ links'[n][l] = <<>>
        BY <1>4, <1>5, <1>6, <1>8 DEF Polling, Polled
    <2>3. \A n \in Node : NoVotes(n)'
        BY <1>8 DEF NoVotes, Polling, ElectionTyped, ElectionStateOK
    <2>4. /\ leader'[l] = c /\ \A n \in Node \ {l} : leader'[n] = l
          /\ \A n \in Node : announcing'[n] = IF n = l THEN 1 ELSE 0
        BY <2>0, <2>1 DEF Polling, AllFollow, NoneDecided, ElectionTyped, ElectionStateOK
    <2>5. Decided(l, c)'
        BY <1>3, <1>5, <2>1, <2>2, <2>3, <2>4 DEF Decided, Polling, NoneCalled
    <2>. QED
        BY <2>5
<1>. HIDE DEF vs
<1>. QED
    BY <1>3, <1>7, <1>8

(* The conductor takes its own call, and its vote is lost (server.ts:105,  *)
(* 252-254).                                                               *)
LEMMA OwnTaken ==
    ASSUME Cardinality(Node) >= 3, ElectionTyped, NEW l \in Node, NEW S,
           links[l][l] \in Seq(S), HandleElectionMessage(l, l), Head(links[l][l]) = Call(l)
    PROVE  /\ UNCHANGED <<leader, votes, electing, announcing, redisLeader>>
           /\ links'[l][l] \in Seq(S)
           /\ \A a, b \in Node : a # l \/ b # l => links'[a][b] = links[a][b]
<1>. DEFINE now == Taken(links, l, l)
<1>1. links[l][l] # <<>>
    BY TakenPacket
<1>2. now[l][l] = Tail(links[l][l])
    BY <1>1, OneTaken
<1>3. \A a, b \in Node : a # l \/ b # l => now[a][b] = links[a][b]
    BY <1>1, OneTaken
<1>4. Tail(links[l][l]) \in Seq(S)
    BY <1>1
<1>5. PICK v \in Node : links' = SendDirect(Taken(links, l, l), l, l, Ballot(v))
    BY TurnVotes
<1>6. UNCHANGED <<leader, votes, electing, announcing, redisLeader>>
    BY TurnVotes
<1>7. links' = now
    BY <1>5 DEF SendDirect
<1>. HIDE DEF now
<1>. QED
    BY <1>2, <1>3, <1>4, <1>6, <1>7

(* So the conductor's own packets leave a poll a poll.                     *)
LEMMA PollKept ==
    ASSUME Cardinality(Node) >= 3, ElectionTyped, NEW l \in Node, Polling(l),
           HandleElectionMessage(l, l)
    PROVE  Polling(l)'
<1>1. links[l][l] \in Seq({Call(l)}) /\ links[l][l] # <<>>
    BY TakenPacket DEF Polling
<1>2. Head(links[l][l]) = Call(l)
    BY <1>1
<1>3. /\ UNCHANGED <<leader, votes, electing, announcing, redisLeader>>
      /\ links'[l][l] \in Seq({Call(l)})
      /\ \A a, b \in Node : a # l \/ b # l => links'[a][b] = links[a][b]
    BY <1>1, <1>2, OwnTaken
<1>4. \A n \in Node : (NoVotes(n)' <=> NoVotes(n)) /\ (Voted(l, n)' <=> Voted(l, n))
    BY <1>3 DEF NoVotes, Voted
<1>5. \A n \in Node \ {l} : Polled(l, n)'
    BY <1>3, <1>4 DEF Polling, Polled
<1>. QED
    BY <1>3, <1>4, <1>5 DEF Polling, AllFollow, NoneCalled, NoneDecided, OnlyAt

(* A poll stays one until it is decided.                                   *)
LEMMA PollTaken ==
    ASSUME Cardinality(Node) >= 3, ElectionTyped, NEW l \in Node, Polling(l),
           NEW s \in Node, NEW d \in Node, HandleElectionMessage(s, d)
    PROVE  Polling(l)' \/ \E c \in Node : Decided(l, c)'
<1>1. s = l \/ d = l
    BY TakenPacket DEF Polling, OnlyAt
<1>. QED
    BY <1>1, PollAnswered, PollCounted, PollKept

(* Between the count and the announcement only the conductor's own call    *)
(* can arrive (264-268).                                                   *)
LEMMA DecidedTaken ==
    ASSUME Cardinality(Node) >= 3, ElectionTyped, NEW l \in Node, NEW c \in Node, Decided(l, c),
           NEW s \in Node, NEW d \in Node, HandleElectionMessage(s, d)
    PROVE  Decided(l, c)'
<1>1. s = l /\ d = l
    BY TakenPacket DEF Decided, OnlyAt
<1>2. links[l][l] \in Seq({Call(l)}) /\ links[l][l] # <<>>
    BY <1>1, TakenPacket DEF Decided
<1>3. Head(links[l][l]) = Call(l)
    BY <1>2
<1>4. /\ UNCHANGED <<leader, votes, electing, announcing, redisLeader>>
      /\ links'[l][l] \in Seq({Call(l)})
      /\ \A a, b \in Node : a # l \/ b # l => links'[a][b] = links[a][b]
    BY <1>1, <1>2, <1>3, OwnTaken
<1>. QED
    BY <1>4 DEF Decided, NoneCalled, OnlyAt, NoVotes

(* Each node that takes the announcement follows the winner (202-213).     *)
LEMMA AnnouncedTaken ==
    ASSUME Cardinality(Node) >= 3, ElectionTyped, NEW l \in Node, NEW c \in Node, Announced(l, c),
           NEW s \in Node, NEW d \in Node, HandleElectionMessage(s, d)
    PROVE  Announced(l, c)'
<1>. DEFINE S == {Call(l), Result(c)}
<1>2. s = l
    BY TakenPacket DEF Announced, OnlyAt
<1>3. links[l][l] \in Seq(S) /\ links[l][d] # <<>>
    BY <1>2, TakenPacket DEF Announced
<1>4. CASE Head(links[l][d]) = Result(c)
    <2>1. /\ leader' = [leader EXCEPT ![d] = c] /\ redisLeader' = c
          /\ UNCHANGED <<votes, electing, announcing>>
        BY <1>2, <1>4, TurnFollows
    <2>2. links' = Taken(links, l, d)
        BY <1>2, <1>4, TurnFollows
    <2>. DEFINE now == Taken(links, l, d)
    <2>3. now[l][d] = Tail(links[l][d])
        BY <1>3, OneTaken
    <2>4. \A a, b \in Node : a # l \/ b # d => now[a][b] = links[a][b]
        BY <1>3, OneTaken
    <2>5. leader'[d] = c /\ \A n \in Node \ {d} : leader'[n] = leader[n]
        BY <2>1 DEF ElectionTyped, ElectionStateOK
    <2>. HIDE DEF now
    <2>6. links'[l][l] \in Seq(S)
        <3>1. d = l => Tail(links[l][l]) \in Seq(S)
            BY <1>3
        <3>. QED
            BY <1>3, <2>2, <2>3, <2>4, <3>1 DEF now
    <2>7. \A n \in Node \ {l} :
              /\ links'[n][l] = <<>>
              /\ links'[l][n] = <<Result(c)>> \/ (links'[l][n] = <<>> /\ leader'[n] = c)
        <3>0. Tail(<<Result(c)>>) = <<>>
            OBVIOUS
        <3>1. d # l => Tail(links[l][d]) = <<>>
            BY <1>3, <3>0 DEF Announced
        <3>. QED
            BY <2>2, <2>3, <2>4, <2>5, <3>1 DEF now, Announced
    <2>8. OnlyAt(l)'
        BY <2>2, <2>4 DEF now, Announced, OnlyAt
    <2>9. leader'[l] = c
        BY <2>5 DEF Announced
    <2>. QED
        BY <2>1, <2>6, <2>7, <2>8, <2>9 DEF Announced, NoneCalled, NoneDecided, NoVotes
<1>5. CASE Head(links[l][d]) # Result(c)
    <2>1. d = l
        BY <1>3, <1>5 DEF Announced
    <2>2. Head(links[l][l]) = Call(l)
        BY <1>3, <1>5, <2>1
    <2>3. /\ UNCHANGED <<leader, votes, electing, announcing, redisLeader>>
          /\ links'[l][l] \in Seq(S)
          /\ \A a, b \in Node : a # l \/ b # l => links'[a][b] = links[a][b]
        <3>. HIDE DEF S
        <3>. QED
            BY <1>2, <1>3, <2>1, <2>2, OwnTaken
    <2>. QED
        BY <2>3 DEF Announced, NoneCalled, NoneDecided, OnlyAt, NoVotes
<1>. QED
    BY <1>4, <1>5

(* Every packet taken leaves one election in one of its phases.            *)
LEMMA TurnTaken ==
    ASSUME Cardinality(Node) >= 3, ElectionTyped, OneElection,
           NEW s \in Node, NEW d \in Node, HandleElectionMessage(s, d)
    PROVE  OneElection'
<1>1. PICK l \in Node : \/ Calm(l) \/ CalledFor(l) \/ Polling(l)
                        \/ \E c \in Node : Decided(l, c) \/ Announced(l, c)
    BY DEF OneElection
<1>2. ~ CalledFor(l)
    BY TakenPacket DEF CalledFor, Drained
<1>3. Calm(l) => Calm(l)'
    BY CalmTaken
<1>4. Polling(l) => Polling(l)' \/ \E c \in Node : Decided(l, c)'
    BY PollTaken
<1>5. \A c \in Node : (Decided(l, c) => Decided(l, c)') /\ (Announced(l, c) => Announced(l, c)')
    BY DecidedTaken, AnnouncedTaken
<1>. QED
    BY <1>1, <1>2, <1>3, <1>4, <1>5 DEF OneElection

(* No step of elections in turn begins a second one (139-274).             *)
LEMMA OneElectionStep ==
    ASSUME Cardinality(Node) >= 3, ElectionTyped, OneElection, TurnStep \/ UNCHANGED electionVars
    PROVE  OneElection'
<1>1. CASE TurnStep
    BY <1>1, TurnRequested, TurnOpened, TurnAnnounced, TurnTaken DEF TurnStep
<1>2. CASE UNCHANGED electionVars
    <2>1. UNCHANGED <<leader, votes, electing, announcing, redisLeader, links>>
        BY <1>2 DEF electionVars
    <2>2. NoneCalled' <=> NoneCalled
        BY <2>1 DEF NoneCalled
    <2>3. NoneDecided' <=> NoneDecided
        BY <2>1 DEF NoneDecided
    <2>4. \A n \in Node : NoVotes(n)' <=> NoVotes(n)
        BY <2>1 DEF NoVotes
    <2>5. \A l \in Node : AllFollow(l)' <=> AllFollow(l)
        BY <2>1 DEF AllFollow
    <2>6. \A l \in Node : OnlyAt(l)' <=> OnlyAt(l)
        BY <2>1 DEF OnlyAt
    <2>7. \A l, d \in Node : (Voted(l, d)' <=> Voted(l, d)) /\ (Polled(l, d)' <=> Polled(l, d))
        BY <2>1 DEF Voted, Polled
    <2>8. \A l \in Node : Calm(l) => Calm(l)'
        BY <2>1, <2>2, <2>3, <2>4, <2>5 DEF Calm
    <2>9. \A l \in Node : CalledFor(l) => CalledFor(l)'
        BY <2>1, <2>3, <2>4, <2>5 DEF CalledFor, Drained
    <2>10. \A l \in Node : Polling(l) => Polling(l)'
        BY <2>1, <2>2, <2>3, <2>4, <2>5, <2>6, <2>7 DEF Polling
    <2>11. \A l, c \in Node : Decided(l, c) => Decided(l, c)'
        BY <2>1, <2>2, <2>4, <2>6 DEF Decided
    <2>12. \A l, c \in Node : Announced(l, c) => Announced(l, c)'
        BY <2>1, <2>2, <2>3, <2>4, <2>6 DEF Announced
    <2>. QED
        BY <2>8, <2>9, <2>10, <2>11, <2>12 DEF OneElection
<1>. QED
    BY <1>1, <1>2

(* Initially all is calm.                                                  *)
LEMMA OneElectionInit ==
    ASSUME ElectionInit
    PROVE  OneElection
<1>1. links \in LinksOf({Result(FirstLeader)})
    BY NoPacketsType DEF ElectionInit
<1>2. Calm(FirstLeader)
    BY <1>1, ElectionAssumption
    DEF ElectionInit, Calm, AllFollow, NoneCalled, NoneDecided, NoVotes
<1>. QED
    BY <1>2, ElectionAssumption DEF OneElection

-------------------------------------------------------------------------------
(***************************************************************************)
(* Any number of validators.                                               *)
(***************************************************************************)

(* Two validators restate their leader for ever (217-227).                 *)
LEMMA FewStep ==
    ASSUME Cardinality(Node) <= 2, ElectionTyped, LeaderKept,
           links \in LinksOf(RestatingIn(ElectionMessage)), TurnStep \/ UNCHANGED electionVars
    PROVE  LeaderKept' /\ links' \in LinksOf(RestatingIn(ElectionMessage))
<1>. USE DEF ElectionTyped
<1>1. ASSUME NEW n \in Node, RequestElection(n)
      PROVE  LeaderKept' /\ links' = links
    BY <1>1, PairCalled DEF RequestElection
<1>2. ASSUME NEW n \in Node, NEW b, OpenElectionWhen(n, b)
      PROVE  LeaderKept' /\ links' \in LinksOf(RestatingIn(ElectionMessage))
    BY <1>2, PairOpened
<1>3. ASSUME NEW n \in Node, AnnounceLeader(n)
      PROVE  LeaderKept' /\ links' \in LinksOf(RestatingIn(ElectionMessage))
    BY <1>3, PairResumed DEF ResumeElection
<1>4. ASSUME NEW s \in Node, NEW d \in Node, HandleElectionMessage(s, d)
      PROVE  LeaderKept' /\ links' \in LinksOf(RestatingIn(ElectionMessage))
    BY <1>4, PairHandled
<1>5. CASE UNCHANGED electionVars
    BY <1>5 DEF electionVars, LeaderKept
<1>. QED
    BY <1>1, <1>2, <1>3, <1>4, <1>5 DEF TurnStep

(* The inductive invariant of elections in turn.                           *)
TurnsInv ==
    /\ ElectionTyped
    /\ Cardinality(Node) >= 3 => OneElection
    /\ Cardinality(Node) <= 2 => LeaderKept /\ links \in LinksOf(RestatingIn(ElectionMessage))

(* It holds initially, every step in turn keeps it, and it settles what    *)
(* ElectionSettles says (139-274).                                         *)
LEMMA TurnsInit == ElectionInit => TurnsInv
<1>. SUFFICES ASSUME ElectionInit PROVE TurnsInv
    OBVIOUS
<1>1. ElectionTyped
    BY ElectionTypedInit DEF ElectionTyped
<1>2. LeaderKept /\ links \in LinksOf(RestatingIn(ElectionMessage))
    BY NoPacketsType DEF ElectionInit, LeaderKept
<1>. QED
    BY <1>1, <1>2, OneElectionInit DEF TurnsInv

(* See TurnsInit.                                                          *)
LEMMA TurnsStep ==
    ASSUME TurnsInv, TurnStep \/ UNCHANGED electionVars
    PROVE  TurnsInv'
<1>1. ElectionTyped'
    <2>1. ASSUME NEW n \in Node, NEW b, OpenElectionWhen(n, b)
          PROVE  ElectionStateOK' /\ links' \in LinksOf(ElectionMessage)
        BY <2>1, OpenElectionType DEF TurnsInv, ElectionTyped
    <2>2. CASE [ElectionNext]_electionVars
        BY <2>2, ElectionTypedStep DEF TurnsInv, ElectionTyped
    <2>. QED
        BY <2>1, <2>2 DEF TurnStep, ElectionNext, ResumeElection, ElectionTyped
<1>2. Cardinality(Node) >= 3 => OneElection'
    BY OneElectionStep DEF TurnsInv
<1>3. Cardinality(Node) <= 2 => LeaderKept' /\ links' \in LinksOf(RestatingIn(ElectionMessage))
    BY FewStep DEF TurnsInv
<1>. QED
    BY <1>1, <1>2, <1>3 DEF TurnsInv

(* See TurnsInit.                                                          *)
LEMMA TurnsSettle ==
    ASSUME TurnsInv
    PROVE  ElectionSettles
<1>1. Cardinality(Node) >= 3 \/ Cardinality(Node) <= 2
    BY NodesCounted, FS_CardinalityType
<1>2. CASE Cardinality(Node) >= 3
    BY <1>2, OneSettles DEF TurnsInv, ElectionSettles, AllFollow, NoVotes
<1>3. CASE Cardinality(Node) <= 2
    BY <1>3 DEF TurnsInv, ElectionSettles, LeaderKept
<1>. QED
    BY <1>1, <1>2, <1>3

(* Elections called for one after the other, whoever calls and whether or  *)
(* not a keygen session is active, settle on one leader and leave no vote  *)
(* behind (consesnsus.ts:139-274).                                         *)
THEOREM SerialElectionsSettle == SerialElections => []ElectionSettles
<1>1. ElectionNext /\ CalledInTurn => TurnStep
    BY ElectionAssumption
    DEF ElectionNext, CalledInTurn, ResumeElection, OpenElection, TurnStep
<1>2. TurnsInv /\ [ElectionNext]_electionVars /\ [CalledInTurn]_electionVars => TurnsInv'
    BY <1>1, TurnsStep
<1>. QED
    BY <1>2, TurnsInit, TurnsSettle, PTL DEF SerialElections, ElectionSpec

(* The same of the schedule that MCElection checks: elections that are     *)
(* held in turn settle, and the votes of one are over before the next      *)
(* (consesnsus.ts:202-213, 250-262; server.ts:105, 252-254).               *)
THEOREM ElectionSettlesInTurnHolds == MCSpec => []ElectionSettlesInTurn
<1>1. MCInit => (serial => TurnsInv)
    BY TurnsInit DEF MCInit
<1>2. (serial => TurnsInv) /\ [MCNext]_MCVars => (serial => TurnsInv)'
    <2>. SUFFICES ASSUME serial => TurnsInv, [MCNext]_MCVars, serial'
                  PROVE  TurnsInv'
        OBVIOUS
    <2>1. serial /\ TurnsInv
        BY DEF MCNext, MCVars
    <2>2. MCNext => TurnStep
        BY <2>1 DEF MCNext, Ask, Resume, TurnStep
    <2>. QED
        BY <2>1, <2>2, TurnsStep DEF MCVars
<1>3. (serial => TurnsInv) => ElectionSettlesInTurn
    BY TurnsSettle DEF ElectionSettlesInTurn
<1>. QED
    BY <1>1, <1>2, <1>3, PTL DEF MCSpec
===============================================================================
