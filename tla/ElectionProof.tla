----------------------------- MODULE ElectionProof ----------------------------
(***************************************************************************)
(* Theorems about Election, for any number of validators, any order of     *)
(* the registry, any number of overlapping elections.                      *)
(***************************************************************************)
EXTENDS Election, LinksProof, FiniteSetTheorems

(* A ballot never names the leader that asks for it: it is filtered out    *)
(* (consesnsus.ts:217).                                                    *)
LEMMA EligibleExcludesLeader ==
    ASSUME NEW l \in Node, NEW i \in VoteIndex(Len(Eligible(l))), i < Len(Eligible(l))
    PROVE  Eligible(l)[i + 1] \in Node \ {l}
<1>. DEFINE p == Position(l)
            V == Validators
<1>1. V \in Seq(Node) /\ Len(V) \in Nat
    BY ValidatorsAssumption
<1>2. p \in 1..Len(V) /\ V[p] = l
    <2>1. \E j \in 1..Len(V) : V[j] = l
        BY ValidatorsAssumption
    <2>. QED
        BY <2>1 DEF Position
<1>3. i \in Nat
    BY <1>1 DEF VoteIndex
<1>4. Len(Eligible(l)) = Len(V) - 1
    BY <1>1, <1>2 DEF Eligible
<1>5. i + 1 \in 1..(Len(V) - 1)
    BY <1>1, <1>3, <1>4
<1>. DEFINE j == IF i + 1 < p THEN i + 1 ELSE i + 2
<1>6. Eligible(l)[i + 1] = V[j]
    BY <1>5, <1>3 DEF Eligible
<1>7. j \in 1..Len(V) /\ j # p
    BY <1>1, <1>2, <1>3, <1>5
<1>8. V[j] # l
    BY <1>7, <1>2, ValidatorsAssumption
<1>9. V[j] \in Node
    BY <1>7, <1>1
<1>. QED
    BY <1>6, <1>8, <1>9

-------------------------------------------------------------------------------
(***************************************************************************)
(* Type correctness.                                                       *)
(***************************************************************************)

(* electNewLeader leaves its state well typed (consesnsus.ts:139-158).     *)
LEMMA ElectNewLeaderType ==
    ASSUME leader \in [Node -> Node], electing \in [Node -> Seq(Node)],
           NEW n \in Node, ElectNewLeader(n)
    PROVE  electing' \in [Node -> Seq(Node)] /\ redisLeader' \in Node
<1>1. leader[n] \in Node /\ Append(electing[n], leader[n]) \in Seq(Node)
    OBVIOUS
<1>. QED
    BY <1>1 DEF ElectNewLeader

(* The handlers and the resumed calls of the election keep its state well  *)
(* typed, whatever set S of messages the links carry besides its own       *)
(* (consesnsus.ts:139-274).                                                *)
ElectionStateOK ==
    /\ leader \in [Node -> Node]
    /\ votes \in [Node -> Seq(Vote)]
    /\ electing \in [Node -> Seq(Node)]
    /\ announcing \in [Node -> Nat]
    /\ redisLeader \in Node
    /\ requests \in 0..MaxRequests

(* An election is opened, whatever the keygen session is said to be (148). *)
LEMMA OpenElectionType ==
    ASSUME NEW S, ElectionMessage \subseteq S, ElectionStateOK, links \in LinksOf(S),
           NEW n \in Node, NEW b, OpenElectionWhen(n, b)
    PROVE  ElectionStateOK' /\ links' \in LinksOf(S)
<1>1. Head(electing[n]) \in Node /\ Tail(electing[n]) \in Seq(Node)
    BY DEF OpenElectionWhen, ElectionStateOK
<1>2. ElectionStateOK'
    BY <1>1 DEF OpenElectionWhen, ElectionStateOK
<1>3. \A l \in Node : /\ [type |-> "LeaderElection", leader |-> l] \in S
                      /\ [type |-> "SetNewLeader", leader |-> l] \in S
    BY DEF ElectionMessage
<1>4. PICK m \in S : links' = Broadcast(links, n, <<m>>)
    BY <1>1, <1>3 DEF OpenElectionWhen
<1>. QED
    BY <1>2, <1>4, BroadcastOneType

(* The step of the election that follows an await or a delay.              *)
LEMMA ResumeElectionType ==
    ASSUME NEW S, ElectionMessage \subseteq S, ElectionStateOK, links \in LinksOf(S),
           NEW n \in Node, ResumeElection(n)
    PROVE  ElectionStateOK' /\ links' \in LinksOf(S)
<1>1. CASE OpenElection(n)
    BY <1>1, OpenElectionType DEF OpenElection
<1>2. CASE AnnounceLeader(n)
    <2>1. ElectionStateOK'
        BY <1>2 DEF AnnounceLeader, ElectionStateOK
    <2>2. [type |-> "SetNewLeader", leader |-> leader[n]] \in S
        BY DEF ElectionMessage, ElectionStateOK
    <2>3. links' \in LinksOf(S)
        BY <1>2, <2>2, BroadcastOneType DEF AnnounceLeader
    <2>. QED
        BY <2>1, <2>3
<1>. QED
    BY <1>1, <1>2 DEF ResumeElection

(* Whoever can win was voted for, and only validators are (219-239).       *)
LEMMA CandidatesType ==
    ASSUME NEW vs \in Seq(Vote)
    PROVE  Candidates(vs) \subseteq Node
<1>1. DOMAIN vs = 1..Len(vs) /\ \A i \in 1..Len(vs) : vs[i] \in Vote
    BY ElementOfSeq, LenProperties
<1>. QED
    BY <1>1 DEF Candidates, Vote

(* The handlers of election messages.  A message of one of its types is a  *)
(* message of the election: the other messages of S have other types.      *)
LEMMA HandleElectionMessageType ==
    ASSUME NEW S, ElectionMessage \subseteq S,
           \A m \in S : m.type \in {"LeaderElection", "LeaderVote", "SetNewLeader"}
                            => m \in ElectionMessage,
           ElectionStateOK, links \in LinksOf(S),
           NEW s \in Node, NEW d \in Node, HandleElectionMessage(s, d)
    PROVE  ElectionStateOK' /\ links' \in LinksOf(S)
<1>. DEFINE m == Head(links[s][d])
<1>1. /\ links[s][d] # <<>>
      /\ m.type \in {"LeaderElection", "LeaderVote", "SetNewLeader"}
    BY DEF HandleElectionMessage, HandleNewElectionRound, CastVote, FailVote,
           HandleNewElectionRoundVote, CountVote, DecideElection, HandleNewElectionRoundResult
<1>2. m \in ElectionMessage /\ Taken(links, s, d) \in LinksOf(S)
    BY <1>1, TakenType
<1>3. CASE CastVote(s, d)
    <2>. DEFINE l == m.leader
    <2>1. l \in Node
        BY <1>2, <1>3 DEF CastVote, ElectionMessage
    <2>2. PICK i \in VoteIndex(Len(Eligible(l))) :
              /\ i < Len(Eligible(l))
              /\ links' = SendDirect(Taken(links, s, d), d, l,
                              [type |-> "LeaderVote", vote |-> Eligible(l)[i + 1]])
        BY <1>3 DEF CastVote
    <2>3. [type |-> "LeaderVote", vote |-> Eligible(l)[i + 1]] \in S
        BY <2>1, <2>2, EligibleExcludesLeader DEF ElectionMessage
    <2>4. links' \in LinksOf(S)
        BY <1>2, <2>1, <2>2, <2>3, SendDirectType
    <2>. QED
        BY <1>3, <2>4 DEF CastVote, ElectionStateOK
<1>4. CASE FailVote(s, d)
    <2>1. m.leader \in Node
        BY <1>2, <1>4 DEF FailVote, ElectionMessage
    <2>2. [type |-> "SetNewLeader", leader |-> m.leader] \in S
        BY <2>1 DEF ElectionMessage
    <2>3. links' \in LinksOf(S)
        BY <1>2, <1>4, <2>2, BroadcastOneType DEF FailVote
    <2>. QED
        BY <1>4, <2>3 DEF FailVote, ElectionStateOK
<1>5. ASSUME m.type = "LeaderVote"
      PROVE  Append(votes[d], [voter |-> s, vote |-> m.vote]) \in Seq(Vote)
    <2>1. m.vote \in Node
        BY <1>2, <1>5 DEF ElectionMessage
    <2>2. [voter |-> s, vote |-> m.vote] \in Vote /\ votes[d] \in Seq(Vote)
        BY <2>1 DEF ElectionStateOK, Vote
    <2>. QED
        BY <2>2, AppendProperties
<1>6. CASE CountVote(s, d)
    BY <1>2, <1>5, <1>6 DEF CountVote, ElectionStateOK
<1>7. CASE DecideElection(s, d)
    <2>. DEFINE vs == Append(votes[d], [voter |-> s, vote |-> m.vote])
    <2>1. vs \in Seq(Vote)
        BY <1>5, <1>7 DEF DecideElection
    <2>2. Candidates(vs) \subseteq Node
        BY <2>1, CandidatesType
    <2>3. leader' \in [Node -> Node] /\ redisLeader' \in Node
        BY <1>7, <2>2 DEF DecideElection, ElectionStateOK
    <2>. QED
        BY <1>2, <1>7, <2>3 DEF DecideElection, ElectionStateOK
<1>8. CASE HandleNewElectionRoundResult(s, d)
    <2>1. m.leader \in Node
        BY <1>2, <1>8 DEF HandleNewElectionRoundResult, ElectionMessage
    <2>. QED
        BY <1>2, <1>8, <2>1 DEF HandleNewElectionRoundResult, ElectionStateOK
<1>. QED
    BY <1>3, <1>4, <1>6, <1>7, <1>8
    DEF HandleElectionMessage, HandleNewElectionRound, HandleNewElectionRoundVote

(* Initially, and after every step, the state of the election is typed     *)
(* (consesnsus.ts:139-274).                                                *)
LEMMA ElectionTypedInit == ElectionInit => ElectionStateOK /\ links \in LinksOf(ElectionMessage)
BY NoPacketsType, ElectionAssumption DEF ElectionInit, ElectionStateOK

(* See ElectionTypedInit.                                                  *)
LEMMA ElectionTypedStep ==
    ASSUME ElectionStateOK, links \in LinksOf(ElectionMessage), [ElectionNext]_electionVars
    PROVE  ElectionStateOK' /\ links' \in LinksOf(ElectionMessage)
<1>1. ASSUME NEW n \in Node, RequestElection(n)
      PROVE  ElectionStateOK' /\ links' = links
    <2>1. electing' \in [Node -> Seq(Node)] /\ redisLeader' \in Node
        BY <1>1, ElectNewLeaderType DEF RequestElection, ElectionStateOK
    <2>. QED
        BY <1>1, <2>1, ElectionAssumption DEF RequestElection, ElectionStateOK
<1>2. ASSUME NEW n \in Node, ResumeElection(n)
      PROVE  ElectionStateOK' /\ links' \in LinksOf(ElectionMessage)
    BY <1>2, ResumeElectionType
<1>3. ASSUME NEW s \in Node, NEW d \in Node, HandleElectionMessage(s, d)
      PROVE  ElectionStateOK' /\ links' \in LinksOf(ElectionMessage)
    BY <1>3, HandleElectionMessageType
<1>4. CASE UNCHANGED electionVars
    BY <1>4 DEF electionVars, ElectionStateOK
<1>. QED
    BY <1>1, <1>2, <1>3, <1>4 DEF ElectionNext

(* What makes the type invariant inductive. *)
ElectionTyped == ElectionStateOK /\ links \in LinksOf(ElectionMessage)

(* The state of the election is well typed in every reachable state        *)
(* (consesnsus.ts:139-274).                                                *)
THEOREM ElectionTypeCorrect == ElectionSpec => []ElectionTypeOK
<1>1. ElectionTyped => ElectionTypeOK
    BY DEF ElectionTyped, ElectionStateOK, ElectionTypeOK, LinksOf
<1>2. ElectionInit => ElectionTyped
    BY ElectionTypedInit DEF ElectionTyped
<1>3. ElectionTyped /\ [ElectionNext]_electionVars => ElectionTyped'
    BY ElectionTypedStep DEF ElectionTyped
<1>. QED
    BY <1>1, <1>2, <1>3, PTL DEF ElectionSpec

-------------------------------------------------------------------------------
(***************************************************************************)
(* No leader succeeds itself by an election it holds.  The invariant is    *)
(* stated by the sets the votes for one node come from, so that a step is  *)
(* a matter of which set the messages it sends belong to.                  *)
(***************************************************************************)
MessagesFor(d) == {m \in ElectionMessage : m.type = "LeaderVote" => m.vote # d}
VotesAt(d) == {v \in Vote : v.vote # d}
BallotsApart(vs, ls) ==
    \A d \in Node : vs[d] \in Seq(VotesAt(d)) /\ \A s \in Node : ls[s][d] \in Seq(MessagesFor(d))

(* Taking a packet, and sending everyone a message that is no vote, keep   *)
(* the votes for a node away from it (server.ts:104-128, 251-261).         *)
LEMMA BallotsTaken ==
    ASSUME NEW vs, NEW ls \in LinksOf(ElectionMessage), BallotsApart(vs, ls),
           NEW s \in Node, NEW d \in Node, ls[s][d] # <<>>
    PROVE  Head(ls[s][d]) \in MessagesFor(d) /\ BallotsApart(vs, Taken(ls, s, d))
<1>1. ls[s][d] \in Seq(MessagesFor(d))
    BY DEF BallotsApart
<1>2. Head(ls[s][d]) \in MessagesFor(d) /\ Tail(ls[s][d]) \in Seq(MessagesFor(d))
    BY <1>1
<1>3. \A a, b \in Node : Taken(ls, s, d)[a][b] = IF a = s /\ b = d THEN Tail(ls[s][d]) ELSE ls[a][b]
    BY DEF Taken, LinksOf
<1>. QED
    BY <1>2, <1>3 DEF BallotsApart

(* See BallotsTaken.                                                       *)
LEMMA BallotsBroadcast ==
    ASSUME NEW vs, NEW ls \in LinksOf(ElectionMessage), BallotsApart(vs, ls),
           NEW n \in Node, NEW m \in ElectionMessage, m.type # "LeaderVote"
    PROVE  BallotsApart(vs, Broadcast(ls, n, <<m>>))
<1>1. \A b \in Node : m \in MessagesFor(b)
    BY DEF MessagesFor
<1>2. \A b \in Node : ls[n][b] \o <<m>> \in Seq(MessagesFor(b))
    <2>. SUFFICES ASSUME NEW b \in Node
                  PROVE  ls[n][b] \o <<m>> \in Seq(MessagesFor(b))
        OBVIOUS
    <2>1. ls[n][b] \in Seq(MessagesFor(b)) /\ <<m>> \in Seq(MessagesFor(b))
        BY <1>1 DEF BallotsApart
    <2>. QED
        BY <2>1, ConcatProperties
<1>3. \A a, b \in Node : Broadcast(ls, n, <<m>>)[a][b] = IF a = n THEN ls[n][b] \o <<m>> ELSE ls[a][b]
    BY DEF Broadcast, LinksOf
<1>. QED
    BY <1>2, <1>3 DEF BallotsApart

(* See BallotsTaken.                                                       *)
LEMMA BallotsSent ==
    ASSUME NEW vs, NEW ls \in LinksOf(ElectionMessage), BallotsApart(vs, ls),
           NEW n \in Node, NEW d \in Node, NEW m \in MessagesFor(d)
    PROVE  BallotsApart(vs, SendDirect(ls, n, d, m))
<1>1. ls[n][d] \in Seq(MessagesFor(d))
    BY DEF BallotsApart
<1>2. Append(ls[n][d], m) \in Seq(MessagesFor(d))
    BY <1>1, AppendProperties
<1>3. \A a, b \in Node :
          SendDirect(ls, n, d, m)[a][b]
              = IF a = n /\ b = d /\ d # n THEN Append(ls[n][d], m) ELSE ls[a][b]
    BY DEF SendDirect, LinksOf
<1>. QED
    BY <1>2, <1>3 DEF BallotsApart

(* A counted vote is for another node than the one that counts it (250).   *)
LEMMA BallotCounted ==
    ASSUME ElectionStateOK, BallotsApart(votes, links), NEW s \in Node, NEW d \in Node,
           NEW m \in MessagesFor(d), m.type = "LeaderVote"
    PROVE  Append(votes[d], [voter |-> s, vote |-> m.vote]) \in Seq(VotesAt(d))
<1>1. m.vote \in Node /\ m.vote # d
    BY DEF MessagesFor, ElectionMessage
<1>2. [voter |-> s, vote |-> m.vote] \in VotesAt(d)
    BY <1>1 DEF VotesAt, Vote
<1>3. votes[d] \in Seq(VotesAt(d))
    BY DEF BallotsApart
<1>. QED
    BY <1>2, <1>3, AppendProperties

(* The inductive step: the state stays typed, the ballots stay apart, and  *)
(* a node that closes an election hands over.                              *)
LEMMA BallotsStep ==
    ASSUME ElectionStateOK, links \in LinksOf(ElectionMessage), BallotsApart(votes, links),
           [ElectionNext]_electionVars
    PROVE  /\ BallotsApart(votes, links)'
           /\ \A n \in Node : announcing'[n] > announcing[n] => leader'[n] # n
<1>. USE DEF ElectionStateOK
<1>1. ASSUME NEW n \in Node, RequestElection(n)
      PROVE  BallotsApart(votes, links)' /\ announcing' = announcing
    BY <1>1 DEF RequestElection, BallotsApart
<1>2. ASSUME NEW n \in Node, OpenElection(n)
      PROVE  BallotsApart(votes, links)' /\ announcing' = announcing
    <2>1. Head(electing[n]) \in Node
        BY <1>2 DEF OpenElection, OpenElectionWhen
    <2>2. PICK m \in ElectionMessage : m.type # "LeaderVote" /\ links' = Broadcast(links, n, <<m>>)
        BY <1>2, <2>1 DEF OpenElection, OpenElectionWhen, ElectionMessage
    <2>3. BallotsApart(votes, links')
        BY <2>2, BallotsBroadcast
    <2>. QED
        BY <1>2, <2>3 DEF OpenElection, OpenElectionWhen
<1>3. ASSUME NEW n \in Node, AnnounceLeader(n)
      PROVE  BallotsApart(votes, links)' /\ \A k \in Node : ~ (announcing'[k] > announcing[k])
    <2>. DEFINE m == [type |-> "SetNewLeader", leader |-> leader[n]]
    <2>1. m \in ElectionMessage /\ m.type # "LeaderVote"
        BY DEF ElectionMessage
    <2>2. BallotsApart(votes, links')
        BY <1>3, <2>1, BallotsBroadcast DEF AnnounceLeader
    <2>. QED
        BY <1>3, <2>2 DEF AnnounceLeader
<1>4. ASSUME NEW s \in Node, NEW d \in Node, HandleElectionMessage(s, d)
      PROVE  /\ BallotsApart(votes, links)'
             /\ \A n \in Node : announcing'[n] > announcing[n] => leader'[n] # n
    <2>. DEFINE m == Head(links[s][d])
    <2>1. links[s][d] # <<>>
        BY <1>4 DEF HandleElectionMessage, HandleNewElectionRound, CastVote, FailVote,
           HandleNewElectionRoundVote, CountVote, DecideElection, HandleNewElectionRoundResult
    <2>2. /\ m \in MessagesFor(d)
          /\ m \in ElectionMessage
          /\ BallotsApart(votes, Taken(links, s, d))
          /\ Taken(links, s, d) \in LinksOf(ElectionMessage)
        BY <2>1, BallotsTaken, TakenType
    <2>3. CASE CastVote(s, d)
        <3>. DEFINE l == m.leader
        <3>1. l \in Node
            BY <2>2, <2>3 DEF CastVote, ElectionMessage
        <3>2. PICK i \in VoteIndex(Len(Eligible(l))) :
                  /\ i < Len(Eligible(l))
                  /\ links' = SendDirect(Taken(links, s, d), d, l,
                                  [type |-> "LeaderVote", vote |-> Eligible(l)[i + 1]])
            BY <2>3 DEF CastVote
        <3>3. [type |-> "LeaderVote", vote |-> Eligible(l)[i + 1]] \in MessagesFor(l)
            BY <3>1, <3>2, EligibleExcludesLeader DEF MessagesFor, ElectionMessage
        <3>4. BallotsApart(votes, links')
            BY <2>2, <3>1, <3>2, <3>3, BallotsSent
        <3>. QED
            BY <2>3, <3>4 DEF CastVote
    <2>4. CASE FailVote(s, d)
        <3>. DEFINE r == [type |-> "SetNewLeader", leader |-> m.leader]
        <3>1. r \in ElectionMessage /\ r.type # "LeaderVote"
            BY <2>2, <2>4 DEF FailVote, ElectionMessage
        <3>2. BallotsApart(votes, links')
            BY <2>2, <2>4, <3>1, BallotsBroadcast DEF FailVote
        <3>. QED
            BY <2>4, <3>2 DEF FailVote
    <2>. DEFINE vs == Append(votes[d], [voter |-> s, vote |-> m.vote])
    <2>5. CASE CountVote(s, d)
        <3>1. vs \in Seq(VotesAt(d))
            BY <2>2, <2>5, BallotCounted DEF CountVote
        <3>2. votes' = [votes EXCEPT ![d] = vs] /\ links' = Taken(links, s, d)
            BY <2>5 DEF CountVote
        <3>3. announcing' = announcing
            BY <2>5 DEF CountVote
        <3>. HIDE DEF vs
        <3>. QED
            BY <2>2, <3>1, <3>2, <3>3 DEF BallotsApart
    <2>6. CASE DecideElection(s, d)
        <3>1. vs \in Seq(VotesAt(d))
            BY <2>2, <2>6, BallotCounted DEF DecideElection
        <3>2. PICK c \in Candidates(vs) : leader' = [leader EXCEPT ![d] = c]
            BY <2>6 DEF DecideElection
        <3>3. c # d
            <4>. HIDE DEF vs
            <4>1. DOMAIN vs = 1..Len(vs) /\ \A i \in 1..Len(vs) : vs[i] \in VotesAt(d)
                BY <3>1, ElementOfSeq, LenProperties
            <4>. QED
                BY <4>1 DEF Candidates, VotesAt
        <3>4. /\ votes' = [votes EXCEPT ![d] = <<>>]
              /\ announcing' = [announcing EXCEPT ![d] = announcing[d] + 1]
              /\ links' = Taken(links, s, d)
            BY <2>6 DEF DecideElection
        <3>5. BallotsApart(votes, links)'
            BY <2>2, <3>4 DEF BallotsApart
        <3>. QED
            BY <3>2, <3>3, <3>4, <3>5
    <2>7. CASE HandleNewElectionRoundResult(s, d)
        BY <2>2, <2>7 DEF HandleNewElectionRoundResult, BallotsApart
    <2>. QED
        BY <1>4, <2>3, <2>4, <2>5, <2>6, <2>7
        DEF HandleElectionMessage, HandleNewElectionRound, HandleNewElectionRoundVote
<1>5. CASE UNCHANGED electionVars
    BY <1>5 DEF electionVars, BallotsApart
<1>. QED
    BY <1>1, <1>2, <1>3, <1>4, <1>5 DEF ElectionNext, ResumeElection

(* The typed state with its ballots apart is an inductive invariant        *)
(* (consesnsus.ts:202-274).                                                *)
BallotsInv == ElectionStateOK /\ links \in LinksOf(ElectionMessage) /\ BallotsApart(votes, links)

(* See BallotsInv.                                                         *)
LEMMA BallotsInvariant == ElectionSpec => []BallotsInv
<1>1. ElectionInit => BallotsInv
    BY ElectionTypedInit DEF ElectionInit, BallotsApart, NoPackets, BallotsInv
<1>2. BallotsInv /\ [ElectionNext]_electionVars => BallotsInv'
    BY ElectionTypedStep, BallotsStep DEF BallotsInv
<1>. QED
    BY <1>1, <1>2, PTL DEF ElectionSpec

(* No vote counted by a node, or on its way to it, is for that node        *)
(* (consesnsus.ts:217, 228-232).                                           *)
THEOREM NoVoteForConductorHolds == ElectionSpec => []NoVoteForConductor
<1>1. BallotsInv => NoVoteForConductor
    <2>. SUFFICES ASSUME BallotsInv, NEW n \in Node
                  PROVE  /\ \A i \in DOMAIN votes[n] : votes[n][i].vote # n
                         /\ \A s \in Node : \A i \in DOMAIN links[s][n] :
                               links[s][n][i].type = "LeaderVote" => links[s][n][i].vote # n
        BY DEF NoVoteForConductor
    <2>1. \A i \in DOMAIN votes[n] : votes[n][i] \in VotesAt(n)
        BY ElementOfSeq, LenProperties DEF BallotsInv, BallotsApart
    <2>2. \A s \in Node : \A i \in DOMAIN links[s][n] : links[s][n][i] \in MessagesFor(n)
        BY ElementOfSeq, LenProperties DEF BallotsInv, BallotsApart
    <2>. QED
        BY <2>1, <2>2 DEF VotesAt, MessagesFor
<1>. QED
    BY <1>1, BallotsInvariant, PTL

(* A node that closes an election it holds hands the lead to another one   *)
(* (consesnsus.ts:251-264).                                                *)
THEOREM LeaderStepsDownHolds == ElectionSpec => LeaderStepsDown
<1>1. BallotsInv /\ [ElectionNext]_electionVars
          => [\A n \in Node : announcing'[n] > announcing[n] => leader'[n] # n]_electionVars
    BY BallotsStep DEF BallotsInv
<1>. QED
    BY <1>1, BallotsInvariant, PTL DEF ElectionSpec, LeaderStepsDown

-------------------------------------------------------------------------------
(* The list of Redis has each validator once: it is as long as they are many. *)
LEMMA NodesCounted == IsFiniteSet(Node) /\ Cardinality(Node) = Len(Validators)
<1>. DEFINE At == [i \in 1..Len(Validators) |-> Validators[i]]
<1>1. Len(Validators) \in Nat /\ \A i \in 1..Len(Validators) : Validators[i] \in Node
    BY ValidatorsAssumption
<1>2. At \in Bijection(1..Len(Validators), Node)
    BY <1>1, ValidatorsAssumption DEF Bijection, Injection, Surjection, IsInjective
<1>3. IsFiniteSet(1..Len(Validators)) /\ Cardinality(1..Len(Validators)) = Len(Validators)
    BY <1>1, FS_Interval
<1>. HIDE DEF At
<1>. QED
    BY <1>2, <1>3, FS_Bijection DEF ExistsBijection

(***************************************************************************)
(* Two validators, or one: no ballot is ever cast, and the first leader    *)
(* leads for ever, however many elections overlap.                         *)
(***************************************************************************)

(* Of two validators the other one is alone on the ballot, and its index   *)
(* is never drawn (consesnsus.ts:217-227).                                 *)
LEMMA PairHasNoBallot ==
    ASSUME Cardinality(Node) <= 2, NEW l \in Node, NEW i \in VoteIndex(Len(Eligible(l)))
    PROVE  ~ (i < Len(Eligible(l)))
<1>1. Len(Eligible(l)) \in {0, 1}
    BY NodesCounted, ValidatorsAssumption DEF Eligible
<1>. QED
    BY <1>1 DEF VoteIndex

(* What two validators say in elections: that the first leader leads.      *)
Restating(m) ==
    m.type \in {"LeaderElection", "LeaderVote", "SetNewLeader"} =>
        m.type # "LeaderVote" /\ m.leader = FirstLeader
LeaderKept ==
    /\ \A n \in Node : /\ leader[n] = FirstLeader /\ electing[n] \in Seq({FirstLeader})
                     /\ votes[n] = <<>>
    /\ redisLeader = FirstLeader
RestatingIn(S) == {m \in S : Restating(m)}

(* An election they open restates it (148-157).                            *)
LEMMA PairOpened ==
    ASSUME NEW S, ElectionMessage \subseteq S, ElectionStateOK, LeaderKept,
           links \in LinksOf(RestatingIn(S)), NEW n \in Node, NEW b, OpenElectionWhen(n, b)
    PROVE  LeaderKept' /\ links' \in LinksOf(RestatingIn(S))
<1>1. electing[n] \in Seq({FirstLeader}) /\ electing[n] # <<>>
    BY DEF LeaderKept, OpenElectionWhen
<1>2. Head(electing[n]) = FirstLeader /\ Tail(electing[n]) \in Seq({FirstLeader})
    BY <1>1
<1>3. LeaderKept'
    BY <1>2 DEF OpenElectionWhen, LeaderKept, ElectionStateOK
<1>4. /\ [type |-> "LeaderElection", leader |-> FirstLeader] \in RestatingIn(S)
      /\ [type |-> "SetNewLeader", leader |-> FirstLeader] \in RestatingIn(S)
    BY ElectionAssumption DEF RestatingIn, Restating, ElectionMessage
<1>5. PICK m \in RestatingIn(S) : links' = Broadcast(links, n, <<m>>)
    BY <1>2, <1>4 DEF OpenElectionWhen
<1>. QED
    BY <1>3, <1>5, BroadcastOneType

(* So does an announcement (267-268).                                      *)
LEMMA PairResumed ==
    ASSUME NEW S, ElectionMessage \subseteq S, ElectionStateOK, LeaderKept,
           links \in LinksOf(RestatingIn(S)), NEW n \in Node, ResumeElection(n)
    PROVE  LeaderKept' /\ links' \in LinksOf(RestatingIn(S))
<1>1. CASE OpenElection(n)
    BY <1>1, PairOpened DEF OpenElection
<1>2. CASE AnnounceLeader(n)
    <2>1. [type |-> "SetNewLeader", leader |-> leader[n]] \in RestatingIn(S)
        BY ElectionAssumption DEF RestatingIn, Restating, ElectionMessage, LeaderKept
    <2>2. links' \in LinksOf(RestatingIn(S))
        BY <1>2, <2>1, BroadcastOneType DEF AnnounceLeader
    <2>3. LeaderKept'
        BY <1>2 DEF AnnounceLeader, LeaderKept
    <2>. QED
        BY <2>2, <2>3
<1>. QED
    BY <1>1, <1>2 DEF ResumeElection

(* So does the answer to a call, and the word of the other one (202-239).  *)
LEMMA PairHandled ==
    ASSUME NEW S, ElectionMessage \subseteq S, ElectionStateOK, LeaderKept,
           Cardinality(Node) <= 2, links \in LinksOf(RestatingIn(S)),
           NEW s \in Node, NEW d \in Node, HandleElectionMessage(s, d)
    PROVE  LeaderKept' /\ links' \in LinksOf(RestatingIn(S))
<1>. DEFINE m == Head(links[s][d])
<1>1. links[s][d] # <<>> /\ m.type \in {"LeaderElection", "LeaderVote", "SetNewLeader"}
    BY DEF HandleElectionMessage, HandleNewElectionRound, CastVote, FailVote,
           HandleNewElectionRoundVote, CountVote, DecideElection, HandleNewElectionRoundResult
<1>2. m \in RestatingIn(S) /\ Taken(links, s, d) \in LinksOf(RestatingIn(S))
    BY <1>1, TakenType
<1>3. m.type # "LeaderVote" /\ m.leader = FirstLeader
    BY <1>1, <1>2 DEF RestatingIn, Restating
<1>4. CASE CastVote(s, d)
    <2>1. \E i \in VoteIndex(Len(Eligible(m.leader))) : i < Len(Eligible(m.leader))
        BY <1>4 DEF CastVote
    <2>. QED
        BY <1>3, <2>1, PairHasNoBallot, ElectionAssumption
<1>5. CASE FailVote(s, d)
    <2>1. [type |-> "SetNewLeader", leader |-> FirstLeader] \in RestatingIn(S)
        BY ElectionAssumption DEF RestatingIn, Restating, ElectionMessage
    <2>2. links' = Broadcast(Taken(links, s, d), d, <<[type |-> "SetNewLeader", leader |-> FirstLeader]>>)
        BY <1>3, <1>5 DEF FailVote
    <2>3. LeaderKept'
        BY <1>5 DEF FailVote, LeaderKept
    <2>. QED
        BY <1>2, <2>1, <2>2, <2>3, BroadcastOneType
<1>6. CASE HandleNewElectionRoundResult(s, d)
    <2>1. LeaderKept'
        BY <1>3, <1>6 DEF HandleNewElectionRoundResult, LeaderKept, ElectionStateOK
    <2>. QED
        BY <1>2, <1>6, <2>1 DEF HandleNewElectionRoundResult
<1>7. ~ CountVote(s, d) /\ ~ DecideElection(s, d)
    BY <1>3 DEF CountVote, DecideElection
<1>. QED
    BY <1>4, <1>5, <1>6, <1>7
    DEF HandleElectionMessage, HandleNewElectionRound, HandleNewElectionRoundVote

(* And so does a call of electNewLeader (139-147).                         *)
LEMMA PairCalled ==
    ASSUME ElectionStateOK, LeaderKept, NEW n \in Node, ElectNewLeader(n),
           UNCHANGED <<leader, votes>>
    PROVE  LeaderKept'
<1>1. electing[n] \in Seq({FirstLeader}) /\ leader[n] = FirstLeader
    BY DEF LeaderKept
<1>2. Append(electing[n], leader[n]) \in Seq({FirstLeader})
    BY <1>1, AppendProperties
<1>. QED
    BY <1>1, <1>2 DEF ElectNewLeader, LeaderKept, ElectionStateOK
===============================================================================
