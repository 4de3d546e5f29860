------------------------------- MODULE Election -------------------------------
(***************************************************************************)
(* Leader election between the validators: electNewLeader and the handlers *)
(* of LeaderElection, LeaderVote and SetNewLeader messages                 *)
(* (src/consensus/consesnsus.ts:139-158 and 202-274).                      *)
(*                                                                         *)
(* A handler runs to its first await in one step, as it does on the Node   *)
(* event loop; what follows the await is a step of its own, and the        *)
(* variables electing and announcing hold what it still has to do.         *)
(* Redis applies a command when it is issued.                              *)
(***************************************************************************)
EXTENDS FiniteSets, Links

CONSTANTS
    Validators,     \* the ports in the order of the "validators" list of Redis
    SessionFlag,    \* what sessionInitialized of the keygen session may read
    FirstLeader,    \* the leader every node starts from
    MaxRequests     \* bound: calls of electNewLeader by the HTTP route

ASSUME ValidatorsAssumption ==
    /\ Node \subseteq Nat
    /\ Validators \in Seq(Node)
    /\ \A n \in Node : \E i \in 1..Len(Validators) : Validators[i] = n
    /\ \A i, j \in 1..Len(Validators) : Validators[i] = Validators[j] => i = j
ASSUME ElectionAssumption ==
    /\ SessionFlag \subseteq BOOLEAN
    /\ FirstLeader \in Node
    /\ MaxRequests \in Nat

VARIABLES
    leader,         \* chain.leader of each node
    votes,          \* chain.votes: the votes a node has counted so far
    electing,       \* electNewLeader calls that await Redis: the leader each read
    announcing,     \* decided elections that await their 500 ms delay
    redisLeader,    \* the "leader" key of Redis
    requests,       \* calls of the HTTP route so far
    links

electionVars == <<leader, votes, electing, announcing, redisLeader, requests, links>>

Vote == [voter : Node, vote : Node]
ElectionMessage ==
    [type : {"LeaderElection"}, leader : Node]
        \cup [type : {"LeaderVote"}, vote : Node]
        \cup [type : {"SetNewLeader"}, leader : Node]

ElectionInit ==
    /\ leader = [n \in Node |-> FirstLeader]
    /\ votes = [n \in Node |-> <<>>]
    /\ electing = [n \in Node |-> <<>>]
    /\ announcing = [n \in Node |-> 0]
    /\ redisLeader = FirstLeader
    /\ requests = 0
    /\ links = NoPackets

-------------------------------------------------------------------------------
(***************************************************************************)
(* The ballot of one node: Math.abs(Math.floor(Math.random() * len - 1))   *)
(* picks a 0-based index into the validators other than the leader.  The   *)
(* floor ranges over -1 .. len - 2, and -1 counts as 1.                    *)
(***************************************************************************)
Position(l) == CHOOSE i \in 1..Len(Validators) : Validators[i] = l
EligibleUnfiltered(l) == Validators    \* a mutant: the leader may be voted for
Eligible(l) ==
    [i \in 1..(Len(Validators) - 1) |-> Validators[IF i < Position(l) THEN i ELSE i + 1]]
VoteIndexUnshifted(len) == 0..len    \* a mutant: the index may miss the list
VoteIndex(len) == {1} \cup 0..(len - 2)

(* Every eligible validator has a vote in vs. *)
AllVoted(vs, l) ==    \* a mutant: the leader's own vote is awaited too
    \A v \in Node : \E i \in DOMAIN vs : vs[i].voter = v
EveryoneVoted(vs, l) ==
    \A v \in Node \ {l} : \E i \in DOMAIN vs : vs[i].voter = v

(* c has the most votes, and the lowest port of the candidates that tie.   *)
Tally(vs, c) == Cardinality({i \in DOMAIN vs : vs[i].vote = c})
Candidates(vs) == {vs[i].vote : i \in DOMAIN vs}
Wins(vs, c) ==
    \A o \in Candidates(vs) :
        Tally(vs, c) > Tally(vs, o) \/ (Tally(vs, c) = Tally(vs, o) /\ c <= o)

-------------------------------------------------------------------------------
(* electNewLeader up to its first await: it writes the leader it reads.    *)
(* (No port is a public key, so its own port never replaces that leader.)  *)
ElectNewLeader(n) ==
    /\ electing' = [electing EXCEPT ![n] = Append(electing[n], leader[n])]
    /\ redisLeader' = leader[n]

(* electNewLeader is called at node n: by POST /elect-leader, at the end of a *)
(* keygen session, or when the connection to the leader is lost.           *)
RequestElection(n) ==
    /\ requests < MaxRequests
    /\ requests' = requests + 1
    /\ ElectNewLeader(n)
    /\ UNCHANGED <<leader, votes, announcing, links>>

(***************************************************************************)
(* electNewLeader after its await: the leader of the last round opens an   *)
(* election unless a keygen session is active; any other caller restates   *)
(* the leader it read before the await.                                    *)
(***************************************************************************)
OpenElectionWhen(n, sessionInitialized) ==
    /\ electing[n] # <<>>
    /\ LET l == Head(electing[n])
           type == IF ~ sessionInitialized /\ n = l THEN "LeaderElection" ELSE "SetNewLeader"
       IN  links' = Broadcast(links, n, <<[type |-> type, leader |-> l]>>)
    /\ electing' = [electing EXCEPT ![n] = Tail(electing[n])]
    /\ UNCHANGED <<leader, votes, announcing, redisLeader, requests>>
OpenElection(n) ==
    \E sessionInitialized \in SessionFlag : OpenElectionWhen(n, sessionInitialized)

(* A mutant of CastVote: the ballot leaves out the leader the voter knows. *)
CastVoteStale(s, d) ==
    /\ links[s][d] # <<>>
    /\ Head(links[s][d]).type = "LeaderElection"
    /\ \E i \in VoteIndex(Len(Eligible(leader[d]))) :
         links' = SendDirect(Taken(links, s, d), d, Head(links[s][d]).leader,
                      [type |-> "LeaderVote", vote |-> Eligible(leader[d])[i + 1]])
    /\ UNCHANGED <<leader, votes, electing, announcing, redisLeader, requests>>

(* A node votes, by a direct message to the leader that asks for votes.    *)
(* That of the leader itself is lost: it is the copy that returns.         *)
CastVote(s, d) ==
    /\ links[s][d] # <<>>
    /\ Head(links[s][d]).type = "LeaderElection"
    /\ LET l == Head(links[s][d]).leader
       IN  \E i \in VoteIndex(Len(Eligible(l))) :
             /\ i < Len(Eligible(l))
             /\ links' = SendDirect(Taken(links, s, d), d, l,
                             [type |-> "LeaderVote", vote |-> Eligible(l)[i + 1]])
    /\ UNCHANGED <<leader, votes, electing, announcing, redisLeader, requests>>

(* The index misses the list: the node restates the current leader to all. *)
FailVote(s, d) ==
    /\ links[s][d] # <<>>
    /\ Head(links[s][d]).type = "LeaderElection"
    /\ LET l == Head(links[s][d]).leader
       IN  /\ \E i \in VoteIndex(Len(Eligible(l))) : i >= Len(Eligible(l))
           /\ links' = Broadcast(Taken(links, s, d), d, <<[type |-> "SetNewLeader", leader |-> l]>>)
    /\ UNCHANGED <<leader, votes, electing, announcing, redisLeader, requests>>

(* The handler of LeaderElection takes one of the two ways. *)
HandleNewElectionRound(s, d) ==
    links[s][d] # <<>> /\ (CastVote(s, d) \/ FailVote(s, d))

(* A vote arrives and some eligible validator has not voted yet. *)
CountVote(s, d) ==
    /\ links[s][d] # <<>>
    /\ Head(links[s][d]).type = "LeaderVote"
    /\ LET vs == Append(votes[d], [voter |-> s, vote |-> Head(links[s][d]).vote])
       IN  /\ ~ EveryoneVoted(vs, d)
           /\ votes' = [votes EXCEPT ![d] = vs]
    /\ links' = Taken(links, s, d)
    /\ UNCHANGED <<leader, electing, announcing, redisLeader, requests>>

(* The last vote arrives: the winner leads at d, and d will announce it. *)
DecideElection(s, d) ==
    /\ links[s][d] # <<>>
    /\ Head(links[s][d]).type = "LeaderVote"
    /\ LET vs == Append(votes[d], [voter |-> s, vote |-> Head(links[s][d]).vote])
       IN  /\ EveryoneVoted(vs, d)
           /\ \E c \in Candidates(vs) :
                /\ Wins(vs, c)
                /\ leader' = [leader EXCEPT ![d] = c]
                /\ redisLeader' = c
    /\ votes' = [votes EXCEPT ![d] = <<>>]
    /\ announcing' = [announcing EXCEPT ![d] = announcing[d] + 1]
    /\ links' = Taken(links, s, d)
    /\ UNCHANGED <<electing, requests>>

HandleNewElectionRoundVote(s, d) == CountVote(s, d) \/ DecideElection(s, d)

(* A mutant of AnnounceLeader: without a decided election. *)
AnnounceUndecided(n) ==
    /\ announcing' = [announcing EXCEPT ![n] = announcing[n] - 1]
    /\ links' = Broadcast(links, n, <<[type |-> "SetNewLeader", leader |-> leader[n]]>>)
    /\ UNCHANGED <<leader, votes, electing, redisLeader, requests>>
(* The 500 ms are over: n announces the leader it has by now. *)
AnnounceLeader(n) ==
    /\ announcing[n] > 0
    /\ announcing' = [announcing EXCEPT ![n] = announcing[n] - 1]
    /\ links' = Broadcast(links, n, <<[type |-> "SetNewLeader", leader |-> leader[n]]>>)
    /\ UNCHANGED <<leader, votes, electing, redisLeader, requests>>

HandleNewElectionRoundResult(s, d) ==
    /\ links[s][d] # <<>>
    /\ Head(links[s][d]).type = "SetNewLeader"
    /\ leader' = [leader EXCEPT ![d] = Head(links[s][d]).leader]
    /\ redisLeader' = Head(links[s][d]).leader
    /\ links' = Taken(links, s, d)
    /\ UNCHANGED <<votes, electing, announcing, requests>>

-------------------------------------------------------------------------------
(* The steps the code takes by itself, and those a client asks for. *)
HandleElectionMessage(s, d) ==
    \/ HandleNewElectionRound(s, d)
    \/ HandleNewElectionRoundVote(s, d)
    \/ HandleNewElectionRoundResult(s, d)
ResumeElection(n) == OpenElection(n) \/ AnnounceLeader(n)

ElectionNext ==
    \/ \E n \in Node : RequestElection(n) \/ ResumeElection(n)
    \/ \E s, d \in Node : HandleElectionMessage(s, d)

ElectionSpec == ElectionInit /\ [][ElectionNext]_electionVars

(* Every packet is delivered and every await and timer ends. *)
ElectionFairness ==
    /\ \A n \in Node : WF_electionVars(ResumeElection(n))
    /\ \A s, d \in Node : WF_electionVars(HandleElectionMessage(s, d))
FairElectionSpec == ElectionSpec /\ ElectionFairness

-------------------------------------------------------------------------------
(* No packet is under way and no call of the election awaits anything. *)
ElectionQuiet ==
    /\ Drained(links)
    /\ \A n \in Node : electing[n] = <<>> /\ announcing[n] = 0

(* Types of the election state. *)
ElectionTypeOK ==
    /\ leader \in [Node -> Node]
    /\ votes \in [Node -> Seq(Vote)]
    /\ electing \in [Node -> Seq(Node)]
    /\ announcing \in [Node -> Nat]
    /\ redisLeader \in Node
    /\ requests \in 0..MaxRequests
    /\ links \in [Node -> [Node -> Seq(ElectionMessage)]]

(* No vote a node has counted, and none on its way to a node, is for that  *)
(* node: only the leader that asks for votes gets them, and its name is    *)
(* filtered from the ballots (consesnsus.ts:217, 228-232).                 *)
NoVoteForConductor ==
    \A n \in Node :
        /\ \A i \in DOMAIN votes[n] : votes[n][i].vote # n
        /\ \A s \in Node : \A i \in DOMAIN links[s][n] :
              links[s][n][i].type = "LeaderVote" => links[s][n][i].vote # n

(* A leader that closes an election it holds steps down, however many      *)
(* elections overlap and whatever votes of earlier ones it still keeps     *)
(* (consesnsus.ts:251-264).                                                *)
LeaderStepsDown ==
    [][\A n \in Node : announcing'[n] > announcing[n] => leader'[n] # n]_electionVars

(* Once everything is delivered all the nodes, and Redis, name the same    *)
(* leader (consesnsus.ts:202-213 at every node), and no vote is left of an *)
(* election that could count in the next one: the conductor, whose own     *)
(* vote never comes back to it (server.ts:105, 252-254), has waited for    *)
(* every other one (consesnsus.ts:250-262).                                *)
ElectionSettles ==
    ElectionQuiet => \A n \in Node : leader[n] = redisLeader /\ votes[n] = <<>>

(* Two validators never change their leader, however many elections they   *)
(* hold and however these overlap: the one eligible validator has index 0  *)
(* and every ballot has index 1 (consesnsus.ts:217-227).                   *)
PairKeepsLeader ==
    [][Cardinality(Node) = 2 => leader' = leader /\ redisLeader' = redisLeader]_electionVars
===============================================================================
