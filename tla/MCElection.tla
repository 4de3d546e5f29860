------------------------------ MODULE MCElection ------------------------------
(***************************************************************************)
(* Small instances of Election for TLC: three validators.  Elections come  *)
(* one after another, or may overlap.                                      *)
(***************************************************************************)
EXTENDS Election

ThreePorts == <<1, 2, 3>>

VARIABLE serial     \* a client asks for an election only when the last is over

Ask == \E n \in Node : RequestElection(n) /\ (serial => ElectionQuiet)
Resume(n) ==
    \/ serial /\ (OpenElectionWhen(n, FALSE) \/ AnnounceLeader(n))
    \/ ~ serial /\ ResumeElection(n)

MCVars == <<electionVars, serial>>
MCInit == ElectionInit /\ serial \in BOOLEAN
MCNext ==
    /\ \/ Ask
       \/ \E n \in Node : Resume(n)
       \/ \E s, d \in Node : HandleElectionMessage(s, d)
    /\ UNCHANGED serial
MCFairness ==
    /\ \A n \in Node : WF_MCVars(Resume(n) /\ UNCHANGED serial)
    /\ \A s, d \in Node : WF_MCVars(HandleElectionMessage(s, d) /\ UNCHANGED serial)
MCSpec == MCInit /\ [][MCNext]_MCVars /\ MCFairness

(* Elections held in turn leave every node and Redis with one leader, and  *)
(* carry no vote over from one to the next (consesnsus.ts:202-213,         *)
(* 250-262; server.ts:105, 252-254).                                       *)
ElectionSettlesInTurn == serial => ElectionSettles

(* When the leader calls for an election every node gets a new leader: the *)
(* ballots, the count, the delay and the announcement all come to an end   *)
(* (consesnsus.ts:139-274).                                                *)
RotatesLeaderInTurn ==
    \A n \in Node :
        (serial /\ leader[n] = n /\ electing[n] # <<>>) ~> (\A k \in Node : leader[k] # n)
===============================================================================
