------------------------------- MODULE MCKeygen -------------------------------
(***************************************************************************)
(* Small instances of KeygenSession for TLC.                               *)
(***************************************************************************)
EXTENDS KeygenSession

TwoPorts == <<1, 2>>
ThreePorts == <<1, 2, 3>>
OnlyIdle == {FALSE}

(***************************************************************************)
(* The delay of 1500 ms outlasts the delivery of a packet, the 500 ms, the *)
(* retries after 200 ms and the difference between two nodes: when it ends *)
(* everyone is in the round, and of earlier rounds nothing is under way.   *)
(***************************************************************************)
OfRound(m, k) == m.type = "keygenRoundHandler" => m.round = k
Settled(k) ==
    \A n \in Node :
        /\ currentRound[n] = k /\ starting[n] = 0
        /\ AwaitsShares(n) \/ waiting[n] = {}
        /\ \A d \in Node : \A i \in DOMAIN links[n][d] :
              links[n][d][i].type # "keygenInit" /\ OfRound(links[n][d][i], k)

RoundsDelivered ==
    \A n, d \in Node : \A i \in DOMAIN links[n][d] : links[n][d][i].type # "keygenRoundHandler"

(* The 200 ms and the 500 ms of an election outlast a packet too. *)
TimelyStep ==
    \/ \E n \in Node :
         \/ UpdatePeerReplica(n)
         \/ StartNewSession(n)
         \/ RefuseSession(n)
         \/ SendShares(n)
         \/ RetryRoundMessage(n)
         \/ Settled(currentRound[n]) /\ VerifyRound(n)
         \/ RoundsDelivered /\ CloseSession(n)
         \/ OpenElectionWhen(n, currentRound[n] > 0) /\ UNCHANGED sessionVars
         \/ Drained(links) /\ AnnounceLeader(n) /\ UNCHANGED sessionVars
    \/ \E s, d \in Node : DeliverMessage(s, d)

(* A message that will wait is read first: whether it waits on its link or *)
(* at its reader, it is handled only when the reader has all its shares.   *)
SomeDeferred == \E s, d \in Node : Incoming(s, d, "keygenRoundHandler") /\ AwaitsShares(d)
TimelyNext ==
    IF SomeDeferred THEN \E s, d \in Node : DeferRoundMessage(s, d) ELSE TimelyStep

SerialNext == (SessionsQuiet /\ \E n \in Node : StartKeygen(n)) \/ TimelyNext
SerialSpec == KeygenInit /\ [][SerialNext]_keygenVars /\ WF_keygenVars(TimelyNext)

(***************************************************************************)
(* One reader is as slow as it likes.  A packet to anyone else is handled  *)
(* before anything else happens, and a message that has waited next.  The  *)
(* election that follows begins when the session is over everywhere.       *)
(***************************************************************************)
SlowReader == 3
Arriving == {<<d, s>> \in (Node \ {SlowReader}) \X Node : links[s][d] # <<>>}
Retrying == {n \in Node \ {SlowReader} : waiting[n] # {} /\ ~ AwaitsShares(n)}
First(pairs) == CHOOSE p \in pairs : \A q \in pairs : 3 * p[1] + p[2] <= 3 * q[1] + q[2]
OneSlowReader ==
    /\ (\E n \in Node : InSession(n)) => \A n \in Node : Len(electing'[n]) >= Len(electing[n])
    /\ IF Arriving # {}
       THEN LET p == First(Arriving)
                now == links[p[2]][p[1]]
                next == links'[p[2]][p[1]]
            IN  next # now /\ Len(next) <= Len(now)
       ELSE Retrying # {} => \E n \in Retrying : waiting'[n] # waiting[n]
===============================================================================
