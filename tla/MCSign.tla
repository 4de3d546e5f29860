-------------------------------- MODULE MCSign --------------------------------
(***************************************************************************)
(* A small instance of SignSession for TLC.                                *)
(***************************************************************************)
EXTENDS SignSession

VARIABLE due        \* the timers of 1500 ms that end together

mcVars == <<signVars, due>>

(***************************************************************************)
(* A packet is delivered within the 500 ms that follow a request or a      *)
(* round, and the timers of 1500 ms end when nothing else is under way:    *)
(* those that were set since the last ones ended, in any order, and in any *)
(* order with the packets they send.  Where one has ended already, whether *)
(* a packet is read before or after the others end makes no difference.    *)
(***************************************************************************)
Lowest(nodes) == CHOOSE n \in nodes : \A j \in nodes : n <= j
Requested == \E s, d \in Node : Incoming(s, d, "signSessionInit")
Starting == {n \in Node : starting[n] > 0}
Unlisting == {n \in Node : HasRead(registry, n)}
RequestStep ==
    \/ \E s, d \in Node : HandleInit(s, d) \/ RefuseInit(s, d)
    \/ \E n \in Unlisting : UpdatePeerReplica(n)
    \/ ~ Requested /\ \E n \in Starting : n = Lowest(Starting) /\ (BeginSession(n) \/ RefuseBegin(n))

TimersSet == {t \in Node \X (1..MaxStarts) :
                 t[2] \in DOMAIN managers[t[1]] /\ managers[t[1]][t[2]].resting # <<>>}
Due(d) == \E t \in due : t[1] = d
RoundStep ==
    \/ \E n \in Node : \E i \in 1..MaxStarts :
          <<n, i>> \in due /\ VerifyRound(n, i) /\ due' = due \ {<<n, i>>}
    \/ \E s, d \in Node : Due(d) /\ DeliverMessage(s, d) /\ UNCHANGED due

(* What the nodes do by themselves, one after the other: they read what    *)
(* has arrived, in any order; and after 500 ms send the shares of a round. *)
MayRetry(m) ==
    m.waiting # {} /\ (m.active /\ AwaitsShares(m)
                          => \E w \in m.waiting : Head(w.rounds) # m.currentRound)
Reading ==
    {n \in Node : \/ \E i \in DOMAIN managers[n] : MayRetry(managers[n][i])
                  \/ \E s \in Node : links[s][n] # <<>>}
ReadStep ==
    \/ \E s, d \in Node : d = Lowest(Reading) /\ DeliverMessage(s, d)
    \/ \E n \in Node : \E i \in 1..MaxStarts : n = Lowest(Reading) /\ RetryMessage(n, i)
Sharing == {n \in Node : sharing[n] # {}}
SendFirst == \E n \in Node : n = Lowest(Sharing) /\ SendShares(n)

(* What has no choice goes first, one packet at a time: a direct message   *)
(* is kept, a round message that comes before them waits at its reader as  *)
(* well as on its link, to be handled when the reader has all of them.     *)
Simple(s, d) ==
    \/ Incoming(s, d, "signSessionDirectMessageHandler")
    \/ Incoming(s, d, "signSessionRoundHandler") /\ InUse(d) /\ AwaitsShares(Manager(d))
SimplePackets == {p \in Node \X Node : Simple(p[1], p[2])}
FirstOf(pairs) == CHOOSE p \in pairs : \A q \in pairs : p[1] * 4 + p[2] <= q[1] * 4 + q[2]
DeliverFirst ==
    \E s, d \in Node : <<s, d>> = FirstOf(SimplePackets) /\ DeliverMessage(s, d)

(* The one property about the Redis list is that of a validator without a  *)
(* key share: everywhere else a list that has been read is written at once.*)
UnlistFirst == \E n \in Node : n = Lowest(Unlisting) /\ UpdatePeerReplica(n)

TimelyNext ==
    IF keyParties = Node /\ Unlisting # {} THEN UnlistFirst /\ UNCHANGED due
    ELSE IF SimplePackets # {} THEN DeliverFirst /\ UNCHANGED due
    ELSE IF Requested \/ Starting # {} \/ Unlisting # {} THEN RequestStep /\ UNCHANGED due
    ELSE IF due # {} THEN RoundStep
    ELSE IF Sharing # {} /\ TimersSet = {} THEN SendFirst /\ UNCHANGED due
    ELSE IF Sharing = {} /\ Reading # {} THEN ReadStep /\ UNCHANGED due
    ELSE TimersSet # {} /\ due' = TimersSet /\ UNCHANGED signVars

(* The second request comes when the first session is over, or within its  *)
(* 500 ms; a third one comes when that has got them stuck.  No step of a   *)
(* session depends on the Redis list: of its values after a session two    *)
(* are taken further.                                                      *)
MayStart ==
    \/ starts < 2 /\ Starting # {}
    \/ /\ SessionsQuiet /\ (starts < 2 \/ \E n \in Node : InUse(n))
       /\ keyParties = Node => Unlisting = {} /\ registry.peers \in {Node, {}}
Request == \E n \in Node : n = 1 + (starts % 2) /\ StartSign(n)
MCNext == (MayStart /\ Request /\ UNCHANGED due) \/ TimelyNext

MCInit == SignInit /\ keyParties \in {Node, Node \ {3}} /\ due = {}
MCSpec == MCInit /\ [][MCNext]_mcVars /\ WF_mcVars(TimelyNext)
===============================================================================
