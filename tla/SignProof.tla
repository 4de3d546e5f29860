------------------------------- MODULE SignProof -------------------------------
(***************************************************************************)
(* Theorems about SignSession, for any number of validators and requests.  *)
(***************************************************************************)
EXTENDS MCSign, LinksProof, FiniteSetTheorems

-------------------------------------------------------------------------------
(***************************************************************************)
(* Types, of a session manager, of what the round objects hold and of the  *)
(* whole state.                                                            *)
(***************************************************************************)
QueueEntry == [round : 0..4, share : Nat, deltas : Key]
Queue == [1..4 -> [Node -> QueueEntry]]
Share == [from : Node, round : 1..3, share : Nat, c : Nat, k : Nat, mask : Nat]
Waiting == [from : Node, message : RoundMessage, rounds : Seq(1..3)]
SessionManager ==
    [active : BOOLEAN, currentRound : Nat, finished : SUBSET Nat, messages : Queue,
     directMessages : [1..3 -> Seq(Share)], broadcastHashes : SUBSET Nat,
     dmHashes : [1..3 -> Seq(Nat)], signature : SigmaShare, resting : Seq(Seq(1..3)),
     waiting : SUBSET Waiting]
Store ==
    [out1 : Nat, in2 : Nat, K : Key, out2 : Nat \X Nat, in3 : Nat \X Nat, Gamma : Key,
     alphas : [Node -> Product], out3 : Nat, in4 : Nat, Delta : Key, out4 : SigmaShare,
     in5 : SigmaShare, Sigma : [Node -> SigmaShare]]
SharesOfRound == [round : 1..3, share : Nat, c : Nat, ks : Key, mask : Nat]

RoundsOK ==
    /\ picks \in Key /\ masks \in Key
    /\ contributions \in [Node -> Seq(Contribution)]
    /\ sigmas \in [Node -> Seq(SigmaShare)]
    /\ store \in [Node -> Store]
RestOK ==
    /\ starting \in [Node -> Nat]
    /\ sharing \in [Node -> SUBSET SharesOfRound]
    /\ keyParties \subseteq Node /\ registry \in RegistryOf(Node)
    /\ starts \in 0..MaxStarts
ManagersOK == managers \in [Node -> Seq(SessionManager)]
SignTyped == links \in LinksOf(SignMessage) /\ ManagersOK /\ RoundsOK /\ RestOK

-------------------------------------------------------------------------------
(***************************************************************************)
(* The requests that are on their way to a node: each is a place on a      *)
(* link.                                                                   *)
(***************************************************************************)
InitsOn(ls, n) ==
    {x \in Node \X (Nat \ {0}) :
        x[2] \in DOMAIN ls[x[1]][n] /\ ls[x[1]][n][x[2]].type = "signSessionInit"}

(* What is taken off a link is no request to anyone else, and leaves one   *)
(* request less to its reader if it was one (server.ts:302-325).           *)
LEMMA InitsTaken ==
    ASSUME NEW ls \in LinksOf(SignMessage), NEW s \in Node, NEW d \in Node, ls[s][d] # <<>>,
           IsFiniteSet(InitsOn(ls, d))
    PROVE  /\ \A n \in Node \ {d} : InitsOn(Taken(ls, s, d), n) = InitsOn(ls, n)
           /\ IsFiniteSet(InitsOn(Taken(ls, s, d), d))
           /\ Cardinality(InitsOn(Taken(ls, s, d), d)) <= Cardinality(InitsOn(ls, d))
           /\ Head(ls[s][d]).type = "signSessionInit"
                => Cardinality(InitsOn(Taken(ls, s, d), d)) + 1 <= Cardinality(InitsOn(ls, d))
<1> DEFINE new == Taken(ls, s, d)
<1>1. /\ \A a, b \in Node : ls[a][b] \in Seq(SignMessage)
      /\ \A a, b \in Node : new[a][b] = IF a = s /\ b = d THEN Tail(ls[s][d]) ELSE ls[a][b]
  BY DEF LinksOf, Taken
<1> HIDE DEF new
<1>2. \A n \in Node \ {d} : InitsOn(new, n) = InitsOn(ls, n)
  BY <1>1 DEF InitsOn
<1> DEFINE T == InitsOn(ls, d) \ (IF Head(ls[s][d]).type = "signSessionInit" THEN {<<s, 1>>} ELSE {})
           back == [x \in InitsOn(new, d) |-> IF x[1] = s THEN <<s, x[2] + 1>> ELSE x]
<1>3. Len(ls[s][d]) \in Nat \ {0} /\ ls[s][d][1] = Head(ls[s][d])
  BY <1>1
<1>4. back \in Injection(InitsOn(new, d), T)
  <2>1. ASSUME NEW x \in InitsOn(new, d) PROVE back[x] \in T
    <3>1. PICK a \in Node, i \in Nat \ {0} : x = <<a, i>>
      BY DEF InitsOn
    <3>2. i \in DOMAIN new[a][d] /\ new[a][d][i].type = "signSessionInit"
      BY <3>1 DEF InitsOn
    <3>3. CASE a = s
      <4> DEFINE q == ls[s][d]
      <4>0. q \in Seq(SignMessage) /\ q # <<>> /\ i \in DOMAIN Tail(q) /\ Tail(q)[i].type = "signSessionInit"
        BY <1>1, <3>2, <3>3
      <4> HIDE DEF q
      <4>3. i + 1 \in DOMAIN q /\ q[i + 1].type = "signSessionInit"
        BY <4>0, <3>1
      <4>1. i + 1 \in DOMAIN ls[s][d] /\ ls[s][d][i + 1].type = "signSessionInit"
        BY <4>3 DEF q
      <4>2. back[x] = <<s, i + 1>>
        BY <3>1, <3>3
      <4>4. <<s, i + 1>> \in InitsOn(ls, d) /\ <<s, i + 1>> # <<s, 1>>
        BY <3>1, <4>1 DEF InitsOn
      <4> QED
        BY <4>2, <4>4
    <3>4. CASE a # s
      BY <1>1, <3>1, <3>2, <3>4 DEF InitsOn
    <3> QED
      BY <3>3, <3>4
  <2>2. ASSUME NEW x \in InitsOn(new, d), NEW y \in InitsOn(new, d), back[x] = back[y] PROVE x = y
    <3>1. PICK a \in Node, i \in Nat \ {0} : x = <<a, i>>
      BY DEF InitsOn
    <3>2. PICK b \in Node, k \in Nat \ {0} : y = <<b, k>>
      BY DEF InitsOn
    <3>3. back[x] = (IF a = s THEN <<s, i + 1>> ELSE <<a, i>>) /\ back[y] = (IF b = s THEN <<s, k + 1>> ELSE <<b, k>>)
      BY <3>1, <3>2
    <3> QED
      BY <2>2, <3>1, <3>2, <3>3
  <2> HIDE DEF T
  <2>3. back \in [InitsOn(new, d) -> T]
    BY <2>1
  <2> HIDE DEF back
  <2>4. \A x, y \in InitsOn(new, d) : back[x] = back[y] => x = y
    BY <2>2
  <2>5. DOMAIN back = InitsOn(new, d)
    BY <2>3
  <2> QED
    BY <2>3, <2>4, <2>5 DEF Injection, IsInjective
<1>5. /\ IsFiniteSet(T)
      /\ Cardinality(T) <= Cardinality(InitsOn(ls, d))
      /\ Head(ls[s][d]).type = "signSessionInit" => Cardinality(T) + 1 = Cardinality(InitsOn(ls, d))
  <2>1. CASE Head(ls[s][d]).type = "signSessionInit"
    <3>1. <<s, 1>> \in InitsOn(ls, d)
      BY <1>3, <2>1 DEF InitsOn
    <3>2. Cardinality(InitsOn(ls, d)) \in Nat
      BY FS_CardinalityType
    <3>3. T = InitsOn(ls, d) \ {<<s, 1>>}
      BY <2>1
    <3> HIDE DEF T
    <3>4. IsFiniteSet(T) /\ Cardinality(T) = Cardinality(InitsOn(ls, d)) - 1
      BY <3>1, <3>3, FS_RemoveElement
    <3> QED
      BY <3>2, <3>4
  <2>2. CASE Head(ls[s][d]).type # "signSessionInit"
    <3>1. T = InitsOn(ls, d) /\ Cardinality(T) \in Nat
      BY <2>2, FS_CardinalityType
    <3> QED
      BY <2>2, <3>1
  <2> QED
    BY <2>1, <2>2
<1>6. IsFiniteSet(InitsOn(new, d)) /\ Cardinality(InitsOn(new, d)) <= Cardinality(T)
  <2> HIDE DEF T, back
  <2> QED
    BY <1>4, <1>5, FS_Injection DEF ExistsInjection
<1>7. Cardinality(T) \in Nat /\ Cardinality(InitsOn(new, d)) \in Nat /\ Cardinality(InitsOn(ls, d)) \in Nat
  BY <1>5, <1>6, FS_CardinalityType
<1> HIDE DEF T, back
<1> QED
  BY <1>2, <1>5, <1>6, <1>7 DEF new

(* A round message or a share that is sent is no request.                  *)
LEMMA InitsSent ==
    ASSUME NEW ls \in LinksOf(SignMessage), NEW new,
           \A s, d \in Node : \/ new[s][d] = ls[s][d]
                              \/ \E m : new[s][d] = Append(ls[s][d], m) /\ m.type # "signSessionInit"
    PROVE  \A n \in Node : InitsOn(new, n) = InitsOn(ls, n)
<1>1. ASSUME NEW s \in Node, NEW n \in Node, NEW i \in Nat \ {0}
      PROVE  (i \in DOMAIN new[s][n] /\ new[s][n][i].type = "signSessionInit")
                <=> (i \in DOMAIN ls[s][n] /\ ls[s][n][i].type = "signSessionInit")
  <2>1. ls[s][n] \in Seq(SignMessage)
    BY DEF LinksOf
  <2>2. CASE new[s][n] = ls[s][n]
    BY <2>2
  <2>3. ASSUME NEW m, new[s][n] = Append(ls[s][n], m), m.type # "signSessionInit"
        PROVE  (i \in DOMAIN new[s][n] /\ new[s][n][i].type = "signSessionInit")
                  <=> (i \in DOMAIN ls[s][n] /\ ls[s][n][i].type = "signSessionInit")
    BY <2>1, <2>3
  <2> QED
    BY <2>2, <2>3
<1> QED
  BY <1>1 DEF InitsOn

(* A request that is made adds one to everyone's (server.ts:360-373).      *)
LEMMA InitsAsked ==
    ASSUME NEW ls \in LinksOf(SignMessage), NEW s \in Node, NEW n \in Node,
           IsFiniteSet(InitsOn(ls, n))
    PROVE  LET new == Broadcast(ls, s, <<[type |-> "signSessionInit"]>>)
           IN  /\ IsFiniteSet(InitsOn(new, n))
               /\ Cardinality(InitsOn(new, n)) = Cardinality(InitsOn(ls, n)) + 1
<1> DEFINE init == [type |-> "signSessionInit"]
           new == Broadcast(ls, s, <<init>>)
           x == <<s, Len(ls[s][n]) + 1>>
<1>1. /\ \A a \in Node : ls[a][n] \in Seq(SignMessage)
      /\ \A a \in Node : new[a][n] = IF a = s THEN Append(ls[s][n], init) ELSE ls[a][n]
  <2>1. \A a \in Node : ls[a][n] \in Seq(SignMessage)
    BY DEF LinksOf
  <2>2. \A a \in Node : new[a][n] = IF a = s THEN ls[s][n] \o <<init>> ELSE ls[a][n]
    BY DEF LinksOf, Broadcast
  <2> HIDE DEF new, init
  <2>3. ls[s][n] \o <<init>> = Append(ls[s][n], init)
    BY <2>1
  <2> QED
    BY <2>1, <2>2, <2>3
<1> HIDE DEF new
<1>2. x \notin InitsOn(ls, n)
  BY <1>1 DEF InitsOn
<1>3. InitsOn(new, n) = InitsOn(ls, n) \cup {x}
  <2>1. ASSUME NEW a \in Node, NEW i \in Nat \ {0}
        PROVE  <<a, i>> \in InitsOn(new, n) <=> <<a, i>> \in InitsOn(ls, n) \cup {x}
    <3>1. CASE a = s
      <4> DEFINE q == ls[s][n]
      <4>1. q \in Seq(SignMessage) /\ new[s][n] = Append(q, init)
        BY <1>1
      <4>2. (i \in DOMAIN new[s][n] /\ new[s][n][i].type = "signSessionInit")
              <=> (i \in DOMAIN q /\ q[i].type = "signSessionInit") \/ i = Len(q) + 1
        <5> HIDE DEF q
        <5> QED
          BY <4>1
      <4>3. <<a, i>> \in InitsOn(new, n) <=> i \in DOMAIN new[s][n] /\ new[s][n][i].type = "signSessionInit"
        BY <3>1 DEF InitsOn
      <4>4. <<a, i>> \in InitsOn(ls, n) <=> i \in DOMAIN q /\ q[i].type = "signSessionInit"
        BY <3>1 DEF InitsOn
      <4>5. <<a, i>> = x <=> i = Len(q) + 1
        BY <3>1
      <4> QED
        BY <4>2, <4>3, <4>4, <4>5
    <3>2. CASE a # s
      BY <1>1, <3>2 DEF InitsOn
    <3> QED
      BY <3>1, <3>2
  <2>2. InitsOn(new, n) \subseteq Node \X (Nat \ {0}) /\ InitsOn(ls, n) \cup {x} \subseteq Node \X (Nat \ {0})
    BY <1>1 DEF InitsOn
  <2> QED
    BY <2>1, <2>2
<1> QED
  BY <1>2, <1>3, FS_AddElement DEF new

-------------------------------------------------------------------------------
(***************************************************************************)
(* What the operators of a manager return.                                 *)
(***************************************************************************)
(* What the steps of a session leave alone together. *)
SameData(m, new) ==
    /\ new.active = m.active /\ new.directMessages = m.directMessages
    /\ new.broadcastHashes = m.broadcastHashes /\ new.signature = m.signature
SameSession(m, new) ==
    SameData(m, new) /\ new.currentRound = m.currentRound /\ new.messages = m.messages

LEMMA EmptyTypes ==
    /\ NoKey \in Key /\ NoProduct \in Product /\ NoSigma \in SigmaShare
    /\ EmptyQueue \in Queue /\ NoEntry \in QueueEntry /\ FreshRounds \in Store
    /\ \A initialized \in BOOLEAN : NewManager(initialized) \in SessionManager
<1>1. NoKey \in Key /\ NoProduct \in Product /\ NoSigma \in SigmaShare
  BY DEF NoKey, Key, NoProduct, Product, NoSigma, SigmaShare
<1>2. NoEntry \in QueueEntry /\ EmptyQueue \in Queue
  BY <1>1 DEF NoEntry, QueueEntry, EmptyQueue, Queue
<1>3. FreshRounds \in Store
  BY <1>1 DEF FreshRounds, Store
<1>4. \A initialized \in BOOLEAN : NewManager(initialized) \in SessionManager
  BY <1>1, <1>2 DEF NewManager, SessionManager, NoHash
<1> QED
  BY <1>1, <1>2, <1>3, <1>4

(* A manager that is superseded is kept as it is, or nothing of it is.     *)
LEMMA SupersededIs ==
    ASSUME NEW ms \in Seq(SessionManager)
    PROVE  /\ Superseded(ms) \in Seq(SessionManager)
           /\ Len(Superseded(ms)) = Len(ms)
           /\ \A i \in 1..Len(ms) : Superseded(ms)[i] = IF Pending(ms[i]) THEN ms[i] ELSE NewManager(FALSE)
<1> DEFINE kept(i) == IF Pending(ms[i]) THEN ms[i] ELSE NewManager(FALSE)
<1>1. Len(ms) \in Nat /\ DOMAIN ms = 1..Len(ms) /\ \A i \in 1..Len(ms) : ms[i] \in SessionManager
  OBVIOUS
<1>2. Superseded(ms) = [i \in 1..Len(ms) |-> kept(i)]
  BY <1>1 DEF Superseded
<1>3. \A i \in 1..Len(ms) : kept(i) \in SessionManager
  BY <1>1, EmptyTypes
<1> HIDE DEF kept
<1>4. Superseded(ms) \in Seq(SessionManager) /\ Len(Superseded(ms)) = Len(ms)
  BY <1>1, <1>2, <1>3
<1>5. \A i \in 1..Len(ms) : Superseded(ms)[i] = kept(i)
  BY <1>2
<1> QED
  BY <1>4, <1>5 DEF kept

(* startNewRound, after a round or at the beginning. *)
LEMMA FinalizeRoundIs ==
    ASSUME NEW m \in SessionManager, NEW k \in Nat, NEW rounds \in Seq(1..3)
    PROVE  LET new == FinalizeRound(m, k, rounds)
           IN  /\ new \in SessionManager
               /\ SameData(m, new) /\ new.messages = m.messages
               /\ new.currentRound = m.currentRound + 1
               /\ new.resting = Append(m.resting, rounds)
               /\ new.waiting = m.waiting
<1> DEFINE rest == Append(m.resting, rounds)
           done == m.finished \cup {k}
           kept == [m EXCEPT !.finished = done, !.resting = rest]
           left == IF m.currentRound \in done THEN done \ {m.currentRound + 1} ELSE done
           new == FinalizeRound(m, k, rounds)
<1>1. rest \in Seq(Seq(1..3)) /\ done \in SUBSET Nat /\ m.currentRound + 1 \in Nat
  BY DEF SessionManager
<1>2. left \in SUBSET Nat
  BY <1>1
<1> HIDE DEF rest, done
<1>3. kept.currentRound = m.currentRound /\ kept.finished = done
  BY DEF SessionManager
<1>4. new = [kept EXCEPT !.currentRound = kept.currentRound + 1,
                         !.finished = IF kept.currentRound \in kept.finished
                                      THEN kept.finished \ {kept.currentRound + 1} ELSE kept.finished]
  BY DEF FinalizeRound, StartNewRound, rest, done
<1>5. new = [kept EXCEPT !.currentRound = m.currentRound + 1, !.finished = left]
  BY <1>3, <1>4
<1> HIDE DEF new, left
<1>6. new = [m EXCEPT !.finished = left, !.resting = rest, !.currentRound = m.currentRound + 1]
  BY <1>5 DEF SessionManager
<1>7. new \in SessionManager
  BY <1>1, <1>2, <1>6 DEF SessionManager
<1> QED
  BY <1>6, <1>7 DEF SessionManager, SameData, new, rest

(* The hashes of the direct messages. *)
LEMMA HashedIs ==
    ASSUME NEW m \in SessionManager, NEW rounds \in Seq(1..3)
    PROVE  /\ Hashed(m, rounds) \in SessionManager
           /\ SameSession(m, Hashed(m, rounds))
           /\ Hashed(m, rounds).resting = m.resting
           /\ Hashed(m, rounds).waiting = m.waiting
<1>1. \A r \in 1..3 : Lengths(m, r) \in Seq(Nat)
  <2> SUFFICES ASSUME NEW r \in 1..3 PROVE Lengths(m, r) \in Seq(Nat)
    OBVIOUS
  <2>1. \A x \in 1..r : Len(m.directMessages[x]) \in Nat
    <3>1. m.directMessages \in [1..3 -> Seq(Share)] /\ 1..r \subseteq 1..3
      BY DEF SessionManager
    <3>2. \A x \in 1..r : m.directMessages[x] \in Seq(Share)
      BY <3>1
    <3> QED
      BY <3>2
  <2>2. Lengths(m, r) \in [1..r -> Nat] /\ r \in Nat
    BY <2>1 DEF Lengths
  <2> QED
    BY <2>2, SeqDef
<1> DEFINE made(r) == \E i \in DOMAIN rounds : rounds[i] = r /\ \A h \in 1..i : CanHash(m, rounds[h])
           hashes == [r \in 1..3 |-> IF made(r) THEN Lengths(m, r) ELSE m.dmHashes[r]]
<1>2. hashes \in [1..3 -> Seq(Nat)]
  <2> HIDE DEF made
  <2> QED
    BY <1>1 DEF SessionManager
<1>3. Hashed(m, rounds) = [m EXCEPT !.dmHashes = hashes]
  BY DEF Hashed
<1> HIDE DEF hashes
<1> QED
  BY <1>2, <1>3 DEF SessionManager, SameSession, SameData

(* A broadcast that is kept in the reader's round, never in its own place. *)
HasProcessed(n, s, m, new, msg) ==
    /\ \A k \in 1..4 : new.messages[k][n] = m.messages[k][n]
    /\ \A k \in 1..4 : \A j \in Node :
          new.messages[k][j] \in {m.messages[k][j]}
                                 \cup (IF j = s THEN {Entry(msg.round, msg.share, msg.deltas)} ELSE {})
LEMMA StoredIs ==
    ASSUME NEW n \in Node, NEW m \in SessionManager, NEW s \in Node, NEW msg \in RoundMessage
    PROVE  /\ Stored(n, m, s, msg) \in SessionManager
           /\ SameData(m, Stored(n, m, s, msg))
           /\ Stored(n, m, s, msg).currentRound = m.currentRound
           /\ Stored(n, m, s, msg).resting = m.resting /\ Stored(n, m, s, msg).waiting = m.waiting
           /\ HasProcessed(n, s, m, Stored(n, m, s, msg), msg)
<1> DEFINE e == Entry(msg.round, msg.share, msg.deltas)
           c == m.currentRound
<1>1. m.messages \in Queue /\ m.messages = [k \in 1..4 |-> m.messages[k]]
  BY DEF SessionManager, Queue
<1>2. CASE IsBroadcastRound(c) /\ s # n /\ IsBroadcastRound(msg.round)
  <2> DEFINE q == [m.messages EXCEPT ![c] = [m.messages[c] EXCEPT ![s] = e]]
  <2>1. c \in 1..4 /\ e \in QueueEntry
    BY <1>2 DEF IsBroadcastRound, Entry, QueueEntry, RoundMessage
  <2>2. [m.messages[c] EXCEPT ![s] = e] \in [Node -> QueueEntry]
    <3> HIDE DEF e, c
    <3> QED
      BY <1>1, <2>1 DEF Queue
  <2>3. Stored(n, m, s, msg) = [m EXCEPT !.messages = q]
    BY <1>2 DEF Stored
  <2> HIDE DEF e
  <2>4. q \in Queue
    BY <1>1, <2>1, <2>2 DEF Queue
  <2>5. \A k \in 1..4 : \A j \in Node : q[k][j] = IF k = c /\ j = s THEN e ELSE m.messages[k][j]
    BY <1>1, <2>1 DEF Queue
  <2> HIDE DEF q, c
  <2>6. Stored(n, m, s, msg) \in SessionManager /\ Stored(n, m, s, msg).messages = q
    BY <2>3, <2>4 DEF SessionManager
  <2> QED
    <3> HIDE DEF e
    <3>1. HasProcessed(n, s, m, Stored(n, m, s, msg), msg)
      BY <1>2, <2>5, <2>6 DEF HasProcessed, e
    <3>2. SameData(m, Stored(n, m, s, msg))
      BY <2>3 DEF SessionManager, SameData
    <3>3. /\ Stored(n, m, s, msg).currentRound = m.currentRound
          /\ Stored(n, m, s, msg).resting = m.resting /\ Stored(n, m, s, msg).waiting = m.waiting
      BY <2>3 DEF SessionManager
    <3> QED
      BY <2>6, <3>1, <3>2, <3>3
<1>3. CASE ~ (IsBroadcastRound(c) /\ s # n /\ IsBroadcastRound(msg.round))
  <2>1. Stored(n, m, s, msg) = m
    BY <1>3 DEF Stored
  <2> QED
    BY <2>1 DEF SameData, SessionManager, HasProcessed
<1> QED
  BY <1>2, <1>3

LEMMA ManagerType ==
    ASSUME ManagersOK, NEW n \in Node, NEW i \in DOMAIN managers[n]
    PROVE  managers[n][i] \in SessionManager
<1>1. managers[n] \in Seq(SessionManager)
  BY DEF ManagersOK
<1> QED
  BY <1>1

(* One manager is replaced, all the others stay. *)
Replaced(n, i, new) == managers' = [managers EXCEPT ![n][i] = new]
OnlyReplaced(n, i, new) ==
    /\ \A j \in Node : Len(managers'[j]) = Len(managers[j]) /\ DOMAIN managers'[j] = DOMAIN managers[j]
    /\ \A j \in Node : \A x \in DOMAIN managers[j] :
          managers'[j][x] = IF j = n /\ x = i THEN new ELSE managers[j][x]
LEMMA ManagerReplaced ==
    ASSUME ManagersOK, NEW n \in Node, NEW i \in DOMAIN managers[n], NEW new \in SessionManager,
           Replaced(n, i, new)
    PROVE  ManagersOK' /\ OnlyReplaced(n, i, new)
<1>1. \A j \in Node : managers[j] \in Seq(SessionManager)
  BY DEF ManagersOK
<1>2. [managers[n] EXCEPT ![i] = new] \in Seq(SessionManager)
  BY <1>1
<1>3. \A j \in Node : managers'[j] = IF j = n THEN [managers[n] EXCEPT ![i] = new] ELSE managers[j]
  BY DEF ManagersOK, Replaced
<1>4. ManagersOK'
  BY <1>2 DEF ManagersOK, Replaced
<1>5. /\ DOMAIN [managers[n] EXCEPT ![i] = new] = DOMAIN managers[n]
      /\ Len([managers[n] EXCEPT ![i] = new]) = Len(managers[n])
  BY <1>1
<1> QED
  BY <1>3, <1>4, <1>5 DEF OnlyReplaced

(* What a new round's object is given by the last one. *)
LEMMA InputIs ==
    ASSUME NEW st \in Store, NEW k \in Nat
    PROVE  LET new == Input(st, k)
           IN  /\ new \in Store
               /\ new.out1 = st.out1 /\ new.out2 = st.out2 /\ new.out3 = st.out3 /\ new.out4 = st.out4
               /\ new.in2 = IF k = 2 THEN st.out1 ELSE st.in2
               /\ new.in3 = IF k = 3 THEN st.out2 ELSE st.in3
               /\ new.in4 = IF k = 4 THEN st.out3 ELSE st.in4
               /\ new.in5 = IF k = 5 THEN st.out4 ELSE st.in5
               /\ new.K = st.K /\ new.Delta = st.Delta
BY ZenonT(40) DEF Input, Store

(***************************************************************************)
(* A round that has published: its manager has taken its timer down and    *)
(* put its message into its own place.                                     *)
(***************************************************************************)
HasPublished(n, k, m, new, signature) ==
    /\ new.active = m.active /\ new.currentRound = m.currentRound
    /\ new.directMessages = m.directMessages /\ new.broadcastHashes = m.broadcastHashes
    /\ new.waiting = m.waiting /\ new.resting = Tail(m.resting)
    /\ new.signature = IF k = 5 THEN signature ELSE m.signature
    /\ \A h \in 1..4 : \A j \in Node \ {n} : new.messages[h][j] = m.messages[h][j]
    /\ \A h \in 1..4 : h # k => new.messages[h][n] = m.messages[h][n]
LEMMA PublishIs ==
    ASSUME SignTyped, NEW n \in Node, NEW i \in DOMAIN managers[n], NEW k \in 1..5, NEW share \in Nat,
           NEW deltas \in Key, NEW signature \in SigmaShare, managers[n][i].resting # <<>>,
           Publish(n, i, k, share, deltas, signature)
    PROVE  /\ \E new \in SessionManager :
                 /\ managers' = [managers EXCEPT ![n][i] = new]
                 /\ HasPublished(n, k, managers[n][i], new, signature)
                 /\ k # 5 => new.messages[k][n] = Entry(k, share, deltas)
           /\ links' \in LinksOf(SignMessage)
           /\ \A j \in Node : InitsOn(links', j) = InitsOn(links, j)
           /\ registry' \in RegistryOf(Node)
<1> DEFINE m == managers[n][i]
           e == Entry(k, share, deltas)
           kept == IF IsBroadcastRound(k) THEN [m EXCEPT !.messages[k][n] = e]
                   ELSE [m EXCEPT !.signature = signature]
           new == Published(kept)
           msg == [type |-> "signSessionRoundHandler", round |-> k, share |-> share, deltas |-> deltas]
<1>0. m \in SessionManager
  BY ManagerType DEF SignTyped
<1>1. m.resting \in Seq(Seq(1..3)) /\ m.resting # <<>>
  BY <1>0 DEF SessionManager
<1> HIDE DEF m
<1> DEFINE rest == Tail(m.resting)
           less == [kept EXCEPT !.resting = rest]
<1>3. rest \in Seq(Seq(1..3)) /\ Head(m.resting) \in Seq(1..3)
  BY <1>1
<1> HIDE DEF rest
<1>2. /\ kept \in SessionManager
      /\ less = IF k = 5 THEN [m EXCEPT !.signature = signature, !.resting = rest]
                ELSE [m EXCEPT !.messages = kept.messages, !.resting = rest]
      /\ k # 5 => /\ kept.messages \in Queue
                  /\ kept.messages[k][n] = e
                  /\ \A h \in 1..4 : \A j \in Node : (h # k \/ j # n) => kept.messages[h][j] = m.messages[h][j]
  <2>1. CASE k = 5
    <3>1. kept = [m EXCEPT !.signature = signature]
      BY <2>1 DEF IsBroadcastRound
    <3>2. kept \in SessionManager
      BY <1>0, <3>1 DEF SessionManager
    <3> HIDE DEF kept
    <3> QED
      BY <1>0, <2>1, <3>1, <3>2 DEF SessionManager
  <2>2. CASE k \in 1..4
    <3> DEFINE q == [m.messages EXCEPT ![k] = [m.messages[k] EXCEPT ![n] = e]]
    <3>1. kept = [m EXCEPT !.messages = q]
      BY <2>2 DEF IsBroadcastRound
    <3>2. m.messages \in Queue /\ e \in QueueEntry
      BY <1>0, <2>2 DEF SessionManager, QueueEntry, Entry
    <3> HIDE DEF e
    <3>3. [m.messages[k] EXCEPT ![n] = e] \in [Node -> QueueEntry]
      BY <2>2, <3>2 DEF Queue
    <3>4. /\ q \in Queue /\ q[k][n] = e
          /\ \A h \in 1..4 : \A j \in Node : (h # k \/ j # n) => q[h][j] = m.messages[h][j]
      BY <2>2, <3>2, <3>3 DEF Queue
    <3> HIDE DEF q, kept
    <3>5. kept \in SessionManager /\ kept.messages = q
      BY <1>0, <3>1, <3>4 DEF SessionManager
    <3>6. less = [m EXCEPT !.messages = kept.messages, !.resting = rest]
      BY <1>0, <3>1, <3>5 DEF SessionManager
    <3> QED
      BY <2>2, <3>4, <3>5, <3>6
  <2> QED
    BY <2>1, <2>2
<1> HIDE DEF kept, e
<1>4. kept.resting = m.resting
  <2>1. kept.resting = (IF IsBroadcastRound(k) THEN [m EXCEPT !.messages[k][n] = e] ELSE [m EXCEPT !.signature = signature]).resting
    BY DEF kept
  <2> QED
    BY <1>0, <2>1 DEF SessionManager
<1>6. new = Hashed(less, Head(m.resting))
  BY <1>4 DEF Published, rest
<1> HIDE DEF less, new
<1>5. /\ less \in SessionManager
      /\ HasPublished(n, k, m, less, signature)
      /\ k # 5 => less.messages[k][n] = e
  <2>1. CASE k = 5
    <3>1. less = [m EXCEPT !.signature = signature, !.resting = rest]
      BY <1>2, <2>1
    <3> QED
      BY <1>0, <1>3, <2>1, <3>1 DEF SessionManager, HasPublished, rest
  <2>2. CASE k # 5
    <3>1. less = [m EXCEPT !.messages = kept.messages, !.resting = rest]
      BY <1>2, <2>2
    <3>2. less \in SessionManager /\ less.messages = kept.messages
      BY <1>0, <1>2, <1>3, <2>2, <3>1 DEF SessionManager
    <3>3. /\ less.active = m.active /\ less.currentRound = m.currentRound
          /\ less.directMessages = m.directMessages /\ less.broadcastHashes = m.broadcastHashes
          /\ less.waiting = m.waiting /\ less.resting = rest /\ less.signature = m.signature
      BY <1>0, <3>1 DEF SessionManager
    <3> QED
      BY <1>2, <2>2, <3>2, <3>3 DEF HasPublished, rest
  <2> QED
    BY <2>1, <2>2
<1>7. /\ new \in SessionManager
      /\ HasPublished(n, k, m, new, signature)
      /\ k # 5 => new.messages[k][n] = e
  <2>1. new \in SessionManager /\ SameSession(less, new) /\ new.resting = less.resting /\ new.waiting = less.waiting
    BY <1>3, <1>5, <1>6, HashedIs
  <2> QED
    BY <1>5, <2>1 DEF HasPublished, SameSession, SameData
<1>8. /\ managers' = [managers EXCEPT ![n][i] = new]
      /\ links' = Broadcast(links, n, <<msg>>)
      /\ registry' \in RegistryOf(Node)
  BY ReadByType DEF Publish, new, kept, m, e, SignTyped, RestOK
<1>9. msg \in SignMessage /\ msg.type # "signSessionInit"
  BY DEF SignMessage, RoundMessage
<1> HIDE DEF msg
<1>10. links' \in LinksOf(SignMessage)
  BY <1>8, <1>9, BroadcastOneType DEF SignTyped
<1>11. \A j \in Node : InitsOn(links', j) = InitsOn(links, j)
  <2>1. \A a, b \in Node : links'[a][b] = links[a][b] \/ links'[a][b] = Append(links[a][b], msg)
    <3> SUFFICES ASSUME NEW a \in Node, NEW b \in Node
                 PROVE  links'[a][b] = links[a][b] \/ links'[a][b] = Append(links[a][b], msg)
      OBVIOUS
    <3>1. links[a][b] \in Seq(SignMessage) /\ links[n][b] \in Seq(SignMessage)
      BY DEF SignTyped, LinksOf
    <3>2. links[n][b] \o <<msg>> = Append(links[n][b], msg)
      BY <3>1
    <3>3. links'[a][b] = IF a = n THEN links[n][b] \o <<msg>> ELSE links[a][b]
      BY <1>8 DEF Broadcast, SignTyped, LinksOf
    <3> QED
      BY <3>2, <3>3
  <2> QED
    BY <1>9, <2>1, InitsSent DEF SignTyped
<1> QED
  BY <1>7, <1>8, <1>10, <1>11 DEF m, e

(***************************************************************************)
(* What reading a round message makes of a manager: it stays in its round, *)
(* takes up the next one, or is over.                                      *)
(***************************************************************************)
Stays(n, s, m, new, msg) ==
    /\ SameData(m, new) /\ new.currentRound = m.currentRound /\ new.resting = m.resting
    /\ HasProcessed(n, s, m, new, msg)
    /\ UNCHANGED store
Advances(n, s, m, new, msg, rounds) ==
    /\ m.currentRound \in 1..4 /\ m.messages[m.currentRound][n] # NoEntry
    /\ m.currentRound # 4 => Len(m.directMessages[m.currentRound]) = Threshold - 1
    /\ \A r \in 1..(m.currentRound - 1) : r < 3 => r \in m.broadcastHashes
    /\ new.active = m.active /\ new.directMessages = m.directMessages /\ new.signature = m.signature
    /\ new.broadcastHashes = m.broadcastHashes \cup {m.currentRound}
    /\ new.currentRound = m.currentRound + 1 /\ new.resting = Append(m.resting, rounds)
    /\ HasProcessed(n, s, m, new, msg)
    /\ store' = [store EXCEPT ![n] = Input(@, m.currentRound + 1)]
Ends(m, new) ==
    /\ m.currentRound = 5
    /\ new = m \/ new = Over(m)
    /\ UNCHANGED store
LEMMA ProcessorIs ==
    ASSUME ManagersOK, RoundsOK, registry \in RegistryOf(Node),
           NEW n \in Node, NEW i \in DOMAIN managers[n], NEW m \in SessionManager,
           NEW s \in Node, NEW msg \in RoundMessage, NEW rounds \in Seq(1..3),
           SessionRoundProcessor(n, i, m, s, msg, rounds)
    PROVE  /\ \E new \in SessionManager :
                 /\ managers' = [managers EXCEPT ![n][i] = new]
                 /\ new.waiting = m.waiting
                 /\ \/ Stays(n, s, m, new, msg)
                    \/ Advances(n, s, m, new, msg, rounds)
                    \/ Ends(m, new)
           /\ registry' \in RegistryOf(Node)
<1> DEFINE kept == Stored(n, m, s, msg)
           k == m.currentRound
<1>1. /\ kept \in SessionManager
      /\ SameData(m, kept) /\ kept.currentRound = k
      /\ kept.resting = m.resting /\ kept.waiting = m.waiting
      /\ HasProcessed(n, s, m, kept, msg)
  BY StoredIs
<1> HIDE DEF kept
<1>2. CASE StoreBroadcast(n, i, m, s, msg, rounds)
  <2> DEFINE new == Hashed(kept, rounds)
  <2>1. new \in SessionManager /\ SameSession(kept, new) /\ new.resting = kept.resting /\ new.waiting = kept.waiting
    BY <1>1, HashedIs
  <2>2. managers' = [managers EXCEPT ![n][i] = new] /\ UNCHANGED store /\ registry' \in RegistryOf(Node)
    BY <1>2, ReadByType DEF StoreBroadcast, kept
  <2> HIDE DEF new
  <2>3. Stays(n, s, m, new, msg)
    BY <1>1, <2>1, <2>2 DEF Stays, SameSession, SameData, HasProcessed
  <2> QED
    BY <1>1, <2>1, <2>2, <2>3
<1>3. CASE FinalizeCurrentRound(n, i, m, s, msg, rounds)
  <2> DEFINE hashed == [kept EXCEPT !.broadcastHashes = @ \cup {k}]
             new == FinalizeRound(hashed, k, rounds)
  <2>0. k \in Nat /\ m.broadcastHashes \in SUBSET Nat
    BY DEF SessionManager
  <2>1. ReceivedAll(kept) /\ InSequence(m) /\ registry' = registry
        /\ managers' = [managers EXCEPT ![n][i] = new]
        /\ store' = [store EXCEPT ![n] = InputAfter(@, kept, k)]
    BY <1>3 DEF FinalizeCurrentRound, kept
  <2>2. /\ hashed \in SessionManager
        /\ hashed.active = m.active /\ hashed.directMessages = m.directMessages /\ hashed.signature = m.signature
        /\ hashed.broadcastHashes = m.broadcastHashes \cup {k}
        /\ hashed.currentRound = k /\ hashed.messages = kept.messages
        /\ hashed.resting = m.resting /\ hashed.waiting = m.waiting
    BY <1>1, <2>0 DEF SessionManager, SameData
  <2> HIDE DEF hashed
  <2>3. /\ new \in SessionManager
        /\ SameData(hashed, new) /\ new.messages = hashed.messages
        /\ new.currentRound = k + 1 /\ new.resting = Append(m.resting, rounds) /\ new.waiting = m.waiting
    <3>1. /\ new \in SessionManager
          /\ SameData(hashed, new) /\ new.messages = hashed.messages
          /\ new.currentRound = hashed.currentRound + 1
          /\ new.resting = Append(hashed.resting, rounds) /\ new.waiting = hashed.waiting
      <4> HIDE DEF k
      <4> QED
        BY <2>0, <2>2, FinalizeRoundIs
    <3> HIDE DEF new
    <3> QED
      BY <2>2, <3>1
  <2> HIDE DEF new
  <2>4. k \in 1..4 /\ m.messages[k][n] # NoEntry
        /\ (k # 4 => Len(m.directMessages[k]) = Threshold - 1)
    BY <1>1, <2>1 DEF ReceivedAll, IsBroadcastRound, IsDirectMessageRound, HasProcessed, SameData
  <2>5. \A r \in 1..(k - 1) : r < 3 => r \in m.broadcastHashes
    BY <2>1 DEF InSequence
  <2>6. store' = [store EXCEPT ![n] = Input(@, k + 1)]
    <3>1. InputAfter(store[n], kept, k) = Input(store[n], k + 1)
      BY <1>1 DEF InputAfter
    <3> QED
      BY <2>1, <3>1
  <2>7. HasProcessed(n, s, m, new, msg)
    <3>1. new.messages = kept.messages
      BY <2>2, <2>3
    <3> QED
      BY <1>1, <3>1 DEF HasProcessed
  <2>8. Advances(n, s, m, new, msg, rounds)
    BY <2>2, <2>3, <2>4, <2>5, <2>6, <2>7 DEF Advances, SameData
  <2> QED
    BY <2>1, <2>3, <2>8
<1>4. CASE RefuseToFinalize(n, i, m, s, msg)
  <2>1. managers' = [managers EXCEPT ![n][i] = kept] /\ UNCHANGED store /\ registry' \in RegistryOf(Node)
    BY <1>4, ReadByType DEF RefuseToFinalize, kept
  <2>2. Stays(n, s, m, kept, msg)
    BY <1>1, <2>1 DEF Stays
  <2> QED
    BY <1>1, <2>1, <2>2
<1>5. CASE VerifyAndEndSession(n, i, m, rounds)
  <2>1. m.currentRound = 5 /\ UNCHANGED store /\ registry' \in RegistryOf(Node)
        /\ managers' = [managers EXCEPT ![n][i] = IF m.signature = NoSigma THEN m ELSE Over(m)]
    BY <1>5, ReadByType DEF VerifyAndEndSession, FinalRound
  <2>2. Over(m) \in SessionManager /\ Over(m).waiting = m.waiting
    <3>1. [r \in 1..3 |-> <<>>] \in [1..3 -> Seq(Share)] /\ EmptyQueue \in Queue
      BY EmptyTypes
    <3> QED
      BY <3>1 DEF Over, SessionManager
  <2> QED
    BY <2>1, <2>2 DEF Ends
<1> QED
  BY <1>2, <1>3, <1>4, <1>5 DEF SessionRoundProcessor

-------------------------------------------------------------------------------
(***************************************************************************)
(* The rounds keep their types.                                            *)
(***************************************************************************)
LEMMA TakenInType ==
    ASSUME NEW old \in Key, NEW queue \in [Node -> QueueEntry], NEW k \in Nat
    PROVE  TakenIn(old, queue, k) \in Key
BY DEF TakenIn, Key, QueueEntry

LEMMA StoreType == ASSUME RoundsOK, NEW n \in Node PROVE store[n] \in Store
BY DEF RoundsOK

LEMMA ProductsType ==
    ASSUME RoundsOK, NEW n \in Node, NEW m \in SessionManager
    PROVE  Products(n, m) \in [Node -> Product]
<1>1. m.directMessages[2] \in Seq(Share) /\ store[n].alphas \in [Node -> Product]
  <2>1. m.directMessages[2] \in Seq(Share)
    BY DEF SessionManager
  <2>2. store[n].alphas \in [Node -> Product]
    BY StoreType DEF Store
  <2> QED
    BY <2>1, <2>2
<1> DEFINE dms == m.directMessages[2]
           good == {x \in DOMAIN dms : \A y \in 1..x : ProductHolds(n, m, dms[y])}
           last(j) == {x \in good : dms[x].from = j /\ \A y \in good : dms[y].from = j => y <= x}
           value(j) == IF ~ OfRound(m.messages[2], 2) \/ last(j) = {} THEN store[n].alphas[j]
                       ELSE LET dm == dms[CHOOSE x \in last(j) : TRUE]
                            IN  [k |-> dm.k, gamma |-> dm.share, mask |-> dm.mask]
<1>2. ASSUME NEW j \in Node PROVE value(j) \in Product
  <2>1. CASE ~ OfRound(m.messages[2], 2) \/ last(j) = {}
    BY <1>1, <2>1
  <2>2. CASE OfRound(m.messages[2], 2) /\ last(j) # {}
    <3> DEFINE x == CHOOSE x \in last(j) : TRUE
    <3>1. x \in last(j)
      BY <2>2
    <3>2. x \in DOMAIN dms
      BY <3>1
    <3> HIDE DEF x, last, good
    <3>3. dms[x] \in Share
      BY <1>1, <3>2
    <3>4. value(j) = [k |-> dms[x].k, gamma |-> dms[x].share, mask |-> dms[x].mask]
      BY <2>2 DEF x
    <3> HIDE DEF value
    <3> QED
      BY <3>3, <3>4 DEF Share, Product
  <2> QED
    BY <2>1, <2>2
<1>3. Products(n, m) = [j \in Node |-> value(j)]
  BY DEF Products
<1> HIDE DEF value
<1> QED
  BY <1>2, <1>3

LEMMA OutputTypes ==
    ASSUME RoundsOK, NEW n \in Node, NEW m \in SessionManager
    PROVE  /\ Ciphertexts(n, m) \in Key /\ GammaShares(n, m) \in Key /\ DeltaShares(n, m) \in Key
           /\ SigmaShares(n, m) \in [Node -> SigmaShare]
<1> DEFINE st == store[n]
<1>1. st \in Store
  BY StoreType
<1>2. \A k \in 1..4 : m.messages[k] \in [Node -> QueueEntry]
  BY DEF SessionManager, Queue
<1>3. Ciphertexts(n, m) \in Key /\ GammaShares(n, m) \in Key /\ DeltaShares(n, m) \in Key
  <2>1. st.K \in Key /\ st.Gamma \in Key /\ st.Delta \in Key
    BY <1>1 DEF Store
  <2>2. /\ m.messages[1] \in [Node -> QueueEntry] /\ m.messages[2] \in [Node -> QueueEntry]
        /\ m.messages[3] \in [Node -> QueueEntry]
    BY <1>2
  <2>3. /\ TakenIn(st.K, m.messages[1], 1) \in Key /\ TakenIn(st.Gamma, m.messages[2], 2) \in Key
        /\ TakenIn(st.Delta, m.messages[3], 3) \in Key
    BY <2>1, <2>2, TakenInType
  <2> QED
    BY <2>1, <2>3 DEF Ciphertexts, GammaShares, DeltaShares
<1>4. SigmaShares(n, m) \in [Node -> SigmaShare]
  <2>1. \A j \in Node : m.messages[4][j] \in QueueEntry /\ store[n].Sigma[j] \in SigmaShare /\ NoSigma \in SigmaShare
    BY <1>1, <1>2, EmptyTypes DEF Store
  <2> QED
    BY <2>1 DEF SigmaShares, QueueEntry, SigmaShare
<1> QED
  BY <1>3, <1>4

(* What a round of a session picks, keeps and puts out. *)
RoundDone(n, i, k) ==
    \/ k = 1 /\ SignRound1(n, i)
    \/ k = 2 /\ SignRound2(n, i)
    \/ k = 3 /\ SignRound3(n, i)
    \/ k = 4 /\ SignRound4(n, i)
    \/ k = 5 /\ SignRound5(n, i)
LEMMA RoundDoneTypes ==
    ASSUME SignTyped, NEW n \in Node, NEW i \in DOMAIN managers[n], NEW k \in 1..5, RoundDone(n, i, k)
    PROVE  /\ \E share \in Nat : \E deltas \in Key :
                 Publish(n, i, k, share, deltas, IF k = 5 THEN store[n].in5 ELSE NoSigma)
           /\ Verifying(n, i, k)
           /\ RoundsOK' /\ RestOK'
<1> DEFINE m == managers[n][i]
           st == store[n]
<1>1. m \in SessionManager /\ st \in Store /\ NoKey \in Key /\ NoSigma \in SigmaShare /\ RoundsOK
  BY ManagerType, StoreType, EmptyTypes DEF SignTyped
<1>2. /\ Ciphertexts(n, m) \in Key /\ GammaShares(n, m) \in Key /\ DeltaShares(n, m) \in Key
      /\ SigmaShares(n, m) \in [Node -> SigmaShare] /\ Products(n, m) \in [Node -> Product]
  BY <1>1, OutputTypes, ProductsType
<1>3. picks[n] \in Nat /\ masks[n] \in Nat /\ contributions[n] \in Seq(Contribution) /\ sigmas[n] \in Seq(SigmaShare)
  BY <1>1 DEF RoundsOK, Key
<1>4. registry' \in RegistryOf(Node)
  <2>1. ASSUME NEW h, NEW share, NEW deltas, NEW signature, Publish(n, i, h, share, deltas, signature)
        PROVE  registry' \in RegistryOf(Node)
    <3>1. registry' \in {registry, ReadBy(registry, n)}
      BY <2>1 DEF Publish
    <3> QED
      BY <3>1, ReadByType DEF SignTyped, RestOK
  <2>2. SignRound1(n, i) => registry' \in RegistryOf(Node)
    BY <2>1 DEF SignRound1
  <2>3. SignRound2(n, i) => registry' \in RegistryOf(Node)
    BY <2>1 DEF SignRound2
  <2>4. SignRound3(n, i) => registry' \in RegistryOf(Node)
    BY <2>1 DEF SignRound3
  <2>5. SignRound4(n, i) => registry' \in RegistryOf(Node)
    BY <2>1 DEF SignRound4
  <2>6. SignRound5(n, i) => registry' \in RegistryOf(Node)
    BY <2>1 DEF SignRound5
  <2> QED
    BY <2>2, <2>3, <2>4, <2>5, <2>6 DEF RoundDone
<1> HIDE DEF m, st
<1>5. CASE k = 1
  <2> DEFINE pick == picks[n] + 1
             new == [st EXCEPT !.out1 = pick]
             x == Shares(1, pick, 0, NoKey, 0)
  <2>1. SignRound1(n, i)
    BY <1>5 DEF RoundDone
  <2>2. /\ picks' = [picks EXCEPT ![n] = pick]
        /\ store' = [store EXCEPT ![n] = new]
        /\ sharing' = [sharing EXCEPT ![n] = @ \cup {x}]
        /\ UNCHANGED <<starting, masks, contributions, sigmas, keyParties, starts>>
        /\ Verifying(n, i, 1) /\ Publish(n, i, 1, pick, NoKey, NoSigma)
    BY <2>1 DEF SignRound1, st
  <2>3. pick \in Nat
    BY <1>3
  <2> HIDE DEF pick
  <2>4. new \in Store /\ x \in SharesOfRound
    BY <1>1, <2>3 DEF Store, Shares, SharesOfRound
  <2> HIDE DEF new, x
  <2>5. RoundsOK'
    BY <1>1, <2>2, <2>3, <2>4 DEF RoundsOK, Key
  <2>6. RestOK'
    BY <1>4, <2>2, <2>4 DEF RestOK, SignTyped
  <2> QED
    BY <1>1, <1>5, <2>2, <2>3, <2>5, <2>6
<1>6. CASE k = 2
  <2> DEFINE mask == masks[n] + 1
             pair == <<st.in2, mask>>
             K == Ciphertexts(n, m)
             new == [st EXCEPT !.K = K, !.out2 = pair]
             x == Shares(2, st.in2, K[n], K, mask)
  <2>1. SignRound2(n, i)
    BY <1>6 DEF RoundDone
  <2>2. /\ masks' = [masks EXCEPT ![n] = mask]
        /\ store' = [store EXCEPT ![n] = new]
        /\ sharing' = [sharing EXCEPT ![n] = @ \cup {x}]
        /\ UNCHANGED <<starting, picks, contributions, sigmas, keyParties, starts>>
        /\ Verifying(n, i, 2) /\ Publish(n, i, 2, st.in2, NoKey, NoSigma)
    BY <2>1 DEF SignRound2, st, m
  <2>3. mask \in Nat /\ st.in2 \in Nat /\ K \in Key
    BY <1>1, <1>2, <1>3 DEF Store
  <2> HIDE DEF mask, K
  <2>7. pair \in Nat \X Nat /\ K[n] \in Nat
    BY <2>3 DEF Key
  <2> HIDE DEF pair
  <2>10. x \in SharesOfRound
    BY <1>1, <2>3, <2>7 DEF Shares, SharesOfRound
  <2>4. new \in Store /\ x \in SharesOfRound
    <3> HIDE DEF x
    <3> QED
      BY <1>1, <2>3, <2>7, <2>10 DEF Store
  <2> HIDE DEF new, x
  <2>5. RoundsOK'
    BY <1>1, <2>2, <2>3, <2>4 DEF RoundsOK, Key
  <2>6. RestOK'
    BY <1>4, <2>2, <2>4 DEF RestOK, SignTyped
  <2> QED
    BY <1>1, <1>6, <2>2, <2>3, <2>5, <2>6
<1>7. CASE k = 3
  <2> DEFINE delta == Len(contributions[n]) + 1
             gammas == GammaShares(n, m)
             alphas == Products(n, m)
             new == [st EXCEPT !.Gamma = gammas, !.alphas = alphas, !.out3 = delta]
             c == [own |-> st.in3[1], mask |-> st.in3[2], gammas |-> gammas, alphas |-> alphas]
             x == Shares(3, delta, st.K[n], NoKey, 0)
  <2>1. SignRound3(n, i)
    BY <1>7 DEF RoundDone
  <2>2. /\ contributions' = [contributions EXCEPT ![n] = Append(@, c)]
        /\ store' = [store EXCEPT ![n] = new]
        /\ sharing' = [sharing EXCEPT ![n] = @ \cup {x}]
        /\ UNCHANGED <<starting, picks, masks, sigmas, keyParties, starts>>
        /\ Verifying(n, i, 3) /\ Publish(n, i, 3, delta, NoKey, NoSigma)
    BY <2>1 DEF SignRound3, st, m
  <2>3. delta \in Nat /\ gammas \in Key /\ alphas \in [Node -> Product]
    BY <1>2, <1>3
  <2> HIDE DEF delta, gammas, alphas
  <2>7. st.in3 \in Nat \X Nat /\ st.K[n] \in Nat
    BY <1>1 DEF Store, Key
  <2>10. x \in SharesOfRound
    BY <1>1, <2>3, <2>7 DEF Shares, SharesOfRound
  <2>4. new \in Store /\ x \in SharesOfRound
    <3> HIDE DEF x
    <3> QED
      BY <1>1, <2>3, <2>7, <2>10 DEF Store
  <2>8. c \in Contribution
    BY <2>3, <2>7 DEF Contribution
  <2> HIDE DEF new, x, c
  <2>9. Append(contributions[n], c) \in Seq(Contribution)
    BY <1>3, <2>8
  <2>5. RoundsOK'
    BY <1>1, <2>2, <2>4, <2>9 DEF RoundsOK
  <2>6. RestOK'
    BY <1>4, <2>2, <2>4 DEF RestOK, SignTyped
  <2> QED
    BY <1>1, <1>7, <2>2, <2>3, <2>5, <2>6
<1>8. CASE k = 4
  <2> DEFINE deltas == DeltaShares(n, m)
             sigma == [share |-> st.in4, deltas |-> deltas]
             new == [st EXCEPT !.Delta = deltas, !.out4 = sigma]
  <2>1. SignRound4(n, i)
    BY <1>8 DEF RoundDone
  <2>2. /\ sigmas' = [sigmas EXCEPT ![n] = Append(@, sigma)]
        /\ store' = [store EXCEPT ![n] = new]
        /\ UNCHANGED <<starting, sharing, picks, masks, contributions, keyParties, starts>>
        /\ Verifying(n, i, 4) /\ Publish(n, i, 4, st.in4, deltas, NoSigma)
    BY <2>1 DEF SignRound4, st, m
  <2>3. st.in4 \in Nat /\ deltas \in Key
    BY <1>1, <1>2 DEF Store
  <2> HIDE DEF deltas
  <2>4. sigma \in SigmaShare
    BY <2>3 DEF SigmaShare
  <2> HIDE DEF sigma
  <2>7. new \in Store
    BY <1>1, <2>3, <2>4 DEF Store
  <2> HIDE DEF new
  <2>8. Append(sigmas[n], sigma) \in Seq(SigmaShare)
    BY <1>3, <2>4
  <2>5. RoundsOK'
    BY <1>1, <2>2, <2>7, <2>8 DEF RoundsOK
  <2>6. RestOK'
    BY <1>4, <2>2 DEF RestOK, SignTyped
  <2> QED
    BY <1>1, <1>8, <2>2, <2>3, <2>5, <2>6
<1>9. CASE k = 5
  <2> DEFINE new == [st EXCEPT !.Sigma = SigmaShares(n, m)]
  <2>1. SignRound5(n, i)
    BY <1>9 DEF RoundDone
  <2>2. /\ store' = [store EXCEPT ![n] = new]
        /\ UNCHANGED <<starting, sharing, picks, masks, contributions, sigmas, keyParties, starts>>
        /\ Verifying(n, i, 5) /\ Publish(n, i, 5, 0, NoKey, store[n].in5)
    BY <2>1 DEF SignRound5, st, m
  <2>4. new \in Store
    BY <1>1, <1>2 DEF Store
  <2> HIDE DEF new
  <2>5. RoundsOK'
    BY <1>1, <2>2, <2>4 DEF RoundsOK
  <2>6. RestOK'
    BY <1>4, <2>2 DEF RestOK, SignTyped
  <2> QED
    BY <1>1, <1>9, <2>2, <2>5, <2>6
<1> QED
  BY <1>5, <1>6, <1>7, <1>8, <1>9

(***************************************************************************)
(* A round that does not publish: its manager has taken the timer down,    *)
(* and its object keeps what it had taken in.                              *)
(***************************************************************************)
KeepsOutputs(st, new) ==
    /\ new.out1 = st.out1 /\ new.out2 = st.out2 /\ new.out3 = st.out3 /\ new.out4 = st.out4
    /\ new.in2 = st.in2 /\ new.in3 = st.in3 /\ new.in4 = st.in4 /\ new.in5 = st.in5
LEMMA RoundFailedIs ==
    ASSUME SignTyped, NEW n \in Node, NEW i \in Nat, FailRound(n, i) \/ RefuseRound(n, i)
    PROVE  /\ i \in DOMAIN managers[n] /\ managers[n][i].resting # <<>>
           /\ managers' = [managers EXCEPT ![n][i] = [managers[n][i] EXCEPT !.resting = Tail(@)]]
           /\ \E new \in Store : /\ KeepsOutputs(store[n], new)
                                 /\ new.Delta = store[n].Delta \/ new.Delta = DeltaShares(n, managers[n][i])
                                 /\ store' = [store EXCEPT ![n] = new]
           /\ UNCHANGED <<links, starting, sharing, picks, masks, contributions, sigmas, keyParties, starts>>
           /\ registry' = ReadBy(registry, n)
<1> DEFINE m == managers[n][i]
           st == store[n]
<1>1. i \in DOMAIN managers[n] /\ m.resting # <<>>
  BY DEF FailRound, RefuseRound, Verifying
<1>2. m \in SessionManager /\ st \in Store /\ RoundsOK
  BY <1>1, ManagerType, StoreType DEF SignTyped
<1>3. /\ Ciphertexts(n, m) \in Key /\ GammaShares(n, m) \in Key /\ DeltaShares(n, m) \in Key
      /\ SigmaShares(n, m) \in [Node -> SigmaShare] /\ Products(n, m) \in [Node -> Product]
  BY <1>2, OutputTypes, ProductsType
<1>4. CASE RefuseRound(n, i)
  <2>1. store' = [store EXCEPT ![n] = st] /\ KeepsOutputs(st, st) /\ UNCHANGED roundVars
    BY <1>4 DEF RefuseRound, roundVars, KeepsOutputs, SignTyped, RoundsOK
  <2>2. /\ managers' = [managers EXCEPT ![n][i] = [m EXCEPT !.resting = Tail(@)]]
        /\ UNCHANGED <<links, starting, sharing, keyParties, starts>>
        /\ registry' = ReadBy(registry, n)
    BY <1>4 DEF RefuseRound
  <2> HIDE DEF st
  <2> QED
    BY <1>1, <1>2, <2>1, <2>2 DEF st, roundVars
<1>5. CASE FailRound(n, i)
  <2>1. /\ managers' = [managers EXCEPT ![n][i] = [m EXCEPT !.resting = Tail(@)]]
        /\ UNCHANGED <<links, starting, sharing, picks, masks, contributions, sigmas, keyParties, starts>>
        /\ registry' = ReadBy(registry, n)
    BY <1>5 DEF FailRound
  <2>2. \/ store' = [store EXCEPT ![n] = [st EXCEPT !.K = Ciphertexts(n, m)]]
        \/ store' = [store EXCEPT ![n] = [st EXCEPT !.Gamma = GammaShares(n, m), !.alphas = Products(n, m)]]
        \/ store' = [store EXCEPT ![n] = [st EXCEPT !.Delta = DeltaShares(n, m)]]
        \/ store' = [store EXCEPT ![n] = [st EXCEPT !.Sigma = SigmaShares(n, m)]]
    BY <1>5 DEF FailRound
  <2> HIDE DEF st, m
  <2> DEFINE Kept(new) == new \in Store /\ KeepsOutputs(st, new)
                          /\ (new.Delta = st.Delta \/ new.Delta = DeltaShares(n, m))
  <2>3. /\ Kept([st EXCEPT !.K = Ciphertexts(n, m)])
        /\ Kept([st EXCEPT !.Gamma = GammaShares(n, m), !.alphas = Products(n, m)])
        /\ Kept([st EXCEPT !.Delta = DeltaShares(n, m)])
        /\ Kept([st EXCEPT !.Sigma = SigmaShares(n, m)])
    BY <1>2, <1>3 DEF Store, KeepsOutputs
  <2> HIDE DEF Kept
  <2>4. \E new : Kept(new) /\ store' = [store EXCEPT ![n] = new]
    BY <2>2, <2>3
  <2> QED
    BY <1>1, <2>1, <2>4 DEF Kept, st, m
<1> QED
  BY <1>4, <1>5

(* All that a round can do. *)
LEMMA VerifyTypes ==
    ASSUME SignTyped, NEW n \in Node, NEW i \in Nat, VerifyRound(n, i)
    PROVE  /\ SignTyped'
           /\ \A j \in Node : InitsOn(links', j) = InitsOn(links, j)
           /\ i \in DOMAIN managers[n] /\ managers[n][i].resting # <<>>
           /\ UNCHANGED <<starting, keyParties, starts>>
           /\ \E new \in SessionManager :
                 /\ managers' = [managers EXCEPT ![n][i] = new]
                 /\ \/ \E k \in 1..5 :
                          /\ RoundDone(n, i, k)
                          /\ HasPublished(n, k, managers[n][i], new, IF k = 5 THEN store[n].in5 ELSE NoSigma)
                          /\ k # 5 => new.messages[k][n] # NoEntry
                    \/ /\ FailRound(n, i) \/ RefuseRound(n, i)
                       /\ new = [managers[n][i] EXCEPT !.resting = Tail(@)]
<1>1. CASE FailRound(n, i) \/ RefuseRound(n, i)
  <2>1. /\ i \in DOMAIN managers[n] /\ managers[n][i].resting # <<>>
        /\ managers' = [managers EXCEPT ![n][i] = [managers[n][i] EXCEPT !.resting = Tail(@)]]
        /\ \E new \in Store : store' = [store EXCEPT ![n] = new]
        /\ UNCHANGED <<links, starting, sharing, picks, masks, contributions, sigmas, keyParties, starts>>
        /\ registry' = ReadBy(registry, n)
    BY <1>1, RoundFailedIs
  <2>2. managers[n][i] \in SessionManager
    BY <2>1, ManagerType DEF SignTyped
  <2>3. Tail(managers[n][i].resting) \in Seq(Seq(1..3))
    BY <2>1, <2>2 DEF SessionManager
  <2>4. [managers[n][i] EXCEPT !.resting = Tail(@)] \in SessionManager
    BY <2>2, <2>3 DEF SessionManager
  <2>5. ManagersOK'
    BY <2>1, <2>4, ManagerReplaced DEF SignTyped, Replaced
  <2>6. RoundsOK' /\ RestOK'
    BY <2>1, ReadByType DEF SignTyped, RoundsOK, RestOK
  <2>7. SignTyped'
    BY <2>1, <2>5, <2>6 DEF SignTyped
  <2> QED
    BY <1>1, <2>1, <2>4, <2>7
<1>2. ASSUME NEW k \in 1..5, RoundDone(n, i, k)
      PROVE  /\ SignTyped'
             /\ \A j \in Node : InitsOn(links', j) = InitsOn(links, j)
             /\ i \in DOMAIN managers[n] /\ managers[n][i].resting # <<>>
             /\ UNCHANGED <<starting, keyParties, starts>>
             /\ \E new \in SessionManager :
                   /\ managers' = [managers EXCEPT ![n][i] = new]
                   /\ HasPublished(n, k, managers[n][i], new, IF k = 5 THEN store[n].in5 ELSE NoSigma)
                   /\ k # 5 => new.messages[k][n] # NoEntry
  <2>1. i \in DOMAIN managers[n] /\ managers[n][i].resting # <<>> /\ UNCHANGED <<starting, keyParties, starts>>
    BY <1>2 DEF RoundDone, SignRound1, SignRound2, SignRound3, SignRound4, SignRound5, Verifying
  <2> DEFINE signature == IF k = 5 THEN store[n].in5 ELSE NoSigma
  <2>2. RoundsOK' /\ RestOK' /\ \E share \in Nat : \E deltas \in Key : Publish(n, i, k, share, deltas, signature)
    BY <1>2, <2>1, RoundDoneTypes
  <2>3. signature \in SigmaShare
    BY StoreType, EmptyTypes DEF SignTyped, Store
  <2> HIDE DEF signature
  <2>4. PICK share \in Nat, deltas \in Key : Publish(n, i, k, share, deltas, signature)
    BY <2>2
  <2>5. /\ \E new \in SessionManager :
              /\ managers' = [managers EXCEPT ![n][i] = new]
              /\ HasPublished(n, k, managers[n][i], new, signature)
              /\ k # 5 => new.messages[k][n] = Entry(k, share, deltas)
        /\ links' \in LinksOf(SignMessage)
        /\ \A j \in Node : InitsOn(links', j) = InitsOn(links, j)
    BY <2>1, <2>3, <2>4, PublishIs
  <2>6. PICK new \in SessionManager :
              /\ managers' = [managers EXCEPT ![n][i] = new]
              /\ HasPublished(n, k, managers[n][i], new, signature)
              /\ k # 5 => new.messages[k][n] = Entry(k, share, deltas)
    BY <2>5
  <2>7. Entry(k, share, deltas) # NoEntry
    BY DEF Entry, NoEntry
  <2>8. SignTyped'
    BY <2>1, <2>2, <2>5, <2>6, ManagerReplaced DEF SignTyped, Replaced
  <2> QED
    BY <2>1, <2>5, <2>6, <2>7, <2>8 DEF signature
<1>3. (\E k \in 1..5 : RoundDone(n, i, k)) \/ FailRound(n, i) \/ RefuseRound(n, i)
  <2>1. 1 \in 1..5 /\ 2 \in 1..5 /\ 3 \in 1..5 /\ 4 \in 1..5 /\ 5 \in 1..5
    OBVIOUS
  <2> QED
    BY <2>1 DEF VerifyRound, RoundDone
<1> QED
  BY <1>1, <1>2, <1>3

-------------------------------------------------------------------------------
(***************************************************************************)
(* The other steps keep their types too.                                   *)
(***************************************************************************)
LEMMA IncomingIs ==
    ASSUME links \in LinksOf(SignMessage), NEW s \in Node, NEW d \in Node, NEW type, Incoming(s, d, type)
    PROVE  /\ Taken(links, s, d) \in LinksOf(SignMessage)
           /\ type = "signSessionRoundHandler" => Head(links[s][d]) \in RoundMessage
           /\ type = "signSessionDirectMessageHandler" => Head(links[s][d]) \in DirectMessage
           /\ links[s][d] # <<>> /\ Head(links[s][d]).type = type
<1> DEFINE m == Head(links[s][d])
<1>1. m \in SignMessage /\ Taken(links, s, d) \in LinksOf(SignMessage)
  BY TakenType DEF Incoming
<1>2. m.type = type /\ links[s][d] # <<>>
  BY DEF Incoming
<1> HIDE DEF m
<1> QED
  BY <1>1, <1>2 DEF SignMessage, RoundMessage, DirectMessage, m

(* A request. *)
LEMMA StartTypes == ASSUME SignTyped, NEW n \in Node, StartSign(n) PROVE SignTyped'
<1>1. [type |-> "signSessionInit"] \in SignMessage
  BY DEF SignMessage
<1>2. links' \in LinksOf(SignMessage)
  BY <1>1, BroadcastOneType DEF StartSign, SignTyped
<1>3. RestOK'
  BY SignAssumption DEF StartSign, SignTyped, RestOK
<1>4. ManagersOK' /\ RoundsOK'
  BY DEF StartSign, SignTyped, ManagersOK, RoundsOK, roundVars
<1> QED
  BY <1>2, <1>3, <1>4 DEF SignTyped

(* A request that arrives: the managers before it, and a new one. *)
LEMMA InitIs ==
    ASSUME SignTyped, NEW s \in Node, NEW d \in Node, HandleInit(s, d)
    PROVE  /\ SignTyped'
           /\ links' = Taken(links, s, d) /\ links[s][d] # <<>> /\ Head(links[s][d]).type = "signSessionInit"
           /\ starting'[d] \in {starting[d], starting[d] + 1}
           /\ \A j \in Node \ {d} : starting'[j] = starting[j] /\ managers'[j] = managers[j]
           /\ Len(managers'[d]) = Len(managers[d]) + 1
           /\ \A i \in 1..Len(managers[d]) :
                 managers'[d][i] = IF Pending(managers[d][i]) THEN managers[d][i] ELSE NewManager(FALSE)
           /\ managers'[d][Len(managers[d]) + 1] = NewManager(keyParties = Node)
           /\ UNCHANGED <<sharing, roundVars, keyParties, starts>>
<1> DEFINE old == Superseded(managers[d])
           new == NewManager(keyParties = Node)
<1>1. managers[d] \in Seq(SessionManager) /\ new \in SessionManager
  BY EmptyTypes DEF SignTyped, ManagersOK
<1>2. /\ old \in Seq(SessionManager) /\ Len(old) = Len(managers[d])
      /\ \A i \in 1..Len(managers[d]) :
            old[i] = IF Pending(managers[d][i]) THEN managers[d][i] ELSE NewManager(FALSE)
  BY <1>1, SupersededIs
<1>3. managers' = [managers EXCEPT ![d] = Append(old, new)]
  BY DEF HandleInit
<1> HIDE DEF old, new
<1>4. /\ Append(old, new) \in Seq(SessionManager)
      /\ Len(Append(old, new)) = Len(managers[d]) + 1
      /\ \A i \in 1..Len(managers[d]) : Append(old, new)[i] = old[i]
      /\ Append(old, new)[Len(managers[d]) + 1] = new
  BY <1>1, <1>2
<1>5. managers'[d] = Append(old, new) /\ \A j \in Node \ {d} : managers'[j] = managers[j]
  BY <1>3 DEF SignTyped, ManagersOK
<1>6. ManagersOK'
  BY <1>3, <1>4 DEF SignTyped, ManagersOK
<1>7. RoundsOK' /\ UNCHANGED <<sharing, roundVars, keyParties, starts>>
  BY DEF HandleInit, SignTyped, RoundsOK, roundVars
<1>8. /\ links' = Taken(links, s, d) /\ links[s][d] # <<>> /\ Head(links[s][d]).type = "signSessionInit"
      /\ links' \in LinksOf(SignMessage)
  BY IncomingIs DEF HandleInit, SignTyped
<1>9. \/ starting' = [starting EXCEPT ![d] = starting[d] + 1] /\ UNCHANGED registry
      \/ registry' = ReadBy(registry, d) /\ UNCHANGED starting
  BY DEF HandleInit
<1>10. RestOK' /\ starting'[d] \in {starting[d], starting[d] + 1} /\ \A j \in Node \ {d} : starting'[j] = starting[j]
  BY <1>7, <1>9, ReadByType DEF SignTyped, RestOK
<1> QED
  BY <1>2, <1>4, <1>5, <1>6, <1>7, <1>8, <1>10 DEF SignTyped, new

(* The start of a session, 500 ms after a request. *)
LEMMA BeginIs ==
    ASSUME SignTyped, NEW n \in Node, BeginSession(n), HasManager(n)
    PROVE  /\ SignTyped'
           /\ Current(n) \in DOMAIN managers[n] /\ Manager(n).active
           /\ starting[n] > 0 /\ starting' = [starting EXCEPT ![n] = starting[n] - 1]
           /\ \E new \in SessionManager :
                 /\ managers' = [managers EXCEPT ![n][Current(n)] = new]
                 /\ SameData(Manager(n), new) /\ new.messages = Manager(n).messages
                 /\ new.currentRound = Manager(n).currentRound + 1
                 /\ new.resting = Append(Manager(n).resting, <<>>)
                 /\ new.waiting = Manager(n).waiting
           /\ store' = [store EXCEPT ![n] = Input(@, Manager(n).currentRound + 1)] \/ store' = store
           /\ UNCHANGED <<links, sharing, picks, masks, contributions, sigmas, keyParties, registry, starts>>
<1> DEFINE m == Manager(n)
           new == FinalizeRound(m, 0, <<>>)
<1>1. Current(n) \in DOMAIN managers[n] /\ managers[n] \in Seq(SessionManager)
  BY DEF SignTyped, ManagersOK, HasManager, Current
<1>2. m \in SessionManager
  BY <1>1, ManagerType DEF SignTyped, Manager
<1>3. <<>> \in Seq(1..3) /\ 0 \in Nat
  OBVIOUS
<1>4. /\ new \in SessionManager
      /\ SameData(m, new) /\ new.messages = m.messages
      /\ new.currentRound = m.currentRound + 1
      /\ new.resting = Append(m.resting, <<>>) /\ new.waiting = m.waiting
  <2> HIDE DEF m
  <2> QED
    BY <1>2, <1>3, FinalizeRoundIs
<1>5. /\ managers' = [managers EXCEPT ![n][Current(n)] = new]
      /\ starting[n] > 0 /\ starting' = [starting EXCEPT ![n] = starting[n] - 1]
      /\ m.active
      /\ store' = [store EXCEPT ![n] = InputAfter(@, m, 0)]
      /\ UNCHANGED <<links, sharing, picks, masks, contributions, sigmas, keyParties, registry, starts>>
  BY DEF BeginSession, Manager
<1> HIDE DEF new
<1>6. ManagersOK'
  BY <1>1, <1>4, <1>5, ManagerReplaced DEF SignTyped, Replaced
<1>7. store[n] \in Store /\ m.currentRound + 1 \in Nat
  BY <1>2, StoreType DEF SignTyped, SessionManager
<1>8. Input(store[n], m.currentRound + 1) \in Store
  BY <1>7, InputIs
<1>9. store' = [store EXCEPT ![n] = Input(@, m.currentRound + 1)] \/ store' = store
  <2>1. InputAfter(store[n], m, 0) = Input(store[n], m.currentRound + 1) \/ InputAfter(store[n], m, 0) = store[n]
    BY DEF InputAfter
  <2> HIDE DEF m
  <2> QED
    BY <1>5, <2>1 DEF SignTyped, RoundsOK
<1> HIDE DEF m
<1>10. RoundsOK' /\ RestOK'
  BY <1>5, <1>8, <1>9 DEF SignTyped, RoundsOK, RestOK
<1> QED
  BY <1>1, <1>4, <1>5, <1>6, <1>9, <1>10 DEF SignTyped, m

(* The messages of the shares are sent. *)
LEMMA SendTypes ==
    ASSUME SignTyped, NEW n \in Node, SendShares(n)
    PROVE  /\ SignTyped'
           /\ \A j \in Node : InitsOn(links', j) = InitsOn(links, j)
           /\ UNCHANGED <<managers, starting, roundVars, keyParties, registry, starts>>
<1>1. PICK x \in sharing[n] :
        /\ sharing' = [sharing EXCEPT ![n] = @ \ {x}]
        /\ links' = [links EXCEPT ![n] = [d \in Node |->
               IF d = n THEN links[n][d]
               ELSE Append(links[n][d], [type |-> "signSessionDirectMessageHandler",
                      round |-> x.round, share |-> x.share, c |-> x.c, k |-> x.ks[d],
                      mask |-> x.mask])]]
        /\ UNCHANGED <<managers, starting, roundVars, keyParties, registry, starts>>
  BY DEF SendShares
<1> DEFINE dm(d) == [type |-> "signSessionDirectMessageHandler", round |-> x.round, share |-> x.share,
                     c |-> x.c, k |-> x.ks[d], mask |-> x.mask]
<1>2. x \in SharesOfRound
  BY DEF SignTyped, RestOK
<1>3. \A d \in Node : dm(d) \in SignMessage /\ dm(d).type # "signSessionInit"
  BY <1>2 DEF SharesOfRound, SignMessage, DirectMessage, Key
<1>4. links' = [links EXCEPT ![n] = [d \in Node |-> IF d = n THEN links[n][d] ELSE Append(links[n][d], dm(d))]]
  BY <1>1
<1> HIDE DEF dm
<1>5. \A a, b \in Node : links[a][b] \in Seq(SignMessage)
  BY DEF SignTyped, LinksOf
<1>6. \A a, b \in Node : links'[a][b] = IF a = n /\ b # n THEN Append(links[n][b], dm(b)) ELSE links[a][b]
  BY <1>4 DEF SignTyped, LinksOf
<1>7. \A d \in Node : (IF d = n THEN links[n][d] ELSE Append(links[n][d], dm(d))) \in Seq(SignMessage)
  <2> SUFFICES ASSUME NEW d \in Node
               PROVE  (IF d = n THEN links[n][d] ELSE Append(links[n][d], dm(d))) \in Seq(SignMessage)
    OBVIOUS
  <2>1. links[n][d] \in Seq(SignMessage) /\ dm(d) \in SignMessage
    BY <1>3, <1>5
  <2> QED
    BY <2>1
<1>8. links' \in LinksOf(SignMessage)
  BY <1>4, <1>7 DEF SignTyped, LinksOf
<1>9. \A j \in Node : InitsOn(links', j) = InitsOn(links, j)
  <2>1. \A a, b \in Node : \/ links'[a][b] = links[a][b]
                           \/ \E m : links'[a][b] = Append(links[a][b], m) /\ m.type # "signSessionInit"
    <3> SUFFICES ASSUME NEW a \in Node, NEW b \in Node, links'[a][b] # links[a][b]
                 PROVE  \E m : links'[a][b] = Append(links[a][b], m) /\ m.type # "signSessionInit"
      OBVIOUS
    <3>1. links'[a][b] = Append(links[a][b], dm(b)) /\ dm(b).type # "signSessionInit"
      BY <1>3, <1>6
    <3> QED
      BY <3>1
  <2> QED
    BY <2>1, InitsSent DEF SignTyped
<1>10. ManagersOK' /\ RoundsOK' /\ RestOK'
  BY <1>1 DEF SignTyped, ManagersOK, RoundsOK, RestOK, roundVars
<1> QED
  BY <1>1, <1>8, <1>9, <1>10 DEF SignTyped

(***************************************************************************)
(* What a node hears: the next packet of a link, or a round message that   *)
(* has waited for its manager i.                                           *)
(***************************************************************************)
Heard(n, i, s, msg) ==
    /\ s \in Node /\ msg \in RoundMessage
    /\ \/ links[s][n] # <<>> /\ msg = Head(links[s][n])
       \/ \E w \in managers[n][i].waiting : w.from = s /\ w.message = msg
Waits(n, i, new) ==
    LET m == managers[n][i]
    IN  /\ SameSession(m, new) /\ new.resting = m.resting
        /\ \A w \in new.waiting : Heard(n, i, w.from, w.message)
        /\ UNCHANGED store
TakesShare(n, i, new) ==
    LET m == managers[n][i]
        k == m.currentRound
    IN  /\ k \in 1..3 /\ m.active /\ i = Current(n)
        /\ new.active = m.active /\ new.currentRound = k /\ new.messages = m.messages
        /\ new.broadcastHashes = m.broadcastHashes /\ new.signature = m.signature
        /\ new.resting = m.resting /\ new.waiting = m.waiting
        /\ \A r \in 1..3 \ {k} : new.directMessages[r] = m.directMessages[r]
        /\ UNCHANGED store
Processes(n, i, new) ==
    LET m == managers[n][i]
    IN  /\ m.active /\ ~ AwaitsShares(m) /\ new.waiting \subseteq m.waiting
        /\ \E s, msg, rounds : /\ Heard(n, i, s, msg)
                               /\ Stays(n, s, m, new, msg) \/ Advances(n, s, m, new, msg, rounds)
Concludes(n, i, new) ==
    LET m == managers[n][i]
    IN  /\ m.active /\ m.currentRound = 5
        /\ ~ new.active /\ new.currentRound = 0 /\ new.signature = m.signature
        /\ new.resting = m.resting /\ new.waiting \subseteq m.waiting
        /\ UNCHANGED store
Reads(n, i, new) ==
    /\ i = Current(n) \/ managers[n][i].waiting # {}
    /\ Waits(n, i, new) \/ TakesShare(n, i, new) \/ Processes(n, i, new) \/ Concludes(n, i, new)

(* A message that is handled, the next of a link or one that has waited.   *)
LEMMA ProcessesIs ==
    ASSUME SignTyped, NEW n \in Node, NEW i \in DOMAIN managers[n], NEW m \in SessionManager,
           NEW s \in Node, NEW msg \in RoundMessage, NEW rounds \in Seq(1..3), Heard(n, i, s, msg),
           managers[n][i].active, ~ AwaitsShares(managers[n][i]),
           i = Current(n) \/ managers[n][i].waiting # {},
           NEW rest \in SUBSET managers[n][i].waiting, m = [managers[n][i] EXCEPT !.waiting = rest],
           SessionRoundProcessor(n, i, m, s, msg, rounds)
    PROVE  /\ \E new \in SessionManager : managers' = [managers EXCEPT ![n][i] = new] /\ Reads(n, i, new)
           /\ registry' \in RegistryOf(Node)
<1> DEFINE old == managers[n][i]
<1>1. PICK new \in SessionManager :
         /\ managers' = [managers EXCEPT ![n][i] = new]
         /\ new.waiting = m.waiting
         /\ \/ Stays(n, s, m, new, msg)
            \/ Advances(n, s, m, new, msg, rounds)
            \/ Ends(m, new)
  <2>1. ManagersOK /\ RoundsOK /\ registry \in RegistryOf(Node)
    BY DEF SignTyped, RestOK
  <2> QED
    BY <2>1, ProcessorIs, ZenonT(40)
<1>2. registry' \in RegistryOf(Node)
  <2>1. ManagersOK /\ RoundsOK /\ registry \in RegistryOf(Node)
    BY DEF SignTyped, RestOK
  <2> QED
    BY <2>1, ProcessorIs
<1>3. old \in SessionManager
  BY ManagerType DEF SignTyped
<1>4. /\ m.waiting = rest /\ m.active = old.active /\ m.currentRound = old.currentRound
      /\ m.messages = old.messages /\ m.directMessages = old.directMessages
      /\ m.broadcastHashes = old.broadcastHashes /\ m.signature = old.signature /\ m.resting = old.resting
  BY <1>3 DEF SessionManager
<1>5. Stays(n, s, m, new, msg) => Stays(n, s, old, new, msg)
  BY <1>4 DEF Stays, SameData, HasProcessed
<1>6. Advances(n, s, m, new, msg, rounds) => Advances(n, s, old, new, msg, rounds)
  <2> HIDE DEF old
  <2>1. HasProcessed(n, s, m, new, msg) => HasProcessed(n, s, old, new, msg)
    BY <1>4 DEF HasProcessed
  <2> QED
    BY <1>4, <2>1 DEF Advances
<1>7. Ends(m, new) => Waits(n, i, new) \/ Concludes(n, i, new)
  <2> SUFFICES ASSUME Ends(m, new) PROVE Waits(n, i, new) \/ Concludes(n, i, new)
    OBVIOUS
  <2>1. CASE new = m
    <3>1. \A w \in new.waiting : Heard(n, i, w.from, w.message)
      BY <1>1, <1>3, <1>4, <2>1 DEF Heard, SessionManager, Waiting
    <3> QED
      BY <1>4, <2>1, <3>1 DEF Ends, Waits, SameSession, SameData
  <2>2. CASE new = Over(m)
    <3>1. ~ new.active /\ new.currentRound = 0 /\ new.signature = m.signature /\ new.resting = m.resting
      BY <2>2 DEF Over, SessionManager
    <3> QED
      BY <1>1, <1>4, <3>1 DEF Ends, Concludes
  <2> QED
    BY <2>1, <2>2 DEF Ends
<1>8. Reads(n, i, new)
  BY <1>1, <1>4, <1>5, <1>6, <1>7 DEF Reads, Processes
<1> QED
  BY <1>1, <1>2, <1>8

(* What a node does when it reads a packet, or retries one. *)
ReadsPacket(s, n) == HandleDirectMessage(s, n) \/ DeferRoundMessage(s, n) \/ HandleRoundMessage(s, n)
LEMMA ReadIs ==
    ASSUME SignTyped, NEW n \in Node, NEW s \in Node, NEW h \in Nat,
           ReadsPacket(s, n) \/ RetryMessage(n, h)
    PROVE  /\ \/ managers' = managers /\ store' = store
              \/ \E i \in DOMAIN managers[n] : \E new \in SessionManager :
                    managers' = [managers EXCEPT ![n][i] = new] /\ Reads(n, i, new)
           /\ UNCHANGED <<starting, sharing, picks, masks, contributions, sigmas, keyParties, starts>>
           /\ registry' \in RegistryOf(Node)
           /\ \/ links' = links
              \/ /\ links[s][n] # <<>> /\ Head(links[s][n]).type # "signSessionInit"
                 /\ links' = Taken(links, s, n)
<1> DEFINE c == Current(n)
           Read == \E i \in DOMAIN managers[n] : \E new \in SessionManager :
                      managers' = [managers EXCEPT ![n][i] = new] /\ Reads(n, i, new)
           Rest == /\ UNCHANGED <<starting, sharing, picks, masks, contributions, sigmas, keyParties, starts>>
                   /\ registry' \in RegistryOf(Node)
           Took == /\ links[s][n] # <<>> /\ Head(links[s][n]).type # "signSessionInit"
                   /\ links' = Taken(links, s, n)
<1>0. \A i \in DOMAIN managers[n] : managers[n][i] \in SessionManager
  BY ManagerType DEF SignTyped
<1>1. InUse(n) => c \in DOMAIN managers[n] /\ Manager(n) = managers[n][c] /\ Manager(n) \in SessionManager
                  /\ Manager(n).active
  <2>1. managers[n] \in Seq(SessionManager)
    BY DEF SignTyped, ManagersOK
  <2>2. HasManager(n) => c \in DOMAIN managers[n]
    BY <2>1 DEF HasManager, Current
  <2> QED
    BY <1>0, <2>2 DEF InUse, Manager
<1>2. \A k \in 1..3 : <<>> \in Seq(1..3) /\ <<k>> \in Seq(1..3)
  OBVIOUS
<1>3. CASE HandleDirectMessage(s, n)
  <2> DEFINE m == Manager(n)
             k == m.currentRound
             packet == Head(links[s][n])
             dm == [from |-> s, round |-> packet.round, share |-> packet.share,
                    c |-> packet.c, k |-> packet.k, mask |-> packet.mask]
  <2>1. /\ UNCHANGED <<starting, sharing, roundVars, keyParties, starts>>
        /\ registry' \in {registry, ReadBy(registry, n)}
        /\ Incoming(s, n, "signSessionDirectMessageHandler") /\ links' = Taken(links, s, n)
        /\ managers' = IF InUse(n) /\ IsDirectMessageRound(k)
                       THEN [managers EXCEPT ![n][c].directMessages[k] = Append(@, dm)] ELSE managers
    BY <1>3 DEF HandleDirectMessage
  <2>2. Rest /\ Took /\ store' = store
    BY <2>1, ReadByType DEF roundVars, SignTyped, RestOK, Incoming
  <2>3. packet \in DirectMessage
    BY <2>1, IncomingIs DEF SignTyped
  <2> HIDE DEF packet
  <2>4. dm \in Share
    BY <2>3 DEF DirectMessage, Share
  <2> HIDE DEF dm, m
  <2>5. CASE InUse(n) /\ k \in 1..3
    <3> DEFINE kept == [m.directMessages EXCEPT ![k] = Append(m.directMessages[k], dm)]
               new == [m EXCEPT !.directMessages = kept]
    <3>1. m \in SessionManager /\ m = managers[n][c] /\ c \in DOMAIN managers[n] /\ m.active
      BY <1>1, <2>5 DEF m
    <3>2. m.directMessages \in [1..3 -> Seq(Share)] /\ Append(m.directMessages[k], dm) \in Seq(Share)
      BY <2>4, <2>5, <3>1 DEF SessionManager
    <3>3. kept \in [1..3 -> Seq(Share)] /\ \A r \in 1..3 \ {k} : kept[r] = m.directMessages[r]
      BY <3>2, <2>5
    <3>4. managers' = [managers EXCEPT ![n][c] = new]
      BY <2>1, <2>5, <3>1 DEF IsDirectMessageRound, m
    <3> HIDE DEF kept
    <3>5. /\ new \in SessionManager
          /\ new.active = m.active /\ new.currentRound = k /\ new.messages = m.messages
          /\ new.broadcastHashes = m.broadcastHashes /\ new.signature = m.signature
          /\ new.resting = m.resting /\ new.waiting = m.waiting
          /\ new.directMessages = kept
      BY <3>1, <3>3 DEF SessionManager
    <3> HIDE DEF new
    <3>6. TakesShare(n, c, new)
      BY <2>2, <2>5, <3>1, <3>3, <3>5 DEF TakesShare
    <3> QED
      BY <2>2, <3>1, <3>4, <3>5, <3>6 DEF Reads
  <2>6. CASE ~ (InUse(n) /\ k \in 1..3)
    BY <2>1, <2>2, <2>6 DEF IsDirectMessageRound, m
  <2> QED
    BY <2>5, <2>6
<1>4. ASSUME NEW i \in DOMAIN managers[n], NEW rest \in SUBSET Waiting,
             managers' = [managers EXCEPT ![n][i].waiting = rest],
             \A w \in rest : Heard(n, i, w.from, w.message), store' = store,
             i = Current(n) \/ managers[n][i].waiting # {}
      PROVE  Read
  <2> DEFINE m == managers[n][i]
             new == [m EXCEPT !.waiting = rest]
  <2>1. m \in SessionManager
    BY <1>0
  <2>2. managers' = [managers EXCEPT ![n][i] = new]
    BY <1>4
  <2>3. new \in SessionManager /\ SameSession(m, new) /\ new.resting = m.resting /\ new.waiting = rest
    BY <2>1 DEF SessionManager, SameSession, SameData
  <2> HIDE DEF new
  <2>4. Waits(n, i, new)
    BY <1>4, <2>3 DEF Waits
  <2> QED
    BY <1>4, <2>2, <2>3, <2>4 DEF Reads
<1>5. CASE DeferRoundMessage(s, n)
  <2> DEFINE m == Manager(n)
             w == [from |-> s, message |-> Head(links[s][n]), rounds |-> <<m.currentRound>>]
             rest == m.waiting \cup {w}
  <2>1. /\ UNCHANGED <<starting, sharing, roundVars, keyParties, registry, starts>>
        /\ Incoming(s, n, "signSessionRoundHandler") /\ links' = Taken(links, s, n)
        /\ InUse(n) /\ m.currentRound \in 1..3
        /\ managers' = [managers EXCEPT ![n][c].waiting = @ \cup {w}]
    BY <1>5 DEF DeferRoundMessage, AwaitsShares, IsDirectMessageRound
  <2>2. Rest /\ Took /\ store' = store
    BY <2>1 DEF roundVars, SignTyped, RestOK, Incoming
  <2>3. Head(links[s][n]) \in RoundMessage /\ links[s][n] # <<>>
    BY <2>1, IncomingIs DEF SignTyped
  <2>4. w \in Waiting /\ w.from = s /\ w.message = Head(links[s][n])
    BY <1>2, <2>1, <2>3 DEF Waiting
  <2> HIDE DEF w
  <2>5. rest \in SUBSET Waiting /\ \A x \in m.waiting : x.from \in Node /\ x.message \in RoundMessage
    BY <1>1, <2>1, <2>4 DEF SessionManager, Waiting
  <2>6. managers' = [managers EXCEPT ![n][c].waiting = rest]
    BY <1>1, <2>1
  <2>7. \A x \in rest : Heard(n, c, x.from, x.message)
    BY <1>1, <2>1, <2>3, <2>4, <2>5 DEF Heard
  <2> HIDE DEF rest, Read
  <2>8. Read
    BY <1>1, <1>4, <2>1, <2>2, <2>5, <2>6, <2>7
  <2> QED
    BY <2>2, <2>8 DEF Read
<1>6. CASE WaitAgain(n, h) \/ DropWaiting(n, h)
  <2>1. /\ UNCHANGED <<links, starting, sharing, roundVars, keyParties, starts>> /\ registry' \in RegistryOf(Node)
        /\ h \in DOMAIN managers[n]
        /\ managers[n][h].currentRound \in 1..3 \/ ~ managers[n][h].active
    BY <1>6, ReadByType DEF WaitAgain, DropWaiting, SignTyped, RestOK, AwaitsShares, IsDirectMessageRound
  <2> DEFINE m == managers[n][h]
  <2>2. m.waiting \in SUBSET Waiting
    BY <1>0, <2>1 DEF SessionManager
  <2>3. PICK w \in m.waiting :
           \/ /\ m.currentRound \in 1..3
              /\ managers' = [managers EXCEPT ![n][h].waiting =
                   (m.waiting \ {w}) \cup {[w EXCEPT !.rounds = <<m.currentRound>> \o @]}]
           \/ managers' = [managers EXCEPT ![n][h].waiting = m.waiting \ {w}]
    BY <1>6, <2>1 DEF WaitAgain, DropWaiting, AwaitsShares, IsDirectMessageRound
  <2> DEFINE v == [w EXCEPT !.rounds = <<m.currentRound>> \o @]
  <2>4. m.currentRound \in 1..3 => v \in Waiting /\ v.from = w.from /\ v.message = w.message
    <3>1. m.currentRound \in 1..3 => <<m.currentRound>> \o w.rounds \in Seq(1..3)
      BY <1>2, <2>2 DEF Waiting
    <3> QED
      BY <2>2, <3>1 DEF Waiting
  <2> HIDE DEF v
  <2>5. PICK rest \in SUBSET Waiting :
           /\ managers' = [managers EXCEPT ![n][h].waiting = rest]
           /\ \A x \in rest : \E y \in m.waiting : x.from = y.from /\ x.message = y.message
    <3>1. CASE m.currentRound \in 1..3 /\ managers' = [managers EXCEPT ![n][h].waiting = (m.waiting \ {w}) \cup {v}]
      <4>1. (m.waiting \ {w}) \cup {v} \in SUBSET Waiting
        BY <2>2, <2>4, <3>1
      <4>2. \A x \in (m.waiting \ {w}) \cup {v} : \E y \in m.waiting : x.from = y.from /\ x.message = y.message
        BY <2>4, <3>1
      <4> QED
        BY <3>1, <4>1, <4>2
    <3>2. CASE managers' = [managers EXCEPT ![n][h].waiting = m.waiting \ {w}]
      <4>1. m.waiting \ {w} \in SUBSET Waiting
        BY <2>2
      <4> QED
        BY <3>2, <4>1
    <3> QED
      BY <2>3, <3>1, <3>2 DEF v
  <2>6. \A x \in rest : Heard(n, h, x.from, x.message)
    BY <2>2, <2>5 DEF Heard, Waiting
  <2>7. store' = store /\ Rest /\ links' = links
    BY <2>1 DEF roundVars
  <2> HIDE DEF Read
  <2>8. Read
    BY <1>4, <2>1, <2>5, <2>6, <2>7
  <2> QED
    BY <2>7, <2>8 DEF Read
<1>7. CASE HandleRoundMessage(s, n)
  <2> DEFINE m == Manager(n)
             msg == Head(links[s][n])
  <2>1. /\ UNCHANGED <<starting, sharing, picks, masks, contributions, sigmas, keyParties, starts>>
        /\ Incoming(s, n, "signSessionRoundHandler") /\ links' = Taken(links, s, n)
        /\ InUse(n) /\ ~ AwaitsShares(m)
        /\ SessionRoundProcessor(n, c, m, s, msg, <<>>)
    BY <1>7 DEF HandleRoundMessage
  <2>2. msg \in RoundMessage /\ links[s][n] # <<>> /\ msg.type # "signSessionInit"
    BY <2>1, IncomingIs DEF SignTyped, Incoming
  <2>3. Heard(n, c, s, msg)
    BY <2>2 DEF Heard
  <2>4. m \in SessionManager /\ m = managers[n][c] /\ c \in DOMAIN managers[n] /\ m.active
    BY <1>1, <2>1
  <2>5. m.waiting \in SUBSET m.waiting /\ m = [m EXCEPT !.waiting = m.waiting]
    BY <2>4 DEF SessionManager
  <2> HIDE DEF m, msg
  <2>7. m.waiting \in SUBSET managers[n][c].waiting /\ m = [managers[n][c] EXCEPT !.waiting = m.waiting]
        /\ managers[n][c].active /\ ~ AwaitsShares(managers[n][c]) /\ <<>> \in Seq(1..3)
    BY <1>2, <2>1, <2>4, <2>5
  <2>8. c = Current(n)
    OBVIOUS
  <2> HIDE DEF c
  <2>6. Read /\ registry' \in RegistryOf(Node)
    BY <2>8, <2>1, <2>2, <2>3, <2>4, <2>7, ProcessesIs
  <2> QED
    BY <2>1, <2>2, <2>6 DEF msg
<1>8. CASE RetryRoundMessage(n, h)
  <2> DEFINE old == managers[n][h]
  <2>1. /\ UNCHANGED <<links, starting, sharing, picks, masks, contributions, sigmas, keyParties, starts>>
        /\ h \in DOMAIN managers[n] /\ old.active /\ ~ AwaitsShares(old)
    BY <1>8 DEF RetryRoundMessage
  <2>2. PICK w \in old.waiting :
           SessionRoundProcessor(n, h, [old EXCEPT !.waiting = @ \ {w}], w.from, w.message, w.rounds)
    BY <1>8 DEF RetryRoundMessage
  <2>3. old \in SessionManager
    BY <1>0, <2>1
  <2>4. w \in Waiting
    BY <2>3 DEF SessionManager
  <2> DEFINE rest == old.waiting \ {w}
             m == [old EXCEPT !.waiting = rest]
  <2>5. rest \in SUBSET old.waiting /\ rest \in SUBSET Waiting
    BY <2>3 DEF SessionManager
  <2> HIDE DEF rest
  <2>6. m \in SessionManager
    BY <2>3, <2>5 DEF SessionManager
  <2>7. w.from \in Node /\ w.message \in RoundMessage /\ w.rounds \in Seq(1..3) /\ Heard(n, h, w.from, w.message)
    BY <2>4 DEF Waiting, Heard
  <2>8. SessionRoundProcessor(n, h, m, w.from, w.message, w.rounds)
    BY <2>2 DEF rest
  <2> HIDE DEF old, m
  <2>9. m = [managers[n][h] EXCEPT !.waiting = rest]
    BY DEF m, old
  <2>10. Read /\ registry' \in RegistryOf(Node)
    BY <2>1, <2>5, <2>6, <2>7, <2>8, <2>9, ProcessesIs DEF old
  <2> QED
    BY <2>1, <2>10
<1> QED
  BY <1>3, <1>5, <1>6, <1>7, <1>8 DEF ReadsPacket, RetryMessage

(* What is thrown out, at a request or at the end of a timer, and what the *)
(* Redis list becomes of it.                                               *)
LEMMA RefusedIs ==
    ASSUME SignTyped, NEW s \in Node, NEW n \in Node,
           RefuseInit(s, n) \/ DropRoundMessage(s, n) \/ RefuseBegin(n) \/ UpdatePeerReplica(n)
    PROVE  /\ SignTyped'
           /\ UNCHANGED <<managers, sharing, roundVars, keyParties, starts>>
           /\ \/ UNCHANGED starting
              \/ starting[n] > 0 /\ starting' = [starting EXCEPT ![n] = starting[n] - 1]
           /\ \/ UNCHANGED links
              \/ links[s][n] # <<>> /\ links' = Taken(links, s, n)
<1>1. /\ UNCHANGED <<managers, sharing, roundVars, keyParties, starts>>
      /\ \/ UNCHANGED starting
         \/ starting[n] > 0 /\ starting' = [starting EXCEPT ![n] = starting[n] - 1]
      /\ \/ registry' \in {registry, ReadBy(registry, n)}
         \/ HasRead(registry, n) /\ registry' = WrittenBy(registry, n)
      /\ \/ UNCHANGED links
         \/ links[s][n] # <<>> /\ links' = Taken(links, s, n)
  BY DEF RefuseInit, DropRoundMessage, RefuseBegin, UpdatePeerReplica, Incoming
<1>2. links' \in LinksOf(SignMessage)
  BY <1>1, TakenType DEF SignTyped
<1>3. ManagersOK' /\ RoundsOK'
  BY <1>1 DEF SignTyped, ManagersOK, RoundsOK, roundVars
<1>4. starting' \in [Node -> Nat]
  BY <1>1 DEF SignTyped, RestOK
<1>5. RestOK'
  BY <1>1, <1>4, ReadByType, WrittenByType DEF SignTyped, RestOK
<1> QED
  BY <1>1, <1>2, <1>3, <1>5 DEF SignTyped

(* Reading keeps the types. *)
LEMMA ReadTypes ==
    ASSUME SignTyped, NEW n \in Node, NEW s \in Node, NEW h \in Nat,
           ReadsPacket(s, n) \/ RetryMessage(n, h)
    PROVE  SignTyped'
<1>1. /\ \/ managers' = managers /\ store' = store
         \/ \E i \in DOMAIN managers[n] : \E new \in SessionManager :
               managers' = [managers EXCEPT ![n][i] = new] /\ Reads(n, i, new)
      /\ UNCHANGED <<starting, sharing, picks, masks, contributions, sigmas, keyParties, starts>>
      /\ registry' \in RegistryOf(Node)
      /\ \/ links' = links
         \/ links[s][n] # <<>> /\ links' = Taken(links, s, n)
  BY ReadIs
<1>2. links' \in LinksOf(SignMessage)
  BY <1>1, TakenType DEF SignTyped
<1>3. RestOK'
  BY <1>1 DEF SignTyped, RestOK
<1>4. ManagersOK'
  <2>1. CASE managers' = managers
    BY <2>1 DEF SignTyped, ManagersOK
  <2>2. ASSUME NEW i \in DOMAIN managers[n], NEW new \in SessionManager,
               managers' = [managers EXCEPT ![n][i] = new]
        PROVE  ManagersOK'
    BY <2>2, ManagerReplaced DEF SignTyped, Replaced
  <2> QED
    BY <1>1, <2>1, <2>2
<1>5. store' \in [Node -> Store]
  <2>1. \/ store' = store
        \/ \E k \in Nat : store' = [store EXCEPT ![n] = Input(@, k)]
    <3>1. \A i \in DOMAIN managers[n] : managers[n][i] \in SessionManager
      BY ManagerType DEF SignTyped
    <3>2. ASSUME NEW i \in DOMAIN managers[n], NEW new, Reads(n, i, new)
          PROVE  store' = store \/ store' = [store EXCEPT ![n] = Input(@, managers[n][i].currentRound + 1)]
      BY <3>2 DEF Reads, Waits, TakesShare, Processes, Concludes, Stays, Advances
    <3>3. \A i \in DOMAIN managers[n] : managers[n][i].currentRound + 1 \in Nat
      BY <3>1 DEF SessionManager
    <3> QED
      BY <1>1, <3>2, <3>3
  <2>2. ASSUME NEW k \in Nat, store' = [store EXCEPT ![n] = Input(@, k)]
        PROVE  store' \in [Node -> Store]
    <3>1. store[n] \in Store /\ store \in [Node -> Store]
      BY DEF SignTyped, RoundsOK
    <3>2. Input(store[n], k) \in Store
      BY <3>1, InputIs
    <3> QED
      BY <2>2, <3>1, <3>2
  <2> QED
    BY <2>1, <2>2 DEF SignTyped, RoundsOK
<1>6. RoundsOK'
  BY <1>1, <1>5 DEF SignTyped, RoundsOK
<1> QED
  BY <1>2, <1>3, <1>4, <1>6 DEF SignTyped

(***************************************************************************)
(* Every step keeps the types, and is of one of five kinds: nothing of the *)
(* managers and the rounds changes, a request makes a new manager, a       *)
(* session begins, a round is verified, a message is read.                 *)
(***************************************************************************)
ReadsOne(n) ==
    /\ \E i \in DOMAIN managers[n] : \E new \in SessionManager :
          managers' = [managers EXCEPT ![n][i] = new] /\ Reads(n, i, new)
    /\ UNCHANGED <<sharing, picks, masks, contributions, sigmas, keyParties, starts>>
LEMMA StepIs ==
    ASSUME SignTyped, \A n \in Node : starting[n] > 0 => HasManager(n), SignNext
    PROVE  /\ SignTyped'
           /\ \/ UNCHANGED <<managers, roundVars>>
              \/ \E s, d \in Node : HandleInit(s, d)
              \/ \E n \in Node : BeginSession(n) /\ HasManager(n)
              \/ \E n \in Node : \E i \in Nat : VerifyRound(n, i)
              \/ \E n \in Node : ReadsOne(n)
<1> DEFINE Kind == \/ UNCHANGED <<managers, roundVars>>
                   \/ \E s, d \in Node : HandleInit(s, d)
                   \/ \E n \in Node : BeginSession(n) /\ HasManager(n)
                   \/ \E n \in Node : \E i \in Nat : VerifyRound(n, i)
                   \/ \E n \in Node : ReadsOne(n)
<1> HIDE DEF Kind
<1>1. ASSUME NEW s \in Node, NEW n \in Node, NEW h \in Nat, ReadsPacket(s, n) \/ RetryMessage(n, h)
      PROVE  SignTyped' /\ Kind
  <2>1. SignTyped'
    BY <1>1, ReadTypes
  <2>2. /\ \/ managers' = managers /\ store' = store
           \/ \E i \in DOMAIN managers[n] : \E new \in SessionManager :
                 managers' = [managers EXCEPT ![n][i] = new] /\ Reads(n, i, new)
        /\ UNCHANGED <<starting, sharing, picks, masks, contributions, sigmas, keyParties, starts>>
    BY <1>1, ReadIs
  <2> QED
    BY <2>1, <2>2 DEF Kind, roundVars, ReadsOne
<1>2. ASSUME NEW s \in Node, NEW n \in Node,
             RefuseInit(s, n) \/ DropRoundMessage(s, n) \/ RefuseBegin(n) \/ UpdatePeerReplica(n)
      PROVE  SignTyped' /\ Kind
  BY <1>2, RefusedIs DEF Kind
<1>3. ASSUME NEW n \in Node, StartSign(n) PROVE SignTyped' /\ Kind
  BY <1>3, StartTypes DEF Kind, StartSign
<1>4. ASSUME NEW n \in Node, SendShares(n) PROVE SignTyped' /\ Kind
  BY <1>4, SendTypes DEF Kind
<1>5. ASSUME NEW s \in Node, NEW d \in Node, HandleInit(s, d) PROVE SignTyped' /\ Kind
  BY <1>5, InitIs DEF Kind
<1>6. ASSUME NEW n \in Node, BeginSession(n) PROVE SignTyped' /\ Kind
  <2>1. HasManager(n)
    BY <1>6 DEF BeginSession
  <2> QED
    BY <1>6, <2>1, BeginIs DEF Kind
<1>7. ASSUME NEW n \in Node, NEW i \in Nat, VerifyRound(n, i) PROVE SignTyped' /\ Kind
  BY <1>7, VerifyTypes DEF Kind
<1>8. 1..MaxStarts \subseteq Nat
  BY SignAssumption
<1> QED
  BY <1>1, <1>2, <1>3, <1>4, <1>5, <1>6, <1>7, <1>8
     DEF SignNext, SignTimer, DeliverMessage, ReadsPacket, Kind

-------------------------------------------------------------------------------
(***************************************************************************)
(* How far the requests can take a session.  A request is on its way to a  *)
(* node, waits there for its 500 ms, or has begun a session: each of them  *)
(* makes one manager and takes one manager one round further.              *)
(***************************************************************************)
Requests(n) == Cardinality(InitsOn(links, n))
CountOK(n) ==
    /\ IsFiniteSet(InitsOn(links, n))
    /\ Len(managers[n]) + Requests(n) <= starts
    /\ starting[n] + Requests(n) <= starts
    /\ starting[n] > 0 => HasManager(n)
    /\ \A i \in DOMAIN managers[n] :
          managers[n][i].currentRound >= 1 =>
             /\ starting[n] + Requests(n) + 1 <= starts
             /\ starting[n] + Requests(n) + managers[n][i].currentRound <= starts + 4
CountInv == \A n \in Node : CountOK(n)

LEMMA CountTypes ==
    ASSUME SignTyped, NEW n \in Node, CountOK(n)
    PROVE  /\ Requests(n) \in Nat /\ starting[n] \in Nat /\ starts \in Nat /\ Len(managers[n]) \in Nat
           /\ \A i \in DOMAIN managers[n] : managers[n][i].currentRound \in Nat
<1>1. Requests(n) \in Nat
  BY FS_CardinalityType DEF CountOK, Requests
<1>2. \A i \in DOMAIN managers[n] : managers[n][i] \in SessionManager
  BY ManagerType DEF SignTyped
<1>3. managers[n] \in Seq(SessionManager)
  BY DEF SignTyped, ManagersOK
<1> QED
  BY <1>1, <1>2, <1>3 DEF SignTyped, RestOK, SessionManager

(* Whatever asks for no session takes a manager further in its five rounds. *)
LEMMA CountKept ==
    ASSUME SignTyped, SignTyped', NEW n \in Node, CountOK(n),
           starts' = starts, starting'[n] <= starting[n],
           IsFiniteSet(InitsOn(links', n)), Requests(n)' <= Requests(n),
           Len(managers'[n]) = Len(managers[n]), DOMAIN managers'[n] = DOMAIN managers[n],
           \A i \in DOMAIN managers[n] :
              \/ managers'[n][i].currentRound \in {0, managers[n][i].currentRound}
              \/ managers[n][i].currentRound \in 1..4
                   /\ managers'[n][i].currentRound = managers[n][i].currentRound + 1
    PROVE  CountOK(n)'
<1>1. /\ Requests(n) \in Nat /\ starting[n] \in Nat /\ starts \in Nat /\ Len(managers[n]) \in Nat
      /\ \A i \in DOMAIN managers[n] : managers[n][i].currentRound \in Nat
  BY CountTypes
<1>2. Requests(n)' \in Nat /\ starting'[n] \in Nat
  <2>1. Requests(n)' \in Nat
    BY FS_CardinalityType DEF Requests
  <2> QED
    BY <2>1 DEF SignTyped, RestOK
<1>3. Len(managers'[n]) + Requests(n)' <= starts /\ starting'[n] + Requests(n)' <= starts
  BY <1>1, <1>2 DEF CountOK
<1>4. managers[n] \in Seq(SessionManager) /\ managers'[n] \in Seq(SessionManager)
  BY DEF SignTyped, ManagersOK
<1>5. starting'[n] > 0 => managers'[n] # <<>>
  BY <1>1, <1>2, <1>4 DEF CountOK, HasManager
<1>6. ASSUME NEW i \in DOMAIN managers[n], managers'[n][i].currentRound >= 1
      PROVE  /\ starting'[n] + Requests(n)' + 1 <= starts
             /\ starting'[n] + Requests(n)' + managers'[n][i].currentRound <= starts + 4
  <2> DEFINE c == managers[n][i].currentRound
             new == managers'[n][i].currentRound
             a == Requests(n)
             b == Requests(n)'
             x == starting[n]
             y == starting'[n]
  <2>1. /\ c \in Nat /\ a \in Nat /\ b \in Nat /\ x \in Nat /\ y \in Nat /\ starts \in Nat
        /\ b <= a /\ y <= x
    BY <1>1, <1>2
  <2>2. c >= 1 => x + a + 1 <= starts /\ x + a + c <= starts + 4
    BY DEF CountOK
  <2>3. new >= 1 /\ (new \in {0, c} \/ (c \in 1..4 /\ new = c + 1))
    BY <1>6
  <2> HIDE DEF c, new, a, b, x, y
  <2>4. y + b + 1 <= starts /\ y + b + new <= starts + 4
    BY <2>1, <2>2, <2>3
  <2> QED
    BY <2>4 DEF new, b, y
<1> QED
  BY <1>3, <1>5, <1>6 DEF CountOK, HasManager

LEMMA CountStep == ASSUME SignTyped, CountInv, SignNext PROVE CountInv'
<1>1. SignTyped'
  BY StepIs DEF CountInv, CountOK
<1>2. ManagersOK
  BY DEF SignTyped
<1>3. ASSUME NEW s \in Node, NEW d \in Node, NEW j \in Node,
             links' = links \/ (links[s][d] # <<>> /\ links' = Taken(links, s, d))
      PROVE  IsFiniteSet(InitsOn(links', j)) /\ Requests(j)' <= Requests(j)
  <2>1. IsFiniteSet(InitsOn(links, d)) /\ IsFiniteSet(InitsOn(links, j)) /\ Requests(j) \in Nat
    BY CountTypes DEF CountInv, CountOK
  <2>2. CASE links' = links
    BY <2>1, <2>2 DEF Requests
  <2>3. CASE links[s][d] # <<>> /\ links' = Taken(links, s, d)
    <3>1. /\ \A n \in Node \ {d} : InitsOn(Taken(links, s, d), n) = InitsOn(links, n)
          /\ IsFiniteSet(InitsOn(Taken(links, s, d), d))
          /\ Cardinality(InitsOn(Taken(links, s, d), d)) <= Cardinality(InitsOn(links, d))
      BY <2>1, <2>3, InitsTaken DEF SignTyped
    <3> QED
      BY <2>1, <2>3, <3>1 DEF Requests
  <2> QED
    BY <1>3, <2>2, <2>3
<1>4. ASSUME \A j \in Node : InitsOn(links', j) = InitsOn(links, j), NEW j \in Node
      PROVE  IsFiniteSet(InitsOn(links', j)) /\ Requests(j)' <= Requests(j)
  BY <1>4, CountTypes DEF CountInv, CountOK, Requests
<1>5. \A j \in Node : starting[j] \in Nat /\ CountOK(j)
  BY DEF CountInv, SignTyped, RestOK
<1>6. ASSUME NEW n \in Node, StartSign(n) PROVE CountInv'
  <2>1. SUFFICES ASSUME NEW j \in Node PROVE CountOK(j)'
    BY DEF CountInv
  <2>2. /\ IsFiniteSet(InitsOn(links', j)) /\ Requests(j)' = Requests(j) + 1
        /\ starts' = starts + 1
        /\ UNCHANGED <<managers, starting>>
    <3>1. IsFiniteSet(InitsOn(links, j))
      BY <1>5 DEF CountOK
    <3> QED
      BY <1>6, <3>1, InitsAsked DEF StartSign, SignTyped, Requests
  <2>3. /\ Requests(j) \in Nat /\ starting[j] \in Nat /\ starts \in Nat /\ Len(managers[j]) \in Nat
        /\ \A i \in DOMAIN managers[j] : managers[j][i].currentRound \in Nat
    BY <1>5, CountTypes
  <2>4. /\ Len(managers[j]) + Requests(j) <= starts /\ starting[j] + Requests(j) <= starts
        /\ starting[j] > 0 => managers[j] # <<>>
        /\ \A i \in DOMAIN managers[j] :
              managers[j][i].currentRound >= 1 =>
                 /\ starting[j] + Requests(j) + 1 <= starts
                 /\ starting[j] + Requests(j) + managers[j][i].currentRound <= starts + 4
    BY <1>5 DEF CountOK, HasManager
  <2>5. /\ Len(managers'[j]) + Requests(j)' <= starts' /\ starting'[j] + Requests(j)' <= starts'
        /\ starting'[j] > 0 => managers'[j] # <<>>
        /\ \A i \in DOMAIN managers'[j] :
              managers'[j][i].currentRound >= 1 =>
                 /\ starting'[j] + Requests(j)' + 1 <= starts'
                 /\ starting'[j] + Requests(j)' + managers'[j][i].currentRound <= starts' + 4
    <3> HIDE DEF Requests
    <3>1. managers'[j] = managers[j] /\ starting'[j] = starting[j]
      BY <2>2
    <3>2. Requests(j)' = Requests(j) + 1 /\ starts' = starts + 1
      BY <2>2
    <3>3. Len(managers'[j]) + Requests(j)' <= starts' /\ starting'[j] + Requests(j)' <= starts'
      BY <2>3, <2>4, <3>1, <3>2
    <3>4. ASSUME NEW i \in DOMAIN managers[j], managers[j][i].currentRound >= 1
          PROVE  /\ starting[j] + Requests(j)' + 1 <= starts'
                 /\ starting[j] + Requests(j)' + managers[j][i].currentRound <= starts' + 4
      <4> DEFINE round == managers[j][i].currentRound
                 x == starting[j]
                 a == Requests(j)
      <4>1. /\ x \in Nat /\ a \in Nat /\ round \in Nat /\ starts \in Nat
            /\ x + a + 1 <= starts /\ x + a + round <= starts + 4
        BY <2>3, <2>4, <3>4
      <4> HIDE DEF round, x, a
      <4>2. x + (a + 1) + 1 <= starts + 1 /\ x + (a + 1) + round <= (starts + 1) + 4
        BY <4>1
      <4> QED
        BY <3>2, <4>2 DEF round, x, a
    <3> QED
      BY <2>4, <3>1, <3>3, <3>4
  <2> QED
    BY <2>2, <2>5 DEF CountOK, HasManager
<1>7. ASSUME NEW s \in Node, NEW d \in Node, HandleInit(s, d) PROVE CountInv'
  <2>1. /\ links' = Taken(links, s, d) /\ links[s][d] # <<>> /\ Head(links[s][d]).type = "signSessionInit"
        /\ starting'[d] \in {starting[d], starting[d] + 1}
        /\ \A j \in Node \ {d} : starting'[j] = starting[j] /\ managers'[j] = managers[j]
        /\ Len(managers'[d]) = Len(managers[d]) + 1
        /\ \A i \in 1..Len(managers[d]) :
              managers'[d][i] = IF Pending(managers[d][i]) THEN managers[d][i] ELSE NewManager(FALSE)
        /\ managers'[d][Len(managers[d]) + 1] = NewManager(keyParties = Node)
        /\ starts' = starts
    BY <1>7, InitIs
  <2>2. ASSUME NEW j \in Node, j # d PROVE CountOK(j)'
    BY <1>1, <1>3, <1>5, <2>1, <2>2, CountKept
  <2>3. CountOK(d)'
    <3>1. IsFiniteSet(InitsOn(links', d)) /\ Requests(d)' + 1 <= Requests(d)
      <4>1. IsFiniteSet(InitsOn(links, d))
        BY <1>5 DEF CountOK
      <4> QED
        BY <2>1, <4>1, InitsTaken DEF SignTyped, Requests
    <3>2. /\ Requests(d) \in Nat /\ Requests(d)' \in Nat /\ starting[d] \in Nat /\ starting'[d] \in Nat
          /\ starts \in Nat /\ Len(managers[d]) \in Nat
          /\ \A i \in DOMAIN managers[d] : managers[d][i].currentRound \in Nat
      BY <1>1, <1>5, <3>1, CountTypes, FS_CardinalityType DEF SignTyped, RestOK, Requests
    <3>3. /\ Len(managers[d]) + Requests(d) <= starts /\ starting[d] + Requests(d) <= starts
          /\ \A i \in DOMAIN managers[d] :
                managers[d][i].currentRound >= 1 =>
                   /\ starting[d] + Requests(d) + 1 <= starts
                   /\ starting[d] + Requests(d) + managers[d][i].currentRound <= starts + 4
      BY <1>5 DEF CountOK
    <3>4. managers[d] \in Seq(SessionManager) /\ managers'[d] \in Seq(SessionManager)
      BY <1>1 DEF SignTyped, ManagersOK
    <3>5. /\ Len(managers'[d]) + Requests(d)' <= starts /\ starting'[d] + Requests(d)' <= starts
          /\ managers'[d] # <<>>
      <4>1. Len(managers'[d]) = Len(managers[d]) + 1 /\ starting'[d] <= starting[d] + 1
        BY <2>1, <3>2
      <4>2. Len(managers'[d]) + Requests(d)' <= starts
        BY <3>1, <3>2, <3>3, <4>1
      <4>3. starting'[d] + Requests(d)' <= starts
        BY <3>1, <3>2, <3>3, <4>1
      <4>4. managers'[d] # <<>>
        BY <3>2, <3>4, <4>1
      <4> QED
        BY <4>2, <4>3, <4>4
    <3>6. ASSUME NEW i \in DOMAIN managers'[d], managers'[d][i].currentRound >= 1
          PROVE  /\ starting'[d] + Requests(d)' + 1 <= starts
                 /\ starting'[d] + Requests(d)' + managers'[d][i].currentRound <= starts + 4
      <4>1. \A initialized : NewManager(initialized).currentRound = 0
        BY DEF NewManager
      <4>2. i \in 1..Len(managers[d]) \/ i = Len(managers[d]) + 1
        BY <2>1, <3>2, <3>4
      <4>3. i # Len(managers[d]) + 1
        BY <2>1, <3>6, <4>1
      <4>4. i \in 1..Len(managers[d]) /\ DOMAIN managers[d] = 1..Len(managers[d])
        BY <3>4, <4>2, <4>3
      <4>5. managers'[d][i].currentRound \in {0, managers[d][i].currentRound}
        BY <2>1, <4>1, <4>4
      <4> DEFINE old == managers[d][i].currentRound
      <4>6. managers'[d][i].currentRound = old /\ old \in Nat /\ old >= 1
        BY <3>2, <3>6, <4>4, <4>5
      <4>7. /\ starting[d] + Requests(d) + 1 <= starts
            /\ starting[d] + Requests(d) + old <= starts + 4
        BY <3>3, <4>4, <4>6
      <4>8. starting'[d] <= starting[d] + 1
        BY <2>1, <3>2
      <4>9. Requests(d)' <= Requests(d) - 1 /\ Requests(d) \in Nat /\ Requests(d)' \in Nat
        BY <3>1, <3>2
      <4>10. starting[d] \in Nat /\ starting'[d] \in Nat /\ starts \in Nat
        BY <3>2
      <4> HIDE DEF old
      <4>11. starting'[d] + Requests(d)' + 1 <= starts /\ starting'[d] + Requests(d)' + old <= starts + 4
        BY ONLY <4>6, <4>7, <4>8, <4>9, <4>10
      <4> QED
        BY <4>6, <4>11
    <3> QED
      BY <2>1, <3>1, <3>5, <3>6 DEF CountOK, HasManager
  <2> QED
    BY <2>2, <2>3 DEF CountInv
<1>8. ASSUME NEW n \in Node, BeginSession(n) PROVE CountInv'
  <2>1. HasManager(n)
    BY <1>5, <1>8 DEF BeginSession, CountOK
  <2> DEFINE c == Current(n)
  <2>2. /\ c \in DOMAIN managers[n]
        /\ starting[n] > 0 /\ starting' = [starting EXCEPT ![n] = starting[n] - 1]
        /\ \E new \in SessionManager :
              /\ managers' = [managers EXCEPT ![n][c] = new]
              /\ new.currentRound = managers[n][c].currentRound + 1
        /\ UNCHANGED <<links, starts>>
    BY <1>8, <2>1, BeginIs DEF Manager
  <2>3. PICK new \in SessionManager :
           /\ managers' = [managers EXCEPT ![n][c] = new]
           /\ new.currentRound = managers[n][c].currentRound + 1
    BY <2>2
  <2> HIDE DEF c
  <2>4. /\ \A j \in Node : Len(managers'[j]) = Len(managers[j]) /\ DOMAIN managers'[j] = DOMAIN managers[j]
        /\ \A j \in Node : \A x \in DOMAIN managers[j] :
              managers'[j][x] = IF j = n /\ x = c THEN new ELSE managers[j][x]
    <3>1. Replaced(n, c, new)
      BY <2>3 DEF Replaced
    <3>2. OnlyReplaced(n, c, new)
      BY <1>2, <2>2, <3>1, ManagerReplaced
    <3> QED
      BY <3>2 DEF OnlyReplaced
  <2>5. \A j \in Node : Requests(j)' = Requests(j) /\ IsFiniteSet(InitsOn(links', j))
    BY <1>5, <2>2 DEF Requests, CountOK
  <2>6. \A j \in Node : starting'[j] = IF j = n THEN starting[n] - 1 ELSE starting[j]
    BY <2>2 DEF SignTyped, RestOK
  <2>7. ASSUME NEW j \in Node, j # n PROVE CountOK(j)'
    <3>1. Requests(j) \in Nat /\ starting[j] \in Nat
      BY <1>5, CountTypes
    <3>2. /\ starts' = starts /\ starting'[j] <= starting[j]
          /\ Requests(j)' <= Requests(j)
          /\ \A i \in DOMAIN managers[j] : managers'[j][i].currentRound = managers[j][i].currentRound
      BY <2>2, <2>4, <2>5, <2>6, <2>7, <3>1
    <3> QED
      BY <1>1, <1>5, <2>4, <2>5, <3>2, CountKept
  <2>8. CountOK(n)'
    <3>1. /\ Requests(n) \in Nat /\ starting[n] \in Nat /\ starts \in Nat /\ Len(managers[n]) \in Nat
          /\ \A i \in DOMAIN managers[n] : managers[n][i].currentRound \in Nat
      BY <1>5, CountTypes
    <3>2. /\ Len(managers[n]) + Requests(n) <= starts /\ starting[n] + Requests(n) <= starts
          /\ \A i \in DOMAIN managers[n] :
                managers[n][i].currentRound >= 1 =>
                   /\ starting[n] + Requests(n) + 1 <= starts
                   /\ starting[n] + Requests(n) + managers[n][i].currentRound <= starts + 4
      BY <1>5 DEF CountOK
    <3>3. managers[n] \in Seq(SessionManager) /\ managers'[n] \in Seq(SessionManager)
      BY <1>1 DEF SignTyped, ManagersOK
    <3>4. managers'[n] # <<>>
      BY <2>2, <2>4, <3>3
    <3>5. ASSUME NEW i \in DOMAIN managers[n], managers'[n][i].currentRound >= 1
          PROVE  /\ starting'[n] + Requests(n)' + 1 <= starts
                 /\ starting'[n] + Requests(n)' + managers'[n][i].currentRound <= starts + 4
      <4> DEFINE old == managers[n][i].currentRound
      <4>1. managers'[n][i].currentRound \in {old, old + 1} /\ old \in Nat
        BY <2>3, <2>4, <3>1
      <4>2. old >= 1 => starting[n] + Requests(n) + old <= starts + 4
        BY <3>2
      <4>3. starting'[n] = starting[n] - 1 /\ Requests(n)' = Requests(n) /\ starting[n] + Requests(n) <= starts
        BY <2>5, <2>6, <3>2
      <4> HIDE DEF old
      <4>4. managers'[n][i].currentRound <= old + 1 /\ starting[n] >= 1
        BY <2>2, <3>1, <4>1
      <4>5. starting'[n] + Requests(n)' + 1 <= starts
        BY <3>1, <4>3
      <4>6. starting'[n] + Requests(n)' + managers'[n][i].currentRound <= starts + 4
        <5> DEFINE later == managers'[n][i].currentRound
                   a == Requests(n)
                   b == Requests(n)'
                   x == starting[n]
                   y == starting'[n]
        <5>1. later \in Nat
          BY <4>1
        <5>2. old = 0 \/ old >= 1
          BY <4>1
        <5>3. /\ old >= 1 => x + a + old <= starts + 4
              /\ later <= old + 1 /\ y = x - 1 /\ b = a /\ x + a <= starts
              /\ a \in Nat /\ x \in Nat /\ starts \in Nat /\ old \in Nat
          BY <3>1, <4>1, <4>2, <4>3, <4>4
        <5> HIDE DEF later, a, b, x, y
        <5>4. y + b + later <= starts + 4
          BY <5>1, <5>2, <5>3
        <5> QED
          BY <5>4 DEF later, b, y
      <4> QED
        BY <4>5, <4>6
    <3>6. Len(managers'[n]) + Requests(n)' <= starts /\ starting'[n] + Requests(n)' <= starts
      BY <2>2, <2>4, <2>5, <2>6, <3>1, <3>2
    <3> QED
      BY <2>2, <2>4, <2>5, <3>4, <3>5, <3>6 DEF CountOK, HasManager
  <2> QED
    BY <2>7, <2>8 DEF CountInv
(* A manager is replaced by one that is at most a round further. *)
<1>9. ASSUME NEW n \in Node, starts' = starts,
             \A j \in Node : starting'[j] <= starting[j],
             \A j \in Node : IsFiniteSet(InitsOn(links', j)) /\ Requests(j)' <= Requests(j),
             \/ managers' = managers
             \/ \E i \in DOMAIN managers[n] : \E new \in SessionManager :
                   /\ managers' = [managers EXCEPT ![n][i] = new]
                   /\ \/ new.currentRound \in {0, managers[n][i].currentRound}
                      \/ managers[n][i].currentRound \in 1..4
                           /\ new.currentRound = managers[n][i].currentRound + 1
      PROVE  CountInv'
  <2> SUFFICES ASSUME NEW j \in Node PROVE CountOK(j)'
    BY DEF CountInv
  <2>1. /\ Len(managers'[j]) = Len(managers[j]) /\ DOMAIN managers'[j] = DOMAIN managers[j]
        /\ \A x \in DOMAIN managers[j] :
              \/ managers'[j][x].currentRound \in {0, managers[j][x].currentRound}
              \/ managers[j][x].currentRound \in 1..4
                   /\ managers'[j][x].currentRound = managers[j][x].currentRound + 1
    <3>1. CASE managers' = managers
      BY <3>1
    <3>2. ASSUME NEW i \in DOMAIN managers[n], NEW new \in SessionManager,
                 managers' = [managers EXCEPT ![n][i] = new],
                 \/ new.currentRound \in {0, managers[n][i].currentRound}
                 \/ managers[n][i].currentRound \in 1..4
                      /\ new.currentRound = managers[n][i].currentRound + 1
          PROVE  /\ Len(managers'[j]) = Len(managers[j]) /\ DOMAIN managers'[j] = DOMAIN managers[j]
                 /\ \A x \in DOMAIN managers[j] :
                       \/ managers'[j][x].currentRound \in {0, managers[j][x].currentRound}
                       \/ managers[j][x].currentRound \in 1..4
                            /\ managers'[j][x].currentRound = managers[j][x].currentRound + 1
      <4>1. /\ Len(managers'[j]) = Len(managers[j]) /\ DOMAIN managers'[j] = DOMAIN managers[j]
            /\ \A x \in DOMAIN managers[j] :
                  managers'[j][x] = IF j = n /\ x = i THEN new ELSE managers[j][x]
        <5>1. Replaced(n, i, new)
          BY <3>2 DEF Replaced
        <5>2. OnlyReplaced(n, i, new)
          BY <1>2, <5>1, ManagerReplaced
        <5> QED
          BY <5>2 DEF OnlyReplaced
      <4> QED
        BY <3>2, <4>1
    <3> QED
      BY <1>9, <3>1, <3>2
  <2> QED
    BY <1>1, <1>5, <1>9, <2>1, CountKept
<1>10. ASSUME NEW s \in Node, NEW n \in Node, NEW h \in Nat, ReadsPacket(s, n) \/ RetryMessage(n, h)
       PROVE  CountInv'
  <2>1. /\ \/ managers' = managers
           \/ \E i \in DOMAIN managers[n] : \E new \in SessionManager :
                 managers' = [managers EXCEPT ![n][i] = new] /\ Reads(n, i, new)
        /\ UNCHANGED <<starting, starts>>
        /\ links' = links \/ (links[s][n] # <<>> /\ links' = Taken(links, s, n))
    BY <1>10, ReadIs
  <2>2. ASSUME NEW i, NEW new, Reads(n, i, new)
        PROVE  \/ new.currentRound \in {0, managers[n][i].currentRound}
               \/ managers[n][i].currentRound \in 1..4 /\ new.currentRound = managers[n][i].currentRound + 1
    BY <2>2 DEF Reads, Waits, SameSession, TakesShare, Processes, Concludes, Stays, Advances
  <2>3. \A j \in Node : IsFiniteSet(InitsOn(links', j)) /\ Requests(j)' <= Requests(j)
    BY <1>3, <2>1
  <2>4. \A j \in Node : starting'[j] <= starting[j]
    BY <1>5, <2>1
  <2>5. \/ managers' = managers
        \/ \E i \in DOMAIN managers[n] : \E new \in SessionManager :
              /\ managers' = [managers EXCEPT ![n][i] = new]
              /\ \/ new.currentRound \in {0, managers[n][i].currentRound}
                 \/ managers[n][i].currentRound \in 1..4
                      /\ new.currentRound = managers[n][i].currentRound + 1
    BY <2>1, <2>2
  <2> QED
    BY <1>9, <2>1, <2>3, <2>4, <2>5
<1>11. ASSUME NEW n \in Node, NEW i \in Nat, VerifyRound(n, i) PROVE CountInv'
  <2>1. /\ \A j \in Node : InitsOn(links', j) = InitsOn(links, j)
        /\ i \in DOMAIN managers[n]
        /\ UNCHANGED <<starting, starts>>
        /\ \E new \in SessionManager :
              /\ managers' = [managers EXCEPT ![n][i] = new]
              /\ \/ \E k \in 1..5 : \E signature : HasPublished(n, k, managers[n][i], new, signature)
                 \/ new = [managers[n][i] EXCEPT !.resting = Tail(@)]
    BY <1>11, VerifyTypes
  <2>2. managers[n][i] \in SessionManager
    BY <2>1, ManagerType DEF SignTyped
  <2>3. \E new \in SessionManager :
           /\ managers' = [managers EXCEPT ![n][i] = new]
           /\ new.currentRound \in {0, managers[n][i].currentRound}
    BY <2>1, <2>2 DEF HasPublished, SessionManager
  <2>4. \A j \in Node : IsFiniteSet(InitsOn(links', j)) /\ Requests(j)' <= Requests(j)
    BY <1>4, <2>1
  <2>5. \A j \in Node : starting'[j] <= starting[j]
    BY <1>5, <2>1
  <2> QED
    BY <1>9, <2>1, <2>3, <2>4, <2>5
<1>12. ASSUME NEW s \in Node, NEW n \in Node,
              RefuseInit(s, n) \/ DropRoundMessage(s, n) \/ RefuseBegin(n) \/ UpdatePeerReplica(n)
       PROVE  CountInv'
  <2>1. /\ UNCHANGED <<managers, starts>>
        /\ \/ UNCHANGED starting
           \/ starting[n] > 0 /\ starting' = [starting EXCEPT ![n] = starting[n] - 1]
        /\ links' = links \/ (links[s][n] # <<>> /\ links' = Taken(links, s, n))
    BY <1>12, RefusedIs
  <2>2. \A j \in Node : IsFiniteSet(InitsOn(links', j)) /\ Requests(j)' <= Requests(j)
    BY <1>3, <2>1
  <2>3. \A j \in Node : starting'[j] <= starting[j]
    BY <1>5, <2>1 DEF SignTyped, RestOK
  <2> QED
    BY <1>9, <2>1, <2>2, <2>3
<1>13. ASSUME NEW n \in Node, SendShares(n) PROVE CountInv'
  <2>1. UNCHANGED <<managers, starting, starts>> /\ \A j \in Node : InitsOn(links', j) = InitsOn(links, j)
    BY <1>13, SendTypes
  <2>2. \A j \in Node : IsFiniteSet(InitsOn(links', j)) /\ Requests(j)' <= Requests(j)
    BY <1>4, <2>1
  <2>3. \A j \in Node : starting'[j] <= starting[j]
    BY <1>5, <2>1
  <2> QED
    BY <1>9, <2>1, <2>2, <2>3
<1>14. 1..MaxStarts \subseteq Nat
  BY SignAssumption
<1> HIDE DEF CountInv
<1> QED
  BY <1>6, <1>7, <1>8, <1>10, <1>11, <1>12, <1>13, <1>14
     DEF SignNext, SignTimer, DeliverMessage, ReadsPacket

LEMMA SignTypedInit == ASSUME SignInit PROVE SignTyped /\ CountInv
<1>1. links \in LinksOf(SignMessage)
  BY NoPacketsType DEF SignInit
<1>2. ManagersOK /\ \A n \in Node : managers[n] = <<>>
  BY DEF SignInit, ManagersOK
<1>3. RoundsOK
  <2>1. store \in [Node -> Store]
    BY EmptyTypes DEF SignInit
  <2> QED
    BY <2>1 DEF SignInit, RoundsOK, Key
<1>4. RestOK
  BY SignAssumption, ListingType DEF SignInit, RestOK
<1>5. ASSUME NEW n \in Node PROVE CountOK(n)
  <2>1. \A s, d \in Node : links[s][d] = <<>>
    BY DEF SignInit, NoPackets
  <2>2. InitsOn(links, n) = {}
    BY <2>1 DEF InitsOn
  <2>3. IsFiniteSet(InitsOn(links, n)) /\ Requests(n) = 0
    BY <2>2, FS_EmptySet DEF Requests
  <2>4. starting[n] = 0 /\ starts = 0 /\ managers[n] = <<>>
    BY DEF SignInit
  <2> QED
    BY <2>3, <2>4 DEF CountOK
<1> QED
  BY <1>1, <1>2, <1>3, <1>4, <1>5 DEF SignTyped, CountInv

LEMMA SignStutters == ASSUME SignTyped, CountInv, UNCHANGED signVars PROVE SignTyped' /\ CountInv'
<1>1. SignTyped'
  BY DEF SignTyped, ManagersOK, RoundsOK, RestOK, signVars, roundVars
<1>2. CountInv'
  BY DEF CountInv, CountOK, Requests, HasManager, signVars
<1> QED
  BY <1>1, <1>2

LEMMA SignTypesMatch == ASSUME SignTyped, CountInv PROVE SignTypeOK
<1>1. ASSUME NEW n \in Node, NEW i \in DOMAIN managers[n]
      PROVE  LET m == managers[n][i]
             IN  /\ m.active \in BOOLEAN
                 /\ m.currentRound \in 0..(FinalRound + MaxStarts)
                 /\ m.messages \in [1..4 -> [Node -> [round : 0..4, share : Nat, deltas : Key]]]
                 /\ m.signature \in SigmaShare
                 /\ m.resting \in Seq(Seq(1..3))
                 /\ m.waiting \subseteq [from : Node, message : RoundMessage, rounds : Seq(1..3)]
  <2>1. managers[n][i] \in SessionManager
    BY <1>1, ManagerType DEF SignTyped
  <2>2. managers[n][i].currentRound \in 0..(FinalRound + MaxStarts)
    <3> DEFINE k == managers[n][i].currentRound
               a == Requests(n)
               b == starting[n]
    <3>1. CountOK(n)
      BY DEF CountInv
    <3>2. a \in Nat /\ b \in Nat /\ k \in Nat
      BY <3>1, CountTypes
    <3>3. k >= 1 => b + a + k <= starts + 4
      BY <3>1 DEF CountOK
    <3>4. starts \in 0..MaxStarts /\ MaxStarts \in 0..5
      BY SignAssumption DEF SignTyped, RestOK
    <3> HIDE DEF k, a, b
    <3>5. k \in 0..(5 + MaxStarts)
      BY <3>2, <3>3, <3>4
    <3> QED
      BY <3>5 DEF k, FinalRound
  <2> QED
    BY <2>1, <2>2 DEF SessionManager, Queue, QueueEntry, Waiting
<1>2. links \in [Node -> [Node -> Seq(SignMessage)]]
  BY DEF SignTyped, LinksOf
<1> QED
  BY <1>1, <1>2 DEF SignTyped, RoundsOK, RestOK, SignTypeOK

LEMMA SignStepTyped ==
    ASSUME SignTyped, CountInv, [SignNext]_signVars
    PROVE  SignTyped' /\ CountInv'
<1>1. \A n \in Node : starting[n] > 0 => HasManager(n)
  BY DEF CountInv, CountOK
<1> QED
  BY <1>1, StepIs, CountStep, SignStutters

(***************************************************************************)
(* The state keeps its types, and no manager's round ever grows past the   *)
(* last one by more than there have been requests, whatever requests       *)
(* overlap (abstractProtocolHnadler.ts, currentRound += 1 in               *)
(* startNewRound; signingProtocol.ts:186-225).                             *)
(***************************************************************************)
THEOREM SignTypeCorrect == SignSpec => []SignTypeOK
<1>1. SignInit => SignTyped /\ CountInv
  BY SignTypedInit
<1>2. SignTyped /\ CountInv /\ [SignNext]_signVars => (SignTyped /\ CountInv)'
  BY SignStepTyped
<1>3. SignTyped /\ CountInv => SignTypeOK
  BY SignTypesMatch
<1> QED
  BY <1>1, <1>2, <1>3, PTL DEF SignSpec

-------------------------------------------------------------------------------
(***************************************************************************)
(* What a manager that is in use knows of its own round: nothing of the    *)
(* rounds to come has been kept, its timer is set once for a round it has  *)
(* not published in yet, unless a second timer of a request has pushed it  *)
(* on - and that shows in the hashes it lacks.                             *)
(***************************************************************************)
Proper(m) == \A r \in 1..(m.currentRound - 1) : r \in m.broadcastHashes
OwnRound(n, m) ==
    /\ \A k \in 1..4 : k > m.currentRound => m.messages[k][n] = NoEntry
    /\ \A k \in 1..3 : k > m.currentRound => m.directMessages[k] = <<>>
    /\ m.currentRound = 0 => m.resting = <<>>
    /\ m.broadcastHashes \subseteq 1..(m.currentRound - 1)
    /\ Proper(m) => Len(m.resting) <= 1
    /\ Proper(m) /\ m.currentRound \in 1..4 /\ m.messages[m.currentRound][n] # NoEntry => m.resting = <<>>
OwnInv == \A n \in Node : \A i \in DOMAIN managers[n] : managers[n][i].active => OwnRound(n, managers[n][i])

LEMMA OwnNew == \A n \in Node : \A initialized \in BOOLEAN : OwnRound(n, NewManager(initialized))
BY DEF OwnRound, NewManager, EmptyQueue, Proper

(* The end of a timer, whether the round is published or not. *)
LEMMA OwnVerified ==
    ASSUME NEW n \in Node, NEW m \in SessionManager, NEW new \in SessionManager, OwnRound(n, m),
           m.resting # <<>>, new.resting = Tail(m.resting), new.currentRound = m.currentRound,
           new.directMessages = m.directMessages, new.broadcastHashes = m.broadcastHashes,
           \A k \in 1..4 : k # m.currentRound => new.messages[k][n] = m.messages[k][n]
    PROVE  OwnRound(n, new)
<1>1. Proper(new) <=> Proper(m)
  BY DEF Proper
<1>2. m.resting \in Seq(Seq(1..3)) /\ m.currentRound \in Nat
  BY DEF SessionManager
<1>3. Len(m.resting) <= 1 => new.resting = <<>> /\ Len(new.resting) = 0
  <2> DEFINE q == m.resting
  <2>1. q \in Seq(Seq(1..3)) /\ q # <<>> /\ new.resting = Tail(q)
    BY <1>2
  <2> HIDE DEF q
  <2>2. Len(q) <= 1 => Tail(q) = <<>>
    BY <2>1
  <2>3. Len(<<>>) = 0
    OBVIOUS
  <2> QED
    BY <2>1, <2>2, <2>3 DEF q
<1>4. m.currentRound # 0
  BY DEF OwnRound
<1> QED
  BY <1>1, <1>2, <1>3, <1>4 DEF OwnRound

LEMMA OwnSame ==
    ASSUME NEW n \in Node, NEW m \in SessionManager, NEW new \in SessionManager, OwnRound(n, m),
           new.resting = m.resting, new.currentRound = m.currentRound,
           \A k \in 1..3 : k > m.currentRound => new.directMessages[k] = m.directMessages[k],
           new.broadcastHashes = m.broadcastHashes,
           \A k \in 1..4 : new.messages[k][n] = m.messages[k][n]
    PROVE  OwnRound(n, new)
<1>1. Proper(new) <=> Proper(m)
  BY DEF Proper
<1>2. m.currentRound \in Nat
  BY DEF SessionManager
<1> QED
  BY <1>1, <1>2 DEF OwnRound

LEMMA OwnAdvanced ==
    ASSUME NEW n \in Node, NEW m \in SessionManager, NEW new \in SessionManager, OwnRound(n, m),
           NEW s, NEW msg, NEW rounds, Advances(n, s, m, new, msg, rounds)
    PROVE  OwnRound(n, new)
<1> DEFINE k == m.currentRound
<1>1. /\ k \in 1..4 /\ m.messages[k][n] # NoEntry /\ new.currentRound = k + 1
      /\ new.broadcastHashes = m.broadcastHashes \cup {k}
      /\ new.directMessages = m.directMessages /\ new.resting = Append(m.resting, rounds)
      /\ \A h \in 1..4 : new.messages[h][n] = m.messages[h][n]
  BY DEF Advances, HasProcessed
<1>2. m.broadcastHashes \subseteq 1..(k - 1) /\ new.broadcastHashes \subseteq 1..k
  <2>1. m.broadcastHashes \subseteq 1..(k - 1)
    BY DEF OwnRound
  <2> QED
    BY <1>1, <2>1
<1>3. Proper(new) => Proper(m)
  BY <1>1, <1>2 DEF Proper
<1>4. Proper(new) => Len(new.resting) <= 1
  <2>1. Proper(new) => m.resting = <<>>
    BY <1>1, <1>3 DEF OwnRound
  <2>2. Len(Append(<<>>, rounds)) = 1
    OBVIOUS
  <2> QED
    BY <1>1, <2>1, <2>2
<1>5. \A h \in 1..4 : h > k + 1 => new.messages[h][n] = NoEntry
  BY <1>1 DEF OwnRound
<1>6. \A h \in 1..3 : h > k + 1 => new.directMessages[h] = <<>>
  BY <1>1 DEF OwnRound
<1>7. k + 1 \in 1..4 => new.messages[k + 1][n] = NoEntry
  BY <1>1 DEF OwnRound
<1>8. (k + 1) - 1 = k /\ k + 1 # 0
  BY <1>1
<1> HIDE DEF k
<1> QED
  BY <1>1, <1>2, <1>4, <1>5, <1>6, <1>7, <1>8 DEF OwnRound

LEMMA OwnBegun ==
    ASSUME NEW n \in Node, NEW m \in SessionManager, NEW new \in SessionManager, OwnRound(n, m),
           SameData(m, new), new.messages = m.messages, new.currentRound = m.currentRound + 1,
           new.resting = Append(m.resting, <<>>)
    PROVE  OwnRound(n, new) /\ (m.currentRound # 0 => ~ Proper(new))
<1> DEFINE k == m.currentRound
<1>1. k \in Nat /\ new.currentRound = k + 1 /\ new.messages = m.messages
      /\ new.broadcastHashes = m.broadcastHashes /\ new.directMessages = m.directMessages
  BY DEF SessionManager, SameData
<1>2. m.broadcastHashes \subseteq 1..(k - 1)
  BY DEF OwnRound
<1>3. k # 0 => ~ Proper(new)
  <2>1. k # 0 => k \in 1..((k + 1) - 1) /\ k \notin m.broadcastHashes
    BY <1>1, <1>2
  <2> QED
    BY <1>1, <2>1 DEF Proper
<1>4. k = 0 => Len(new.resting) = 1
  <2>1. Len(Append(<<>>, <<>>)) = 1
    OBVIOUS
  <2> QED
    BY <2>1 DEF OwnRound
<1>5. k = 0 => new.messages[1][n] = NoEntry
  BY <1>1 DEF OwnRound
<1>6. new.broadcastHashes \subseteq 1..((k + 1) - 1)
  BY <1>1, <1>2
<1>7. /\ \A h \in 1..4 : h > k + 1 => new.messages[h][n] = NoEntry
      /\ \A h \in 1..3 : h > k + 1 => new.directMessages[h] = <<>>
  BY <1>1 DEF OwnRound
<1> HIDE DEF k
<1>8. k + 1 # 0 /\ (k = 0 => k + 1 = 1)
  BY <1>1
<1> QED
  BY <1>1, <1>3, <1>4, <1>5, <1>6, <1>7, <1>8 DEF OwnRound, k

LEMMA OwnRead ==
    ASSUME SignTyped, NEW n \in Node, NEW i \in DOMAIN managers[n], NEW new \in SessionManager,
           Reads(n, i, new), managers[n][i].active => OwnRound(n, managers[n][i])
    PROVE  new.active => managers[n][i].active /\ OwnRound(n, new)
<1> DEFINE m == managers[n][i]
<1>1. m \in SessionManager
  BY ManagerType DEF SignTyped
<1> SUFFICES ASSUME new.active PROVE m.active /\ OwnRound(n, new)
  OBVIOUS
<1> HIDE DEF m
<1>2. CASE Waits(n, i, new)
  BY <1>1, <1>2, OwnSame DEF Waits, SameSession, SameData, m
<1>3. CASE TakesShare(n, i, new)
  <2>1. /\ new.active = m.active /\ new.currentRound = m.currentRound /\ new.messages = m.messages
        /\ new.broadcastHashes = m.broadcastHashes /\ new.resting = m.resting
        /\ \A k \in 1..3 : k > m.currentRound => new.directMessages[k] = m.directMessages[k]
    BY <1>1, <1>3 DEF TakesShare, m
  <2> QED
    BY <1>1, <2>1, OwnSame DEF m
<1>4. CASE Processes(n, i, new)
  <2>1. m.active
    BY <1>4 DEF Processes, m
  <2>2. ASSUME NEW s, NEW msg, Stays(n, s, m, new, msg) PROVE OwnRound(n, new)
    BY <1>1, <2>1, <2>2, OwnSame DEF Stays, SameData, HasProcessed, m
  <2>3. ASSUME NEW s, NEW msg, NEW rounds, Advances(n, s, m, new, msg, rounds) PROVE OwnRound(n, new)
    BY <1>1, <2>1, <2>3, OwnAdvanced DEF m
  <2> QED
    BY <1>4, <2>1, <2>2, <2>3 DEF Processes, m
<1>5. CASE Concludes(n, i, new)
  BY <1>5 DEF Concludes
<1> QED
  BY <1>2, <1>3, <1>4, <1>5 DEF Reads

LEMMA OwnStep == ASSUME SignTyped, CountInv, OwnInv, SignNext PROVE OwnInv'
<1>1. ASSUME NEW n \in Node, NEW i \in DOMAIN managers[n], NEW new \in SessionManager,
             Replaced(n, i, new), new.active => OwnRound(n, new)
      PROVE  OwnInv'
  <2>1. ManagersOK
    BY DEF SignTyped
  <2>2. OnlyReplaced(n, i, new)
    BY <1>1, <2>1, ManagerReplaced
  <2> QED
    BY <1>1, <2>2 DEF OnlyReplaced, OwnInv
<1>2. ASSUME UNCHANGED <<managers, roundVars>> PROVE OwnInv'
  BY <1>2 DEF OwnInv
<1>3. ASSUME NEW s \in Node, NEW d \in Node, HandleInit(s, d) PROVE OwnInv'
  <2>1. /\ \A j \in Node \ {d} : managers'[j] = managers[j]
        /\ Len(managers'[d]) = Len(managers[d]) + 1
        /\ \A i \in 1..Len(managers[d]) :
              managers'[d][i] = IF Pending(managers[d][i]) THEN managers[d][i] ELSE NewManager(FALSE)
        /\ managers'[d][Len(managers[d]) + 1] = NewManager(keyParties = Node)
        /\ SignTyped'
    BY <1>3, InitIs
  <2>2. managers[d] \in Seq(SessionManager) /\ managers'[d] \in Seq(SessionManager)
    BY <2>1 DEF SignTyped, ManagersOK
  <2>3. ASSUME NEW i \in DOMAIN managers'[d], managers'[d][i].active PROVE OwnRound(d, managers'[d][i])
    <3>1. i \in 1..Len(managers[d]) \/ i = Len(managers[d]) + 1
      BY <2>1, <2>2
    <3>2. CASE i = Len(managers[d]) + 1
      <4>1. (keyParties = Node) \in BOOLEAN
        OBVIOUS
      <4> QED
        BY <2>1, <3>2, <4>1, OwnNew
    <3>3. CASE i \in 1..Len(managers[d])
      <4>1. i \in DOMAIN managers[d]
        BY <2>2, <3>3
      <4>2. managers'[d][i] = managers[d][i] \/ managers'[d][i] = NewManager(FALSE)
        BY <2>1, <3>3
      <4>3. CASE managers'[d][i] = managers[d][i]
        BY <2>3, <4>1, <4>3 DEF OwnInv
      <4>4. CASE managers'[d][i] = NewManager(FALSE)
        BY <4>4, OwnNew
      <4> QED
        BY <4>2, <4>3, <4>4
    <3> QED
      BY <3>1, <3>2, <3>3
  <2>4. ASSUME NEW j \in Node, j # d, NEW i \in DOMAIN managers'[j], managers'[j][i].active
        PROVE  OwnRound(j, managers'[j][i])
    BY <2>1, <2>4 DEF OwnInv
  <2> QED
    BY <2>3, <2>4 DEF OwnInv
<1>4. ASSUME NEW n \in Node, BeginSession(n), HasManager(n) PROVE OwnInv'
  <2> DEFINE c == Current(n)
  <2>1. /\ c \in DOMAIN managers[n] /\ managers[n][c].active
        /\ \E new \in SessionManager :
              /\ managers' = [managers EXCEPT ![n][c] = new]
              /\ SameData(managers[n][c], new) /\ new.messages = managers[n][c].messages
              /\ new.currentRound = managers[n][c].currentRound + 1
              /\ new.resting = Append(managers[n][c].resting, <<>>)
    BY <1>4, BeginIs DEF Manager
  <2>2. PICK new \in SessionManager :
              /\ Replaced(n, c, new)
              /\ SameData(managers[n][c], new) /\ new.messages = managers[n][c].messages
              /\ new.currentRound = managers[n][c].currentRound + 1
              /\ new.resting = Append(managers[n][c].resting, <<>>)
    BY <2>1 DEF Replaced
  <2> HIDE DEF c
  <2>3. managers[n][c] \in SessionManager
    BY <2>1, ManagerType DEF SignTyped
  <2>4. OwnRound(n, managers[n][c])
    BY <2>1 DEF OwnInv
  <2>5. OwnRound(n, new)
    BY <2>2, <2>3, <2>4, OwnBegun
  <2> QED
    BY <1>1, <2>1, <2>2, <2>5
<1>5. ASSUME NEW n \in Node, NEW i \in Nat, VerifyRound(n, i) PROVE OwnInv'
  <2> DEFINE m == managers[n][i]
  <2>1. /\ i \in DOMAIN managers[n] /\ m.resting # <<>>
        /\ \E new \in SessionManager :
              /\ managers' = [managers EXCEPT ![n][i] = new]
              /\ \/ \E k \in 1..5 : \E signature :
                       RoundDone(n, i, k) /\ HasPublished(n, k, m, new, signature)
                 \/ new = [m EXCEPT !.resting = Tail(@)]
    BY <1>5, VerifyTypes
  <2>2. PICK new \in SessionManager :
              /\ Replaced(n, i, new)
              /\ \/ \E k \in 1..5 : \E signature :
                       RoundDone(n, i, k) /\ HasPublished(n, k, m, new, signature)
                 \/ new = [m EXCEPT !.resting = Tail(@)]
    BY <2>1 DEF Replaced
  <2>3. m \in SessionManager
    BY <2>1, ManagerType DEF SignTyped
  <2>4. m.active => OwnRound(n, m)
    BY <2>1 DEF OwnInv
  <2>5. ASSUME NEW k \in 1..5, RoundDone(n, i, k) PROVE m.currentRound = k
    BY <2>1, <2>5, RoundDoneTypes DEF Verifying
  <2> HIDE DEF m
  <2>6. /\ new.active = m.active /\ new.currentRound = m.currentRound /\ new.resting = Tail(m.resting)
        /\ new.directMessages = m.directMessages /\ new.broadcastHashes = m.broadcastHashes
        /\ \A k \in 1..4 : k # m.currentRound => new.messages[k][n] = m.messages[k][n]
    <3>1. CASE new = [m EXCEPT !.resting = Tail(@)]
      BY <2>3, <3>1 DEF SessionManager
    <3>2. ASSUME NEW k \in 1..5, NEW signature, RoundDone(n, i, k), HasPublished(n, k, m, new, signature)
          PROVE  /\ new.active = m.active /\ new.currentRound = m.currentRound /\ new.resting = Tail(m.resting)
                 /\ new.directMessages = m.directMessages /\ new.broadcastHashes = m.broadcastHashes
                 /\ \A h \in 1..4 : h # m.currentRound => new.messages[h][n] = m.messages[h][n]
      BY <2>5, <3>2 DEF HasPublished
    <3> QED
      BY <2>2, <3>1, <3>2
  <2>7. new.active => OwnRound(n, new)
    BY <2>1, <2>3, <2>4, <2>6, OwnVerified DEF m
  <2> QED
    BY <1>1, <2>1, <2>2, <2>7
<1>6. ASSUME NEW n \in Node, ReadsOne(n) PROVE OwnInv'
  <2>1. PICK i \in DOMAIN managers[n], new \in SessionManager : Replaced(n, i, new) /\ Reads(n, i, new)
    BY <1>6 DEF ReadsOne, Replaced
  <2>2. managers[n][i].active => OwnRound(n, managers[n][i])
    BY DEF OwnInv
  <2>3. new.active => OwnRound(n, new)
    BY <2>1, <2>2, OwnRead
  <2> QED
    BY <1>1, <2>1, <2>3
<1>7. \A n \in Node : starting[n] > 0 => HasManager(n)
  BY DEF CountInv, CountOK
<1> HIDE DEF OwnInv
<1> QED
  BY <1>2, <1>3, <1>4, <1>5, <1>6, <1>7, StepIs

-------------------------------------------------------------------------------
(***************************************************************************)
(* Nonces.  The pair a node has picked last goes from one round's object   *)
(* to the next, so that each object holds one at least as old as the       *)
(* object before it.  What a session in use, and properly so, holds for    *)
(* its next step is younger than all that has made a sigma; a superseded   *)
(* one never gets to its third round.                                      *)
(***************************************************************************)
Above(cs, ss, v) == \A a \in DOMAIN ss : cs[ss[a].share].own < v
Ordered(p, st) == p = st.out1 /\ st.out1 >= st.in2 /\ st.in2 >= st.out2[1] /\ st.out2[1] >= st.in3[1]
Referred(p, cs, ss) ==
    /\ \A x \in DOMAIN cs : cs[x].own <= p
    /\ \A a \in DOMAIN ss : ss[a].share \in DOMAIN cs
    /\ \A a, b \in DOMAIN ss : a < b => cs[ss[a].share].own < cs[ss[b].share].own
InRound(n, m, st, cs, ss) ==
    m.active =>
       /\ m.currentRound = 4 => {1, 2, 3} \subseteq m.broadcastHashes
       /\ Proper(m) =>
             /\ m.currentRound = 1 /\ m.messages[1][n] # NoEntry => Above(cs, ss, st.out1)
             /\ m.currentRound = 2 => Above(cs, ss, st.in2)
             /\ m.currentRound = 2 /\ m.messages[2][n] # NoEntry => Above(cs, ss, st.out2[1])
             /\ m.currentRound = 3 => Above(cs, ss, st.in3[1])
             /\ m.currentRound = 3 /\ m.messages[3][n] # NoEntry
                   => st.out3 \in DOMAIN cs /\ Above(cs, ss, cs[st.out3].own)
             /\ m.currentRound = 4 /\ m.messages[4][n] = NoEntry
                   => st.in4 \in DOMAIN cs /\ Above(cs, ss, cs[st.in4].own)
NonceOK(n) ==
    /\ Ordered(picks[n], store[n])
    /\ Referred(picks[n], contributions[n], sigmas[n])
    /\ \A i \in 1..(Len(managers[n]) - 1) : Spent(managers[n][i])
    /\ HasManager(n) => InRound(n, Manager(n), store[n], contributions[n], sigmas[n])
NonceInv == \A n \in Node : NonceOK(n)

LEMMA AboveUp ==
    ASSUME NEW cs \in Seq(Contribution), NEW ss \in Seq(SigmaShare), NEW v \in Nat, NEW w \in Nat, v <= w,
           \A a \in DOMAIN ss : ss[a].share \in DOMAIN cs, Above(cs, ss, v)
    PROVE  Above(cs, ss, w)
<1>1. ASSUME NEW a \in DOMAIN ss PROVE cs[ss[a].share].own < w
  <2>1. cs[ss[a].share] \in Contribution /\ cs[ss[a].share].own < v
    BY DEF Above
  <2>2. cs[ss[a].share].own \in Nat
    BY <2>1 DEF Contribution
  <2> QED
    BY <2>1, <2>2
<1> QED
  BY <1>1 DEF Above

(* A new pair is above everything. *)
LEMMA AbovePicked ==
    ASSUME NEW cs \in Seq(Contribution), NEW ss \in Seq(SigmaShare), NEW p \in Nat, Referred(p, cs, ss)
    PROVE  Above(cs, ss, p + 1)
<1>1. ASSUME NEW a \in DOMAIN ss PROVE cs[ss[a].share].own < p + 1
  <2>1. ss[a].share \in DOMAIN cs
    BY DEF Referred
  <2>2. cs[ss[a].share] \in Contribution /\ cs[ss[a].share].own <= p
    BY <2>1 DEF Referred
  <2>3. cs[ss[a].share].own \in Nat
    BY <2>2 DEF Contribution
  <2> QED
    BY <2>2, <2>3
<1> QED
  BY <1>1 DEF Above

(* A manager that stays in its round, while the objects take newer pairs.  *)
LEMMA InRoundKept ==
    ASSUME NEW n \in Node, NEW m, NEW new, NEW st \in Store, NEW st2 \in Store,
           NEW cs \in Seq(Contribution), NEW ss \in Seq(SigmaShare), NEW p, Referred(p, cs, ss),
           InRound(n, m, st, cs, ss),
           new.active = m.active, new.currentRound = m.currentRound,
           new.broadcastHashes = m.broadcastHashes,
           \A k \in 1..4 : new.messages[k][n] = m.messages[k][n],
           st2.out1 >= st.out1, st2.in2 >= st.in2, st2.out2[1] >= st.out2[1],
           st2.in3 = st.in3, st2.out3 = st.out3, st2.in4 = st.in4
    PROVE  InRound(n, new, st2, cs, ss)
<1>1. Proper(new) <=> Proper(m)
  BY DEF Proper
<1>2. \A a \in DOMAIN ss : ss[a].share \in DOMAIN cs
  BY DEF Referred
<1>3. /\ st.out1 \in Nat /\ st.in2 \in Nat /\ st.out2[1] \in Nat
      /\ st2.out1 \in Nat /\ st2.in2 \in Nat /\ st2.out2[1] \in Nat
  BY DEF Store
<1>4. /\ Above(cs, ss, st.out1) => Above(cs, ss, st2.out1)
      /\ Above(cs, ss, st.in2) => Above(cs, ss, st2.in2)
      /\ Above(cs, ss, st.out2[1]) => Above(cs, ss, st2.out2[1])
  BY <1>2, <1>3, AboveUp
<1> QED
  BY <1>1, <1>4 DEF InRound

(* The next round takes over what its predecessor has put out. *)
LEMMA InRoundAdvanced ==
    ASSUME NEW n \in Node, NEW m \in SessionManager, NEW new \in SessionManager, NEW st \in Store,
           NEW cs, NEW ss, NEW s, NEW msg, NEW rounds,
           InRound(n, m, st, cs, ss), m.active, OwnRound(n, m), OwnRound(n, new),
           Advances(n, s, m, new, msg, rounds)
    PROVE  InRound(n, new, Input(st, m.currentRound + 1), cs, ss)
<1> DEFINE k == m.currentRound
           st2 == Input(st, k + 1)
<1>1. /\ k \in 1..4 /\ m.messages[k][n] # NoEntry /\ new.currentRound = k + 1
      /\ \A r \in 1..(k - 1) : r < 3 => r \in m.broadcastHashes
      /\ new.broadcastHashes = m.broadcastHashes \cup {k}
  BY DEF Advances
<1>2. /\ st2.out1 = st.out1 /\ st2.out2 = st.out2 /\ st2.out3 = st.out3
      /\ st2.in2 = IF k + 1 = 2 THEN st.out1 ELSE st.in2
      /\ st2.in3 = IF k + 1 = 3 THEN st.out2 ELSE st.in3
      /\ st2.in4 = IF k + 1 = 4 THEN st.out3 ELSE st.in4
  <2>1. k + 1 \in Nat
    BY <1>1
  <2> QED
    BY <2>1, InputIs
<1>3. Proper(new) => Proper(m)
  <2>1. m.broadcastHashes \subseteq 1..(k - 1)
    BY DEF OwnRound
  <2> QED
    BY <1>1, <2>1 DEF Proper
<1>4. k + 1 \in 1..4 /\ k + 1 # 4 => new.messages[k + 1][n] = NoEntry
  <2>1. k + 1 \in 1..4 => m.messages[k + 1][n] = NoEntry
    BY <1>1 DEF OwnRound
  <2>2. \A h \in 1..4 : new.messages[h][n] = m.messages[h][n]
    BY DEF Advances, HasProcessed
  <2> QED
    BY <2>1, <2>2
<1> HIDE DEF st2
<1>5. CASE k = 1
  <2>1. new.currentRound = 2 /\ new.messages[2][n] = NoEntry /\ st2.in2 = st.out1
    BY <1>1, <1>2, <1>4, <1>5
  <2>2. Proper(new) => Above(cs, ss, st.out1)
    BY <1>1, <1>3, <1>5 DEF InRound
  <2> QED
    BY <2>1, <2>2 DEF InRound, st2
<1>6. CASE k = 2
  <2>1. new.currentRound = 3 /\ new.messages[3][n] = NoEntry /\ st2.in3 = st.out2
    BY <1>1, <1>2, <1>4, <1>6
  <2>2. Proper(new) => Above(cs, ss, st.out2[1])
    BY <1>1, <1>3, <1>6 DEF InRound
  <2> QED
    BY <2>1, <2>2 DEF InRound, st2
<1>7. CASE k = 3
  <2>1. new.currentRound = 4 /\ st2.in4 = st.out3
    BY <1>1, <1>2, <1>7
  <2>2. Proper(new) => st.out3 \in DOMAIN cs /\ Above(cs, ss, cs[st.out3].own)
    BY <1>1, <1>3, <1>7 DEF InRound
  <2>3. {1, 2, 3} \subseteq new.broadcastHashes
    BY <1>1, <1>7
  <2> QED
    BY <2>1, <2>2, <2>3 DEF InRound, st2
<1>8. CASE k = 4
  <2>1. new.currentRound = 5
    BY <1>1, <1>8
  <2> QED
    BY <2>1 DEF InRound
<1> QED
  BY <1>1, <1>5, <1>6, <1>7, <1>8

(* What a round that is published does to the numbers of its node.         *)
SameNumbers(j) ==
    /\ picks'[j] = picks[j] /\ contributions'[j] = contributions[j] /\ sigmas'[j] = sigmas[j]
    /\ store'[j] = store[j]
RoundEffect(n, i, k) ==
    LET st == store[n]
        new == store'[n]
    IN  /\ k # 1 => picks'[n] = picks[n] /\ new.out1 = st.out1
        /\ k = 1 => picks'[n] = picks[n] + 1 /\ new.out1 = picks[n] + 1
        /\ new.in2 = st.in2 /\ new.in3 = st.in3 /\ new.in4 = st.in4 /\ new.in5 = st.in5
        /\ k # 2 => new.out2 = st.out2
        /\ k = 2 => new.out2[1] = st.in2
        /\ k # 3 => contributions'[n] = contributions[n] /\ new.out3 = st.out3
        /\ k = 3 => \E c \in Contribution :
                       /\ contributions'[n] = Append(contributions[n], c) /\ c.own = st.in3[1]
                       /\ new.out3 = Len(contributions[n]) + 1
        /\ k # 4 => sigmas'[n] = sigmas[n]
        /\ k = 4 => \E sigma \in SigmaShare :
                       sigmas'[n] = Append(sigmas[n], sigma) /\ sigma.share = st.in4
LEMMA RoundDoneIs ==
    ASSUME SignTyped, NEW n \in Node, NEW i \in DOMAIN managers[n], NEW k \in 1..5, RoundDone(n, i, k)
    PROVE  /\ \A j \in Node \ {n} : SameNumbers(j)
           /\ RoundEffect(n, i, k)
           /\ managers[n][i].active /\ managers[n][i].currentRound = k /\ Threshold >= 3
<1> DEFINE m == managers[n][i]
           st == store[n]
<1>1. m \in SessionManager /\ st \in Store /\ RoundsOK
  BY ManagerType, StoreType DEF SignTyped
<1>2. /\ Ciphertexts(n, m) \in Key /\ GammaShares(n, m) \in Key /\ DeltaShares(n, m) \in Key
      /\ SigmaShares(n, m) \in [Node -> SigmaShare] /\ Products(n, m) \in [Node -> Product]
  BY <1>1, OutputTypes, ProductsType
<1>3. managers[n][i].active /\ managers[n][i].currentRound = k /\ Threshold >= 3
  BY RoundDoneTypes DEF Verifying
<1> HIDE DEF m, st
<1>5. CASE k = 1
  <2> DEFINE pick == picks[n] + 1
             new == [st EXCEPT !.out1 = pick]
  <2>1. /\ picks' = [picks EXCEPT ![n] = pick] /\ store' = [store EXCEPT ![n] = new]
        /\ UNCHANGED <<contributions, sigmas>>
    <3>1. SignRound1(n, i)
      BY <1>5 DEF RoundDone
    <3> QED
      BY <3>1 DEF SignRound1, st
  <2> HIDE DEF pick
  <2>2. /\ new.out1 = pick /\ new.out2 = st.out2 /\ new.out3 = st.out3
        /\ new.in2 = st.in2 /\ new.in3 = st.in3 /\ new.in4 = st.in4 /\ new.in5 = st.in5
    BY <1>1 DEF Store
  <2> HIDE DEF new
  <2>3. store'[n] = new /\ picks'[n] = pick /\ \A j \in Node \ {n} : SameNumbers(j)
    BY <1>1, <2>1 DEF RoundsOK, Key, SameNumbers
  <2> QED
    BY <1>3, <1>5, <2>1, <2>2, <2>3 DEF RoundEffect, st, pick
<1>6. CASE k = 2
  <2> DEFINE pair == <<st.in2, masks[n] + 1>>
             new == [st EXCEPT !.K = Ciphertexts(n, m), !.out2 = pair]
  <2>1. store' = [store EXCEPT ![n] = new] /\ UNCHANGED <<picks, contributions, sigmas>>
    <3>1. SignRound2(n, i)
      BY <1>6 DEF RoundDone
    <3> QED
      BY <3>1 DEF SignRound2, st, m
  <2>4. pair[1] = st.in2
    OBVIOUS
  <2> HIDE DEF pair
  <2>2. /\ new.out1 = st.out1 /\ new.out2 = pair /\ new.out3 = st.out3
        /\ new.in2 = st.in2 /\ new.in3 = st.in3 /\ new.in4 = st.in4 /\ new.in5 = st.in5
    BY <1>1 DEF Store
  <2> HIDE DEF new
  <2>3. store'[n] = new /\ \A j \in Node \ {n} : SameNumbers(j)
    BY <1>1, <2>1 DEF RoundsOK, SameNumbers
  <2> QED
    BY <1>3, <1>6, <2>1, <2>2, <2>3, <2>4 DEF RoundEffect, st
<1>7. CASE k = 3
  <2> DEFINE delta == Len(contributions[n]) + 1
             gammas == GammaShares(n, m)
             alphas == Products(n, m)
             new == [st EXCEPT !.Gamma = gammas, !.alphas = alphas, !.out3 = delta]
             c == [own |-> st.in3[1], mask |-> st.in3[2], gammas |-> gammas, alphas |-> alphas]
  <2>1. /\ contributions' = [contributions EXCEPT ![n] = Append(contributions[n], c)]
        /\ store' = [store EXCEPT ![n] = new] /\ UNCHANGED <<picks, sigmas>>
    <3>1. SignRound3(n, i)
      BY <1>7 DEF RoundDone
    <3> QED
      BY <3>1 DEF SignRound3, st, m
  <2> HIDE DEF delta, gammas, alphas
  <2>2. /\ new.out1 = st.out1 /\ new.out2 = st.out2 /\ new.out3 = delta
        /\ new.in2 = st.in2 /\ new.in3 = st.in3 /\ new.in4 = st.in4 /\ new.in5 = st.in5
    BY <1>1 DEF Store
  <2> HIDE DEF new
  <2>4. c \in Contribution /\ c.own = st.in3[1]
    <3>1. st.in3 \in Nat \X Nat /\ gammas \in Key /\ alphas \in [Node -> Product]
      BY <1>1, <1>2 DEF Store, gammas, alphas
    <3> QED
      BY <3>1 DEF Contribution
  <2> HIDE DEF c
  <2>3. /\ store'[n] = new /\ contributions'[n] = Append(contributions[n], c)
        /\ \A j \in Node \ {n} : SameNumbers(j)
    BY <1>1, <2>1 DEF RoundsOK, SameNumbers
  <2> QED
    BY <1>3, <1>7, <2>1, <2>2, <2>3, <2>4 DEF RoundEffect, st, delta
<1>8. CASE k = 4
  <2> DEFINE deltas == DeltaShares(n, m)
             sigma == [share |-> st.in4, deltas |-> deltas]
             new == [st EXCEPT !.Delta = deltas, !.out4 = sigma]
  <2>1. /\ sigmas' = [sigmas EXCEPT ![n] = Append(sigmas[n], sigma)]
        /\ store' = [store EXCEPT ![n] = new] /\ UNCHANGED <<picks, contributions>>
    <3>1. SignRound4(n, i)
      BY <1>8 DEF RoundDone
    <3> QED
      BY <3>1 DEF SignRound4, st, m
  <2>2. deltas \in Key /\ st.in4 \in Nat
    BY <1>1, <1>2 DEF Store
  <2> HIDE DEF deltas
  <2>4. sigma \in SigmaShare /\ sigma.share = st.in4
    BY <2>2 DEF SigmaShare
  <2> HIDE DEF sigma
  <2>5. /\ new.out1 = st.out1 /\ new.out2 = st.out2 /\ new.out3 = st.out3
        /\ new.in2 = st.in2 /\ new.in3 = st.in3 /\ new.in4 = st.in4 /\ new.in5 = st.in5
    BY <1>1 DEF Store
  <2> HIDE DEF new
  <2>3. /\ store'[n] = new /\ sigmas'[n] = Append(sigmas[n], sigma)
        /\ \A j \in Node \ {n} : SameNumbers(j)
    BY <1>1, <2>1 DEF RoundsOK, SameNumbers
  <2> QED
    BY <1>3, <1>8, <2>1, <2>3, <2>4, <2>5 DEF RoundEffect, st
<1>9. CASE k = 5
  <2> DEFINE new == [st EXCEPT !.Sigma = SigmaShares(n, m)]
  <2>1. store' = [store EXCEPT ![n] = new] /\ UNCHANGED <<picks, contributions, sigmas>>
    <3>1. SignRound5(n, i)
      BY <1>9 DEF RoundDone
    <3> QED
      BY <3>1 DEF SignRound5, st, m
  <2>2. /\ new.out1 = st.out1 /\ new.out2 = st.out2 /\ new.out3 = st.out3
        /\ new.in2 = st.in2 /\ new.in3 = st.in3 /\ new.in4 = st.in4 /\ new.in5 = st.in5
    BY <1>1 DEF Store
  <2> HIDE DEF new
  <2>3. store'[n] = new /\ \A j \in Node \ {n} : SameNumbers(j)
    BY <1>1, <2>1 DEF RoundsOK, SameNumbers
  <2> QED
    BY <1>3, <1>9, <2>1, <2>2, <2>3 DEF RoundEffect, st
<1> QED
  BY <1>5, <1>6, <1>7, <1>8, <1>9

LEMMA NonceOther ==
    ASSUME NEW j \in Node, NonceOK(j), managers'[j] = managers[j], SameNumbers(j)
    PROVE  NonceOK(j)'
BY DEF NonceOK, SameNumbers, HasManager, Manager, Current

LEMMA NonceReplaced ==
    ASSUME SignTyped, NEW n \in Node, NEW i \in DOMAIN managers[n], NEW new, OnlyReplaced(n, i, new),
           NonceOK(n), Ordered(picks'[n], store'[n]),
           Referred(picks'[n], contributions'[n], sigmas'[n]),
           i # Current(n) => Spent(new),
           InRound(n, IF i = Current(n) THEN new ELSE Manager(n), store'[n], contributions'[n], sigmas'[n])
    PROVE  NonceOK(n)'
<1>1. managers[n] \in Seq(SessionManager)
  BY DEF SignTyped, ManagersOK
<1>2. Current(n) \in DOMAIN managers[n] /\ Current(n) = Len(managers[n]) /\ Len(managers[n]) \in Nat
      /\ 1..(Len(managers[n]) - 1) \subseteq DOMAIN managers[n]
  BY <1>1 DEF Current
<1>3. /\ Len(managers'[n]) = Len(managers[n])
      /\ \A x \in DOMAIN managers[n] : managers'[n][x] = IF x = i THEN new ELSE managers[n][x]
  BY DEF OnlyReplaced
<1>4. ASSUME NEW x \in 1..(Len(managers[n]) - 1) PROVE Spent(managers'[n][x])
  <2>1. x \in DOMAIN managers[n] /\ x # Current(n)
    BY <1>2
  <2> QED
    BY <1>3, <2>1 DEF NonceOK
<1>5. Manager(n)' = IF i = Current(n) THEN new ELSE Manager(n)
  BY <1>2, <1>3 DEF Manager, Current
<1> QED
  BY <1>3, <1>4, <1>5 DEF NonceOK

(* A request in turn. *)
LEMMA NonceAsked ==
    ASSUME SignTyped, NonceInv, RequestsInTurn, NEW s \in Node, NEW d \in Node, HandleInit(s, d)
    PROVE  NonceInv'
<1>1. /\ SignTyped' /\ UNCHANGED roundVars
      /\ \A j \in Node \ {d} : managers'[j] = managers[j]
      /\ Len(managers'[d]) = Len(managers[d]) + 1
      /\ \A i \in 1..Len(managers[d]) :
            managers'[d][i] = IF Pending(managers[d][i]) THEN managers[d][i] ELSE NewManager(FALSE)
      /\ managers'[d][Len(managers[d]) + 1] = NewManager(keyParties = Node)
  BY InitIs
<1>2. \A j \in Node : SameNumbers(j)
  BY <1>1 DEF roundVars, SameNumbers
<1>3. \A j \in Node \ {d} : NonceOK(j)'
  BY <1>1, <1>2, NonceOther DEF NonceInv
<1>4. HasManager(d) => Spent(managers[d][Len(managers[d])])
  BY DEF HandleInit, RequestsInTurn, Manager, Current
<1>5. managers[d] \in Seq(SessionManager) /\ Len(managers[d]) \in Nat
  BY DEF SignTyped, ManagersOK
<1>6. ASSUME NEW i \in 1..Len(managers[d]) PROVE Spent(managers'[d][i])
  <2>1. Spent(managers[d][i])
    <3>1. i \in 1..(Len(managers[d]) - 1) \/ i = Len(managers[d])
      BY <1>5
    <3>2. managers[d] # <<>>
      BY <1>5
    <3> QED
      BY <1>4, <3>1, <3>2 DEF NonceInv, NonceOK, HasManager
  <2>2. Spent(NewManager(FALSE))
    BY DEF Spent, NewManager
  <2> QED
    BY <1>1, <2>1, <2>2
<1>7. Manager(d)' = NewManager(keyParties = Node) /\ Len(managers'[d]) - 1 = Len(managers[d])
  BY <1>1, <1>5 DEF Manager, Current
<1>8. \A st, cs, ss : InRound(d, NewManager(keyParties = Node), st, cs, ss)
  BY DEF InRound, NewManager
<1>9. NonceOK(d)'
  BY <1>2, <1>6, <1>7, <1>8 DEF NonceInv, NonceOK, SameNumbers
<1> QED
  BY <1>3, <1>9 DEF NonceInv

(* A session that begins, or is pushed on by the timer of another request. *)
LEMMA NonceBegun ==
    ASSUME SignTyped, OwnInv, NonceInv, RequestsInTurn, NEW n \in Node, BeginSession(n), HasManager(n)
    PROVE  NonceInv'
<1> DEFINE c == Current(n)
           m == managers[n][c]
<1>1. /\ c \in DOMAIN managers[n] /\ m.active /\ starting[n] > 0
      /\ \E new \in SessionManager :
            /\ managers' = [managers EXCEPT ![n][c] = new]
            /\ SameData(m, new) /\ new.messages = m.messages
            /\ new.currentRound = m.currentRound + 1
            /\ new.resting = Append(m.resting, <<>>)
      /\ store' = [store EXCEPT ![n] = Input(@, m.currentRound + 1)] \/ store' = store
      /\ UNCHANGED <<picks, contributions, sigmas>>
  BY BeginIs DEF Manager
<1>2. PICK new \in SessionManager :
            /\ Replaced(n, c, new)
            /\ SameData(m, new) /\ new.messages = m.messages
            /\ new.currentRound = m.currentRound + 1
            /\ new.resting = Append(m.resting, <<>>)
  BY <1>1 DEF Replaced
<1>3. m \in SessionManager /\ OwnRound(n, m) /\ NonceOK(n)
  BY <1>1, ManagerType DEF SignTyped, OwnInv, NonceInv
<1>4. OnlyReplaced(n, c, new)
  BY <1>1, <1>2, ManagerReplaced DEF SignTyped
<1>5. m.currentRound <= 2 /\ m.currentRound \in Nat
  BY <1>1, <1>3 DEF RequestsInTurn, InUse, Manager, SessionManager
<1>6. OwnRound(n, new) /\ (m.currentRound # 0 => ~ Proper(new))
  <2> HIDE DEF m
  <2> QED
    BY <1>2, <1>3, OwnBegun
<1>7. \A st, cs, ss : InRound(n, new, st, cs, ss)
  <2>1. m.currentRound = 0 => new.currentRound = 1 /\ new.messages[1][n] = NoEntry
    BY <1>2, <1>3 DEF OwnRound
  <2>2. new.currentRound # 4
    BY <1>2, <1>5
  <2> QED
    BY <1>6, <2>1, <2>2 DEF InRound
<1>8. store[n] \in Store /\ m.currentRound + 1 \in Nat
  BY <1>5, StoreType DEF SignTyped
<1>9. Ordered(picks[n], store'[n])
  <2> DEFINE k == m.currentRound + 1
             st == store[n]
             st2 == Input(st, k)
  <2>1. CASE store'[n] = st2
    <3>1. /\ st2.out1 = st.out1 /\ st2.out2 = st.out2
          /\ st2.in2 = IF k = 2 THEN st.out1 ELSE st.in2
          /\ st2.in3 = IF k = 3 THEN st.out2 ELSE st.in3
      <4>1. st \in Store /\ k \in Nat
        BY <1>8
      <4> HIDE DEF st, k
      <4> QED
        BY <4>1, InputIs
    <3>2. Ordered(picks[n], st) /\ st.out1 \in Nat /\ st.in2 \in Nat /\ st.out2[1] \in Nat /\ st.in3[1] \in Nat
      BY <1>3, <1>8 DEF NonceOK, Store
    <3> HIDE DEF st, st2, k
    <3> QED
      BY <2>1, <3>1, <3>2 DEF Ordered
  <2>2. CASE store' = store
    BY <1>3, <2>2 DEF NonceOK
  <2>3. store'[n] = st2 \/ store' = store
    BY <1>1 DEF SignTyped, RoundsOK
  <2> QED
    BY <2>1, <2>2, <2>3
<1>10. NonceOK(n)'
  <2> HIDE DEF m
  <2>1. Referred(picks'[n], contributions'[n], sigmas'[n]) /\ picks'[n] = picks[n]
    BY <1>1, <1>3 DEF NonceOK
  <2> QED
    BY <1>1, <1>3, <1>4, <1>7, <1>9, <2>1, NonceReplaced
<1>11. \A j \in Node \ {n} : managers'[j] = managers[j] /\ SameNumbers(j)
  BY <1>1, <1>2 DEF SignTyped, ManagersOK, RoundsOK, Replaced, SameNumbers
<1>12. \A j \in Node \ {n} : NonceOK(j)'
  BY <1>11, NonceOther DEF NonceInv
<1> QED
  BY <1>10, <1>12 DEF NonceInv

(* What a superseded manager is like in its place. *)
LEMMA SupersededSpent ==
    ASSUME SignTyped, NEW n \in Node, NonceOK(n), NEW i \in DOMAIN managers[n], i # Current(n)
    PROVE  Spent(managers[n][i])
<1>1. managers[n] \in Seq(SessionManager)
  BY DEF SignTyped, ManagersOK
<1>2. i \in 1..(Len(managers[n]) - 1)
  BY <1>1 DEF Current
<1> QED
  BY <1>2 DEF NonceOK

LEMMA SpentVerified ==
    ASSUME NEW m \in SessionManager, NEW new, Spent(m), m.resting # <<>>,
           new.active = m.active, new.currentRound = m.currentRound, new.directMessages = m.directMessages
    PROVE  Spent(new) /\ (m.active => m.currentRound <= 2)
BY DEF Spent, SessionManager

LEMMA NumberTypes ==
    ASSUME SignTyped, NEW n \in Node
    PROVE  /\ store[n] \in Store /\ contributions[n] \in Seq(Contribution)
           /\ sigmas[n] \in Seq(SigmaShare) /\ picks[n] \in Nat
           /\ store[n].out1 \in Nat /\ store[n].in2 \in Nat /\ store[n].out2[1] \in Nat
           /\ store[n].in3[1] \in Nat
BY DEF SignTyped, RoundsOK, Key, Store

(* The next step of the session in use: what it publishes is the youngest. *)
LEMMA NonceRound ==
    ASSUME SignTyped, SignTyped', NEW n \in Node, NonceOK(n), NEW m \in SessionManager, NEW new,
           NEW i, NEW k \in 1..5, NEW signature,
           RoundEffect(n, i, k), HasPublished(n, k, m, new, signature),
           k # 5 => new.messages[k][n] # NoEntry,
           m.active, m.currentRound = k, m.resting # <<>>, OwnRound(n, m),
           InRound(n, m, store[n], contributions[n], sigmas[n])
    PROVE  /\ Ordered(picks'[n], store'[n])
           /\ Referred(picks'[n], contributions'[n], sigmas'[n])
           /\ InRound(n, new, store'[n], contributions'[n], sigmas'[n])
<1> DEFINE st == store[n]
           cs == contributions[n]
           ss == sigmas[n]
           p == picks[n]
           st2 == store'[n]
           cs2 == contributions'[n]
           ss2 == sigmas'[n]
           p2 == picks'[n]
<1>1. /\ st \in Store /\ cs \in Seq(Contribution) /\ ss \in Seq(SigmaShare) /\ p \in Nat
      /\ st.out1 \in Nat /\ st.in2 \in Nat /\ st.out2[1] \in Nat /\ st.in3[1] \in Nat
      /\ Ordered(p, st) /\ Referred(p, cs, ss)
  BY NumberTypes DEF NonceOK
<1>2. /\ st2 \in Store /\ cs2 \in Seq(Contribution) /\ ss2 \in Seq(SigmaShare) /\ p2 \in Nat
  BY DEF SignTyped, RoundsOK, Key
<1>3. RoundEffect(n, i, k) <=>
        /\ k # 1 => p2 = p /\ st2.out1 = st.out1
        /\ k = 1 => p2 = p + 1 /\ st2.out1 = p + 1
        /\ st2.in2 = st.in2 /\ st2.in3 = st.in3 /\ st2.in4 = st.in4 /\ st2.in5 = st.in5
        /\ k # 2 => st2.out2 = st.out2
        /\ k = 2 => st2.out2[1] = st.in2
        /\ k # 3 => cs2 = cs /\ st2.out3 = st.out3
        /\ k = 3 => \E c \in Contribution :
                       cs2 = Append(cs, c) /\ c.own = st.in3[1] /\ st2.out3 = Len(cs) + 1
        /\ k # 4 => ss2 = ss
        /\ k = 4 => \E sigma \in SigmaShare : ss2 = Append(ss, sigma) /\ sigma.share = st.in4
  BY DEF RoundEffect
<1>4. /\ InRound(n, m, st, cs, ss)
      /\ new.active = m.active /\ new.currentRound = k /\ new.broadcastHashes = m.broadcastHashes
      /\ k # 5 => new.messages[k][n] # NoEntry
  BY DEF HasPublished
<1>5. Proper(new) <=> Proper(m)
  BY <1>4 DEF Proper
<1> HIDE DEF st, cs, ss, p, st2, cs2, ss2, p2
<1>6. Ordered(p2, st2)
  BY <1>1, <1>3 DEF Ordered
<1>7. \A a \in DOMAIN ss : ss[a].share \in DOMAIN cs
  BY <1>1 DEF Referred
<1>8. CASE k = 1
  <2>1. Above(cs, ss, p + 1)
    BY <1>1, AbovePicked
  <2>2. Referred(p + 1, cs, ss)
    <3>1. ASSUME NEW x \in DOMAIN cs PROVE cs[x].own <= p + 1
      <4>1. cs[x] \in Contribution /\ cs[x].own <= p
        BY <1>1 DEF Referred
      <4>2. cs[x].own \in Nat
        BY <4>1 DEF Contribution
      <4> QED
        BY <1>1, <4>1, <4>2
    <3> QED
      BY <1>1, <3>1 DEF Referred
  <2> QED
    BY <1>3, <1>4, <1>6, <1>8, <2>1, <2>2 DEF InRound, st2, cs2, ss2, p2
<1>9. CASE k = 2
  <2>1. InRound(n, new, st2, cs, ss)
    BY <1>3, <1>4, <1>5, <1>9 DEF InRound
  <2> QED
    BY <1>1, <1>3, <1>6, <1>9, <2>1 DEF st2, cs2, ss2, p2
<1>10. CASE k = 3
  <2>1. PICK c \in Contribution : cs2 = Append(cs, c) /\ c.own = st.in3[1] /\ st2.out3 = Len(cs) + 1
    BY <1>3, <1>10
  <2>2. /\ Len(cs) \in Nat /\ DOMAIN cs2 = 1..(Len(cs) + 1) /\ DOMAIN cs = 1..Len(cs)
        /\ \A x \in DOMAIN cs : cs2[x] = cs[x]
        /\ cs2[Len(cs) + 1] = c
    BY <1>1, <2>1
  <2>3. p2 = p /\ ss2 = ss /\ st2.in3 = st.in3
    BY <1>3, <1>10
  <2>4. \A a \in DOMAIN ss : cs2[ss[a].share] = cs[ss[a].share] /\ ss[a].share \in DOMAIN cs2
    BY <1>7, <2>2
  <2>5. st.in3[1] <= p
    BY <1>1 DEF Ordered
  <2>6. ASSUME NEW x \in DOMAIN cs2 PROVE cs2[x].own <= p
    <3>1. CASE x \in DOMAIN cs
      BY <1>1, <2>2, <3>1 DEF Referred
    <3>2. CASE x = Len(cs) + 1
      BY <2>1, <2>2, <2>5, <3>2
    <3> QED
      BY <2>2, <3>1, <3>2
  <2>7. Referred(p2, cs2, ss2)
    BY <1>1, <2>3, <2>4, <2>6 DEF Referred
  <2>8. \A v : Above(cs, ss, v) => Above(cs2, ss2, v)
    BY <2>3, <2>4 DEF Above
  <2>9. Proper(new) => Above(cs2, ss2, st2.in3[1]) /\ Above(cs2, ss2, cs2[st2.out3].own)
    BY <1>4, <1>5, <1>10, <2>1, <2>2, <2>3, <2>8 DEF InRound
  <2>10. st2.out3 \in DOMAIN cs2
    BY <2>1, <2>2
  <2>11. InRound(n, new, st2, cs2, ss2)
    BY <1>4, <1>10, <2>9, <2>10 DEF InRound
  <2> QED
    BY <1>6, <2>7, <2>11 DEF st2, cs2, ss2, p2
<1>11. CASE k = 4
  <2>1. PICK sigma \in SigmaShare : ss2 = Append(ss, sigma) /\ sigma.share = st.in4
    BY <1>3, <1>11
  <2>2. /\ Len(ss) \in Nat /\ DOMAIN ss2 = 1..(Len(ss) + 1) /\ DOMAIN ss = 1..Len(ss)
        /\ \A x \in DOMAIN ss : ss2[x] = ss[x]
        /\ ss2[Len(ss) + 1] = sigma
    BY <1>1, <2>1
  <2>3. p2 = p /\ cs2 = cs
    BY <1>3, <1>11
  <2>4. Proper(m)
    BY <1>4, <1>11 DEF InRound, Proper
  <2>5. m.messages[4][n] = NoEntry
    BY <1>11, <2>4 DEF OwnRound
  <2>6. st.in4 \in DOMAIN cs /\ Above(cs, ss, cs[st.in4].own)
    BY <1>4, <1>11, <2>4, <2>5 DEF InRound
  <2>7. ASSUME NEW a \in DOMAIN ss2, NEW b \in DOMAIN ss2, a < b
        PROVE  cs[ss2[a].share].own < cs[ss2[b].share].own
    <3>1. a \in DOMAIN ss
      BY <2>2, <2>7
    <3>2. CASE b \in DOMAIN ss
      BY <1>1, <2>2, <2>7, <3>1, <3>2 DEF Referred
    <3>3. CASE b = Len(ss) + 1
      BY <2>1, <2>2, <2>6, <3>1, <3>3 DEF Above
    <3> QED
      BY <2>2, <3>2, <3>3
  <2>8. \A a \in DOMAIN ss2 : ss2[a].share \in DOMAIN cs
    BY <1>7, <2>1, <2>2, <2>6
  <2>9. Referred(p2, cs2, ss2)
    BY <1>1, <2>3, <2>7, <2>8 DEF Referred
  <2>10. InRound(n, new, st2, cs2, ss2)
    BY <1>4, <1>11 DEF InRound
  <2> QED
    BY <1>6, <2>9, <2>10 DEF st2, cs2, ss2, p2
<1>12. CASE k = 5
  <2>1. InRound(n, new, st2, cs2, ss2)
    BY <1>4, <1>12 DEF InRound
  <2> QED
    BY <1>1, <1>3, <1>6, <1>12, <2>1 DEF st2, cs2, ss2, p2
<1> QED
  BY <1>8, <1>9, <1>10, <1>11, <1>12

LEMMA ReferredUp ==
    ASSUME NEW cs \in Seq(Contribution), NEW ss, NEW p \in Nat, Referred(p, cs, ss)
    PROVE  Referred(p + 1, cs, ss)
<1>1. ASSUME NEW x \in DOMAIN cs PROVE cs[x].own <= p + 1
  <2>1. cs[x] \in Contribution /\ cs[x].own <= p
    BY DEF Referred
  <2>2. cs[x].own \in Nat
    BY <2>1 DEF Contribution
  <2> QED
    BY <2>1, <2>2
<1> QED
  BY <1>1 DEF Referred

(* A superseded session that publishes its first or its second round.      *)
LEMMA NonceSuperseded ==
    ASSUME SignTyped, SignTyped', NEW n \in Node, NonceOK(n), HasManager(n), NEW i, NEW k \in 1..2,
           RoundEffect(n, i, k)
    PROVE  /\ Ordered(picks'[n], store'[n])
           /\ Referred(picks'[n], contributions'[n], sigmas'[n])
           /\ InRound(n, Manager(n), store'[n], contributions'[n], sigmas'[n])
<1> DEFINE st == store[n]
           cs == contributions[n]
           ss == sigmas[n]
           p == picks[n]
           st2 == store'[n]
<1>1. /\ st \in Store /\ cs \in Seq(Contribution) /\ ss \in Seq(SigmaShare) /\ p \in Nat
      /\ st.out1 \in Nat /\ st.in2 \in Nat /\ st.out2[1] \in Nat /\ st.in3[1] \in Nat
      /\ Ordered(p, st) /\ Referred(p, cs, ss) /\ InRound(n, Manager(n), st, cs, ss)
  BY NumberTypes DEF NonceOK
<1>2. st2 \in Store
  BY DEF SignTyped, RoundsOK
<1>3. /\ k # 1 => picks'[n] = p /\ st2.out1 = st.out1
      /\ k = 1 => picks'[n] = p + 1 /\ st2.out1 = p + 1
      /\ st2.in2 = st.in2 /\ st2.in3 = st.in3 /\ st2.in4 = st.in4
      /\ k # 2 => st2.out2 = st.out2
      /\ k = 2 => st2.out2[1] = st.in2
      /\ contributions'[n] = cs /\ st2.out3 = st.out3 /\ sigmas'[n] = ss
  BY DEF RoundEffect
<1> HIDE DEF st, cs, ss, p, st2
<1>4. Referred(picks'[n], cs, ss)
  BY <1>1, <1>3, ReferredUp
<1>5. /\ st2.out1 >= st.out1 /\ st2.in2 >= st.in2 /\ st2.out2[1] >= st.out2[1]
      /\ Ordered(picks'[n], st2)
  BY <1>1, <1>3 DEF Ordered
<1>6. InRound(n, Manager(n), st2, cs, ss)
  BY <1>1, <1>2, <1>3, <1>5, InRoundKept
<1> QED
  BY <1>3, <1>4, <1>5, <1>6 DEF st2

(* The end of a timer, whether the round is published or not. *)
LEMMA NonceVerified ==
    ASSUME SignTyped, OwnInv, NonceInv, NEW n \in Node, NEW i \in Nat, VerifyRound(n, i)
    PROVE  NonceInv'
<1> DEFINE m == managers[n][i]
<1>1. /\ SignTyped' /\ i \in DOMAIN managers[n] /\ m.resting # <<>>
      /\ \E new \in SessionManager :
            /\ managers' = [managers EXCEPT ![n][i] = new]
            /\ \/ \E k \in 1..5 : \E signature :
                     /\ RoundDone(n, i, k) /\ HasPublished(n, k, m, new, signature)
                     /\ k # 5 => new.messages[k][n] # NoEntry
               \/ /\ FailRound(n, i) \/ RefuseRound(n, i)
                  /\ new = [m EXCEPT !.resting = Tail(@)]
  BY VerifyTypes
<1>2. PICK new \in SessionManager :
            /\ Replaced(n, i, new)
            /\ \/ \E k \in 1..5 : \E signature :
                     /\ RoundDone(n, i, k) /\ HasPublished(n, k, m, new, signature)
                     /\ k # 5 => new.messages[k][n] # NoEntry
               \/ /\ FailRound(n, i) \/ RefuseRound(n, i)
                  /\ new = [m EXCEPT !.resting = Tail(@)]
  BY <1>1 DEF Replaced
<1>3. m \in SessionManager /\ NonceOK(n) /\ (m.active => OwnRound(n, m))
  BY <1>1, ManagerType DEF SignTyped, OwnInv, NonceInv
<1>4. OnlyReplaced(n, i, new)
  BY <1>1, <1>2, ManagerReplaced DEF SignTyped
<1>5. \A j \in Node \ {n} : managers'[j] = managers[j]
  BY <1>2 DEF SignTyped, ManagersOK, Replaced
<1>6. HasManager(n) /\ (i = Current(n) => m = Manager(n))
  BY <1>1 DEF HasManager, Manager, SignTyped, ManagersOK
<1>7. i # Current(n) => Spent(m)
  BY <1>1, <1>3, SupersededSpent
<1>8. /\ Ordered(picks[n], store[n]) /\ Referred(picks[n], contributions[n], sigmas[n])
      /\ InRound(n, Manager(n), store[n], contributions[n], sigmas[n])
  BY <1>3, <1>6 DEF NonceOK
<1> HIDE DEF m
<1>9. CASE /\ FailRound(n, i) \/ RefuseRound(n, i)
           /\ new = [m EXCEPT !.resting = Tail(@)]
  <2>1. PICK st2 \in Store : KeepsOutputs(store[n], st2) /\ store' = [store EXCEPT ![n] = st2]
    BY <1>9, RoundFailedIs
  <2>2. UNCHANGED <<picks, contributions, sigmas>>
    BY <1>9, RoundFailedIs
  <2>3. store'[n] = st2 /\ \A j \in Node \ {n} : SameNumbers(j)
    BY <2>1, <2>2 DEF SignTyped, RoundsOK, SameNumbers
  <2>4. /\ new.active = m.active /\ new.currentRound = m.currentRound
        /\ new.directMessages = m.directMessages /\ new.broadcastHashes = m.broadcastHashes
        /\ new.messages = m.messages
    BY <1>3, <1>9 DEF SessionManager
  <2>5. i # Current(n) => Spent(new)
    BY <1>1, <1>3, <1>7, <2>4, SpentVerified DEF m
  <2>6. /\ store[n] \in Store /\ contributions[n] \in Seq(Contribution) /\ sigmas[n] \in Seq(SigmaShare)
        /\ store[n].out1 \in Nat /\ store[n].in2 \in Nat /\ store[n].out2[1] \in Nat
    BY NumberTypes
  <2>7. /\ st2.out1 >= store[n].out1 /\ st2.in2 >= store[n].in2 /\ st2.out2[1] >= store[n].out2[1]
        /\ st2.in3 = store[n].in3 /\ st2.out3 = store[n].out3 /\ st2.in4 = store[n].in4
        /\ Ordered(picks[n], st2)
    BY <1>8, <2>1, <2>6 DEF KeepsOutputs, Ordered
  <2>8. InRound(n, IF i = Current(n) THEN new ELSE Manager(n), st2, contributions[n], sigmas[n])
    <3>1. CASE i = Current(n)
      BY <1>6, <1>8, <2>4, <2>6, <2>7, <3>1, InRoundKept
    <3>2. CASE i # Current(n)
      BY <1>8, <2>6, <2>7, <3>2, InRoundKept
    <3> QED
      BY <3>1, <3>2
  <2>9. NonceOK(n)'
    BY <1>1, <1>3, <1>4, <1>8, <2>2, <2>3, <2>5, <2>7, <2>8, NonceReplaced
  <2>10. \A j \in Node \ {n} : NonceOK(j)'
    BY <1>5, <2>3, NonceOther DEF NonceInv
  <2> QED
    BY <2>9, <2>10 DEF NonceInv
<1>10. ASSUME NEW k \in 1..5, NEW signature, RoundDone(n, i, k), HasPublished(n, k, m, new, signature),
              k # 5 => new.messages[k][n] # NoEntry
       PROVE  NonceInv'
  <2>1. /\ \A j \in Node \ {n} : SameNumbers(j)
        /\ RoundEffect(n, i, k) /\ m.active /\ m.currentRound = k
    BY <1>1, <1>10, RoundDoneIs DEF m
  <2>2. /\ new.active = m.active /\ new.currentRound = m.currentRound
        /\ new.directMessages = m.directMessages
    BY <1>10 DEF HasPublished
  <2>3. i # Current(n) => Spent(new) /\ k \in 1..2
    <3>1. i # Current(n) => Spent(new) /\ (m.active => m.currentRound <= 2)
      BY <1>1, <1>3, <1>7, <2>2, SpentVerified DEF m
    <3> QED
      BY <2>1, <3>1
  <2>4. /\ Ordered(picks'[n], store'[n])
        /\ Referred(picks'[n], contributions'[n], sigmas'[n])
        /\ InRound(n, IF i = Current(n) THEN new ELSE Manager(n), store'[n], contributions'[n], sigmas'[n])
    <3>1. CASE i = Current(n)
      <4>1. m = Manager(n) /\ InRound(n, m, store[n], contributions[n], sigmas[n])
        BY <1>6, <1>8, <3>1
      <4>2. m.active /\ m.currentRound = k /\ m.resting # <<>> /\ OwnRound(n, m)
        BY <1>1, <1>3, <2>1 DEF m
      <4>3. /\ Ordered(picks'[n], store'[n])
            /\ Referred(picks'[n], contributions'[n], sigmas'[n])
            /\ InRound(n, new, store'[n], contributions'[n], sigmas'[n])
        BY <1>1, <1>3, <1>10, <2>1, <4>1, <4>2, NonceRound
      <4> QED
        BY <3>1, <4>3
    <3>2. CASE i # Current(n)
      BY <1>1, <1>3, <1>6, <2>1, <2>3, <3>2, NonceSuperseded
    <3> QED
      BY <3>1, <3>2
  <2>5. NonceOK(n)'
    BY <1>1, <1>3, <1>4, <2>3, <2>4, NonceReplaced
  <2>6. \A j \in Node \ {n} : NonceOK(j)'
    BY <1>5, <2>1, NonceOther DEF NonceInv
  <2> QED
    BY <2>5, <2>6 DEF NonceInv
<1> QED
  BY <1>2, <1>9, <1>10

LEMMA OrderedInput ==
    ASSUME SignTyped, NEW n \in Node, NEW p, Ordered(p, store[n]), NEW k \in Nat
    PROVE  Ordered(p, Input(store[n], k))
<1> DEFINE st == store[n]
           st2 == Input(st, k)
<1>1. /\ Ordered(p, st) /\ st.out1 \in Nat /\ st.in2 \in Nat /\ st.out2[1] \in Nat /\ st.in3[1] \in Nat
  BY NumberTypes
<1>2. /\ st2.out1 = st.out1 /\ st2.out2 = st.out2
      /\ st2.in2 = IF k = 2 THEN st.out1 ELSE st.in2
      /\ st2.in3 = IF k = 3 THEN st.out2 ELSE st.in3
  <2>1. st \in Store
    BY NumberTypes
  <2> HIDE DEF st
  <2> QED
    BY <2>1, InputIs
<1> HIDE DEF st, st2
<1>3. Ordered(p, st2)
  BY <1>1, <1>2 DEF Ordered
<1> QED
  BY <1>3 DEF st, st2

(* A message that has waited takes a superseded session no further than to *)
(* its second round, and not on from there: no direct message reaches it.  *)
LEMMA SpentRead ==
    ASSUME SignTyped, Threshold >= 3, NEW n \in Node, NEW i \in DOMAIN managers[n], i # Current(n),
           NEW new \in SessionManager, Reads(n, i, new), Spent(managers[n][i]),
           managers[n][i].active => OwnRound(n, managers[n][i])
    PROVE  Spent(new) /\ (store' = store \/ store' = [store EXCEPT ![n] = Input(@, 2)])
<1> DEFINE m == managers[n][i]
<1>1. m \in SessionManager /\ m.waiting # {} /\ Spent(m) /\ (m.active => OwnRound(n, m))
  BY ManagerType DEF SignTyped, Reads
<1>2. m.currentRound \in Nat
  BY <1>1 DEF SessionManager
<1> HIDE DEF m
<1>3. CASE Waits(n, i, new)
  <2>1. /\ new.active = m.active /\ new.currentRound = m.currentRound /\ new.resting = m.resting
        /\ new.directMessages = m.directMessages /\ store' = store
    BY <1>3 DEF Waits, SameSession, SameData, m
  <2>2. AwaitsShares(m) <=> AwaitsShares(new)
    BY <2>1 DEF AwaitsShares
  <2> QED
    BY <1>1, <2>1, <2>2 DEF Spent
<1>4. ~ TakesShare(n, i, new)
  BY DEF TakesShare
<1>5. CASE Processes(n, i, new)
  <2>1. m.active /\ ~ AwaitsShares(m)
    BY <1>5 DEF Processes, m
  <2>2. m.currentRound <= 1
    <3>1. Threshold \in Nat
      BY SignAssumption, FS_CardinalityType DEF Threshold
    <3>2. ~ (m.currentRound = 2 /\ m.directMessages[2] = <<>>)
      <4>1. m.currentRound = 2 /\ m.directMessages[2] = <<>> => Len(m.directMessages[2]) = 0
        OBVIOUS
      <4> QED
        BY <2>1, <3>1, <4>1 DEF AwaitsShares, IsDirectMessageRound
    <3> QED
      BY <1>1, <1>2, <2>1, <3>2 DEF Spent
  <2>3. ASSUME NEW s, NEW msg, Stays(n, s, m, new, msg)
        PROVE  Spent(new) /\ store' = store
    BY <2>2, <2>3 DEF Stays, Spent
  <2>4. ASSUME NEW s, NEW msg, NEW rounds, Advances(n, s, m, new, msg, rounds)
        PROVE  Spent(new) /\ store' = [store EXCEPT ![n] = Input(@, 2)]
    <3>1. m.currentRound = 1
      BY <1>2, <2>2, <2>4 DEF Advances
    <3>2. m.directMessages[2] = <<>>
      BY <1>1, <2>1, <3>1 DEF OwnRound
    <3> QED
      BY <2>4, <3>1, <3>2 DEF Advances, Spent
  <2> QED
    BY <1>5, <2>3, <2>4 DEF Processes, m
<1>6. CASE Concludes(n, i, new)
  BY <1>6 DEF Concludes, Spent
<1> QED
  BY <1>3, <1>4, <1>5, <1>6 DEF Reads

(* A message that is read by the session in use. *)
LEMMA InRoundRead ==
    ASSUME SignTyped, NEW n \in Node, NonceOK(n), NEW i \in DOMAIN managers[n], i = Current(n),
           NEW new \in SessionManager, Reads(n, i, new),
           managers[n][i].active => OwnRound(n, managers[n][i])
    PROVE  /\ InRound(n, new, store'[n], contributions[n], sigmas[n])
           /\ \/ store' = store
              \/ \E k \in Nat : store' = [store EXCEPT ![n] = Input(@, k)]
<1> DEFINE m == managers[n][i]
           st == store[n]
           cs == contributions[n]
           ss == sigmas[n]
<1>1. /\ m \in SessionManager /\ (m.active => OwnRound(n, m))
      /\ st \in Store /\ cs \in Seq(Contribution) /\ ss \in Seq(SigmaShare)
      /\ st.out1 \in Nat /\ st.in2 \in Nat /\ st.out2[1] \in Nat
  BY ManagerType, NumberTypes DEF SignTyped
<1>2. InRound(n, m, st, cs, ss) /\ Referred(picks[n], cs, ss)
  BY DEF NonceOK, HasManager, Manager, SignTyped, ManagersOK
<1> HIDE DEF m, st, cs, ss
<1>3. ASSUME /\ new.active = m.active /\ new.currentRound = m.currentRound
             /\ new.broadcastHashes = m.broadcastHashes
             /\ \A k \in 1..4 : new.messages[k][n] = m.messages[k][n]
      PROVE  InRound(n, new, st, cs, ss)
  <2>1. st.out1 >= st.out1 /\ st.in2 >= st.in2 /\ st.out2[1] >= st.out2[1]
    BY <1>1
  <2> QED
    BY <1>1, <1>2, <1>3, <2>1, InRoundKept
<1>4. CASE Waits(n, i, new)
  BY <1>3, <1>4 DEF Waits, SameSession, SameData, m, st, cs, ss
<1>5. CASE TakesShare(n, i, new)
  BY <1>3, <1>5 DEF TakesShare, m, st, cs, ss
<1>6. CASE Processes(n, i, new)
  <2>1. m.active
    BY <1>6 DEF Processes, m
  <2>2. ASSUME NEW s, NEW msg, Stays(n, s, m, new, msg)
        PROVE  InRound(n, new, store'[n], cs, ss) /\ store' = store
    BY <1>3, <2>2 DEF Stays, SameData, HasProcessed, st
  <2>3. ASSUME NEW s, NEW msg, NEW rounds, Advances(n, s, m, new, msg, rounds)
        PROVE  /\ InRound(n, new, store'[n], cs, ss)
               /\ \E k \in Nat : store' = [store EXCEPT ![n] = Input(@, k)]
    <3>1. OwnRound(n, new)
      BY <1>1, <2>1, <2>3, OwnAdvanced
    <3>2. InRound(n, new, Input(st, m.currentRound + 1), cs, ss)
      BY <1>1, <1>2, <2>1, <2>3, <3>1, InRoundAdvanced
    <3>3. m.currentRound + 1 \in Nat /\ store' = [store EXCEPT ![n] = Input(@, m.currentRound + 1)]
      BY <2>3 DEF Advances
    <3>4. store'[n] = Input(st, m.currentRound + 1)
      BY <3>3 DEF SignTyped, RoundsOK, st
    <3> QED
      BY <3>2, <3>3, <3>4
  <2> QED
    BY <1>6, <2>2, <2>3 DEF Processes, m, cs, ss
<1>7. CASE Concludes(n, i, new)
  BY <1>7 DEF Concludes, InRound
<1> QED
  BY <1>4, <1>5, <1>6, <1>7 DEF Reads

LEMMA NonceRead ==
    ASSUME SignTyped, OwnInv, NonceInv, Threshold >= 3, NEW n \in Node, ReadsOne(n)
    PROVE  NonceInv'
<1>1. PICK i \in DOMAIN managers[n], new \in SessionManager : Replaced(n, i, new) /\ Reads(n, i, new)
  BY DEF ReadsOne, Replaced
<1>2. OnlyReplaced(n, i, new)
  BY <1>1, ManagerReplaced DEF SignTyped
<1>3. NonceOK(n) /\ (managers[n][i].active => OwnRound(n, managers[n][i]))
  BY DEF OwnInv, NonceInv
<1>4. UNCHANGED <<picks, contributions, sigmas>>
  BY DEF ReadsOne
<1>5. i # Current(n) => Spent(new) /\ (store' = store \/ store' = [store EXCEPT ![n] = Input(@, 2)])
  BY <1>1, <1>3, SupersededSpent, SpentRead
<1>6. i = Current(n) => /\ InRound(n, new, store'[n], contributions[n], sigmas[n])
                        /\ \/ store' = store
                           \/ \E k \in Nat : store' = [store EXCEPT ![n] = Input(@, k)]
  BY <1>1, <1>3, InRoundRead
<1>7. store' = store \/ \E k \in Nat : store' = [store EXCEPT ![n] = Input(@, k)]
  <2>1. 2 \in Nat
    OBVIOUS
  <2> QED
    BY <1>5, <1>6, <2>1
<1>8. store'[n] = store[n] \/ \E k \in Nat : store'[n] = Input(store[n], k)
  BY <1>7 DEF SignTyped, RoundsOK
<1>9. Ordered(picks[n], store'[n]) /\ Referred(picks[n], contributions[n], sigmas[n])
  BY <1>3, <1>8, OrderedInput DEF NonceOK
<1>10. i # Current(n) => InRound(n, Manager(n), store'[n], contributions[n], sigmas[n])
  <2> DEFINE st == store[n]
             st2 == Input(st, 2)
  <2>1. InRound(n, Manager(n), st, contributions[n], sigmas[n])
    BY <1>3 DEF NonceOK, HasManager, SignTyped, ManagersOK
  <2>2. /\ st2 \in Store /\ st2.out1 = st.out1 /\ st2.in2 = st.out1 /\ st2.out2 = st.out2
        /\ st2.in3 = st.in3 /\ st2.out3 = st.out3 /\ st2.in4 = st.in4
    <3>1. st \in Store /\ 2 \in Nat /\ 2 # 3 /\ 2 # 4
      BY NumberTypes
    <3> HIDE DEF st
    <3> QED
      BY <3>1, InputIs
  <2>3. /\ st \in Store /\ contributions[n] \in Seq(Contribution) /\ sigmas[n] \in Seq(SigmaShare)
        /\ st.out1 \in Nat /\ st.in2 \in Nat /\ st.out2[1] \in Nat
    BY NumberTypes
  <2>4. st.out1 >= st.in2 /\ Referred(picks[n], contributions[n], sigmas[n])
    BY <1>3 DEF NonceOK, Ordered
  <2> HIDE DEF st, st2
  <2>5. st2.out1 >= st.out1 /\ st2.in2 >= st.in2 /\ st2.out2[1] >= st.out2[1]
    BY <2>2, <2>3, <2>4
  <2>6. InRound(n, Manager(n), st2, contributions[n], sigmas[n])
    BY <2>1, <2>2, <2>3, <2>4, <2>5, InRoundKept
  <2>7. i # Current(n) => store'[n] = st \/ store'[n] = st2
    BY <1>5 DEF SignTyped, RoundsOK, st, st2
  <2> QED
    BY <2>1, <2>6, <2>7
<1>11. NonceOK(n)'
  BY <1>2, <1>3, <1>4, <1>5, <1>6, <1>9, <1>10, NonceReplaced
<1>12. \A j \in Node \ {n} : managers'[j] = managers[j] /\ SameNumbers(j)
  BY <1>1, <1>4, <1>7 DEF SignTyped, ManagersOK, RoundsOK, Replaced, SameNumbers
<1>13. \A j \in Node \ {n} : NonceOK(j)'
  BY <1>12, NonceOther DEF NonceInv
<1> QED
  BY <1>11, <1>13 DEF NonceInv

LEMMA NonceStep ==
    ASSUME SignTyped, CountInv, OwnInv, NonceInv, RequestsInTurn, Threshold >= 3, SignNext
    PROVE  NonceInv'
<1>1. \A n \in Node : starting[n] > 0 => HasManager(n)
  BY DEF CountInv, CountOK
<1>2. CASE UNCHANGED <<managers, roundVars>>
  BY <1>2, NonceOther DEF NonceInv, SameNumbers, roundVars
<1>3. ASSUME NEW s \in Node, NEW d \in Node, HandleInit(s, d) PROVE NonceInv'
  BY <1>3, NonceAsked
<1>4. ASSUME NEW n \in Node, BeginSession(n), HasManager(n) PROVE NonceInv'
  BY <1>4, NonceBegun
<1>5. ASSUME NEW n \in Node, NEW i \in Nat, VerifyRound(n, i) PROVE NonceInv'
  BY <1>5, NonceVerified
<1>6. ASSUME NEW n \in Node, ReadsOne(n) PROVE NonceInv'
  BY <1>6, NonceRead
<1> QED
  BY <1>1, <1>2, <1>3, <1>4, <1>5, <1>6, StepIs

(* With fewer than three validators no session gets to its fourth round.   *)
NothingSigned == Threshold < 3 => \A n \in Node : sigmas[n] = <<>>
LEMMA NothingSignedStep ==
    ASSUME SignTyped, CountInv, NothingSigned, SignNext
    PROVE  NothingSigned'
<1>1. \A n \in Node : starting[n] > 0 => HasManager(n)
  BY DEF CountInv, CountOK
<1>2. Threshold \in Nat
  BY SignAssumption, FS_CardinalityType DEF Threshold
<1> SUFFICES ASSUME Threshold < 3 PROVE sigmas' = sigmas
  BY DEF NothingSigned, Threshold
<1>3. ASSUME NEW s \in Node, NEW d \in Node, HandleInit(s, d) PROVE sigmas' = sigmas
  BY <1>3 DEF HandleInit, roundVars
<1>4. ASSUME NEW n \in Node, BeginSession(n) PROVE sigmas' = sigmas
  BY <1>4 DEF BeginSession
<1>5. ASSUME NEW n \in Node, NEW i \in Nat, VerifyRound(n, i) PROVE sigmas' = sigmas
  <2>1. i \in DOMAIN managers[n] /\ \/ \E k \in 1..5 : RoundDone(n, i, k)
                                    \/ FailRound(n, i) \/ RefuseRound(n, i)
    BY <1>5, VerifyTypes
  <2>2. ~ \E k \in 1..5 : RoundDone(n, i, k)
    BY <1>2, <2>1, RoundDoneIs
  <2> QED
    BY <2>1, <2>2, RoundFailedIs
<1>6. ASSUME NEW n \in Node, ReadsOne(n) PROVE sigmas' = sigmas
  BY <1>6 DEF ReadsOne
<1>7. CASE UNCHANGED <<managers, roundVars>>
  BY <1>7 DEF roundVars
<1> QED
  BY <1>1, <1>3, <1>4, <1>5, <1>6, <1>7, StepIs

(* What the three invariants come to. *)
LEMMA NonceFollows ==
    ASSUME SignTyped, NothingSigned, Threshold >= 3 => NonceInv
    PROVE  NonceUsedOnce
<1> SUFFICES ASSUME NEW n \in Node, NEW a \in DOMAIN sigmas[n], NEW b \in DOMAIN sigmas[n],
                    contributions[n][sigmas[n][a].share].own = contributions[n][sigmas[n][b].share].own
             PROVE  a = b
  BY DEF NonceUsedOnce
<1>1. Threshold \in Nat
  BY SignAssumption, FS_CardinalityType DEF Threshold
<1>2. NonceOK(n)
  BY <1>1 DEF NothingSigned, NonceInv
<1>3. /\ contributions[n] \in Seq(Contribution) /\ a \in Nat /\ b \in Nat
      /\ sigmas[n][a].share \in DOMAIN contributions[n]
      /\ sigmas[n][b].share \in DOMAIN contributions[n]
  BY <1>2, NumberTypes DEF NonceOK, Referred
<1>4. contributions[n][sigmas[n][a].share].own \in Nat
  <2>1. contributions[n][sigmas[n][a].share] \in Contribution
    BY <1>3
  <2> QED
    BY <2>1 DEF Contribution
<1>5. /\ a < b => contributions[n][sigmas[n][a].share].own < contributions[n][sigmas[n][b].share].own
      /\ b < a => contributions[n][sigmas[n][b].share].own < contributions[n][sigmas[n][a].share].own
  BY <1>2 DEF NonceOK, Referred
<1> QED
  BY <1>3, <1>4, <1>5

(* The session invariant, where requests come in turn. *)
SessionInv == SignTyped /\ CountInv /\ OwnInv /\ NothingSigned /\ (Threshold >= 3 => NonceInv)
LEMMA SessionInvInit == ASSUME SignInit PROVE SessionInv
<1>1. SignTyped /\ CountInv
  BY SignTypedInit
<1>2. OwnInv /\ NothingSigned
  BY DEF SignInit, OwnInv, NothingSigned
<1>3. ASSUME NEW n \in Node PROVE NonceOK(n)
  <2>1. /\ store[n] = FreshRounds /\ picks[n] = 0 /\ contributions[n] = <<>> /\ sigmas[n] = <<>>
        /\ managers[n] = <<>>
    BY DEF SignInit
  <2>2. Ordered(0, FreshRounds)
    BY DEF Ordered, FreshRounds
  <2>3. Referred(0, <<>>, <<>>)
    BY DEF Referred
  <2> QED
    BY <2>1, <2>2, <2>3 DEF NonceOK, HasManager
<1> QED
  BY <1>1, <1>2, <1>3 DEF SessionInv, NonceInv

LEMMA SessionInvStep ==
    ASSUME SessionInv, RequestsInTurn, [SignNext]_signVars
    PROVE  SessionInv'
<1>1. SignTyped' /\ CountInv'
  BY SignStepTyped DEF SessionInv
<1>2. CASE SignNext
  <2>1. OwnInv' /\ NothingSigned'
    BY <1>2, OwnStep, NothingSignedStep DEF SessionInv
  <2>2. Threshold >= 3 => NonceInv'
    BY <1>2, NonceStep DEF SessionInv
  <2> QED
    BY <1>1, <2>1, <2>2 DEF SessionInv, Threshold
<1>3. CASE UNCHANGED signVars
  <2>1. OwnInv' /\ NothingSigned'
    <3>1. managers' = managers /\ sigmas' = sigmas /\ Threshold' = Threshold
      BY <1>3 DEF signVars, roundVars, Threshold
    <3> QED
      BY <3>1 DEF SessionInv, OwnInv, NothingSigned
  <2>2. NonceInv => NonceInv'
    BY <1>3, NonceOther DEF signVars, roundVars, NonceInv, SameNumbers
  <2> QED
    BY <1>1, <2>1, <2>2 DEF SessionInv, Threshold
<1> QED
  BY <1>2, <1>3

(***************************************************************************)
(* As long as requests come in turn, no pair of k and gamma is behind two  *)
(* signature shares, though the rounds' objects outlive the sessions and   *)
(* the managers that were superseded go on working on them                 *)
(* (signingProtocol.ts:186-225, 271-309, mpc/signing/index.ts:23-30).      *)
(***************************************************************************)
THEOREM NonceUsedOnceInTurn == SignSpec /\ []RequestsInTurn => []NonceUsedOnce
<1>1. SignInit => SessionInv
  BY SessionInvInit
<1>2. SessionInv /\ RequestsInTurn /\ [SignNext]_signVars => SessionInv'
  BY SessionInvStep
<1>3. SessionInv => NonceUsedOnce
  BY NonceFollows DEF SessionInv
<1> QED
  BY <1>1, <1>2, <1>3, PTL DEF SignSpec

-------------------------------------------------------------------------------
(***************************************************************************)
(* The schedule of MCSign.  While somebody asks for a session, nothing but *)
(* requests is under way, and no node has more of them before it than its  *)
(* session can take; at all other times no request is under way.           *)
(***************************************************************************)
Init1 == {[type |-> "signSessionInit"]}
Asking == Starting # {} \/ \E n \in Node : InitsOn(links, n) # {}
Begins(n) ==
    \/ starting[n] = 0 /\ Manager(n).resting = <<>>
          /\ (Manager(n).waiting = {} \/ AwaitsShares(Manager(n)))
    \/ Manager(n).directMessages[2] = <<>> /\ Manager(n).currentRound + starting[n] <= 2
AskingOK ==
    /\ links \in LinksOf(Init1)
    /\ starts <= 2 \/ \A n \in Node : starting[n] + Requests(n) <= 1
    /\ \A n \in Node : InUse(n) => Begins(n)
TimelyInv == Asking => AskingOK

LEMMA AskingSeen ==
    ASSUME SignTyped
    PROVE  /\ Requested \/ Starting # {} => Asking
           /\ Asking /\ links \in LinksOf(Init1)
                 => (Requested \/ Starting # {}) /\ SimplePackets = {}
<1>1. ASSUME NEW s \in Node, NEW d \in Node, Incoming(s, d, "signSessionInit") PROVE Asking
  <2>1. links[s][d] \in Seq(SignMessage) /\ links[s][d] # <<>> /\ links[s][d][1].type = "signSessionInit"
    BY <1>1 DEF Incoming, SignTyped, LinksOf
  <2>2. <<s, 1>> \in InitsOn(links, d)
    BY <2>1 DEF InitsOn
  <2> QED
    BY <2>2 DEF Asking
<1>2. ASSUME links \in LinksOf(Init1), NEW n \in Node, InitsOn(links, n) # {} PROVE Requested
  <2>1. PICK x \in InitsOn(links, n) : TRUE
    BY <1>2
  <2>2. x[1] \in Node /\ x[2] \in DOMAIN links[x[1]][n]
    BY <2>1 DEF InitsOn
  <2>3. links[x[1]][n] \in Seq(Init1) /\ links[x[1]][n] # <<>>
    BY <1>2, <2>2 DEF LinksOf
  <2>4. Head(links[x[1]][n]).type = "signSessionInit"
    BY <2>3 DEF Init1
  <2> QED
    BY <2>2, <2>3, <2>4 DEF Requested, Incoming
<1>3. ASSUME links \in LinksOf(Init1), NEW s \in Node, NEW d \in Node PROVE ~ Simple(s, d)
  <2>1. links[s][d] \in Seq(Init1)
    BY <1>3 DEF LinksOf
  <2>2. links[s][d] # <<>> => Head(links[s][d]).type = "signSessionInit"
    BY <2>1 DEF Init1
  <2> QED
    BY <2>2 DEF Simple, Incoming
<1>4. links \in LinksOf(Init1) => SimplePackets = {}
  BY <1>3 DEF SimplePackets
<1> QED
  BY <1>1, <1>2, <1>4 DEF Asking, Requested

LEMMA TimelyFollows == ASSUME SignTyped, TimelyInv PROVE RequestsInTurn
<1>1. ASSUME NEW n \in Node, AskingOK, InUse(n)
      PROVE  Spent(Manager(n)) /\ (starting[n] > 0 => Manager(n).currentRound <= 2)
  <2>1. Manager(n) \in SessionManager /\ starting[n] \in Nat
    BY <1>1, ManagerType DEF InUse, HasManager, Manager, Current, SignTyped, ManagersOK, RestOK
  <2>2. Manager(n).currentRound \in Nat
    BY <2>1 DEF SessionManager
  <2> QED
    BY <1>1, <2>1, <2>2 DEF AskingOK, Begins, Spent
<1>2. ASSUME NEW s \in Node, NEW d \in Node, Incoming(s, d, "signSessionInit"), HasManager(d)
      PROVE  Spent(Manager(d))
  <2>1. AskingOK
    BY <1>2, AskingSeen DEF TimelyInv, Requested
  <2> QED
    BY <1>1, <1>2, <2>1 DEF InUse, Spent
<1>3. ASSUME NEW n \in Node, starting[n] > 0, InUse(n) PROVE Manager(n).currentRound <= 2
  <2>1. AskingOK
    BY <1>3 DEF TimelyInv, Asking, Starting
  <2> QED
    BY <1>1, <1>3, <2>1
<1> QED
  BY <1>2, <1>3 DEF RequestsInTurn

(* A list that has been read may be written like a request is read. *)
LEMMA UnlistSteps == UnlistFirst => RequestStep
BY DEF UnlistFirst, RequestStep, Unlisting, UpdatePeerReplica

(* Every step of the schedule is one of the session's. *)
LEMMA TimelySteps ==
    ASSUME TimelyNext
    PROVE  \/ RequestStep
           \/ \E s, d \in Node : DeliverMessage(s, d)
           \/ \E n \in Node : SendShares(n)
           \/ \E n \in Node : \E i \in 1..MaxStarts : VerifyRound(n, i) \/ RetryMessage(n, i)
           \/ UNCHANGED signVars
BY UnlistSteps DEF TimelyNext, DeliverFirst, RoundStep, SendFirst, ReadStep

LEMMA MCIsSign == ASSUME [MCNext]_mcVars PROVE [SignNext]_signVars
<1>1. TimelyNext => [SignNext]_signVars
  <2>1. RequestStep => SignNext
    BY DEF SignNext, SignTimer, RequestStep, DeliverMessage, Starting, Unlisting
  <2>2. \A n \in Node : SendShares(n) => SignNext
    BY DEF SignNext, SignTimer
  <2>3. \A s, d \in Node : DeliverMessage(s, d) => SignNext
    BY DEF SignNext
  <2>4. \A n \in Node : \A i \in 1..MaxStarts : VerifyRound(n, i) \/ RetryMessage(n, i) => SignNext
    BY DEF SignNext
  <2> QED
    BY <2>1, <2>2, <2>3, <2>4, TimelySteps
<1> QED
  BY <1>1 DEF MCNext, Request, SignNext, mcVars

(* Nobody asks, and the sessions go on by themselves. *)
LEMMA NobodyAsks ==
    ASSUME SignTyped, ~ Asking, TimelyNext
    PROVE  ~ Asking'
<1>1. \A n \in Node : InitsOn(links, n) = {}
  BY DEF Asking
<1>2. /\ ~ Requested /\ Starting = {}
      /\ \A s, d \in Node : links[s][d] # <<>> => Head(links[s][d]).type # "signSessionInit"
  BY AskingSeen DEF Asking, Requested, Incoming
<1>3. ASSUME starting' = starting, \A j \in Node : InitsOn(links', j) = InitsOn(links, j)
      PROVE  ~ Asking'
  BY <1>1, <1>2, <1>3 DEF Asking, Starting
<1>4. ASSUME NEW s \in Node, NEW n \in Node, links[s][n] # <<>>, links' = Taken(links, s, n)
      PROVE  \A j \in Node : InitsOn(links', j) = InitsOn(links, j)
  <2>1. IsFiniteSet(InitsOn(links, n)) /\ Cardinality(InitsOn(links, n)) = 0
    BY <1>1, FS_EmptySet
  <2>2. /\ \A j \in Node \ {n} : InitsOn(links', j) = InitsOn(links, j)
        /\ IsFiniteSet(InitsOn(links', n)) /\ Cardinality(InitsOn(links', n)) <= 0
    BY <1>4, <2>1, InitsTaken DEF SignTyped
  <2>3. InitsOn(links', n) = {}
    BY <2>2, FS_CardinalityType, FS_EmptySet
  <2> QED
    BY <1>1, <2>2, <2>3
<1>5. ASSUME NEW s \in Node, NEW n \in Node, NEW h \in Nat, ReadsPacket(s, n) \/ RetryMessage(n, h)
      PROVE  ~ Asking'
  <2>1. starting' = starting /\ (links' = links \/ (links[s][n] # <<>> /\ links' = Taken(links, s, n)))
    BY <1>5, ReadIs
  <2> QED
    BY <1>3, <1>4, <2>1
<1>6. ASSUME NEW s \in Node, NEW d \in Node, DeliverMessage(s, d) PROVE ~ Asking'
  <2>1. ~ HandleInit(s, d) /\ ~ RefuseInit(s, d)
    BY <1>2 DEF HandleInit, RefuseInit, Incoming
  <2>2. ASSUME DropRoundMessage(s, d) PROVE ~ Asking'
    <3>1. starting' = starting /\ links[s][d] # <<>> /\ links' = Taken(links, s, d)
      BY <2>2 DEF DropRoundMessage, Incoming
    <3> QED
      BY <1>3, <1>4, <3>1
  <2>3. 0 \in Nat
    OBVIOUS
  <2> QED
    BY <1>5, <1>6, <2>1, <2>2, <2>3 DEF DeliverMessage, ReadsPacket
<1>7. ASSUME NEW n \in Node, SendShares(n) PROVE ~ Asking'
  BY <1>3, <1>7, SendTypes
<1>8. ASSUME NEW n \in Node, NEW i \in Nat, VerifyRound(n, i) PROVE ~ Asking'
  BY <1>3, <1>8, VerifyTypes
<1>9. UNCHANGED signVars => ~ Asking'
  BY <1>3 DEF signVars
<1>10. 1..MaxStarts \subseteq Nat
  BY SignAssumption
<1>11. ASSUME RequestStep PROVE ~ Asking'
  <2>1. PICK n \in Node : UpdatePeerReplica(n)
    BY <1>2, <1>11 DEF RequestStep, Unlisting, HandleInit, RefuseInit, Incoming
  <2> QED
    BY <1>3, <2>1 DEF UpdatePeerReplica
<1> QED
  BY <1>5, <1>6, <1>7, <1>8, <1>9, <1>10, <1>11, TimelySteps

(* What the number of its requests means to a node. *)
LEMMA FewRequests ==
    ASSUME SignTyped, CountInv, AskingOK, NEW n \in Node, Requests(n) >= 1 \/ starting[n] >= 1
    PROVE  starting[n] + Requests(n) <= 2
<1>1. CountOK(n)
  BY DEF CountInv
<1>2. Requests(n) \in Nat /\ starting[n] \in Nat /\ starts \in Nat /\ starting[n] + Requests(n) <= starts
  BY <1>1, CountTypes DEF CountOK
<1> QED
  BY <1>2 DEF AskingOK

(* A request arrives, or its 500 ms are over. *)
LEMMA AskingStep ==
    ASSUME SignTyped, CountInv, AskingOK, RequestStep
    PROVE  AskingOK'
<1>1. \A n \in Node : /\ Requests(n) \in Nat /\ starting[n] \in Nat /\ starts \in Nat
                      /\ IsFiniteSet(InitsOn(links, n)) /\ (starting[n] > 0 => HasManager(n))
  BY CountTypes DEF CountInv, CountOK
<1>2. starting \in [Node -> Nat] /\ managers \in [Node -> Seq(SessionManager)]
  BY DEF SignTyped, RestOK, ManagersOK
<1>3. ASSUME NEW s \in Node, NEW d \in Node, links[s][d] # <<>>, links' = Taken(links, s, d)
      PROVE  /\ links' \in LinksOf(Init1)
             /\ Requests(d) >= 1 /\ Requests(d)' + 1 <= Requests(d)
             /\ \A j \in Node \ {d} : Requests(j)' = Requests(j)
             /\ Requests(d)' \in Nat
  <2>1. Head(links[s][d]).type = "signSessionInit" /\ links' \in LinksOf(Init1)
    BY <1>3, TakenType DEF AskingOK, Init1
  <2>2. /\ \A j \in Node \ {d} : InitsOn(links', j) = InitsOn(links, j)
        /\ IsFiniteSet(InitsOn(links', d))
        /\ Cardinality(InitsOn(links', d)) + 1 <= Cardinality(InitsOn(links, d))
    BY <1>1, <1>3, <2>1, InitsTaken DEF SignTyped
  <2>3. Cardinality(InitsOn(links', d)) \in Nat
    BY <2>2, FS_CardinalityType
  <2>4. \A j \in Node : Requests(j)' = Cardinality(InitsOn(links', j))
    BY DEF Requests
  <2>5. Cardinality(InitsOn(links', d)) + 1 <= Requests(d) /\ Requests(d) \in Nat
    BY <1>1, <2>2 DEF Requests
  <2> HIDE DEF Requests
  <2>6. Requests(d) >= 1
    BY <2>3, <2>5
  <2>7. \A j \in Node \ {d} : Requests(j)' = Requests(j)
    BY <2>2, <2>4 DEF Requests
  <2> QED
    BY <2>1, <2>3, <2>4, <2>5, <2>6, <2>7
<1>4. ASSUME NEW s \in Node, NEW d \in Node, HandleInit(s, d) PROVE AskingOK'
  <2>1. /\ links' = Taken(links, s, d) /\ links[s][d] # <<>>
        /\ starting'[d] \in {starting[d], starting[d] + 1}
        /\ \A j \in Node \ {d} : starting'[j] = starting[j] /\ managers'[j] = managers[j]
        /\ Len(managers'[d]) = Len(managers[d]) + 1
        /\ managers'[d][Len(managers[d]) + 1] = NewManager(keyParties = Node)
        /\ starts' = starts
    BY <1>4, InitIs
  <2>2. /\ links' \in LinksOf(Init1)
        /\ Requests(d) >= 1 /\ Requests(d)' + 1 <= Requests(d) /\ Requests(d)' \in Nat
        /\ \A j \in Node \ {d} : Requests(j)' = Requests(j)
    BY <1>3, <2>1
  <2>3. starting[d] + Requests(d) <= 2
    BY <2>2, FewRequests
  <2>4. starting'[d] + Requests(d)' <= starting[d] + Requests(d) /\ starting'[d] <= 2
    <3>1. starting[d] \in Nat /\ Requests(d) \in Nat
      BY <1>1
    <3>2. starting'[d] <= starting[d] + 1
      BY <2>1, <3>1
    <3>3. starting'[d] \in Nat
      BY <2>1, <3>1
    <3> HIDE DEF Requests
    <3> QED
      BY <2>2, <2>3, <3>1, <3>2, <3>3
  <2>5. starts' <= 2 \/ \A n \in Node : starting'[n] + Requests(n)' <= 1
    <3>1. CASE starts <= 2
      BY <2>1, <3>1
    <3>2. ASSUME \A n \in Node : starting[n] + Requests(n) <= 1, NEW n \in Node
          PROVE  starting'[n] + Requests(n)' <= 1
      <4>1. CASE n = d
        BY <1>1, <2>1, <2>2, <2>4, <3>2, <4>1
      <4>2. CASE n # d
        BY <2>1, <2>2, <3>2, <4>2
      <4> QED
        BY <4>1, <4>2
    <3> QED
      BY <3>1, <3>2 DEF AskingOK
  <2>6. InUse(d)' => Begins(d)'
    <3>1. Manager(d)' = NewManager(keyParties = Node)
      BY <2>1 DEF Manager, Current
    <3>2. /\ NewManager(keyParties = Node).directMessages[2] = <<>>
          /\ NewManager(keyParties = Node).currentRound = 0
      BY DEF NewManager
    <3>3. starting'[d] \in Nat
      BY <1>1, <2>1
    <3>4. Manager(d)'.directMessages[2] = <<>> /\ Manager(d)'.currentRound + starting'[d] <= 2
      BY <2>4, <3>1, <3>2, <3>3
    <3> QED
      BY <3>4 DEF Begins
  <2>7. ASSUME NEW j \in Node \ {d} PROVE InUse(j)' => Begins(j)'
    <3>1. managers'[j] = managers[j] /\ starting'[j] = starting[j]
      BY <2>1
    <3>2. Manager(j)' = Manager(j) /\ (HasManager(j)' <=> HasManager(j)) /\ (InUse(j) => Begins(j))
      BY <3>1 DEF Manager, Current, HasManager, AskingOK
    <3> QED
      BY <3>1, <3>2 DEF InUse, Begins, AwaitsShares, Threshold
  <2> QED
    BY <2>2, <2>5, <2>6, <2>7 DEF AskingOK
<1>5. ASSUME NEW n \in Node, managers' = managers, starts' = starts,
             links' = links \/ (\E s \in Node : links[s][n] # <<>> /\ links' = Taken(links, s, n)),
             starting' = starting \/ (/\ starting[n] > 0 /\ ~ Manager(n).active
                                      /\ starting' = [starting EXCEPT ![n] = starting[n] - 1])
      PROVE  AskingOK'
  <2>1. /\ links' \in LinksOf(Init1)
        /\ Requests(n)' \in Nat /\ Requests(n)' <= Requests(n)
        /\ \A j \in Node \ {n} : Requests(j)' = Requests(j)
    <3>1. CASE links' = links
      BY <1>1, <3>1 DEF AskingOK, Requests
    <3>2. ASSUME NEW s \in Node, links[s][n] # <<>>, links' = Taken(links, s, n)
          PROVE  /\ links' \in LinksOf(Init1)
                 /\ Requests(n)' \in Nat /\ Requests(n)' <= Requests(n)
                 /\ \A j \in Node \ {n} : Requests(j)' = Requests(j)
      BY <1>1, <1>3, <3>2
    <3> QED
      BY <1>5, <3>1, <3>2
  <2>2. /\ starting'[n] \in Nat /\ starting'[n] <= starting[n]
        /\ \A j \in Node \ {n} : starting'[j] = starting[j]
        /\ InUse(n) => starting'[n] = starting[n]
    BY <1>1, <1>2, <1>5 DEF InUse
  <2>3. starts' <= 2 \/ \A j \in Node : starting'[j] + Requests(j)' <= 1
    <3>1. ASSUME \A j \in Node : starting[j] + Requests(j) <= 1, NEW j \in Node
          PROVE  starting'[j] + Requests(j)' <= 1
      BY <1>1, <2>1, <2>2, <3>1
    <3> QED
      BY <1>5, <3>1 DEF AskingOK
  <2>4. ASSUME NEW j \in Node PROVE InUse(j)' => Begins(j)'
    <3>1. /\ Manager(j)' = Manager(j) /\ (InUse(j)' <=> InUse(j)) /\ (InUse(j) => Begins(j))
          /\ InUse(j) => starting'[j] = starting[j]
      BY <1>5, <2>2 DEF Manager, Current, HasManager, InUse, AskingOK
    <3> QED
      BY <3>1 DEF Begins, AwaitsShares, Threshold
  <2> QED
    BY <2>1, <2>3, <2>4 DEF AskingOK
<1>6. ASSUME NEW s \in Node, NEW d \in Node, RefuseInit(s, d) PROVE AskingOK'
  <2>1. /\ managers' = managers /\ starts' = starts /\ starting' = starting
        /\ links[s][d] # <<>> /\ links' = Taken(links, s, d)
    BY <1>6 DEF RefuseInit, Incoming
  <2> QED
    BY <1>5, <2>1
<1>7. ASSUME NEW n \in Node, RefuseBegin(n) PROVE AskingOK'
  <2>1. /\ managers' = managers /\ starts' = starts /\ links' = links
        /\ starting[n] > 0 /\ ~ Manager(n).active
        /\ starting' = [starting EXCEPT ![n] = starting[n] - 1]
    BY <1>7 DEF RefuseBegin
  <2> QED
    BY <1>5, <2>1
<1>8. ASSUME NEW n \in Node, BeginSession(n) PROVE AskingOK'
  <2>1. HasManager(n) /\ starting[n] > 0
    BY <1>1, <1>8 DEF BeginSession
  <2>2. /\ Current(n) \in DOMAIN managers[n] /\ Manager(n).active
        /\ starting' = [starting EXCEPT ![n] = starting[n] - 1]
        /\ \E new \in SessionManager :
              /\ managers' = [managers EXCEPT ![n][Current(n)] = new]
              /\ SameData(Manager(n), new)
              /\ new.currentRound = Manager(n).currentRound + 1
        /\ links' = links /\ starts' = starts
    BY <1>8, <2>1, BeginIs
  <2>3. PICK new \in SessionManager :
              /\ Replaced(n, Current(n), new)
              /\ SameData(Manager(n), new)
              /\ new.currentRound = Manager(n).currentRound + 1
    BY <2>2 DEF Replaced
  <2>4. OnlyReplaced(n, Current(n), new)
    BY <2>2, <2>3, ManagerReplaced DEF SignTyped
  <2>5. Manager(n)' = new
    BY <2>2, <2>4 DEF OnlyReplaced, Manager, Current
  <2>6. starting'[n] = starting[n] - 1 /\ \A j \in Node \ {n} : starting'[j] = starting[j]
    BY <1>2, <2>2
  <2>7. Manager(n).directMessages[2] = <<>> /\ Manager(n).currentRound + starting[n] <= 2
    BY <1>1, <2>1, <2>2 DEF AskingOK, InUse, Begins
  <2>8. Manager(n).currentRound \in Nat
    BY <2>2, ManagerType DEF SignTyped, SessionManager, Manager
  <2>9. Begins(n)'
    <3>1. new.directMessages[2] = <<>> /\ new.currentRound + starting'[n] <= 2
      BY <1>1, <2>3, <2>6, <2>7, <2>8 DEF SameData
    <3> QED
      BY <2>5, <3>1 DEF Begins
  <2>10. ASSUME NEW j \in Node \ {n} PROVE InUse(j)' => Begins(j)'
    <3>1. managers'[j] = managers[j] /\ starting'[j] = starting[j]
      BY <2>3, <2>6 DEF Replaced, SignTyped, ManagersOK
    <3>2. Manager(j)' = Manager(j) /\ (HasManager(j)' <=> HasManager(j)) /\ (InUse(j) => Begins(j))
      BY <3>1 DEF Manager, Current, HasManager, AskingOK
    <3> QED
      BY <3>1, <3>2 DEF InUse, Begins, AwaitsShares, Threshold
  <2>11. starts' <= 2 \/ \A j \in Node : starting'[j] + Requests(j)' <= 1
    <3>1. ASSUME \A j \in Node : starting[j] + Requests(j) <= 1, NEW j \in Node
          PROVE  starting'[j] + Requests(j)' <= 1
      <4>1. Requests(j)' = Requests(j)
        BY <2>2 DEF Requests
      <4>2. starting'[j] <= starting[j] /\ starting'[j] \in Int
        BY <1>1, <2>6
      <4> QED
        BY <1>1, <3>1, <4>1, <4>2
    <3> QED
      BY <2>2, <3>1 DEF AskingOK
  <2> QED
    BY <2>2, <2>9, <2>10, <2>11 DEF AskingOK
<1>9. ASSUME NEW n \in Node, UpdatePeerReplica(n) PROVE AskingOK'
  BY <1>5, <1>9 DEF UpdatePeerReplica
<1> QED
  BY <1>4, <1>6, <1>7, <1>8, <1>9 DEF RequestStep, Starting, Unlisting

(* Somebody asks: while nothing is under way, or in a first session's 500 ms. *)
LEMMA AskingBegins ==
    ASSUME SignTyped, CountInv, TimelyInv, MayStart, NEW n \in Node, StartSign(n)
    PROVE  AskingOK'
<1> DEFINE init == [type |-> "signSessionInit"]
<1>1. /\ links' = Broadcast(links, n, <<init>>) /\ starts' = starts + 1
      /\ managers' = managers /\ starting' = starting
  BY DEF StartSign
<1>2. init \in Init1
  BY DEF Init1
<1>3. \A j \in Node : IsFiniteSet(InitsOn(links, j))
  BY DEF CountInv, CountOK
<1>4. \A j \in Node : Manager(j)' = Manager(j) /\ (InUse(j)' <=> InUse(j))
  BY <1>1 DEF Manager, Current, InUse, HasManager
<1>5. \A j \in Node : Begins(j)' <=> Begins(j)
  BY <1>1, <1>4 DEF Begins, AwaitsShares, Threshold
<1> HIDE DEF init
<1>6. links \in LinksOf(Init1) => links' \in LinksOf(Init1)
  BY <1>1, <1>2, BroadcastOneType
<1>7. CASE starts < 2 /\ Starting # {}
  <2>1. AskingOK
    BY <1>7 DEF TimelyInv, Asking
  <2>2. starts' <= 2
    BY <1>1, <1>7 DEF SignTyped, RestOK
  <2> QED
    BY <1>4, <1>5, <1>6, <2>1, <2>2 DEF AskingOK
<1>8. CASE SessionsQuiet
  <2>1. /\ \A s, d \in Node : links[s][d] = <<>>
        /\ \A j \in Node : starting[j] = 0
        /\ \A j \in Node : \A i \in DOMAIN managers[j] :
              /\ managers[j][i].resting = <<>>
              /\ managers[j][i].waiting # {} => AwaitsShares(managers[j][i])
    BY <1>8 DEF SessionsQuiet, Drained
  <2>2. links \in LinksOf(Init1)
    <3>1. /\ links = [s \in Node |-> links[s]]
          /\ \A s \in Node : links[s] = [d \in Node |-> links[s][d]]
      BY DEF SignTyped, LinksOf
    <3>2. ASSUME NEW s \in Node PROVE links[s] \in [Node -> Seq(Init1)]
      <4>1. links[s] = [d \in Node |-> <<>>]
        BY <2>1, <3>1
      <4>2. <<>> \in Seq(Init1)
        OBVIOUS
      <4> QED
        BY <4>1, <4>2
    <3> QED
      BY <3>1, <3>2 DEF LinksOf
  <2>3. ASSUME NEW j \in Node PROVE starting'[j] + Requests(j)' <= 1
    <3>1. InitsOn(links, j) = {}
      BY <2>1 DEF InitsOn
    <3>2. Cardinality(InitsOn(links, j)) = 0
      BY <3>1, FS_EmptySet
    <3>3. Cardinality(InitsOn(links', j)) = Cardinality(InitsOn(links, j)) + 1
      BY <1>1, <1>3, InitsAsked DEF SignTyped, init
    <3>4. Requests(j)' = 1
      BY <3>2, <3>3 DEF Requests
    <3> QED
      BY <1>1, <2>1, <3>4
  <2>4. ASSUME NEW j \in Node, InUse(j) PROVE Begins(j)
    <3>1. Current(j) \in DOMAIN managers[j]
      BY <2>4 DEF InUse, HasManager, Current, SignTyped, ManagersOK
    <3> QED
      BY <2>1, <3>1 DEF Begins, Manager
  <2> QED
    BY <1>4, <1>5, <1>6, <2>2, <2>3, <2>4 DEF AskingOK
<1> QED
  BY <1>7, <1>8 DEF MayStart

LEMMA TimelyStep ==
    ASSUME SignTyped, CountInv, TimelyInv, [MCNext]_mcVars
    PROVE  TimelyInv'
<1>1. CASE TimelyNext /\ Asking
  <2>1. AskingOK
    BY <1>1 DEF TimelyInv
  <2>2. RequestStep
    BY <1>1, <2>1, AskingSeen, UnlistSteps DEF TimelyNext, AskingOK
  <2> QED
    BY <2>1, <2>2, AskingStep DEF TimelyInv
<1>2. CASE TimelyNext /\ ~ Asking
  BY <1>2, NobodyAsks DEF TimelyInv
<1>3. ASSUME MayStart, Request PROVE TimelyInv'
  BY <1>3, AskingBegins DEF Request, TimelyInv
<1>4. CASE UNCHANGED mcVars
  BY <1>4 DEF mcVars, signVars, TimelyInv, Asking, Starting, AskingOK, Requests, InUse, HasManager,
              Manager, Current, Begins, AwaitsShares, Threshold
<1> QED
  BY <1>1, <1>2, <1>3, <1>4 DEF MCNext

LEMMA TimelyInit == ASSUME SignInit PROVE TimelyInv
<1>1. \A n \in Node : InitsOn(links, n) = {}
  <2>1. \A s, d \in Node : links[s][d] = <<>>
    BY DEF SignInit, NoPackets
  <2> QED
    BY <2>1 DEF InitsOn
<1>2. Starting = {}
  BY DEF SignInit, Starting
<1> QED
  BY <1>1, <1>2 DEF TimelyInv, Asking

(***************************************************************************)
(* On a network that delivers within the 500 ms that follow a request or a *)
(* round, requests that are made when no session is under way, or within   *)
(* the first one's 500 ms, come in turn (server.ts:311-318 against         *)
(* signingProtocol.ts:243-248).                                            *)
(***************************************************************************)
THEOREM TimelyRequestsInTurn == MCSpec => []RequestsInTurn
<1> DEFINE Inv == SignTyped /\ CountInv /\ TimelyInv
<1>1. MCInit => Inv
  BY SignTypedInit, TimelyInit DEF MCInit
<1>2. Inv /\ [MCNext]_mcVars => Inv'
  BY SignStepTyped, TimelyStep, MCIsSign
<1>3. Inv => RequestsInTurn
  BY TimelyFollows
<1> QED
  BY <1>1, <1>2, <1>3, PTL DEF MCSpec

(***************************************************************************)
(* So no pair of k and gamma is behind two signature shares, for any       *)
(* number of validators and of sessions that got stuck before              *)
(* (signingProtocol.ts:186-225, 271-309, mpc/signing/index.ts:23-30).      *)
(***************************************************************************)
THEOREM NonceUsedOnceTimely == MCSpec => []NonceUsedOnce
<1>1. MCInit => SignInit
  BY DEF MCInit
<1>2. [MCNext]_mcVars => [SignNext]_signVars
  BY MCIsSign
<1> QED
  BY <1>1, <1>2, NonceUsedOnceInTurn, TimelyRequestsInTurn, PTL DEF MCSpec, SignSpec
===============================================================================
