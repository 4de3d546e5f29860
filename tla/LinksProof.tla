------------------------------ MODULE LinksProof ------------------------------
(***************************************************************************)
(* Lemmas about the operators of Links: whatever set the messages under    *)
(* way belong to, taking a packet and sending more of that set keeps it;   *)
(* and about those of Registry.                                            *)
(***************************************************************************)
EXTENDS Links, Registry, SequenceTheorems, TLAPS

LinksOf(S) == [Node -> [Node -> Seq(S)]]

(* No packet under way: the links carry whatever set one likes (server.ts, *)
(* the state before any send).                                             *)
LEMMA NoPacketsType ==
    ASSUME NEW S
    PROVE  NoPackets \in LinksOf(S)
BY DEF NoPackets, LinksOf

(* Links whose packets belong to S also carry packets of any larger set.   *)
LEMMA LinksMonotonic ==
    ASSUME NEW S, NEW T, S \subseteq T, NEW ls \in LinksOf(S)
    PROVE  ls \in LinksOf(T)
<1>1. Seq(S) \subseteq Seq(T)
    BY SeqMonotonic
<1>. QED
    BY <1>1 DEF LinksOf

(* The packet handled next is one of those that were sent.                 *)
LEMMA TakenType ==
    ASSUME NEW S, NEW ls \in LinksOf(S), NEW s \in Node, NEW d \in Node, ls[s][d] # <<>>
    PROVE  /\ Head(ls[s][d]) \in S
           /\ Taken(ls, s, d) \in LinksOf(S)
<1>1. ls[s][d] \in Seq(S)
    BY DEF LinksOf
<1>2. Head(ls[s][d]) \in S /\ Tail(ls[s][d]) \in Seq(S)
    BY <1>1
<1>3. [ls[s] EXCEPT ![d] = Tail(ls[s][d])] \in [Node -> Seq(S)]
    BY <1>2 DEF LinksOf
<1>. QED
    BY <1>2, <1>3 DEF LinksOf, Taken

(* A broadcast adds only what is broadcast (server.ts:251-261).            *)
LEMMA BroadcastType ==
    ASSUME NEW S, NEW ls \in LinksOf(S), NEW n \in Node, NEW out \in Seq(S)
    PROVE  Broadcast(ls, n, out) \in LinksOf(S)
<1>1. \A d \in Node : ls[n][d] \o out \in Seq(S)
    BY DEF LinksOf
<1>2. [d \in Node |-> ls[n][d] \o out] \in [Node -> Seq(S)]
    BY <1>1
<1>. QED
    BY <1>2 DEF LinksOf, Broadcast

(* The same of one message (server.ts:251-261).                            *)
LEMMA BroadcastOneType ==
    ASSUME NEW S, NEW ls \in LinksOf(S), NEW n \in Node, NEW m \in S
    PROVE  Broadcast(ls, n, <<m>>) \in LinksOf(S)
<1>1. <<m>> \in Seq(S)
    OBVIOUS
<1>. QED
    BY <1>1, BroadcastType

(* The same of two messages, one after the other (server.ts:251-261).      *)
LEMMA BroadcastTwoType ==
    ASSUME NEW S, NEW ls \in LinksOf(S), NEW n \in Node, NEW m1 \in S, NEW m2 \in S
    PROVE  Broadcast(ls, n, <<m1, m2>>) \in LinksOf(S)
<1>1. <<m1, m2>> \in Seq(S)
    OBVIOUS
<1>. QED
    BY <1>1, BroadcastType

(* A direct message adds only itself (server.ts:234-249).                  *)
LEMMA SendDirectType ==
    ASSUME NEW S, NEW ls \in LinksOf(S), NEW n \in Node, NEW d \in Node, NEW m \in S
    PROVE  SendDirect(ls, n, d, m) \in LinksOf(S)
<1>1. Append(ls[n][d], m) \in Seq(S)
    BY DEF LinksOf
<1>2. [ls[n] EXCEPT ![d] = Append(ls[n][d], m)] \in [Node -> Seq(S)]
    BY <1>1 DEF LinksOf
<1>. QED
    BY <1>1, <1>2 DEF LinksOf, SendDirect

-------------------------------------------------------------------------------
(* The list of everyone is a registry, and nobody waits for it             *)
(* (src/protocol/index.ts:7-23).                                           *)
LEMMA ListingType ==
    ASSUME NEW S
    PROVE  Listing(S) \in RegistryOf(S) /\ \A n \in S : ~ HasRead(Listing(S), n)
BY DEF Listing, RegistryOf, HasRead

(* What a port reads is a list of ports (src/protocol/index.ts:7-23).      *)
LEMMA ReadByType ==
    ASSUME NEW S, NEW r \in RegistryOf(S), NEW n \in S
    PROVE  /\ ReadBy(r, n) \in RegistryOf(S)
           /\ ReadBy(r, n).peers = r.peers
           /\ ReadBy(r, n) # Listing(S)
<1>1. r.peers \in SUBSET S /\ r.reads \in [S -> Seq(SUBSET S)]
      /\ r = [peers |-> r.peers, reads |-> r.reads]
    BY DEF RegistryOf
<1>2. Append(r.reads[n], r.peers) \in Seq(SUBSET S) /\ Append(r.reads[n], r.peers) # <<>>
    BY <1>1
<1>3. ReadBy(r, n)
          = [peers |-> r.peers, reads |-> [r.reads EXCEPT ![n] = Append(r.reads[n], r.peers)]]
    <2>. DEFINE new == [r.reads EXCEPT ![n] = Append(r.reads[n], r.peers)]
    <2>. HIDE DEF new
    <2>1. r \in [peers : SUBSET S, reads : [S -> Seq(SUBSET S)]]
        BY DEF RegistryOf
    <2>2. [r EXCEPT !.reads = new] = [peers |-> r.peers, reads |-> new]
        BY <2>1
    <2>. QED
        BY <2>2 DEF ReadBy, new
<1>4. [r.reads EXCEPT ![n] = Append(r.reads[n], r.peers)] \in [S -> Seq(SUBSET S)]
    BY <1>1, <1>2
<1>5. ReadBy(r, n).reads[n] # <<>>
    BY <1>1, <1>2, <1>3
<1>. QED
    BY <1>1, <1>3, <1>4, <1>5 DEF RegistryOf, Listing

(* What it writes back is one too (src/protocol/index.ts:45-51).           *)
LEMMA WrittenByType ==
    ASSUME NEW S, NEW r \in RegistryOf(S), NEW n \in S, HasRead(r, n)
    PROVE  WrittenBy(r, n) \in RegistryOf(S)
<1>1. r.reads \in [S -> Seq(SUBSET S)] /\ r.reads[n] # <<>>
    BY DEF RegistryOf, HasRead
<1>2. Head(r.reads[n]) \in SUBSET S /\ Tail(r.reads[n]) \in Seq(SUBSET S)
    BY <1>1
<1>3. [r.reads EXCEPT ![n] = Tail(r.reads[n])] \in [S -> Seq(SUBSET S)]
    BY <1>1, <1>2
<1>. QED
    BY <1>2, <1>3 DEF RegistryOf, WrittenBy
===============================================================================
