------------------------------ MODULE LedgerProof -----------------------------
(***************************************************************************)
(* Theorems about Ledger, for any number of validators, transactions and   *)
(* proposals, any interleaving of the packets, and any number of handlers  *)
(* that throw.                                                             *)
(***************************************************************************)
EXTENDS Ledger, ElectionProof, FiniteSetTheorems

(* The messages of a run in which k blocks have been proposed. *)
MessagesUpTo(k) ==
    ElectionMessage
        \cup [type : {"transaction"}, tx : Tx]
        \cup [type : {"pre_prepare"}, hash : 1..k]
        \cup [type : {"prepare", "commit", "round_change"}, hash : 1..k, by : Node]

LedgerStateOK ==
    /\ chain \in [Node -> Seq(0..Len(blocks))]
    /\ \A n \in Node : chain[n] # <<>>
    /\ txPool \in [Node -> SUBSET Tx]
    /\ blockPool \in [Node -> SUBSET (Hash \ {Genesis})]
    /\ preparePool \in [Node -> [Hash -> SUBSET Node]]
    /\ commitPool \in [Node -> [Hash -> SUBSET Node]]
    /\ messagePool \in [Node -> [Hash -> SUBSET Node]]
    /\ clearing \in [Node -> Nat]
    /\ blocks \in Seq(Block)
    /\ Len(blocks) \in Hash
    /\ created \in SUBSET Tx
    /\ registry \in RegistryOf(Node)
    /\ redisChain \in Seq(0..Len(blocks))

(* The type invariant, made inductive: no chain and no message names a     *)
(* block that has not been proposed.                                       *)
Typed ==
    /\ ElectionStateOK
    /\ LedgerStateOK
    /\ links \in LinksOf(MessagesUpTo(Len(blocks)))

-------------------------------------------------------------------------------
(* More proposals, more messages. *)
LEMMA MessagesGrow ==
    ASSUME NEW j \in Nat, NEW k \in Nat, j <= k
    PROVE  MessagesUpTo(j) \subseteq MessagesUpTo(k)
<1>1. 1..j \subseteq 1..k
    OBVIOUS
<1>. QED
    BY <1>1 DEF MessagesUpTo

(* A handler that takes a packet and answers with messages of T leaves     *)
(* links that carry messages of T (server.ts:104-128, 251-261).            *)
LEMMA ReplyType ==
    ASSUME NEW S, NEW T, S \subseteq T, links \in LinksOf(S),
           NEW s \in Node, NEW d \in Node, links[s][d] # <<>>,
           NEW out \in Seq(T), Reply(s, d, out)
    PROVE  links' \in LinksOf(T)
<1>1. Taken(links, s, d) \in LinksOf(S)
    BY TakenType
<1>2. Taken(links, s, d) \in LinksOf(T)
    BY <1>1, LinksMonotonic
<1>. QED
    BY <1>2, BroadcastType DEF Reply

(* The tip of a chain is the genesis block or a proposal, and has a        *)
(* sequence number (block.ts:46-65).                                       *)
LEMMA TipType ==
    ASSUME LedgerStateOK, NEW n \in Node
    PROVE  Tip(n) \in 0..Len(blocks) /\ Tip(n) \in Hash /\ SeqOf(Tip(n)) \in Nat
<1>1. chain[n] \in Seq(0..Len(blocks)) /\ chain[n] # <<>>
    BY DEF LedgerStateOK
<1>2. Len(chain[n]) \in 1..Len(chain[n])
    BY <1>1
<1>3. Tip(n) \in 0..Len(blocks)
    BY <1>1, <1>2, ElementOfSeq DEF Tip
<1>4. Len(blocks) \in 0..MaxBlocks /\ MaxBlocks \in Nat
    BY LedgerAssumption DEF LedgerStateOK, Hash
<1>5. Tip(n) # Genesis => blocks[Tip(n)] \in Block
    BY <1>3, <1>4 DEF LedgerStateOK, Genesis
<1>. QED
    BY <1>3, <1>4, <1>5 DEF SeqOf, Block, Hash, Genesis

(* The initial state is typed (consesnsus.ts:42-49). *)
LEMMA TypedInit == Init => Typed
<1>. SUFFICES ASSUME Init PROVE Typed
    OBVIOUS
<1>1. MaxBlocks \in Nat
    BY LedgerAssumption
<1>2. ElectionStateOK /\ links \in LinksOf(MessagesUpTo(Len(blocks)))
    BY NoPacketsType, ElectionAssumption DEF Init, ElectionInit, ElectionStateOK
<1>3. <<Genesis>> \in Seq(0..Len(blocks)) /\ Len(blocks) = 0 /\ blocks \in Seq(Block)
    BY DEF Init, Genesis
<1>4. LedgerStateOK
    BY <1>1, <1>3, ListingType DEF Init, LedgerStateOK, Hash, Genesis
<1>. QED
    BY <1>2, <1>4 DEF Typed

-------------------------------------------------------------------------------
(***************************************************************************)
(* One lemma for each group of actions: its steps keep the state typed.    *)
(***************************************************************************)

(* A client creates a transaction (router.ts:26-38).          *)
LEMMA CreateTyped ==
    ASSUME Typed, NEW n \in Node, NEW t \in Tx, CreateTransaction(n, t)
    PROVE  Typed'
<1>. DEFINE S == MessagesUpTo(Len(blocks))
<1>1. TransactionOf(t) \in S
    BY DEF TransactionOf, MessagesUpTo
<1>2. links' \in LinksOf(S)
    BY <1>1, BroadcastOneType DEF CreateTransaction, Typed
<1>3. blocks' = blocks
    BY DEF CreateTransaction
<1>4. ElectionStateOK'
    BY DEF CreateTransaction, Typed, ElectionStateOK, electionState
<1>5. LedgerStateOK'
    BY <1>3 DEF CreateTransaction, Typed, LedgerStateOK
<1>. QED
    BY <1>2, <1>3, <1>4, <1>5 DEF Typed

(* A transaction arrives, and may make its reader propose a block          *)
(* (consesnsus.ts:276-297).                                                *)
LEMMA TransactionTyped ==
    ASSUME Typed, NEW s \in Node, NEW d \in Node, HandleNewTransaction(s, d)
    PROVE  Typed'
<1>. DEFINE m == Head(links[s][d])
            t == m.tx
            S == MessagesUpTo(Len(blocks))
            proposal == [last |-> Tip(d), seq |-> SeqOf(Tip(d)) + 1,
                         txs |-> txPool[d] \cup {t}, proposer |-> d]
<1>1. links[s][d] # <<>> /\ m.type = "transaction"
    BY DEF HandleNewTransaction, Receives
<1>2. m \in S
    BY <1>1, TakenType DEF Typed
<1>3. t \in Tx
    BY <1>1, <1>2 DEF MessagesUpTo, ElectionMessage
<1>4. ElectionStateOK'
    BY DEF HandleNewTransaction, Typed, ElectionStateOK, electionState
<1>5. txPool' \in [Node -> SUBSET Tx]
    BY <1>3 DEF HandleNewTransaction, Typed, LedgerStateOK
<1>6. TransactionOf(t) \in S
    BY <1>3 DEF TransactionOf, MessagesUpTo
<1>7. CASE UNCHANGED blocks /\ (Reply(s, d, <<>>) \/ Reply(s, d, <<TransactionOf(t)>>))
    <2>1. <<>> \in Seq(S) /\ <<TransactionOf(t)>> \in Seq(S)
        BY <1>6
    <2>2. links' \in LinksOf(S)
        BY <1>1, <1>7, <2>1, ReplyType DEF Typed
    <2>3. LedgerStateOK'
        BY <1>5, <1>7 DEF HandleNewTransaction, Typed, LedgerStateOK
    <2>. QED
        BY <1>4, <1>7, <2>2, <2>3 DEF Typed
<1>8. CASE /\ Len(blocks) < MaxBlocks
           /\ blocks' = Append(blocks, proposal)
           /\ Reply(s, d, <<TransactionOf(t), PrePrepareOf(Len(blocks) + 1)>>)
    <2>. DEFINE T == MessagesUpTo(Len(blocks'))
    <2>1. proposal \in Block
        <3>1. Tip(d) \in Hash /\ SeqOf(Tip(d)) + 1 \in Nat
            BY TipType DEF Typed
        <3>2. txPool[d] \cup {t} \in SUBSET Tx
            BY <1>3 DEF Typed, LedgerStateOK
        <3>. QED
            BY <3>1, <3>2 DEF Block
    <2>2. blocks \in Seq(Block) /\ Len(blocks) \in Nat /\ MaxBlocks \in Nat
        BY LedgerAssumption DEF Typed, LedgerStateOK
    <2>. HIDE DEF proposal
    <2>3. blocks' \in Seq(Block) /\ Len(blocks') = Len(blocks) + 1
        BY <1>8, <2>1, <2>2, AppendProperties
    <2>4. S \subseteq T
        BY <2>2, <2>3, MessagesGrow
    <2>5. PrePrepareOf(Len(blocks) + 1) \in T
        BY <2>2, <2>3 DEF PrePrepareOf, MessagesUpTo
    <2>6. <<TransactionOf(t), PrePrepareOf(Len(blocks) + 1)>> \in Seq(T)
        BY <1>6, <2>4, <2>5
    <2>7. links' \in LinksOf(T)
        BY <1>1, <1>8, <2>4, <2>6, ReplyType DEF Typed
    <2>8. Seq(0..Len(blocks)) \subseteq Seq(0..Len(blocks'))
        BY <2>2, <2>3, SeqMonotonic
    <2>9. UNCHANGED <<chain, blockPool, preparePool, commitPool, messagePool, clearing,
                      created, registry, redisChain>>
        BY DEF HandleNewTransaction
    <2>10. chain' \in [Node -> Seq(0..Len(blocks'))] /\ redisChain' \in Seq(0..Len(blocks'))
        BY <2>8, <2>9 DEF Typed, LedgerStateOK
    <2>11. Len(blocks') \in Hash
        BY <1>8, <2>2, <2>3 DEF Hash
    <2>12. LedgerStateOK'
        BY <1>5, <2>3, <2>9, <2>10, <2>11 DEF Typed, LedgerStateOK
    <2>. QED
        BY <1>4, <2>7, <2>12 DEF Typed
<1>. QED
    BY <1>7, <1>8 DEF HandleNewTransaction

(* What a handler of a phase reads is a proposed block and a validator.    *)
LEMMA PhaseMessageType ==
    ASSUME Typed, NEW s \in Node, NEW d \in Node, links[s][d] # <<>>
    PROVE  LET m == Head(links[s][d])
           IN  /\ m \in MessagesUpTo(Len(blocks))
               /\ m.type \in {"pre_prepare", "prepare", "commit", "round_change"}
                      => m.hash \in 1..Len(blocks) /\ m.hash \in Hash \ {Genesis}
               /\ m.type \in {"prepare", "commit", "round_change"} => m.by \in Node
<1>. DEFINE m == Head(links[s][d])
<1>1. m \in MessagesUpTo(Len(blocks))
    BY TakenType DEF Typed
<1>2. 1..Len(blocks) \subseteq Hash \ {Genesis}
    BY LedgerAssumption DEF Typed, LedgerStateOK, Hash, Genesis
<1>. QED
    BY <1>1, <1>2 DEF MessagesUpTo, ElectionMessage

(* The pools stay typed when a list of one of them is replaced             *)
(* (abstractPBFTPool.ts).                                                  *)
LEMMA RelistedType ==
    ASSUME NEW pool \in [Node -> [Hash -> SUBSET Node]], NEW n \in Node, NEW h \in Hash,
           NEW authors \in SUBSET Node
    PROVE  /\ Relisted(pool, n, h, authors) \in [Node -> [Hash -> SUBSET Node]]
           /\ \A k \in Node, g \in Hash : Relisted(pool, n, h, authors)[k][g]
                  = IF k = n /\ g = h THEN authors ELSE pool[k][g]
BY DEF Relisted

(* The pools of a typed state, one by one. *)
LEMMA PoolTypes ==
    ASSUME Typed
    PROVE  /\ preparePool \in [Node -> [Hash -> SUBSET Node]]
           /\ commitPool \in [Node -> [Hash -> SUBSET Node]]
           /\ messagePool \in [Node -> [Hash -> SUBSET Node]]
           /\ clearing \in [Node -> Nat]
           /\ \A n \in Node : {n} \in SUBSET Node
           /\ \A n, k \in Node, h \in Hash :
                  /\ preparePool[n][h] \cup {k} \in SUBSET Node
                  /\ commitPool[n][h] \cup {k} \in SUBSET Node
                  /\ messagePool[n][h] \cup {k} \in SUBSET Node
BY DEF Typed, LedgerStateOK

(* Pre-prepare: the block enters the pool (consesnsus.ts:299-315). *)
LEMMA PrePrepareTyped ==
    ASSUME Typed, NEW s \in Node, NEW d \in Node, HandleNewBlockPrePrepare(s, d)
    PROVE  Typed'
<1>. DEFINE h == Head(links[s][d]).hash
            S == MessagesUpTo(Len(blocks))
<1>1. links[s][d] # <<>> /\ h \in 1..Len(blocks) /\ h \in Hash \ {Genesis}
    BY PhaseMessageType DEF HandleNewBlockPrePrepare, Receives
<1>2. PrePrepareOf(h) \in S /\ PrepareOf(h, d) \in S
    BY <1>1 DEF PrePrepareOf, PrepareOf, MessagesUpTo
<1>3. <<PrePrepareOf(h), PrepareOf(h, d)>> \in Seq(S)
    BY <1>2
<1>4. links' \in LinksOf(S)
    BY <1>1, <1>3, ReplyType DEF HandleNewBlockPrePrepare, Typed
<1>5. preparePool' \in [Node -> [Hash -> SUBSET Node]]
    <2>1. preparePool' = Relisted(preparePool, d, h, {d})
        BY DEF HandleNewBlockPrePrepare
    <2>. HIDE DEF h
    <2>. QED
        BY <1>1, <2>1, PoolTypes, RelistedType
<1>6. blockPool' \in [Node -> SUBSET (Hash \ {Genesis})]
    BY <1>1 DEF HandleNewBlockPrePrepare, Typed, LedgerStateOK
<1>7. ElectionStateOK'
    BY DEF HandleNewBlockPrePrepare, Typed, ElectionStateOK, electionState
<1>8. UNCHANGED <<chain, txPool, commitPool, messagePool, clearing, blocks, created, registry,
                  redisChain>>
    BY DEF HandleNewBlockPrePrepare
<1>. QED
    BY <1>4, <1>5, <1>6, <1>7, <1>8 DEF Typed, LedgerStateOK

(* Prepare (consesnsus.ts:317-345). *)
LEMMA PrepareTyped ==
    ASSUME Typed, NEW s \in Node, NEW d \in Node, HandleNewBlockPrepare(s, d)
    PROVE  Typed'
<1>. DEFINE m == Head(links[s][d])
            S == MessagesUpTo(Len(blocks))
            authors == preparePool[d][m.hash] \cup {m.by}
<1>1. /\ links[s][d] # <<>>
      /\ m \in S /\ m.hash \in 1..Len(blocks) /\ m.hash \in Hash \ {Genesis} /\ m.by \in Node
    BY PhaseMessageType DEF HandleNewBlockPrepare, Receives
<1>2. CommitOf(m.hash, d) \in S
    BY <1>1 DEF CommitOf, MessagesUpTo
<1>3. <<m>> \in Seq(S) /\ <<m, CommitOf(m.hash, d)>> \in Seq(S)
    BY <1>1, <1>2
<1>4. links' \in LinksOf(S)
    BY <1>1, <1>3, ReplyType DEF HandleNewBlockPrepare, Typed
<1>5. authors \in SUBSET Node
    BY <1>1, PoolTypes
<1>6. /\ preparePool' = Relisted(preparePool, d, m.hash, authors)
      /\ commitPool' = commitPool \/ commitPool' = Relisted(commitPool, d, m.hash, {d})
      /\ UNCHANGED <<electionState, chain, txPool, blockPool, messagePool, clearing, blocks,
                     created, registry, redisChain>>
    BY DEF HandleNewBlockPrepare, QuorumReached
<1>. HIDE DEF m, authors
<1>7. preparePool' \in [Node -> [Hash -> SUBSET Node]]
    BY <1>1, <1>5, <1>6, PoolTypes, RelistedType
<1>8. commitPool' \in [Node -> [Hash -> SUBSET Node]]
    BY <1>1, <1>6, PoolTypes, RelistedType
<1>. QED
    BY <1>4, <1>6, <1>7, <1>8 DEF Typed, ElectionStateOK, LedgerStateOK, electionState

(* Commit: the chain may grow by a proposed block (consesnsus.ts:347-374). *)
LEMMA CommitTyped ==
    ASSUME Typed, NEW s \in Node, NEW d \in Node, HandleNewBlockCommit(s, d)
    PROVE  Typed'
<1>. DEFINE m == Head(links[s][d])
            S == MessagesUpTo(Len(blocks))
            authors == commitPool[d][m.hash] \cup {m.by}
<1>1. /\ links[s][d] # <<>>
      /\ m \in S /\ m.hash \in 1..Len(blocks) /\ m.hash \in Hash \ {Genesis} /\ m.by \in Node
    BY PhaseMessageType DEF HandleNewBlockCommit, Receives
<1>2. RoundChangeOf(m.hash, d) \in S
    BY <1>1 DEF RoundChangeOf, MessagesUpTo
<1>3. <<m>> \in Seq(S) /\ <<m, RoundChangeOf(m.hash, d)>> \in Seq(S)
    BY <1>1, <1>2
<1>4. links' \in LinksOf(S)
    BY <1>1, <1>3, ReplyType DEF HandleNewBlockCommit, Typed
<1>5. authors \in SUBSET Node
    BY <1>1, PoolTypes
<1>6. /\ commitPool' = Relisted(commitPool, d, m.hash, authors)
      /\ \/ UNCHANGED <<chain, redisChain, messagePool>>
         \/ /\ chain' = [chain EXCEPT ![d] = Append(chain[d], m.hash)]
            /\ redisChain' = Append(chain[d], m.hash)
            /\ messagePool' = Relisted(messagePool, d, m.hash, {d})
      /\ UNCHANGED <<electionState, txPool, blockPool, preparePool, clearing, blocks, created,
                     registry>>
    BY DEF HandleNewBlockCommit, QuorumReached
<1>. HIDE DEF m, authors
<1>7. /\ commitPool' \in [Node -> [Hash -> SUBSET Node]]
      /\ messagePool' \in [Node -> [Hash -> SUBSET Node]]
    <2>1. /\ commitPool' = Relisted(commitPool, d, m.hash, authors)
          /\ messagePool' = messagePool \/ messagePool' = Relisted(messagePool, d, m.hash, {d})
        BY <1>6
    <2>2. commitPool' \in [Node -> [Hash -> SUBSET Node]]
        BY <1>1, <1>5, <2>1, PoolTypes, RelistedType
    <2>3. Relisted(messagePool, d, m.hash, {d}) \in [Node -> [Hash -> SUBSET Node]]
        BY <1>1, PoolTypes, RelistedType
    <2>. QED
        BY <2>1, <2>2, <2>3, PoolTypes
<1>8. /\ Append(chain[d], m.hash) \in Seq(0..Len(blocks))
      /\ Append(chain[d], m.hash) # <<>>
    <2>1. m.hash \in 0..Len(blocks) /\ chain[d] \in Seq(0..Len(blocks))
        BY <1>1 DEF Typed, LedgerStateOK, Hash
    <2>. QED
        BY <2>1, AppendProperties
<1>9. /\ chain' \in [Node -> Seq(0..Len(blocks))]
      /\ \A n \in Node : chain'[n] # <<>>
      /\ redisChain' \in Seq(0..Len(blocks))
    <2>. DEFINE longer == Append(chain[d], m.hash)
    <2>1. /\ chain \in [Node -> Seq(0..Len(blocks))]
          /\ \A n \in Node : chain[n] # <<>>
          /\ redisChain \in Seq(0..Len(blocks))
        BY DEF Typed, LedgerStateOK
    <2>2. \/ UNCHANGED <<chain, redisChain>>
          \/ chain' = [chain EXCEPT ![d] = longer] /\ redisChain' = longer
        BY <1>6
    <2>3. longer \in Seq(0..Len(blocks)) /\ longer # <<>>
        BY <1>8
    <2>. HIDE DEF longer
    <2>. QED
        BY <2>1, <2>2, <2>3
<1>. QED
    BY <1>4, <1>6, <1>7, <1>9 DEF Typed, ElectionStateOK, LedgerStateOK, electionState

(* Round change, and what follows its delay (consesnsus.ts:376-405).       *)
LEMMA RoundChangeTyped ==
    ASSUME Typed, NEW s \in Node, NEW d \in Node, HandleNewRoundChange(s, d)
    PROVE  Typed'
<1>. DEFINE m == Head(links[s][d])
            S == MessagesUpTo(Len(blocks))
            authors == messagePool[d][m.hash] \cup {m.by}
<1>1. /\ links[s][d] # <<>>
      /\ m \in S /\ m.hash \in Hash /\ m.by \in Node
    BY PhaseMessageType DEF HandleNewRoundChange, Receives
<1>2. <<m>> \in Seq(S)
    BY <1>1
<1>3. links' \in LinksOf(S)
    BY <1>1, <1>2, ReplyType DEF HandleNewRoundChange, Typed
<1>4. authors \in SUBSET Node
    BY <1>1, PoolTypes
<1>5. /\ messagePool' = Relisted(messagePool, d, m.hash, authors)
      /\ clearing' = clearing \/ clearing' = [clearing EXCEPT ![d] = clearing[d] + 1]
      /\ UNCHANGED <<electionState, chain, txPool, blockPool, preparePool, commitPool, blocks,
                     created, registry, redisChain>>
    BY DEF HandleNewRoundChange
<1>. HIDE DEF m, authors
<1>6. messagePool' \in [Node -> [Hash -> SUBSET Node]]
    BY <1>1, <1>4, <1>5, PoolTypes, RelistedType
<1>7. clearing' \in [Node -> Nat]
    <2>1. clearing \in [Node -> Nat]
        BY PoolTypes
    <2>2. clearing' = clearing \/ clearing' = [clearing EXCEPT ![d] = clearing[d] + 1]
        BY <1>5
    <2>. QED
        BY <2>1, <2>2
<1>. QED
    BY <1>3, <1>5, <1>6, <1>7 DEF Typed, ElectionStateOK, LedgerStateOK, electionState

(* See RoundChangeTyped. *)
LEMMA FinishTyped ==
    ASSUME Typed, NEW n \in Node, FinishRound(n)
    PROVE  Typed'
<1>1. ElectNewLeader(n) => electing' \in [Node -> Seq(Node)] /\ redisLeader' \in Node
    BY ElectNewLeaderType DEF Typed, ElectionStateOK
<1>2. UNCHANGED <<electing, redisLeader>>
          => electing' \in [Node -> Seq(Node)] /\ redisLeader' \in Node
    BY DEF Typed, ElectionStateOK
<1>3. electing' \in [Node -> Seq(Node)] /\ redisLeader' \in Node
    BY <1>1, <1>2 DEF FinishRound
<1>4. /\ clearing' = [clearing EXCEPT ![n] = clearing[n] - 1] /\ clearing[n] > 0
      /\ txPool' = [txPool EXCEPT ![n] = {}]
      /\ UNCHANGED <<leader, votes, announcing, requests, links, chain, blockPool, preparePool,
                     commitPool, messagePool, blocks, created, registry, redisChain>>
    BY DEF FinishRound
<1>5. clearing' \in [Node -> Nat] /\ txPool' \in [Node -> SUBSET Tx]
    BY <1>4 DEF Typed, LedgerStateOK
<1>. QED
    BY <1>3, <1>4, <1>5 DEF Typed, ElectionStateOK, LedgerStateOK

(* A message that is turned away, or makes its handler throw               *)
(* (abstractPBFTPool.ts, src/protocol/index.ts:45-48).                     *)
LEMMA RefusalTyped ==
    ASSUME Typed, NEW s \in Node, NEW d \in Node,
           IgnoreMessage(s, d) \/ ThrowAfterRepeat(s, d) \/ ThrowOnCommit(s, d)
    PROVE  Typed'
<1>. DEFINE m == Head(links[s][d])
            S == MessagesUpTo(Len(blocks))
<1>1. links[s][d] # <<>> /\ m \in S
    BY PhaseMessageType DEF IgnoreMessage, ThrowAfterRepeat, ThrowOnCommit, Receives
<1>2. <<>> \in Seq(S) /\ <<m>> \in Seq(S)
    BY <1>1
<1>3. Reply(s, d, <<>>) \/ Reply(s, d, <<m>>)
    BY DEF IgnoreMessage, ThrowAfterRepeat, ThrowOnCommit
<1>4. links' \in LinksOf(S)
    BY <1>1, <1>2, <1>3, ReplyType DEF Typed
<1>5. UNCHANGED <<electionState, chain, poolVars, clearing, blocks, created, redisChain>>
    BY DEF IgnoreMessage, ThrowAfterRepeat, ThrowOnCommit, ledgerVars
<1>6. registry' \in RegistryOf(Node)
    BY ReadByType DEF IgnoreMessage, ThrowAfterRepeat, ThrowOnCommit, ledgerVars, Typed, LedgerStateOK
<1>. QED
    BY <1>4, <1>5, <1>6
    DEF electionState, poolVars, Typed, ElectionStateOK, LedgerStateOK

(* Redis answers a node that has thrown (src/protocol/index.ts:45-51). *)
LEMMA UnlistTyped ==
    ASSUME Typed, NEW n \in Node, UpdatePeerReplica(n)
    PROVE  Typed'
<1>1. registry' \in RegistryOf(Node)
    BY WrittenByType DEF UpdatePeerReplica, Typed, LedgerStateOK
<1>2. UNCHANGED <<electionVars, chain, poolVars, clearing, blocks, created, redisChain>>
    BY DEF UpdatePeerReplica
<1>. QED
    BY <1>1, <1>2 DEF electionVars, poolVars, Typed, ElectionStateOK, LedgerStateOK

(* Every step keeps the state typed (consesnsus.ts). *)
LEMMA TypedStep == Typed /\ [Next]_vars => Typed'
<1>. SUFFICES ASSUME Typed, [Next]_vars PROVE Typed'
    OBVIOUS
<1>. DEFINE S == MessagesUpTo(Len(blocks))
<1>1. /\ ElectionMessage \subseteq S
      /\ \A m \in S : m.type \in {"LeaderElection", "LeaderVote", "SetNewLeader"}
                            => m \in ElectionMessage
    BY DEF MessagesUpTo
<1>2. ASSUME UNCHANGED ledgerVars, ElectionStateOK' /\ links' \in LinksOf(S)
      PROVE  Typed'
    BY <1>2 DEF ledgerVars, poolVars, Typed, LedgerStateOK
<1>3. ASSUME NEW n \in Node, RequestElection(n), UNCHANGED ledgerVars
      PROVE  Typed'
    <2>1. electing' \in [Node -> Seq(Node)] /\ redisLeader' \in Node
        <3>1. ElectNewLeader(n)
            BY <1>3 DEF RequestElection
        <3>2. leader \in [Node -> Node] /\ electing \in [Node -> Seq(Node)]
            BY DEF Typed, ElectionStateOK
        <3>. QED
            BY <3>1, <3>2, ElectNewLeaderType
    <2>2. ElectionStateOK' /\ links' = links
        <3>1. requests' \in 0..MaxRequests
            BY <1>3, ElectionAssumption DEF RequestElection, Typed, ElectionStateOK
        <3>2. UNCHANGED <<leader, votes, announcing, links>>
            BY <1>3 DEF RequestElection
        <3>. QED
            BY <2>1, <3>1, <3>2 DEF Typed, ElectionStateOK
    <2>. QED
        BY <1>2, <1>3, <2>2 DEF Typed
<1>4. ASSUME NEW n \in Node, ResumeElection(n), UNCHANGED ledgerVars
      PROVE  Typed'
    BY <1>1, <1>2, <1>4, ResumeElectionType DEF Typed
<1>5. ASSUME NEW s \in Node, NEW d \in Node, HandleElectionMessage(s, d), UNCHANGED ledgerVars
      PROVE  Typed'
    BY <1>1, <1>2, <1>5, HandleElectionMessageType DEF Typed
<1>6. ASSUME NEW s \in Node, NEW d \in Node, HandleLedgerMessage(s, d)
      PROVE  Typed'
    BY <1>6, TransactionTyped, PrePrepareTyped, PrepareTyped, CommitTyped, RoundChangeTyped,
       RefusalTyped
    DEF HandleLedgerMessage
<1>7. CASE UNCHANGED vars
    BY <1>2, <1>7 DEF vars, electionVars, Typed, ElectionStateOK
<1>. QED
    BY <1>3, <1>4, <1>5, <1>6, <1>7, CreateTyped, FinishTyped, UnlistTyped DEF Next, Deliver, Resume

(* The typed state is an inductive invariant (consesnsus.ts). *)
LEMMA TypedInvariant == Spec => []Typed
BY TypedInit, TypedStep, PTL DEF Spec

(* The ledger is well typed in every reachable state: no chain, pool or    *)
(* message names a block that was not proposed (consesnsus.ts:276-405).    *)
THEOREM TypeCorrect == Spec => []TypeOK
<1>1. Typed => TypeOK
    <2>. SUFFICES ASSUME Typed PROVE TypeOK
        OBVIOUS
    <2>1. 0..Len(blocks) \subseteq Hash /\ 1..Len(blocks) \subseteq Hash \ {Genesis}
        BY LedgerAssumption DEF Typed, LedgerStateOK, Hash, Genesis
    <2>2. Seq(0..Len(blocks)) \subseteq Seq(Hash)
        BY <2>1, SeqMonotonic
    <2>3. MessagesUpTo(Len(blocks)) \subseteq Message
        BY <2>1 DEF MessagesUpTo, Message, LedgerMessage
    <2>4. links \in LinksOf(Message)
        BY <2>3, LinksMonotonic DEF Typed
    <2>5. chain \in [Node -> Seq(Hash)] /\ redisChain \in Seq(Hash)
        BY <2>2 DEF Typed, LedgerStateOK
    <2>. QED
        BY <2>4, <2>5 DEF Typed, ElectionStateOK, LedgerStateOK, TypeOK, LinksOf
<1>. QED
    BY <1>1, TypedInvariant, PTL

-------------------------------------------------------------------------------
(***************************************************************************)
(* The phases.  The lists alone are not inductive: what they say of each   *)
(* other rests on the messages under way being of validators that took     *)
(* the step they report.                                                   *)
(***************************************************************************)
Told ==
    {m \in MessagesUpTo(Len(blocks)) :
        /\ m.type = "prepare" => m.by \in Endorsers(m.hash)
        /\ m.type = "commit" => m.by \in Committers(m.hash)
        /\ m.type = "round_change" => m.hash \in Appended(m.by)}

AppendedCommitted ==
    \A h \in Hash \ {Genesis} :
        (\E n \in Node : h \in Appended(n)) => Cardinality(Committers(h)) >= Quorum

Lists == PhasesInOrder /\ ListedAuthors /\ AppendedCommitted
PhasesInv == Typed /\ Lists /\ links \in LinksOf(Told)

(* Nothing a validator did is undone. *)
Grown ==
    /\ Len(blocks) <= Len(blocks')
    /\ \A h \in Hash \ {Genesis} :
          Endorsers(h) \subseteq Endorsers(h)' /\ Committers(h) \subseteq Committers(h)'
    /\ \A n \in Node : Appended(n) \subseteq Appended(n)'

(* The validators are finitely many: they are listed. *)
LEMMA NodeFinite == IsFiniteSet(Node)
BY NodesCounted

(* A quorum of a set of validators is a quorum of any larger one. *)
LEMMA LargerSet ==
    ASSUME NEW S, NEW T \in SUBSET Node, S \subseteq T
    PROVE  Cardinality(S) \in Nat /\ Cardinality(T) \in Nat /\ Cardinality(S) <= Cardinality(T)
BY NodeFinite, FS_Subset, FS_CardinalityType

(* See LargerSet. *)
LEMMA QuorumType == Quorum \in Nat
BY NodeFinite, FS_CardinalityType DEF Quorum, QuorumOf

(* A quorum of one or more validators is one or more (consesnsus.ts:330).  *)
LEMMA QuorumPositive == Quorum >= 1
<1>1. Cardinality(Node) \in Nat /\ Cardinality(Node) # 0
    BY NodeFinite, FS_CardinalityType, FS_EmptySet, ElectionAssumption
<1>. QED
    BY <1>1 DEF Quorum, QuorumOf

(* A message that was true stays true (consesnsus.ts:325, 355, 384). *)
LEMMA ToldGrows ==
    ASSUME Typed, Typed', Grown
    PROVE  Told \subseteq Told'
<1>1. MessagesUpTo(Len(blocks)) \subseteq MessagesUpTo(Len(blocks'))
    <2>1. Len(blocks) \in Nat /\ Len(blocks') \in Nat
        BY DEF Typed, LedgerStateOK
    <2>. QED
        BY <2>1, MessagesGrow DEF Grown
<1>2. ASSUME NEW m \in Told PROVE m \in Told'
    <2>1. /\ m \in MessagesUpTo(Len(blocks)) /\ m \in MessagesUpTo(Len(blocks'))
          /\ m.type = "prepare" => m.by \in Endorsers(m.hash)
          /\ m.type = "commit" => m.by \in Committers(m.hash)
          /\ m.type = "round_change" => m.hash \in Appended(m.by)
        BY <1>1, <1>2 DEF Told
    <2>2. m.type \in {"prepare", "commit", "round_change"}
              => m.hash \in Hash \ {Genesis} /\ m.by \in Node
        <3>1. 1..Len(blocks) \subseteq Hash \ {Genesis}
            BY LedgerAssumption DEF Typed, LedgerStateOK, Hash, Genesis
        <3>. QED
            BY <2>1, <3>1 DEF MessagesUpTo, ElectionMessage
    <2>3. /\ m.type = "prepare" => m.by \in Endorsers(m.hash)'
          /\ m.type = "commit" => m.by \in Committers(m.hash)'
          /\ m.type = "round_change" => m.hash \in Appended(m.by)'
        BY <2>1, <2>2 DEF Grown
    <2>. QED
        BY <2>1, <2>3 DEF Told
<1>. QED
    BY <1>2

(* A longer chain holds one more block (consesnsus.ts:63-75). *)
LEMMA AppendedMore ==
    ASSUME Typed, NEW d \in Node, NEW h \in Hash, chain' = [chain EXCEPT ![d] = Append(chain[d], h)]
    PROVE  \A n \in Node : Appended(n)' = IF n = d THEN Appended(n) \cup {h} ELSE Appended(n)
<1>. DEFINE c == chain[d]
            longer == Append(c, h)
<1>1. c \in Seq(0..Len(blocks)) /\ c # <<>> /\ chain'[d] = longer
    BY DEF Typed, LedgerStateOK
<1>2. \A n \in Node : n # d => chain'[n] = chain[n]
    BY DEF Typed, LedgerStateOK
<1>3. Len(c) \in Nat /\ Len(c) >= 1
    BY <1>1
<1>4. Len(longer) = Len(c) + 1 /\ longer[Len(c) + 1] = h /\ \A i \in 1..Len(c) : longer[i] = c[i]
    BY <1>1
<1>. HIDE DEF longer, c
<1>5. {longer[i] : i \in 2..Len(longer)} = {c[i] : i \in 2..Len(c)} \cup {h}
    <2>1. 2..Len(longer) = 2..Len(c) \cup {Len(c) + 1}
        BY <1>3, <1>4
    <2>2. \A i \in 2..Len(c) : longer[i] = c[i]
        BY <1>3, <1>4
    <2>. QED
        BY <1>4, <2>1, <2>2
<1>6. Appended(d)' = Appended(d) \cup {h}
    BY <1>1, <1>5 DEF Appended, c
<1>. QED
    BY <1>2, <1>6 DEF Appended

(* A step that leaves the lists and the chains alone (consesnsus.ts). *)
LEMMA SameLists ==
    ASSUME PhasesInv, Len(blocks) <= Len(blocks'),
           UNCHANGED <<chain, blockPool, preparePool, commitPool, messagePool>>
    PROVE  Lists' /\ Grown
<1>1. /\ \A h : Endorsers(h)' = Endorsers(h) /\ Committers(h)' = Committers(h)
      /\ \A n : Appended(n)' = Appended(n)
    BY DEF Endorsers, Committers, Appended
<1>2. PhasesInOrder'
    BY <1>1 DEF PhasesInv, Lists, PhasesInOrder
<1>3. ListedAuthors'
    BY <1>1 DEF PhasesInv, Lists, ListedAuthors
<1>4. AppendedCommitted'
    BY <1>1 DEF PhasesInv, Lists, AppendedCommitted
<1>. QED
    BY <1>1, <1>2, <1>3, <1>4 DEF Lists, Grown

(* A quorum of committers stays one (consesnsus.ts:347-374). *)
LEMMA CommittersGrow ==
    ASSUME AppendedCommitted, \A g \in Hash : Committers(g) \subseteq Committers(g)',
           \A n \in Node : Appended(n)' = Appended(n)
    PROVE  AppendedCommitted'
<1>1. \A g \in Hash : /\ Cardinality(Committers(g)) \in Nat
                      /\ Cardinality(Committers(g)') \in Nat
                      /\ Cardinality(Committers(g)) <= Cardinality(Committers(g)')
    <2>1. \A g : Committers(g)' \in SUBSET Node
        BY DEF Committers
    <2>. QED
        BY <2>1, LargerSet
<1>. QED
    BY <1>1, QuorumType DEF AppendedCommitted

(* The links after a step that takes a packet and sends messages that are  *)
(* true by then.                                                           *)
LEMMA ReplyTold ==
    ASSUME PhasesInv, Typed', Grown, NEW s \in Node, NEW d \in Node, links[s][d] # <<>>,
           NEW out \in Seq(Told'), Reply(s, d, out)
    PROVE  links' \in LinksOf(Told')
BY ToldGrows, ReplyType DEF PhasesInv

(* What is read from a link is true. *)
LEMMA ReadTold ==
    ASSUME PhasesInv, NEW s \in Node, NEW d \in Node, links[s][d] # <<>>
    PROVE  Head(links[s][d]) \in Told
BY TakenType DEF PhasesInv

(* Pre-prepare: the block's list of prepares starts with the node's own    *)
(* (consesnsus.ts:299-315, preparePool.ts).                                *)
LEMMA PrePrepareLists ==
    ASSUME PhasesInv, Typed', NEW s \in Node, NEW d \in Node, HandleNewBlockPrePrepare(s, d)
    PROVE  Lists' /\ links' \in LinksOf(Told')
<1>1. PICK h \in Hash \ {Genesis} :
          /\ links[s][d] # <<>>
          /\ h \in 1..Len(blocks)
          /\ h \notin blockPool[d]
          /\ blockPool' = [blockPool EXCEPT ![d] = blockPool[d] \cup {h}]
          /\ preparePool' = Relisted(preparePool, d, h, {d})
          /\ Reply(s, d, <<PrePrepareOf(h), PrepareOf(h, d)>>)
    <2>. DEFINE g == Head(links[s][d]).hash
    <2>1. links[s][d] # <<>> /\ g \in Hash \ {Genesis} /\ g \in 1..Len(blocks)
        BY PhaseMessageType DEF HandleNewBlockPrePrepare, Receives, PhasesInv
    <2>2. /\ g \notin blockPool[d]
          /\ blockPool' = [blockPool EXCEPT ![d] = blockPool[d] \cup {g}]
          /\ preparePool' = Relisted(preparePool, d, g, {d})
          /\ Reply(s, d, <<PrePrepareOf(g), PrepareOf(g, d)>>)
        BY DEF HandleNewBlockPrePrepare
    <2>. HIDE DEF g
    <2>. QED
        BY <2>1, <2>2
<1>2. UNCHANGED <<chain, commitPool, messagePool, blocks>>
    BY DEF HandleNewBlockPrePrepare
<1>3. \A k \in Node, g \in Hash : preparePool'[k][g] = IF k = d /\ g = h THEN {d} ELSE preparePool[k][g]
    <2>1. preparePool \in [Node -> [Hash -> SUBSET Node]] /\ {d} \in SUBSET Node
        BY PoolTypes DEF PhasesInv
    <2>. QED
        BY <1>1, <1>2, <2>1, RelistedType
<1>4. \A k \in Node : blockPool'[k] = IF k = d THEN blockPool[d] \cup {h} ELSE blockPool[k]
    <2>1. blockPool \in [Node -> SUBSET (Hash \ {Genesis})]
        BY DEF PhasesInv, Typed, LedgerStateOK
    <2>. QED
        BY <1>1, <2>1
<1>5. /\ \A g \in Hash : Committers(g)' = Committers(g)
      /\ \A n \in Node : Appended(n)' = Appended(n)
      /\ \A g \in Hash : Endorsers(g)' = IF g = h THEN Endorsers(g) \cup {d} ELSE Endorsers(g)
    BY <1>2, <1>4 DEF Endorsers, Committers, Appended
<1>6. preparePool[d][h] = {}
    BY <1>1, <1>2 DEF PhasesInv, Lists, PhasesInOrder
<1>7. commitPool[d][h] = {}
    <2>1. Cardinality(preparePool[d][h]) = 0
        BY <1>6, FS_EmptySet
    <2>2. ~ (Cardinality(preparePool[d][h]) >= Quorum) \/ Quorum = 0
        BY <2>1, QuorumType
    <2>. QED
        BY <1>1, <2>2, QuorumPositive DEF PhasesInv, Lists, PhasesInOrder
<1>8. PhasesInOrder'
    <2>1. \A n \in Node, g \in Hash \ {Genesis} :
              preparePool'[n][g] # {} <=> g \in blockPool'[n]
        <3>1. \A n \in Node, g \in Hash \ {Genesis} :
                  preparePool[n][g] # {} <=> g \in blockPool[n]
            BY DEF PhasesInv, Lists, PhasesInOrder
        <3>. QED
            BY <1>3, <1>4, <3>1
    <2>2. \A n \in Node, g \in Hash \ {Genesis} :
              commitPool[n][g] # {} => Cardinality(preparePool'[n][g]) >= Quorum
        BY <1>3, <1>7 DEF PhasesInv, Lists, PhasesInOrder
    <2>3. \A n \in Node, g \in Hash \ {Genesis} :
              /\ g \in Appended(n)' => commitPool'[n][g] # {}
              /\ messagePool'[n][g] # {} => g \in Appended(n)'
        BY <1>2, <1>5 DEF PhasesInv, Lists, PhasesInOrder
    <2>4. commitPool' = commitPool
        BY <1>2
    <2>. QED
        BY <2>1, <2>2, <2>3, <2>4 DEF PhasesInOrder
<1>9. ListedAuthors'
    <2>1. \A n \in Node, g \in Hash \ {Genesis} : preparePool'[n][g] \subseteq Endorsers(g)'
        <3>1. \A n \in Node, g \in Hash \ {Genesis} : preparePool[n][g] \subseteq Endorsers(g)
            BY DEF PhasesInv, Lists, ListedAuthors
        <3>. QED
            BY <1>3, <1>5, <3>1
    <2>2. \A n \in Node, g \in Hash \ {Genesis} :
              /\ commitPool'[n][g] \subseteq Committers(g)'
              /\ messagePool'[n][g] \subseteq {k \in Node : g \in Appended(k)'}
        BY <1>2, <1>5 DEF PhasesInv, Lists, ListedAuthors
    <2>. QED
        BY <2>1, <2>2 DEF ListedAuthors
<1>10. AppendedCommitted'
    BY <1>5 DEF PhasesInv, Lists, AppendedCommitted
<1>11. Grown
    <2>1. Len(blocks) <= Len(blocks')
        BY <1>2 DEF PhasesInv, Typed, LedgerStateOK
    <2>. QED
        BY <1>5, <2>1 DEF Grown
<1>12. PrePrepareOf(h) \in Told' /\ PrepareOf(h, d) \in Told'
    <2>1. d \in Endorsers(h)' /\ Len(blocks') = Len(blocks)
        BY <1>1, <1>2, <1>5
    <2>2. /\ PrePrepareOf(h) \in MessagesUpTo(Len(blocks'))
          /\ PrepareOf(h, d) \in MessagesUpTo(Len(blocks'))
        BY <1>1, <2>1 DEF MessagesUpTo, PrePrepareOf, PrepareOf
    <2>. QED
        BY <2>1, <2>2 DEF Told, PrePrepareOf, PrepareOf
<1>13. links' \in LinksOf(Told')
    <2>1. <<PrePrepareOf(h), PrepareOf(h, d)>> \in Seq(Told')
        BY <1>12
    <2>. QED
        BY <1>1, <1>2, <1>11, <2>1, ReplyTold
<1>. QED
    BY <1>8, <1>9, <1>10, <1>13 DEF Lists

(* Prepare: a list of commits starts, or starts anew, only on a quorum of  *)
(* prepares, and holds the node's own commit (consesnsus.ts:317-345).      *)
LEMMA PrepareLists ==
    ASSUME PhasesInv, Typed', NEW s \in Node, NEW d \in Node, HandleNewBlockPrepare(s, d)
    PROVE  Lists' /\ links' \in LinksOf(Told')
<1>1. PICK m \in Told, h \in Hash \ {Genesis}, j \in Node :
          /\ links[s][d] # <<>>
          /\ m.type = "prepare" /\ m.hash = h /\ m.by = j /\ h \in 1..Len(blocks)
          /\ preparePool[d][h] # {}
          /\ preparePool' = Relisted(preparePool, d, h, preparePool[d][h] \cup {j})
          /\ \/ commitPool' = commitPool /\ Reply(s, d, <<m>>)
             \/ /\ Cardinality(preparePool[d][h] \cup {j}) >= Quorum
                /\ commitPool' = Relisted(commitPool, d, h, {d})
                /\ Reply(s, d, <<m, CommitOf(h, d)>>)
    <2>. DEFINE r == Head(links[s][d])
    <2>1. links[s][d] # <<>> /\ r.type = "prepare"
        BY DEF HandleNewBlockPrepare, Receives
    <2>2. r \in Told /\ r.hash \in 1..Len(blocks) /\ r.hash \in Hash \ {Genesis} /\ r.by \in Node
        BY <2>1, ReadTold, PhaseMessageType DEF PhasesInv
    <2>3. /\ preparePool[d][r.hash] # {}
          /\ preparePool' = Relisted(preparePool, d, r.hash, preparePool[d][r.hash] \cup {r.by})
          /\ \/ commitPool' = commitPool /\ Reply(s, d, <<r>>)
             \/ /\ Cardinality(preparePool[d][r.hash] \cup {r.by}) >= Quorum
                /\ commitPool' = Relisted(commitPool, d, r.hash, {d})
                /\ Reply(s, d, <<r, CommitOf(r.hash, d)>>)
        BY DEF HandleNewBlockPrepare, QuorumReached
    <2>. HIDE DEF r
    <2>. QED
        BY <2>1, <2>2, <2>3
<1>2. UNCHANGED <<chain, blockPool, messagePool, blocks>>
    BY DEF HandleNewBlockPrepare, QuorumReached
<1>3. PICK authors \in SUBSET Node : authors = preparePool[d][h] \cup {j}
    BY <1>1, PoolTypes DEF PhasesInv
<1>4. \A k \in Node, g \in Hash :
          preparePool'[k][g] = IF k = d /\ g = h THEN authors ELSE preparePool[k][g]
    <2>1. preparePool \in [Node -> [Hash -> SUBSET Node]]
        BY PoolTypes DEF PhasesInv
    <2>. QED
        BY <1>1, <1>3, <2>1, RelistedType
<1>5. \/ commitPool' = commitPool
      \/ /\ Cardinality(authors) >= Quorum
         /\ \A k \in Node, g \in Hash :
                commitPool'[k][g] = IF k = d /\ g = h THEN {d} ELSE commitPool[k][g]
    <2>1. commitPool \in [Node -> [Hash -> SUBSET Node]] /\ {d} \in SUBSET Node
        BY PoolTypes DEF PhasesInv
    <2>2. Relisted(commitPool, d, h, {d}) = commitPool' =>
              \A k \in Node, g \in Hash :
                commitPool'[k][g] = IF k = d /\ g = h THEN {d} ELSE commitPool[k][g]
        <3>1. d \in Node /\ h \in Hash
            BY <1>1
        <3>. QED
            BY <2>1, <3>1, RelistedType
    <2>. QED
        BY <1>1, <1>3, <2>2
<1>6. /\ \A g \in Hash : Endorsers(g)' = Endorsers(g)
      /\ \A n \in Node : Appended(n)' = Appended(n)
    BY <1>2 DEF Endorsers, Appended
<1>7. \A g \in Hash : Committers(g) \subseteq Committers(g)'
    BY <1>5 DEF Committers
<1>8. \A k \in Node, g \in Hash \ {Genesis} :
          Cardinality(preparePool[k][g]) >= Quorum => Cardinality(preparePool'[k][g]) >= Quorum
    <2>1. /\ Cardinality(preparePool[d][h]) <= Cardinality(authors)
          /\ Cardinality(preparePool[d][h]) \in Nat
          /\ Cardinality(authors) \in Nat
        BY <1>3, LargerSet
    <2>. QED
        BY <1>4, <2>1, QuorumType
<1>9. PhasesInOrder'
    <2>1. \A n \in Node, g \in Hash \ {Genesis} :
              preparePool'[n][g] # {} <=> g \in blockPool'[n]
        <3>1. \A n \in Node, g \in Hash \ {Genesis} :
                  preparePool[n][g] # {} <=> g \in blockPool[n]
            BY DEF PhasesInv, Lists, PhasesInOrder
        <3>2. h \in blockPool[d] /\ authors # {}
            BY <1>1, <1>3, <3>1
        <3>3. blockPool' = blockPool
            BY <1>2
        <3>. QED
            BY <1>4, <3>1, <3>2, <3>3
    <2>2. \A n \in Node, g \in Hash \ {Genesis} :
              commitPool'[n][g] # {} => Cardinality(preparePool'[n][g]) >= Quorum
        <3>1. \A n \in Node, g \in Hash \ {Genesis} :
                  commitPool[n][g] # {} => Cardinality(preparePool[n][g]) >= Quorum
            BY DEF PhasesInv, Lists, PhasesInOrder
        <3>. QED
            BY <1>4, <1>5, <1>8, <3>1
    <2>3. \A n \in Node, g \in Hash \ {Genesis} :
              /\ g \in Appended(n)' => commitPool'[n][g] # {}
              /\ messagePool'[n][g] # {} => g \in Appended(n)'
        <3>1. \A n \in Node, g \in Hash \ {Genesis} :
                  /\ g \in Appended(n) => commitPool[n][g] # {}
                  /\ messagePool[n][g] # {} => g \in Appended(n)
            BY DEF PhasesInv, Lists, PhasesInOrder
        <3>2. \A n \in Node, g \in Hash \ {Genesis} :
                  commitPool[n][g] # {} => commitPool'[n][g] # {}
            BY <1>5
        <3>. QED
            BY <1>2, <1>6, <3>1, <3>2
    <2>. QED
        BY <2>1, <2>2, <2>3 DEF PhasesInOrder
<1>10. ListedAuthors'
    <2>1. \A n \in Node, g \in Hash \ {Genesis} :
              /\ preparePool[n][g] \subseteq Endorsers(g)
              /\ commitPool[n][g] \subseteq Committers(g)
              /\ messagePool[n][g] \subseteq {k \in Node : g \in Appended(k)}
        BY DEF PhasesInv, Lists, ListedAuthors
    <2>2. j \in Endorsers(h)
        BY <1>1 DEF Told
    <2>3. \A n \in Node, g \in Hash \ {Genesis} : preparePool'[n][g] \subseteq Endorsers(g)'
        BY <1>3, <1>4, <1>6, <2>1, <2>2
    <2>4. commitPool' # commitPool => d \in Committers(h)'
        BY <1>1, <1>5 DEF Committers
    <2>5. \A n \in Node, g \in Hash \ {Genesis} : commitPool'[n][g] \subseteq Committers(g)'
        BY <1>5, <1>7, <2>1, <2>4
    <2>6. \A n \in Node, g \in Hash \ {Genesis} :
              messagePool'[n][g] \subseteq {k \in Node : g \in Appended(k)'}
        BY <1>2, <1>6, <2>1
    <2>. QED
        BY <2>3, <2>5, <2>6 DEF ListedAuthors
<1>11. AppendedCommitted'
    BY <1>6, <1>7, CommittersGrow DEF PhasesInv, Lists
<1>12. Grown
    <2>1. Len(blocks) <= Len(blocks')
        BY <1>2 DEF PhasesInv, Typed, LedgerStateOK
    <2>. QED
        BY <1>6, <1>7, <2>1 DEF Grown
<1>13. links' \in LinksOf(Told')
    <2>1. m \in Told'
        BY <1>12, ToldGrows DEF PhasesInv
    <2>2. CASE Reply(s, d, <<m>>)
        BY <1>1, <1>12, <2>1, <2>2, ReplyTold
    <2>3. CASE commitPool' = Relisted(commitPool, d, h, {d})
               /\ Reply(s, d, <<m, CommitOf(h, d)>>)
        <3>1. d \in Committers(h)'
            <4>1. commitPool \in [Node -> [Hash -> SUBSET Node]] /\ {d} \in SUBSET Node
                BY PoolTypes DEF PhasesInv
            <4>2. commitPool'[d][h] = {d}
                BY <2>3, <4>1, RelistedType
            <4>. QED
                BY <4>2 DEF Committers
        <3>2. CommitOf(h, d) \in Told'
            BY <1>1, <1>2, <3>1 DEF CommitOf, Told, MessagesUpTo
        <3>3. <<m, CommitOf(h, d)>> \in Seq(Told')
            BY <2>1, <3>2
        <3>. QED
            BY <1>1, <1>12, <2>3, <3>3, ReplyTold
    <2>. QED
        BY <1>1, <2>2, <2>3
<1>. QED
    BY <1>9, <1>10, <1>11, <1>13 DEF Lists

(* Commit: the block is appended on a quorum of listed commits, each of a  *)
(* validator that committed (consesnsus.ts:347-374).                       *)
LEMMA CommitLists ==
    ASSUME PhasesInv, Typed', NEW s \in Node, NEW d \in Node, HandleNewBlockCommit(s, d)
    PROVE  Lists' /\ links' \in LinksOf(Told')
<1>1. PICK m \in Told, h \in Hash \ {Genesis}, j \in Node :
          /\ links[s][d] # <<>>
          /\ m.type = "commit" /\ m.hash = h /\ m.by = j /\ h \in 1..Len(blocks)
          /\ commitPool[d][h] # {}
          /\ commitPool' = Relisted(commitPool, d, h, commitPool[d][h] \cup {j})
          /\ \/ UNCHANGED <<chain, messagePool>> /\ Reply(s, d, <<m>>)
             \/ /\ Cardinality(commitPool[d][h] \cup {j}) >= Quorum
                /\ chain' = [chain EXCEPT ![d] = Append(chain[d], h)]
                /\ messagePool' = Relisted(messagePool, d, h, {d})
                /\ Reply(s, d, <<m, RoundChangeOf(h, d)>>)
    <2>. DEFINE r == Head(links[s][d])
    <2>1. links[s][d] # <<>> /\ r.type = "commit"
        BY DEF HandleNewBlockCommit, Receives
    <2>2. r \in Told /\ r.hash \in 1..Len(blocks) /\ r.hash \in Hash \ {Genesis} /\ r.by \in Node
        BY <2>1, ReadTold, PhaseMessageType DEF PhasesInv
    <2>3. /\ commitPool[d][r.hash] # {}
          /\ commitPool' = Relisted(commitPool, d, r.hash, commitPool[d][r.hash] \cup {r.by})
          /\ \/ UNCHANGED <<chain, messagePool>> /\ Reply(s, d, <<r>>)
             \/ /\ Cardinality(commitPool[d][r.hash] \cup {r.by}) >= Quorum
                /\ chain' = [chain EXCEPT ![d] = Append(chain[d], r.hash)]
                /\ messagePool' = Relisted(messagePool, d, r.hash, {d})
                /\ Reply(s, d, <<r, RoundChangeOf(r.hash, d)>>)
        BY DEF HandleNewBlockCommit, QuorumReached
    <2>. HIDE DEF r
    <2>. QED
        BY <2>1, <2>2, <2>3
<1>2. UNCHANGED <<preparePool, blockPool, blocks>>
    BY DEF HandleNewBlockCommit, QuorumReached
<1>3. PICK authors \in SUBSET Node : authors = commitPool[d][h] \cup {j}
    <2>1. commitPool[d][h] \cup {j} \in SUBSET Node
        BY PoolTypes DEF PhasesInv
    <2>. QED
        BY <2>1
<1>4. \A k \in Node, g \in Hash :
          commitPool'[k][g] = IF k = d /\ g = h THEN authors ELSE commitPool[k][g]
    <2>1. commitPool \in [Node -> [Hash -> SUBSET Node]]
        BY PoolTypes DEF PhasesInv
    <2>. QED
        BY <1>1, <1>3, <2>1, RelistedType
<1>5. \/ messagePool' = messagePool /\ \A n \in Node : Appended(n)' = Appended(n)
      \/ /\ Cardinality(authors) >= Quorum
         /\ \A n \in Node : Appended(n)' = IF n = d THEN Appended(n) \cup {h} ELSE Appended(n)
         /\ \A k \in Node, g \in Hash :
                messagePool'[k][g] = IF k = d /\ g = h THEN {d} ELSE messagePool[k][g]
    <2>1. CASE UNCHANGED <<chain, messagePool>>
        BY <2>1 DEF Appended
    <2>2. CASE /\ Cardinality(authors) >= Quorum
               /\ chain' = [chain EXCEPT ![d] = Append(chain[d], h)]
               /\ messagePool' = Relisted(messagePool, d, h, {d})
        <3>1. messagePool \in [Node -> [Hash -> SUBSET Node]] /\ {d} \in SUBSET Node
            BY PoolTypes DEF PhasesInv
        <3>2. \A k \in Node, g \in Hash :
                messagePool'[k][g] = IF k = d /\ g = h THEN {d} ELSE messagePool[k][g]
            BY <2>2, <3>1, RelistedType
        <3>3. \A n \in Node : Appended(n)' = IF n = d THEN Appended(n) \cup {h} ELSE Appended(n)
            BY <2>2, AppendedMore DEF PhasesInv
        <3>. QED
            BY <2>2, <3>2, <3>3
    <2>. QED
        BY <1>1, <1>3, <2>1, <2>2
<1>6. \A g \in Hash : Endorsers(g)' = Endorsers(g)
    BY <1>2 DEF Endorsers
<1>7. \A g \in Hash : Committers(g) \subseteq Committers(g)'
    BY <1>3, <1>4 DEF Committers
<1>8. \A n \in Node : Appended(n) \subseteq Appended(n)'
    BY <1>5
<1>9. PhasesInOrder'
    <2>1. \A n \in Node, g \in Hash \ {Genesis} :
              /\ preparePool[n][g] # {} <=> g \in blockPool[n]
              /\ commitPool[n][g] # {} => Cardinality(preparePool[n][g]) >= Quorum
              /\ g \in Appended(n) => commitPool[n][g] # {}
              /\ messagePool[n][g] # {} => g \in Appended(n)
        BY DEF PhasesInv, Lists, PhasesInOrder
    <2>2. \A n \in Node, g \in Hash \ {Genesis} : commitPool'[n][g] # {} => commitPool[n][g] # {}
        <3>1. commitPool[d][h] # {}
            BY <1>1
        <3>. QED
            BY <1>4, <3>1
    <2>3. \A n \in Node, g \in Hash \ {Genesis} : g \in Appended(n)' => commitPool'[n][g] # {}
        <3>1. \A n \in Node, g \in Hash \ {Genesis} : g \in Appended(n) => commitPool[n][g] # {}
            BY <2>1
        <3>2. \A n \in Node, g \in Hash : g \in Appended(n)' => g \in Appended(n) \/ (n = d /\ g = h)
            BY <1>5
        <3>3. j \in authors /\ \A n \in Node, g \in Hash : commitPool[n][g] # {} => commitPool'[n][g] # {}
            BY <1>3, <1>4
        <3>. QED
            BY <1>4, <3>1, <3>2, <3>3
    <2>4. \A n \in Node, g \in Hash \ {Genesis} : messagePool'[n][g] # {} => g \in Appended(n)'
        BY <1>5, <2>1
    <2>5. preparePool' = preparePool /\ blockPool' = blockPool
        BY <1>2
    <2>. QED
        BY <2>1, <2>2, <2>3, <2>4, <2>5 DEF PhasesInOrder
<1>10. authors \subseteq Committers(h)'
    <2>1. commitPool[d][h] \subseteq Committers(h)
        BY DEF PhasesInv, Lists, ListedAuthors
    <2>2. j \in Committers(h)
        BY <1>1 DEF Told
    <2>. QED
        BY <1>3, <1>7, <2>1, <2>2
<1>11. ListedAuthors'
    <2>1. \A n \in Node, g \in Hash \ {Genesis} :
              /\ preparePool[n][g] \subseteq Endorsers(g)
              /\ commitPool[n][g] \subseteq Committers(g)
              /\ messagePool[n][g] \subseteq {k \in Node : g \in Appended(k)}
        BY DEF PhasesInv, Lists, ListedAuthors
    <2>2. \A n \in Node, g \in Hash \ {Genesis} : preparePool'[n][g] \subseteq Endorsers(g)'
        BY <1>2, <1>6, <2>1
    <2>3. \A n \in Node, g \in Hash \ {Genesis} : commitPool'[n][g] \subseteq Committers(g)'
        BY <1>4, <1>7, <1>10, <2>1
    <2>4. \A n \in Node, g \in Hash \ {Genesis} :
              messagePool'[n][g] \subseteq {k \in Node : g \in Appended(k)'}
        BY <1>5, <1>8, <2>1
    <2>. QED
        BY <2>2, <2>3, <2>4 DEF ListedAuthors
<1>12. AppendedCommitted'
    <2>1. CASE \A n \in Node : Appended(n)' = Appended(n)
        BY <1>7, <2>1, CommittersGrow DEF PhasesInv, Lists
    <2>2. CASE /\ Cardinality(authors) >= Quorum
               /\ \A n \in Node : Appended(n)' = IF n = d THEN Appended(n) \cup {h} ELSE Appended(n)
        <3>1. \A g \in Hash : Committers(g)' \in SUBSET Node
            BY DEF Committers
        <3>2. Cardinality(Committers(h)') >= Quorum
            BY <1>10, <2>2, <3>1, LargerSet, QuorumType
        <3>3. \A g \in Hash : /\ Cardinality(Committers(g)) \in Nat
                              /\ Cardinality(Committers(g)') \in Nat
                              /\ Cardinality(Committers(g)) <= Cardinality(Committers(g)')
            BY <1>7, <3>1, LargerSet
        <3>4. \A g \in Hash \ {Genesis} :
                  (\E n \in Node : g \in Appended(n)) => Cardinality(Committers(g)) >= Quorum
            BY DEF PhasesInv, Lists, AppendedCommitted
        <3>. QED
            BY <2>2, <3>2, <3>3, <3>4, QuorumType DEF AppendedCommitted
    <2>. QED
        BY <1>5, <2>1, <2>2
<1>13. Grown
    <2>1. Len(blocks) <= Len(blocks')
        BY <1>2 DEF PhasesInv, Typed, LedgerStateOK
    <2>. QED
        BY <1>6, <1>7, <1>8, <2>1 DEF Grown
<1>14. links' \in LinksOf(Told')
    <2>1. m \in Told'
        BY <1>13, ToldGrows DEF PhasesInv
    <2>2. CASE Reply(s, d, <<m>>)
        BY <1>1, <1>13, <2>1, <2>2, ReplyTold
    <2>3. CASE chain' = [chain EXCEPT ![d] = Append(chain[d], h)]
               /\ Reply(s, d, <<m, RoundChangeOf(h, d)>>)
        <3>1. h \in Appended(d)'
            <4>1. \A n \in Node : Appended(n)' = IF n = d THEN Appended(n) \cup {h} ELSE Appended(n)
                BY <2>3, AppendedMore DEF PhasesInv
            <4>. QED
                BY <4>1
        <3>2. RoundChangeOf(h, d) \in Told'
            BY <1>1, <1>2, <3>1 DEF RoundChangeOf, Told, MessagesUpTo
        <3>3. <<m, RoundChangeOf(h, d)>> \in Seq(Told')
            BY <2>1, <3>2
        <3>. QED
            BY <1>1, <1>13, <2>3, <3>3, ReplyTold
    <2>. QED
        BY <1>1, <2>2, <2>3
<1>. QED
    BY <1>9, <1>11, <1>12, <1>14 DEF Lists

(* Round change: its author appended the block (consesnsus.ts:376-389). *)
LEMMA RoundChangeLists ==
    ASSUME PhasesInv, Typed', NEW s \in Node, NEW d \in Node, HandleNewRoundChange(s, d)
    PROVE  Lists' /\ links' \in LinksOf(Told')
<1>1. PICK m \in Told, h \in Hash \ {Genesis}, j \in Node :
          /\ links[s][d] # <<>>
          /\ m.type = "round_change" /\ m.hash = h /\ m.by = j
          /\ messagePool[d][h] # {}
          /\ messagePool' = Relisted(messagePool, d, h, messagePool[d][h] \cup {j})
          /\ Reply(s, d, <<m>>)
    <2>. DEFINE r == Head(links[s][d])
    <2>1. links[s][d] # <<>> /\ r.type = "round_change"
        BY DEF HandleNewRoundChange, Receives
    <2>2. r \in Told /\ r.hash \in Hash \ {Genesis} /\ r.by \in Node
        BY <2>1, ReadTold, PhaseMessageType DEF PhasesInv
    <2>3. /\ messagePool[d][r.hash] # {}
          /\ messagePool' = Relisted(messagePool, d, r.hash, messagePool[d][r.hash] \cup {r.by})
          /\ Reply(s, d, <<r>>)
        BY DEF HandleNewRoundChange
    <2>. HIDE DEF r
    <2>. QED
        BY <2>1, <2>2, <2>3
<1>2. UNCHANGED <<chain, blockPool, preparePool, commitPool, blocks>>
    BY DEF HandleNewRoundChange
<1>3. \A k \in Node, g \in Hash :
          messagePool'[k][g] = IF k = d /\ g = h THEN messagePool[d][h] \cup {j} ELSE messagePool[k][g]
    <2>1. messagePool \in [Node -> [Hash -> SUBSET Node]] /\ messagePool[d][h] \cup {j} \in SUBSET Node
        BY PoolTypes DEF PhasesInv
    <2>. QED
        BY <1>1, <2>1, RelistedType
<1>4. /\ \A g \in Hash : Endorsers(g)' = Endorsers(g) /\ Committers(g)' = Committers(g)
      /\ \A n \in Node : Appended(n)' = Appended(n)
    BY <1>2 DEF Endorsers, Committers, Appended
<1>5. h \in Appended(j)
    BY <1>1 DEF Told
<1>6. PhasesInOrder'
    <2>1. \A n \in Node, g \in Hash \ {Genesis} : messagePool'[n][g] # {} => g \in Appended(n)'
        <3>1. \A n \in Node, g \in Hash \ {Genesis} : messagePool[n][g] # {} => g \in Appended(n)
            BY DEF PhasesInv, Lists, PhasesInOrder
        <3>2. h \in Appended(d)
            BY <1>1, <3>1
        <3>. QED
            BY <1>3, <1>4, <3>1, <3>2
    <2>2. \A n \in Node, g \in Hash \ {Genesis} : g \in Appended(n)' => commitPool'[n][g] # {}
        BY <1>2, <1>4 DEF PhasesInv, Lists, PhasesInOrder
    <2>. QED
        BY <1>2, <2>1, <2>2 DEF PhasesInv, Lists, PhasesInOrder
<1>7. ListedAuthors'
    <2>1. \A n \in Node, g \in Hash \ {Genesis} :
              messagePool'[n][g] \subseteq {k \in Node : g \in Appended(k)'}
        <3>1. \A n \in Node, g \in Hash \ {Genesis} :
                  messagePool[n][g] \subseteq {k \in Node : g \in Appended(k)}
            BY DEF PhasesInv, Lists, ListedAuthors
        <3>. QED
            BY <1>3, <1>4, <1>5, <3>1
    <2>2. \A n \in Node, g \in Hash \ {Genesis} :
              /\ preparePool'[n][g] \subseteq Endorsers(g)'
              /\ commitPool'[n][g] \subseteq Committers(g)'
        BY <1>2, <1>4 DEF PhasesInv, Lists, ListedAuthors
    <2>. QED
        BY <2>1, <2>2 DEF ListedAuthors
<1>8. AppendedCommitted'
    BY <1>4 DEF PhasesInv, Lists, AppendedCommitted
<1>9. Grown
    <2>1. Len(blocks) <= Len(blocks')
        BY <1>2 DEF PhasesInv, Typed, LedgerStateOK
    <2>. QED
        BY <1>4, <2>1 DEF Grown
<1>10. links' \in LinksOf(Told')
    <2>1. m \in Told'
        BY <1>9, ToldGrows DEF PhasesInv
    <2>2. <<m>> \in Seq(Told')
        BY <2>1
    <2>. QED
        BY <1>1, <1>9, <2>2, ReplyTold
<1>. QED
    BY <1>6, <1>7, <1>8, <1>10 DEF Lists

(* The other handlers of the ledger leave the lists alone, and send what   *)
(* says nothing of them, or repeat what they read (consesnsus.ts:276-297,  *)
(* abstractPBFTPool.ts).                                                   *)
LEMMA OtherLists ==
    ASSUME PhasesInv, Typed', NEW s \in Node, NEW d \in Node,
           \/ HandleNewTransaction(s, d)
           \/ IgnoreMessage(s, d)
           \/ ThrowAfterRepeat(s, d)
           \/ ThrowOnCommit(s, d)
    PROVE  Lists' /\ links' \in LinksOf(Told')
<1>1. UNCHANGED <<chain, blockPool, preparePool, commitPool, messagePool>>
    BY DEF HandleNewTransaction, IgnoreMessage, ThrowAfterRepeat, ThrowOnCommit, ledgerVars, poolVars
<1>2. links[s][d] # <<>>
    BY DEF HandleNewTransaction, IgnoreMessage, ThrowAfterRepeat, ThrowOnCommit, Receives
<1>3. Len(blocks) \in Nat /\ Len(blocks') \in Nat
    <2>1. Len(blocks) \in Hash
        BY DEF PhasesInv, Typed, LedgerStateOK
    <2>2. Len(blocks') \in Hash
        BY DEF Typed, LedgerStateOK
    <2>. QED
        BY <2>1, <2>2 DEF Hash
<1>4. PICK m \in Told : m = Head(links[s][d])
    BY <1>2, ReadTold
<1>5. \/ UNCHANGED blocks /\ (Reply(s, d, <<>>) \/ Reply(s, d, <<m>>))
      \/ /\ m.type = "transaction"
         /\ UNCHANGED blocks
         /\ Reply(s, d, <<TransactionOf(m.tx)>>)
      \/ /\ m.type = "transaction"
         /\ Len(blocks') = Len(blocks) + 1
         /\ Reply(s, d, <<TransactionOf(m.tx), PrePrepareOf(Len(blocks) + 1)>>)
    <2>1. CASE HandleNewTransaction(s, d)
        <3>1. blocks \in Seq(Block)
            BY DEF PhasesInv, Typed, LedgerStateOK
        <3>2. \A b : Len(Append(blocks, b)) = Len(blocks) + 1
            BY <3>1
        <3>. QED
            BY <1>4, <2>1, <3>2 DEF HandleNewTransaction, Receives
    <2>2. CASE IgnoreMessage(s, d) \/ ThrowAfterRepeat(s, d) \/ ThrowOnCommit(s, d)
        BY <1>4, <2>2 DEF IgnoreMessage, ThrowAfterRepeat, ThrowOnCommit, ledgerVars
    <2>. QED
        BY <2>1, <2>2
<1>6. Len(blocks) <= Len(blocks')
    BY <1>3, <1>5
<1>7. Lists' /\ Grown
    BY <1>1, <1>6, SameLists
<1>8. m \in Told'
    BY <1>7, ToldGrows DEF PhasesInv
<1>9. m.type = "transaction" => TransactionOf(m.tx) \in Told'
    <2>1. m \in MessagesUpTo(Len(blocks'))
        BY <1>8 DEF Told
    <2>2. m.type = "transaction" => m.tx \in Tx
        BY <2>1 DEF MessagesUpTo, ElectionMessage
    <2>. QED
        BY <2>2 DEF TransactionOf, Told, MessagesUpTo
<1>10. Len(blocks') = Len(blocks) + 1 => PrePrepareOf(Len(blocks')) \in Told'
    BY <1>3 DEF PrePrepareOf, Told, MessagesUpTo
<1>11. PICK out \in Seq(Told') : Reply(s, d, out)
    <2>1. <<>> \in Seq(Told') /\ <<m>> \in Seq(Told')
        BY <1>8
    <2>2. m.type = "transaction" => <<TransactionOf(m.tx)>> \in Seq(Told')
        BY <1>9
    <2>3. m.type = "transaction" /\ Len(blocks') = Len(blocks) + 1
              => <<TransactionOf(m.tx), PrePrepareOf(Len(blocks) + 1)>> \in Seq(Told')
        BY <1>9, <1>10
    <2>. QED
        BY <1>5, <2>1, <2>2, <2>3
<1>. QED
    BY <1>2, <1>7, <1>11, ReplyTold

(* The steps of the election, of a client and of a delay leave the lists   *)
(* alone, and send nothing that speaks of them (consesnsus.ts:139-274,     *)
(* 391-405).                                                               *)
LEMMA ApartLists ==
    ASSUME PhasesInv, Typed',
           \/ \E n \in Node, t \in Tx : CreateTransaction(n, t)
           \/ \E n \in Node : RequestElection(n) /\ UNCHANGED ledgerVars
           \/ \E n \in Node : Resume(n)
           \/ \E s, d \in Node : HandleElectionMessage(s, d) /\ UNCHANGED ledgerVars
           \/ UNCHANGED vars
    PROVE  Lists' /\ links' \in LinksOf(Told')
<1>1. UNCHANGED <<chain, blockPool, preparePool, commitPool, messagePool, blocks>>
    BY DEF CreateTransaction, Resume, FinishRound, UpdatePeerReplica, ledgerVars, poolVars, vars
<1>2. Lists' /\ Grown
    BY <1>1, SameLists DEF PhasesInv, Typed, LedgerStateOK
<1>3. Told \subseteq Told'
    BY <1>2, ToldGrows DEF PhasesInv
<1>4. /\ ElectionMessage \subseteq Told
      /\ \A m \in Told : m.type \in {"LeaderElection", "LeaderVote", "SetNewLeader"}
                               => m \in ElectionMessage
    BY DEF Told, MessagesUpTo, ElectionMessage
<1>5. links' \in LinksOf(Told)
    <2>1. ASSUME NEW n \in Node, NEW t \in Tx, CreateTransaction(n, t)
          PROVE  links' \in LinksOf(Told)
        <3>1. TransactionOf(t) \in Told
            BY DEF TransactionOf, Told, MessagesUpTo
        <3>. QED
            BY <2>1, <3>1, BroadcastOneType DEF CreateTransaction, PhasesInv
    <2>2. ASSUME NEW n \in Node, ResumeElection(n)
          PROVE  links' \in LinksOf(Told)
        BY <1>4, <2>2, ResumeElectionType DEF PhasesInv, Typed
    <2>3. ASSUME NEW s \in Node, NEW d \in Node, HandleElectionMessage(s, d)
          PROVE  links' \in LinksOf(Told)
        BY <1>4, <2>3, HandleElectionMessageType DEF PhasesInv, Typed
    <2>4. CASE UNCHANGED links
        BY <2>4 DEF PhasesInv
    <2>. QED
        BY <2>1, <2>2, <2>3, <2>4
        DEF RequestElection, Resume, FinishRound, UpdatePeerReplica, vars, electionVars
<1>6. links' \in LinksOf(Told')
    BY <1>3, <1>5, LinksMonotonic
<1>. QED
    BY <1>2, <1>6

(* The phases are an inductive invariant (consesnsus.ts:276-405). *)
LEMMA PhasesStep == PhasesInv /\ [Next]_vars => PhasesInv'
<1>. SUFFICES ASSUME PhasesInv, [Next]_vars PROVE PhasesInv'
    OBVIOUS
<1>1. Typed'
    BY TypedStep DEF PhasesInv
<1>2. ASSUME NEW s \in Node, NEW d \in Node, HandleLedgerMessage(s, d)
      PROVE  Lists' /\ links' \in LinksOf(Told')
    BY <1>1, <1>2, PrePrepareLists, PrepareLists, CommitLists, RoundChangeLists, OtherLists
    DEF HandleLedgerMessage
<1>3. Lists' /\ links' \in LinksOf(Told')
    BY <1>1, <1>2, ApartLists DEF Next, Deliver
<1>. QED
    BY <1>1, <1>3 DEF PhasesInv

(* See PhasesStep. *)
LEMMA PhasesInit == Init => PhasesInv
<1>. SUFFICES ASSUME Init PROVE PhasesInv
    OBVIOUS
<1>1. \A n \in Node : Appended(n) = {}
    BY DEF Init, Appended
<1>2. /\ \A n \in Node : blockPool[n] = {}
      /\ \A n \in Node, h \in Hash :
             preparePool[n][h] = {} /\ commitPool[n][h] = {} /\ messagePool[n][h] = {}
    BY DEF Init
<1>3. Lists
    BY <1>1, <1>2 DEF Lists, PhasesInOrder, ListedAuthors, AppendedCommitted
<1>4. links \in LinksOf(Told)
    BY NoPacketsType DEF Init, ElectionInit
<1>. QED
    BY <1>3, <1>4, TypedInit DEF PhasesInv

(* See PhasesStep. *)
LEMMA PhasesInvariant == Spec => []PhasesInv
BY PhasesInit, PhasesStep, PTL DEF Spec

(* The lists of a validator fill in the order of the phases, so that       *)
(* addUpdatedBlock finds the block and the lists it attaches               *)
(* (consesnsus.ts:51-61).                                                  *)
THEOREM PhasesInOrderHolds == Spec => []PhasesInOrder
<1>1. PhasesInv => PhasesInOrder
    BY DEF PhasesInv, Lists
<1>. QED
    BY <1>1, PhasesInvariant, PTL

(* Every author a validator lists took that step itself                    *)
(* (consesnsus.ts:317-389).                                                *)
THEOREM ListedAuthorsHolds == Spec => []ListedAuthors
<1>1. PhasesInv => ListedAuthors
    BY DEF PhasesInv, Lists
<1>. QED
    BY <1>1, PhasesInvariant, PTL

(* A block is committed only on a quorum that pooled it (330-339).         *)
LEMMA CommittedEndorsed ==
    ASSUME PhasesInv, NEW h \in Hash \ {Genesis}, Committers(h) # {}
    PROVE  Cardinality(Endorsers(h)) >= Quorum
<1>1. PICK n \in Node : commitPool[n][h] # {}
    BY DEF Committers
<1>2. Cardinality(preparePool[n][h]) >= Quorum /\ preparePool[n][h] \subseteq Endorsers(h)
    BY <1>1 DEF PhasesInv, Lists, PhasesInOrder, ListedAuthors
<1>3. Endorsers(h) \in SUBSET Node
    BY DEF Endorsers
<1>. QED
    BY <1>2, <1>3, LargerSet, QuorumType

(* No chain gets ahead of the votes: a block in a chain was committed by a *)
(* quorum, and a committed block was pooled by one                         *)
(* (consesnsus.ts:299-374).                                                *)
THEOREM CertifiedHolds == Spec => []Certified
<1>1. PhasesInv => Certified
    BY CommittedEndorsed DEF PhasesInv, Lists, AppendedCommitted, Certified
<1>. QED
    BY <1>1, PhasesInvariant, PTL

-------------------------------------------------------------------------------
(***************************************************************************)
(* Two validators keep their leader: the ledger adds no vote and names no  *)
(* other leader.                                                           *)
(***************************************************************************)

PairMessage == RestatingIn(MessagesUpTo(MaxBlocks))

(* What a handler of the ledger sends is no ballot (276-399).              *)
LEMMA PairReplies ==
    ASSUME Typed, links \in LinksOf(PairMessage), NEW s \in Node, NEW d \in Node,
           HandleLedgerMessage(s, d)
    PROVE  links' \in LinksOf(PairMessage)
<1>. DEFINE m == Head(links[s][d])
<1>1. links[s][d] # <<>>
    BY DEF HandleLedgerMessage, HandleNewTransaction, HandleNewBlockPrePrepare,
           HandleNewBlockPrepare, HandleNewBlockCommit, HandleNewRoundChange, IgnoreMessage,
           ThrowAfterRepeat, ThrowOnCommit, Receives
<1>2. m \in PairMessage
    BY <1>1, TakenType
<1>3. \A t \in Tx : TransactionOf(t) \in PairMessage
    BY DEF TransactionOf, PairMessage, RestatingIn, Restating, MessagesUpTo
<1>4. \A h \in 1..MaxBlocks :
          /\ PrePrepareOf(h) \in PairMessage
          /\ PrepareOf(h, d) \in PairMessage
          /\ CommitOf(h, d) \in PairMessage
          /\ RoundChangeOf(h, d) \in PairMessage
    BY DEF PrePrepareOf, PrepareOf, CommitOf, RoundChangeOf, PairMessage, RestatingIn, Restating,
           MessagesUpTo
<1>5. ASSUME NEW a \in PairMessage, NEW b \in PairMessage,
             Reply(s, d, <<>>) \/ Reply(s, d, <<a>>) \/ Reply(s, d, <<a, b>>)
      PROVE  links' \in LinksOf(PairMessage)
    <2>1. <<>> \in Seq(PairMessage) /\ <<a>> \in Seq(PairMessage) /\ <<a, b>> \in Seq(PairMessage)
        OBVIOUS
    <2>. QED
        BY <1>1, <1>5, <2>1, ReplyType
<1>6. CASE HandleNewTransaction(s, d)
    <2>1. m.tx \in Tx
        BY <1>2, <1>6 DEF HandleNewTransaction, Receives, PairMessage, RestatingIn, MessagesUpTo,
           ElectionMessage
    <2>2. Len(blocks) < MaxBlocks => PrePrepareOf(Len(blocks) + 1) \in PairMessage
        BY <1>4, LedgerAssumption DEF Typed, LedgerStateOK, Hash
    <2>. QED
        BY <1>3, <1>5, <1>6, <2>1, <2>2 DEF HandleNewTransaction
<1>7. m.type \in {"pre_prepare", "prepare", "commit", "round_change"} => m.hash \in 1..MaxBlocks
    BY <1>2 DEF PairMessage, RestatingIn, MessagesUpTo, ElectionMessage
<1>8. CASE HandleNewBlockPrePrepare(s, d)
    BY <1>4, <1>5, <1>7, <1>8 DEF HandleNewBlockPrePrepare, Receives
<1>9. CASE HandleNewBlockPrepare(s, d)
    BY <1>2, <1>4, <1>5, <1>7, <1>9 DEF HandleNewBlockPrepare, Receives
<1>10. CASE HandleNewBlockCommit(s, d)
    BY <1>2, <1>4, <1>5, <1>7, <1>10 DEF HandleNewBlockCommit, Receives
<1>11. CASE HandleNewRoundChange(s, d)
    BY <1>2, <1>5, <1>11 DEF HandleNewRoundChange
<1>12. CASE IgnoreMessage(s, d) \/ ThrowAfterRepeat(s, d) \/ ThrowOnCommit(s, d)
    BY <1>2, <1>5, <1>12 DEF IgnoreMessage, ThrowAfterRepeat, ThrowOnCommit
<1>. QED
    BY <1>6, <1>8, <1>9, <1>10, <1>11, <1>12 DEF HandleLedgerMessage

(* What makes PairKeepsLeader hold of every step.                          *)
PairInv == Cardinality(Node) <= 2 => LeaderKept /\ links \in LinksOf(PairMessage)

(* No step of the election or of the ledger breaks it (139-399).           *)
LEMMA PairStep == Typed /\ PairInv /\ [Next]_vars => PairInv'
<1>. SUFFICES ASSUME Typed, [Next]_vars, Cardinality(Node) <= 2,
                     LeaderKept, links \in LinksOf(PairMessage)
              PROVE  LeaderKept' /\ links' \in LinksOf(PairMessage)
    BY DEF PairInv
<1>. DEFINE S == MessagesUpTo(MaxBlocks)
<1>1. ElectionMessage \subseteq S /\ ElectionStateOK /\ PairMessage = RestatingIn(S)
    BY DEF MessagesUpTo, Typed, PairMessage
<1>2. ASSUME NEW n \in Node, RequestElection(n)
      PROVE  LeaderKept' /\ links' = links
    BY <1>1, <1>2, PairCalled DEF RequestElection
<1>3. ASSUME NEW n \in Node, FinishRound(n)
      PROVE  LeaderKept' /\ links' = links
    <2>1. CASE ElectNewLeader(n)
        BY <1>1, <1>3, <2>1, PairCalled DEF FinishRound
    <2>2. CASE UNCHANGED <<electing, redisLeader>>
        BY <1>3, <2>2 DEF FinishRound, LeaderKept
    <2>. QED
        BY <1>3, <2>1, <2>2 DEF FinishRound
<1>4. ASSUME NEW s \in Node, NEW d \in Node, HandleLedgerMessage(s, d)
      PROVE  LeaderKept'
    BY <1>4 DEF HandleLedgerMessage, HandleNewTransaction, HandleNewBlockPrePrepare,
           HandleNewBlockPrepare, HandleNewBlockCommit, HandleNewRoundChange, IgnoreMessage,
           ThrowAfterRepeat, ThrowOnCommit, electionState, LeaderKept
<1>5. ASSUME NEW n \in Node, NEW t \in Tx, CreateTransaction(n, t)
      PROVE  LeaderKept' /\ links' \in LinksOf(PairMessage)
    <2>1. TransactionOf(t) \in PairMessage
        BY DEF TransactionOf, PairMessage, RestatingIn, Restating, MessagesUpTo
    <2>2. LeaderKept'
        BY <1>5 DEF CreateTransaction, electionState, LeaderKept
    <2>. QED
        BY <1>5, <2>1, <2>2, BroadcastOneType DEF CreateTransaction
<1>6. CASE UNCHANGED vars \/ \E n \in Node : UpdatePeerReplica(n)
    BY <1>6 DEF vars, electionVars, UpdatePeerReplica, LeaderKept
<1>. QED
    BY <1>1, <1>2, <1>3, <1>4, <1>5, <1>6, PairReplies, PairResumed, PairHandled
    DEF Next, Deliver, Resume

(* Two validators never change their leader (consesnsus.ts:217-227).       *)
THEOREM PairKeepsLeaderHolds == Spec => PairKeepsLeader
<1>1. Init => PairInv
    BY NoPacketsType DEF Init, ElectionInit, LeaderKept, PairInv
<1>2. Cardinality(Node) = 2 => Cardinality(Node) <= 2
    OBVIOUS
<1>3. Typed /\ PairInv /\ Typed' /\ PairInv'
          => [Cardinality(Node) = 2 => leader' = leader /\ redisLeader' = redisLeader]_electionVars
    BY <1>2 DEF Typed, ElectionStateOK, LeaderKept, PairInv
<1>. QED
    BY <1>1, <1>3, PairStep, TypedInvariant, PTL DEF Spec, PairKeepsLeader

-------------------------------------------------------------------------------
(***************************************************************************)
(* Ledger implements QuorumLog, for every value of the constants: a        *)
(* validator endorses a block by pooling it, votes for it by starting its  *)
(* list of commits, and its chain is its log.                              *)
(***************************************************************************)

(* What QuorumLog sees of the ledger. *)
endorsedBy == [h \in Hash \ {Genesis} |-> Endorsers(h)]
votedBy == [h \in Hash \ {Genesis} |-> Committers(h)]

(* The log counts as the ledger does (FiniteSets at both). *)
LEMMA SameCount == \A S : Promise!Cardinality(S) = Cardinality(S)
BY DEF Promise!Cardinality, Cardinality

(* A step that leaves the block pools, the commits and the chains alone is *)
(* a stutter of the log.                                                   *)
LEMMA Unseen ==
    ASSUME UNCHANGED <<chain, blockPool>>, \A h \in Hash : Committers(h)' = Committers(h)
    PROVE  UNCHANGED Promise!logVars
<1>1. endorsedBy' = endorsedBy /\ votedBy' = votedBy
    BY DEF endorsedBy, votedBy, Endorsers
<1>. QED
    BY <1>1 DEF Promise!logVars, endorsedBy, votedBy

(* Pre-prepare endorses (consesnsus.ts:299-315). *)
LEMMA PrePrepareEndorses ==
    ASSUME PhasesInv, NEW s \in Node, NEW d \in Node, HandleNewBlockPrePrepare(s, d)
    PROVE  Promise!LogNext
<1>1. PICK h \in Hash \ {Genesis} : blockPool' = [blockPool EXCEPT ![d] = blockPool[d] \cup {h}]
    BY PhaseMessageType DEF HandleNewBlockPrePrepare, Receives, PhasesInv
<1>2. UNCHANGED <<chain, commitPool>>
    BY DEF HandleNewBlockPrePrepare
<1>3. \A g \in Hash : /\ Endorsers(g)' = IF g = h THEN Endorsers(g) \cup {d} ELSE Endorsers(g)
                      /\ Committers(g)' = Committers(g)
    BY <1>1, <1>2 DEF Endorsers, Committers, PhasesInv, Typed, LedgerStateOK
<1>4. endorsedBy' = [endorsedBy EXCEPT ![h] = endorsedBy[h] \cup {d}] /\ votedBy' = votedBy
    BY <1>3 DEF endorsedBy, votedBy
<1>5. Promise!Endorse(d, h)
    BY <1>2, <1>4 DEF Promise!Endorse, endorsedBy, votedBy
<1>. QED
    BY <1>5 DEF Promise!LogNext

(* Prepare votes when it brings a quorum of prepares together              *)
(* (consesnsus.ts:317-345).                                                *)
LEMMA PrepareVotes ==
    ASSUME PhasesInv, NEW s \in Node, NEW d \in Node, HandleNewBlockPrepare(s, d)
    PROVE  Promise!LogNext \/ UNCHANGED Promise!logVars
<1>1. PICK m \in Told, h \in Hash \ {Genesis} :
          /\ m.type = "prepare" /\ m.hash = h
          /\ \/ commitPool' = commitPool
             \/ /\ Cardinality(preparePool[d][h] \cup {m.by}) >= Quorum
                /\ commitPool' = Relisted(commitPool, d, h, {d})
    <2>1. links[s][d] # <<>> /\ Head(links[s][d]).type = "prepare"
        BY DEF HandleNewBlockPrepare, Receives
    <2>2. Head(links[s][d]) \in Told /\ Head(links[s][d]).hash \in Hash \ {Genesis}
        BY <2>1, ReadTold, PhaseMessageType DEF PhasesInv
    <2>. QED
        BY <2>1, <2>2 DEF HandleNewBlockPrepare, QuorumReached
<1>2. UNCHANGED <<chain, blockPool>>
    BY DEF HandleNewBlockPrepare, QuorumReached
<1>3. CASE commitPool' = commitPool
    BY <1>2, <1>3, Unseen DEF Committers
<1>4. CASE /\ Cardinality(preparePool[d][h] \cup {m.by}) >= Quorum
           /\ commitPool' = Relisted(commitPool, d, h, {d})
    <2>1. commitPool \in [Node -> [Hash -> SUBSET Node]] /\ {d} \in SUBSET Node
        BY PoolTypes DEF PhasesInv
    <2>2. \A k \in Node, g \in Hash :
              commitPool'[k][g] = IF k = d /\ g = h THEN {d} ELSE commitPool[k][g]
        BY <1>4, <2>1, RelistedType
    <2>3. \A g \in Hash : /\ Committers(g)' = IF g = h THEN Committers(g) \cup {d} ELSE Committers(g)
                          /\ Endorsers(g)' = Endorsers(g)
        BY <1>2, <2>2 DEF Committers, Endorsers
    <2>4. preparePool[d][h] \cup {m.by} \subseteq Endorsers(h)
        BY <1>1 DEF Told, PhasesInv, Lists, ListedAuthors
    <2>5. Cardinality(Endorsers(h)) >= Quorum
        <3>1. Endorsers(h) \in SUBSET Node
            BY DEF Endorsers
        <3>. QED
            BY <1>4, <2>4, <3>1, LargerSet, QuorumType
    <2>6. votedBy' = [votedBy EXCEPT ![h] = votedBy[h] \cup {d}] /\ endorsedBy' = endorsedBy
        BY <2>3 DEF endorsedBy, votedBy
    <2>7. endorsedBy[h] = Endorsers(h)
        BY DEF endorsedBy
    <2>8. Cardinality(endorsedBy[h]) >= Quorum
        BY <2>5, <2>7
    <2>9. Promise!VoteFor(d, h)
        BY <1>2, <2>6, <2>8, SameCount DEF Promise!VoteFor, endorsedBy, votedBy
    <2>. QED
        BY <2>9 DEF Promise!LogNext
<1>. QED
    BY <1>1, <1>3, <1>4

(* Commit enters the block when it brings a quorum of commits together     *)
(* (consesnsus.ts:347-374).                                                *)
LEMMA CommitEnters ==
    ASSUME PhasesInv, NEW s \in Node, NEW d \in Node, HandleNewBlockCommit(s, d)
    PROVE  Promise!LogNext \/ UNCHANGED Promise!logVars
<1>1. PICK m \in Told, h \in Hash \ {Genesis} :
          /\ m.type = "commit" /\ m.hash = h
          /\ commitPool[d][h] # {}
          /\ commitPool' = Relisted(commitPool, d, h, commitPool[d][h] \cup {m.by})
          /\ commitPool[d][h] \cup {m.by} \in SUBSET Node
          /\ \/ chain' = chain
             \/ /\ Cardinality(commitPool[d][h] \cup {m.by}) >= Quorum
                /\ chain' = [chain EXCEPT ![d] = Append(chain[d], h)]
    <2>1. links[s][d] # <<>> /\ Head(links[s][d]).type = "commit"
        BY DEF HandleNewBlockCommit, Receives
    <2>2. /\ Head(links[s][d]) \in Told /\ Head(links[s][d]).hash \in Hash \ {Genesis}
          /\ Head(links[s][d]).by \in Node
        BY <2>1, ReadTold, PhaseMessageType DEF PhasesInv
    <2>3. commitPool[d][Head(links[s][d]).hash] \cup {Head(links[s][d]).by} \in SUBSET Node
        BY <2>2, PoolTypes DEF PhasesInv
    <2>. QED
        BY <2>1, <2>2, <2>3 DEF HandleNewBlockCommit, QuorumReached
<1>2. UNCHANGED blockPool
    BY DEF HandleNewBlockCommit, QuorumReached
<1>3. \A g \in Hash : Committers(g)' = Committers(g)
    <2>1. \A k \in Node, g \in Hash : commitPool'[k][g]
              = IF k = d /\ g = h THEN commitPool[d][h] \cup {m.by} ELSE commitPool[k][g]
        <3>1. commitPool \in [Node -> [Hash -> SUBSET Node]]
            BY PoolTypes DEF PhasesInv
        <3>. QED
            BY <1>1, <3>1, RelistedType
    <2>2. commitPool[d][h] # {} /\ commitPool[d][h] \cup {m.by} # {}
        BY <1>1
    <2>3. \A k \in Node, g \in Hash : commitPool'[k][g] # {} <=> commitPool[k][g] # {}
        BY <2>1, <2>2
    <2>. QED
        BY <2>3 DEF Committers
<1>4. CASE chain' = chain
    BY <1>2, <1>3, <1>4, Unseen
<1>5. CASE /\ Cardinality(commitPool[d][h] \cup {m.by}) >= Quorum
           /\ chain' = [chain EXCEPT ![d] = Append(chain[d], h)]
    <2>1. commitPool[d][h] \cup {m.by} \subseteq Committers(h)
        BY <1>1 DEF Told, PhasesInv, Lists, ListedAuthors
    <2>2. Cardinality(Committers(h)) >= Quorum
        <3>1. Committers(h) \in SUBSET Node
            BY DEF Committers
        <3>. QED
            BY <1>5, <2>1, <3>1, LargerSet, QuorumType
    <2>3. votedBy' = votedBy /\ endorsedBy' = endorsedBy
        BY <1>2, <1>3 DEF endorsedBy, votedBy, Endorsers
    <2>4. votedBy[h] = Committers(h)
        BY DEF votedBy
    <2>5. Cardinality(votedBy[h]) >= Quorum
        BY <2>2, <2>4
    <2>6. Promise!Enter(d, h)
        BY <1>5, <2>3, <2>5, SameCount DEF Promise!Enter, endorsedBy, votedBy
    <2>. QED
        BY <2>6 DEF Promise!LogNext
<1>. QED
    BY <1>1, <1>4, <1>5

(* Every step of the ledger is a step of the log or a stutter. *)
LEMMA StepSimulation == PhasesInv /\ [Next]_vars => [Promise!LogNext]_Promise!logVars
<1>. SUFFICES ASSUME PhasesInv, [Next]_vars PROVE Promise!LogNext \/ UNCHANGED Promise!logVars
    OBVIOUS
<1>1. ASSUME NEW s \in Node, NEW d \in Node, HandleLedgerMessage(s, d)
      PROVE  Promise!LogNext \/ UNCHANGED Promise!logVars
    <2>1. CASE \/ HandleNewTransaction(s, d)
               \/ HandleNewRoundChange(s, d)
               \/ IgnoreMessage(s, d)
               \/ ThrowAfterRepeat(s, d)
               \/ ThrowOnCommit(s, d)
        <3>1. UNCHANGED <<chain, blockPool, commitPool>>
            BY <2>1 DEF HandleNewTransaction, HandleNewRoundChange, IgnoreMessage,
                        ThrowAfterRepeat, ThrowOnCommit, ledgerVars, poolVars
        <3>. QED
            BY <3>1, Unseen DEF Committers
    <2>. QED
        BY <1>1, <2>1, PrePrepareEndorses, PrepareVotes, CommitEnters DEF HandleLedgerMessage
<1>2. CASE \/ \E n \in Node, t \in Tx : CreateTransaction(n, t)
           \/ UNCHANGED ledgerVars
           \/ \E n \in Node : FinishRound(n) \/ UpdatePeerReplica(n)
    <2>1. UNCHANGED <<chain, blockPool, commitPool>>
        BY <1>2 DEF CreateTransaction, FinishRound, UpdatePeerReplica, ledgerVars, poolVars
    <2>. QED
        BY <2>1, Unseen DEF Committers
<1>. QED
    BY <1>1, <1>2 DEF Next, Deliver, Resume, vars

(* The ledger keeps the promise of the log, however many validators,       *)
(* proposals and elections there are and whatever handlers throw           *)
(* (consesnsus.ts:276-405).                                                *)
THEOREM PromiseKept == Spec => KeepsPromise
<1>1. Init => Promise!LogInit
    <2>. SUFFICES ASSUME Init PROVE Promise!LogInit
        OBVIOUS
    <2>1. \A h \in Hash : Endorsers(h) = {} /\ Committers(h) = {}
        BY DEF Init, Endorsers, Committers
    <2>. QED
        BY <2>1 DEF Init, Promise!LogInit
<1>. QED
    BY <1>1, StepSimulation, PhasesInvariant, PTL DEF Spec, KeepsPromise, Promise!LogSpec

-------------------------------------------------------------------------------
(***************************************************************************)
(* While a quorum is everyone.  With up to three validators a list of      *)
(* commits never starts anew, and what a handler reads is never ahead of   *)
(* the lists it needs, as long as no node turns away a block it has not    *)
(* pooled.                                                                 *)
(***************************************************************************)

(* Two of two, and three of three (consesnsus.ts:330).                     *)
LEMMA QuorumIsEveryone == Cardinality(Node) <= 3 => Quorum = Cardinality(Node)
<1>1. Cardinality(Node) \in Nat /\ Cardinality(Node) # 0
    BY NodeFinite, FS_CardinalityType, FS_EmptySet, ElectionAssumption
<1>. QED
    BY <1>1 DEF Quorum, QuorumOf

(* A list that reaches such a quorum names everyone.                       *)
LEMMA QuorumNamesAll ==
    ASSUME Quorum = Cardinality(Node), NEW S \in SUBSET Node
    PROVE  Cardinality(S) >= Quorum <=> S = Node
<1>1. S # Node => Cardinality(S) < Cardinality(Node)
    BY NodeFinite, FS_Subset, FS_CardinalityType
<1>2. Cardinality(S) \in Nat /\ Cardinality(Node) \in Nat
    BY LargerSet
<1>. QED
    BY <1>1, <1>2

(* A prepare that completes the list finds no list of commits (317-345).   *)
LEMMA CommitsStartOnce ==
    ASSUME PhasesInv, Quorum = Cardinality(Node), NEW d \in Node, NEW h \in Hash \ {Genesis},
           NEW j \in Node, j \notin preparePool[d][h]
    PROVE  commitPool[d][h] = {}
<1>1. preparePool[d][h] \in SUBSET Node
    BY PoolTypes DEF PhasesInv
<1>2. commitPool[d][h] # {} => preparePool[d][h] = Node
    BY <1>1, QuorumNamesAll DEF PhasesInv, Lists, PhasesInOrder
<1>. QED
    BY <1>2

(* No step takes a commit out of a list (commitPool.ts:11-16).             *)
LEMMA CommitsKeptStep ==
    ASSUME PhasesInv, Quorum = Cardinality(Node), [Next]_vars, NEW n \in Node, NEW g \in Hash
    PROVE  commitPool[n][g] \subseteq commitPool'[n][g]
<1>. DEFINE Kept == commitPool[n][g] \subseteq commitPool'[n][g]
<1>1. commitPool \in [Node -> [Hash -> SUBSET Node]]
    BY PoolTypes DEF PhasesInv
<1>2. ASSUME NEW s \in Node, NEW d \in Node, HandleNewBlockPrepare(s, d) PROVE Kept
    <2>. DEFINE m == Head(links[s][d])
    <2>1. m.hash \in Hash \ {Genesis} /\ m.by \in Node /\ m.by \notin preparePool[d][m.hash]
        BY <1>2, PhaseMessageType DEF HandleNewBlockPrepare, Receives, PhasesInv
    <2>. HIDE DEF m
    <2>2. commitPool[d][m.hash] = {}
        BY <2>1, CommitsStartOnce
    <2>3. commitPool' = commitPool \/ commitPool' = Relisted(commitPool, d, m.hash, {d})
        BY <1>2 DEF HandleNewBlockPrepare, m
    <2>4. {d} \in SUBSET Node
        OBVIOUS
    <2>5. commitPool' = Relisted(commitPool, d, m.hash, {d}) =>
              commitPool'[n][g] = IF n = d /\ g = m.hash THEN {d} ELSE commitPool[n][g]
        BY <1>1, <2>1, <2>4, RelistedType
    <2>. QED
        BY <2>2, <2>3, <2>5
<1>3. ASSUME NEW s \in Node, NEW d \in Node, HandleNewBlockCommit(s, d) PROVE Kept
    <2>. DEFINE m == Head(links[s][d])
    <2>1. m.hash \in Hash /\ m.by \in Node
        BY <1>3, PhaseMessageType DEF HandleNewBlockCommit, Receives, PhasesInv
    <2>. HIDE DEF m
    <2>2. commitPool' = Relisted(commitPool, d, m.hash, commitPool[d][m.hash] \cup {m.by})
        BY <1>3 DEF HandleNewBlockCommit, m
    <2>3. commitPool[d][m.hash] \cup {m.by} \in SUBSET Node
        BY <1>1, <2>1
    <2>4. commitPool'[n][g] = IF n = d /\ g = m.hash THEN commitPool[d][m.hash] \cup {m.by}
                              ELSE commitPool[n][g]
        BY <1>1, <2>1, <2>2, <2>3, RelistedType
    <2>. QED
        BY <2>4
<1>4. CASE commitPool' = commitPool
    BY <1>4
<1>5. \/ commitPool' = commitPool
      \/ \E s, d \in Node : HandleNewBlockPrepare(s, d) \/ HandleNewBlockCommit(s, d)
    <2>1. ASSUME NEW s \in Node, NEW d \in Node, HandleLedgerMessage(s, d),
                 ~ HandleNewBlockPrepare(s, d), ~ HandleNewBlockCommit(s, d)
          PROVE  commitPool' = commitPool
        BY <2>1 DEF HandleLedgerMessage, HandleNewTransaction, HandleNewBlockPrePrepare,
           HandleNewRoundChange, IgnoreMessage, ThrowAfterRepeat, ThrowOnCommit, ledgerVars, poolVars
    <2>2. ASSUME \/ \E k \in Node, t \in Tx : CreateTransaction(k, t)
                 \/ \E k \in Node : FinishRound(k) \/ UpdatePeerReplica(k)
                 \/ UNCHANGED ledgerVars
          PROVE  commitPool' = commitPool
        BY <2>2 DEF CreateTransaction, FinishRound, UpdatePeerReplica, ledgerVars, poolVars
    <2>. QED
        BY <2>1, <2>2 DEF Next, Resume, Deliver, vars
<1>. QED
    BY <1>2, <1>3, <1>4, <1>5

(* Up to three validators never drop a commit, whatever the order of the   *)
(* packets and whichever blocks and elections overlap (commitPool.ts:11-16,*)
(* consesnsus.ts:333-339).                                                 *)
THEOREM CommitsKeptOfThree == ASSUME Cardinality(Node) <= 3 PROVE Spec => CommitsKept
<1>1. PhasesInv /\ [Next]_vars =>
          [\A n \in Node, h \in Hash : commitPool[n][h] \subseteq commitPool'[n][h]]_vars
    BY CommitsKeptStep, QuorumIsEveryone
<1>. QED
    BY <1>1, PhasesInvariant, PTL DEF Spec, CommitsKept

-------------------------------------------------------------------------------
(***************************************************************************)
(* What a handler needs.  A node repeats a message before it takes the     *)
(* next phase, so whatever it has noted by then is ahead, on each of its   *)
(* links, of the message of that phase.                                    *)
(***************************************************************************)
Phases == {"pre_prepare", "prepare", "commit"}
PhaseMessage ==
    [type : {"pre_prepare"}, hash : Hash \ {Genesis}]
        \cup [type : {"prepare", "commit"}, hash : Hash \ {Genesis}, by : Node]

(* The messages that node d has put into its pools. *)
Noted(d) ==
    {m \in PhaseMessage :
        \/ m.type = "pre_prepare" /\ m.hash \in blockPool[d]
        \/ m.type = "prepare" /\ m.by \in preparePool[d][m.hash]
        \/ m.type = "commit" /\ m.by \in commitPool[d][m.hash]}

(* What the reader of m must have noted, if its handler is to find its lists. *)
Support(m) ==
    IF m.type = "prepare" THEN {PrePrepareOf(m.hash)}
    ELSE IF m.type = "commit" THEN {PrepareOf(m.hash, j) : j \in Node}
    ELSE IF m.type = "round_change" THEN {CommitOf(m.hash, j) : j \in Node}
    ELSE {}

(* The reader of the packets q, who has noted N, notes in time what each needs. *)
Carries(q, m) == \E i \in DOMAIN q : q[i] = m
Backed(q, N) ==
    \A i \in DOMAIN q : \A m \in Support(q[i]) : m \in N \/ \E l \in 1..(i - 1) : q[l] = m

(* All of what was noted by K is noted by L or on its way there. *)
AllTold(ls, K, L) == \A s, d \in Node : \A m \in K[s] : m \in L[d] \/ Carries(ls[s][d], m)
AllBacked(ls, K) == \A s, d \in Node : Backed(ls[s][d], K[d])
Notes == [d \in Node |-> Noted(d)]

(* Full lists lead to the next phase, unless there is only one validator.  *)
PhasesFollow ==
    \A d \in Node, h \in Hash \ {Genesis} :
        /\ preparePool[d][h] = Node /\ Node # {d} => commitPool[d][h] # {}
        /\ commitPool[d][h] # {} => Node # {d}
        /\ commitPool[d][h] = Node => messagePool[d][h] # {}

Supported ==
    /\ AllTold(links, Notes, Notes)
    /\ AllBacked(links, Notes)
    /\ PhasesFollow
    /\ NothingThrown

(* Only messages of the three phases are noted, or needed. *)
LEMMA PhaseOnly ==
    /\ \A d \in Node : \A m \in Noted(d) : m.type \in Phases
    /\ \A m : \A p \in Support(m) : p.type \in Phases
<1>1. \A m \in PhaseMessage : m.type \in Phases
    BY DEF PhaseMessage, Phases
<1>2. \A m : \A p \in Support(m) : p.type \in Phases
    BY DEF Support, Phases, PrePrepareOf, PrepareOf, CommitOf
<1>. QED
    BY <1>1, <1>2 DEF Noted

(* The reader takes the oldest packet. *)
LEMMA BackedTail ==
    ASSUME NEW S, NEW q \in Seq(S), q # <<>>, NEW N, NEW M, N \subseteq M,
           Head(q) \in M \/ Head(q).type \notin Phases, Backed(q, N)
    PROVE  /\ Backed(Tail(q), M)
           /\ \A m \in Support(Head(q)) : m \in N
           /\ \A m : Carries(q, m) => m = Head(q) \/ Carries(Tail(q), m)
<1>. DEFINE r == Tail(q)
<1>1. Len(q) \in Nat /\ Len(q) >= 1 /\ r \in Seq(S) /\ Len(r) = Len(q) - 1
      /\ (\A i \in 1..Len(r) : r[i] = q[i + 1]) /\ Head(q) = q[1]
    BY HeadTailProperties
<1>2. DOMAIN q = 1..Len(q) /\ DOMAIN r = 1..Len(r)
    BY <1>1
<1>. HIDE DEF r
<1>3. ASSUME NEW i \in DOMAIN r, NEW m \in Support(r[i])
      PROVE  m \in M \/ \E l \in 1..(i - 1) : r[l] = m
    <2>1. i \in 1..Len(r) /\ i + 1 \in DOMAIN q /\ m \in Support(q[i + 1])
        BY <1>1, <1>2, <1>3
    <2>2. m \in N \/ \E l \in 1..((i + 1) - 1) : q[l] = m
        BY <2>1 DEF Backed
    <2>3. ASSUME NEW l \in 1..((i + 1) - 1), q[l] = m PROVE m \in M \/ \E k \in 1..(i - 1) : r[k] = m
        <3>1. CASE l = 1
            BY <1>1, <2>1, <2>3, <3>1, PhaseOnly
        <3>2. CASE l # 1
            <4>1. l - 1 \in 1..(i - 1) /\ r[l - 1] = q[l]
                BY <1>1, <2>1, <2>3, <3>2
            <4>. QED
                BY <2>3, <4>1
        <3>. QED
            BY <3>1, <3>2
    <2>. QED
        BY <2>2, <2>3
<1>4. \A m \in Support(Head(q)) : m \in N
    <2>1. 1 \in DOMAIN q /\ 1..(1 - 1) = {}
        BY <1>1, <1>2
    <2>. QED
        BY <1>1, <2>1 DEF Backed
<1>5. ASSUME NEW m, Carries(q, m), m # Head(q) PROVE Carries(r, m)
    <2>1. PICK i \in DOMAIN q : q[i] = m
        BY <1>5 DEF Carries
    <2>2. i - 1 \in DOMAIN r /\ r[i - 1] = m
        BY <1>1, <1>2, <1>5, <2>1
    <2>. QED
        BY <2>2 DEF Carries
<1>. QED
    BY <1>3, <1>4, <1>5 DEF r, Backed

(* The sender puts packets behind, each of which needs what the reader has *)
(* noted or what is ahead.                                                 *)
LEMMA BackedMore ==
    ASSUME NEW S, NEW q \in Seq(S), NEW out \in Seq(S), NEW N, Backed(q, N),
           \A i \in DOMAIN out : \A m \in Support(out[i]) :
              m \in N \/ Carries(q, m) \/ \E l \in 1..(i - 1) : out[l] = m
    PROVE  /\ Backed(q \o out, N)
           /\ \A m : Carries(q, m) \/ Carries(out, m) => Carries(q \o out, m)
<1>. DEFINE r == q \o out
<1>1. /\ Len(q) \in Nat /\ Len(out) \in Nat /\ Len(r) = Len(q) + Len(out)
      /\ \A i \in 1..Len(q) : r[i] = q[i]
      /\ \A i \in 1..Len(out) : r[Len(q) + i] = out[i]
    BY ConcatProperties
<1>2. DOMAIN q = 1..Len(q) /\ DOMAIN out = 1..Len(out) /\ DOMAIN r = 1..Len(r)
    BY <1>1
<1>. HIDE DEF r
<1>3. ASSUME NEW i \in DOMAIN r, NEW m \in Support(r[i])
      PROVE  m \in N \/ \E l \in 1..(i - 1) : r[l] = m
    <2>1. CASE i \in 1..Len(q)
        <3>1. m \in N \/ \E l \in 1..(i - 1) : q[l] = m
            BY <1>1, <1>2, <1>3, <2>1 DEF Backed
        <3>2. \A l \in 1..(i - 1) : r[l] = q[l]
            BY <1>1, <2>1
        <3>. QED
            BY <3>1, <3>2
    <2>2. CASE i \notin 1..Len(q)
        <3>. DEFINE k == i - Len(q)
        <3>1. k \in DOMAIN out /\ r[i] = out[k] /\ i = Len(q) + k
            BY <1>1, <1>2, <2>2
        <3>. HIDE DEF k
        <3>2. m \in N \/ Carries(q, m) \/ \E l \in 1..(k - 1) : out[l] = m
            BY <1>3, <3>1
        <3>3. ASSUME NEW l \in 1..(k - 1), out[l] = m PROVE \E e \in 1..(i - 1) : r[e] = m
            <4>1. Len(q) + l \in 1..(i - 1) /\ r[Len(q) + l] = m
                BY <1>1, <1>2, <3>1, <3>3
            <4>. QED
                BY <4>1
        <3>4. ASSUME NEW l \in DOMAIN q, q[l] = m PROVE \E e \in 1..(i - 1) : r[e] = m
            <4>1. l \in 1..(i - 1) /\ r[l] = m
                BY <1>1, <1>2, <3>1, <3>4
            <4>. QED
                BY <4>1
        <3>. QED
            BY <3>2, <3>3, <3>4 DEF Carries
    <2>. QED
        BY <2>1, <2>2
<1>4. ASSUME NEW m, Carries(q, m) PROVE Carries(r, m)
    BY <1>1, <1>2, <1>4 DEF Carries
<1>5. ASSUME NEW m, Carries(out, m) PROVE Carries(r, m)
    <2>1. PICK i \in DOMAIN out : out[i] = m
        BY <1>5 DEF Carries
    <2>2. Len(q) + i \in DOMAIN r /\ r[Len(q) + i] = m
        BY <1>1, <1>2, <2>1
    <2>. QED
        BY <2>2 DEF Carries
<1>. QED
    BY <1>3, <1>4, <1>5 DEF r, Backed

(* A packet is taken, and noted if it is of a phase (server.ts:104-128).   *)
LEMMA TakenBacked ==
    ASSUME NEW S, NEW ls \in LinksOf(S), NEW s \in Node, NEW d \in Node, ls[s][d] # <<>>,
           NEW K, NEW L, \A n \in Node : K[n] \subseteq L[n],
           \A n \in Node : \A m \in K[n] : m.type \in Phases,
           Head(ls[s][d]) \in L[d] \/ Head(ls[s][d]).type \notin Phases,
           AllTold(ls, K, K), AllBacked(ls, K)
    PROVE  /\ AllTold(Taken(ls, s, d), K, L) /\ AllBacked(Taken(ls, s, d), L)
           /\ \A m \in Support(Head(ls[s][d])) : m \in K[d]
<1>. DEFINE rest == Taken(ls, s, d)
            q == ls[s][d]
<1>1. \A a, b \in Node : /\ ls[a][b] \in Seq(S)
                         /\ rest[a][b] = IF a = s /\ b = d THEN Tail(q) ELSE ls[a][b]
    BY DEF LinksOf, Taken
<1>. HIDE DEF rest
<1>2. q \in Seq(S) /\ q # <<>> /\ K[d] \subseteq L[d] /\ Backed(q, K[d])
    BY <1>1 DEF AllBacked
<1>. HIDE DEF q
<1>3. /\ Backed(Tail(q), L[d]) /\ \A m \in Support(Head(q)) : m \in K[d]
      /\ \A m : Carries(q, m) => m = Head(q) \/ Carries(Tail(q), m)
    BY <1>2, BackedTail DEF q
<1>4. ASSUME NEW a \in Node, NEW b \in Node
      PROVE  Backed(rest[a][b], L[b]) /\ \A m \in K[a] : m \in L[b] \/ Carries(rest[a][b], m)
    <2>1. Backed(ls[a][b], K[b]) /\ K[b] \subseteq L[b] /\ \A m \in K[a] : m \in K[b] \/ Carries(ls[a][b], m)
        BY DEF AllBacked, AllTold
    <2>2. CASE a = s /\ b = d
        <3>1. rest[a][b] = Tail(q)
            BY <1>1, <2>2
        <3>2. ASSUME NEW m \in K[a] PROVE m \in L[b] \/ Carries(Tail(q), m)
            <4>1. m.type \in Phases /\ (m \in K[b] \/ Carries(q, m))
                BY <2>1, <2>2, <3>2 DEF q
            <4>2. CASE m = Head(q)
                BY <2>2, <4>1, <4>2 DEF q
            <4>. QED
                BY <1>3, <2>1, <4>1, <4>2
        <3>. QED
            BY <1>3, <2>2, <3>1, <3>2
    <2>3. CASE ~ (a = s /\ b = d)
        <3>1. rest[a][b] = ls[a][b]
            BY <1>1, <2>3
        <3>2. Backed(ls[a][b], L[b])
            BY <2>1 DEF Backed
        <3>. QED
            BY <2>1, <3>1, <3>2
    <2>. QED
        BY <2>2, <2>3
<1>. QED
    BY <1>3, <1>4 DEF rest, q, AllTold, AllBacked

(* A broadcast of all that is new to the notes of its sender, in the order *)
(* of the phases (server.ts:251-261).                                      *)
LEMMA BroadcastBacked ==
    ASSUME NEW S, NEW ls \in LinksOf(S), NEW d \in Node, NEW out \in Seq(S), NEW K, NEW L,
           \A n \in Node : K[n] \subseteq L[n] /\ (n # d => L[n] = K[n]),
           \A m \in L[d] : m \in K[d] \/ Carries(out, m),
           \A i \in DOMAIN out : \A m \in Support(out[i]) :
              m \in K[d] \/ \E l \in 1..(i - 1) : out[l] = m,
           AllTold(ls, K, L), AllBacked(ls, L)
    PROVE  AllTold(Broadcast(ls, d, out), L, L) /\ AllBacked(Broadcast(ls, d, out), L)
<1>. DEFINE new == Broadcast(ls, d, out)
<1>1. \A a, b \in Node : /\ ls[a][b] \in Seq(S)
                         /\ new[a][b] = IF a = d THEN ls[a][b] \o out ELSE ls[a][b]
    BY DEF LinksOf, Broadcast
<1>. HIDE DEF new
<1>2. ASSUME NEW a \in Node, NEW b \in Node
      PROVE  Backed(new[a][b], L[b]) /\ \A m \in L[a] : m \in L[b] \/ Carries(new[a][b], m)
    <2>1. Backed(ls[a][b], L[b]) /\ \A m \in K[a] : m \in L[b] \/ Carries(ls[a][b], m)
        BY DEF AllBacked, AllTold
    <2>2. CASE a = d
        <3>. DEFINE q == ls[d][b]
        <3>1. q \in Seq(S) /\ Backed(q, L[b]) /\ new[a][b] = q \o out
            BY <1>1, <2>1, <2>2
        <3>2. \A i \in DOMAIN out : \A m \in Support(out[i]) :
                 m \in L[b] \/ Carries(q, m) \/ \E l \in 1..(i - 1) : out[l] = m
            BY <2>1, <2>2
        <3>3. \A m \in L[d] : m \in L[b] \/ Carries(q, m) \/ Carries(out, m)
            BY <2>1, <2>2
        <3>. HIDE DEF q
        <3>4. Backed(q \o out, L[b]) /\ \A m : Carries(q, m) \/ Carries(out, m) => Carries(q \o out, m)
            BY <3>1, <3>2, BackedMore
        <3>. QED
            BY <2>2, <3>1, <3>3, <3>4
    <2>3. CASE a # d
        <3>1. new[a][b] = ls[a][b] /\ L[a] = K[a]
            BY <1>1, <2>3
        <3>. QED
            BY <2>1, <3>1
    <2>. QED
        BY <2>2, <2>3
<1>. QED
    BY <1>2 DEF new, AllTold, AllBacked

(* A message of no phase, to everyone or to one node.                      *)
LEMMA PlainBacked ==
    ASSUME NEW S, NEW ls \in LinksOf(S), NEW n \in Node, NEW d \in Node, NEW m \in S, NEW K,
           Support(m) = {}, AllTold(ls, K, K), AllBacked(ls, K)
    PROVE  /\ AllTold(Broadcast(ls, n, <<m>>), K, K) /\ AllBacked(Broadcast(ls, n, <<m>>), K)
           /\ AllTold(SendDirect(ls, n, d, m), K, K) /\ AllBacked(SendDirect(ls, n, d, m), K)
<1>. DEFINE out == <<m>>
            new == SendDirect(ls, n, d, m)
            q == ls[n][d]
<1>1. out \in Seq(S) /\ \A i \in DOMAIN out : out[i] = m
    OBVIOUS
<1>2. AllTold(Broadcast(ls, n, out), K, K) /\ AllBacked(Broadcast(ls, n, out), K)
    <2>. HIDE DEF out
    <2>. QED
        BY <1>1, BroadcastBacked
<1>3. \A a, b \in Node : /\ ls[a][b] \in Seq(S)
                         /\ new[a][b] = IF a = n /\ b = d /\ d # n THEN Append(q, m) ELSE ls[a][b]
    BY DEF LinksOf, SendDirect
<1>4. q \in Seq(S) /\ Append(q, m) = q \o out
    BY <1>3, AppendIsConcat
<1>5. Backed(q \o out, K[d]) /\ \A p : Carries(q, p) \/ Carries(out, p) => Carries(q \o out, p)
    <2>1. Backed(q, K[d])
        BY DEF AllBacked
    <2>. HIDE DEF q, out
    <2>. QED
        BY <1>1, <1>4, <2>1, BackedMore
<1>6. ASSUME NEW a \in Node, NEW b \in Node
      PROVE  Backed(new[a][b], K[b]) /\ \A p \in K[a] : p \in K[b] \/ Carries(new[a][b], p)
    <2>. HIDE DEF new, out
    <2>1. Backed(ls[a][b], K[b]) /\ \A p \in K[a] : p \in K[b] \/ Carries(ls[a][b], p)
        BY DEF AllBacked, AllTold
    <2>2. CASE a = n /\ b = d /\ d # n
        <3>1. new[a][b] = q \o out
            BY <1>3, <1>4, <2>2
        <3>. QED
            BY <1>5, <2>1, <2>2, <3>1
    <2>3. CASE ~ (a = n /\ b = d /\ d # n)
        <3>1. new[a][b] = ls[a][b]
            BY <1>3, <2>3
        <3>. QED
            BY <2>1, <3>1
    <2>. QED
        BY <2>2, <2>3
<1>. QED
    BY <1>2, <1>6 DEF new, out, AllTold, AllBacked

(* The steps that note nothing: elections, transactions and repetitions.   *)
LEMMA NotesAre ==
    /\ DOMAIN Notes = Node /\ \A n \in Node : Notes[n] = Noted(n) /\ Notes'[n] = Noted(n)'
    /\ \A n \in Node : \A m \in Notes[n] : m.type \in Phases
BY PhaseOnly DEF Notes

LEMMA NotesKept ==
    ASSUME UNCHANGED <<blockPool, preparePool, commitPool>>
    PROVE  Notes' = Notes
BY DEF Notes, Noted

(* A handler takes a packet, and answers it in the order of the phases.    *)
LEMMA ReplyBacked ==
    ASSUME NEW S, links \in LinksOf(S), NEW s \in Node, NEW d \in Node, links[s][d] # <<>>,
           NEW T, S \subseteq T, NEW out \in Seq(T), Reply(s, d, out), Supported,
           \A n \in Node : Noted(n) \subseteq Noted(n)' /\ (n # d => Noted(n)' = Noted(n)),
           Head(links[s][d]) \in Noted(d)' \/ Head(links[s][d]).type \notin Phases,
           \A m \in Noted(d)' : m \in Noted(d) \/ Carries(out, m),
           \A i \in DOMAIN out : \A m \in Support(out[i]) :
              \/ m \in Noted(d) \/ m \in Support(Head(links[s][d]))
              \/ \E l \in 1..(i - 1) : out[l] = m
    PROVE  AllTold(links', Notes', Notes') /\ AllBacked(links', Notes')
<1>. DEFINE K == Notes
            L == Notes'
            rest == Taken(links, s, d)
<1>1. /\ \A n \in Node : K[n] \subseteq L[n] /\ (n # d => L[n] = K[n])
      /\ \A n \in Node : \A m \in K[n] : m.type \in Phases
      /\ Head(links[s][d]) \in L[d] \/ Head(links[s][d]).type \notin Phases
      /\ K[d] = Noted(d) /\ L[d] = Noted(d)'
    BY NotesAre
<1>2. AllTold(links, K, K) /\ AllBacked(links, K)
    BY DEF Supported
<1>3. rest \in LinksOf(T)
    BY TakenType, LinksMonotonic
<1>4. links' = Broadcast(rest, d, out)
    BY DEF Reply
<1>. HIDE DEF K, L, rest
<1>5. /\ AllTold(rest, K, L) /\ AllBacked(rest, L)
      /\ \A m \in Support(Head(links[s][d])) : m \in K[d]
    BY <1>1, <1>2, TakenBacked DEF rest
<1>6. /\ \A m \in L[d] : m \in K[d] \/ Carries(out, m)
      /\ \A i \in DOMAIN out : \A m \in Support(out[i]) :
            m \in K[d] \/ \E l \in 1..(i - 1) : out[l] = m
    BY <1>1, <1>5
<1>7. AllTold(Broadcast(rest, d, out), L, L) /\ AllBacked(Broadcast(rest, d, out), L)
    BY <1>1, <1>3, <1>5, <1>6, BroadcastBacked
<1>. QED
    BY <1>4, <1>7 DEF L

(* What the reader of the oldest packet has noted before.                  *)
LEMMA HeadSupported ==
    ASSUME NEW S, links \in LinksOf(S), Supported, NEW s \in Node, NEW d \in Node, links[s][d] # <<>>
    PROVE  \A m \in Support(Head(links[s][d])) : m \in Noted(d)
<1>. DEFINE q == links[s][d]
            e == Head(q)
<1>1. q \in Seq(S) /\ q # <<>>
    BY DEF LinksOf
<1>2. Backed(q, Noted(d))
    BY DEF Supported, AllBacked, Notes
<1>. HIDE DEF q
<1>3. 1 \in DOMAIN q /\ Head(q) = q[1] /\ 1..(1 - 1) = {}
    BY <1>1
<1>4. \A m \in Support(q[1]) : m \in Noted(d)
    BY <1>2, <1>3 DEF Backed
<1>. QED
    BY <1>3, <1>4 DEF q

(* A step that leaves the pools alone, and sends nothing of a phase.       *)
LEMMA PlainSupported ==
    ASSUME NEW S, links \in LinksOf(S), Supported,
           UNCHANGED <<blockPool, preparePool, commitPool, messagePool, registry>>,
           \/ links' = links
           \/ \E n \in Node, m \in S : Support(m) = {} /\ links' = Broadcast(links, n, <<m>>)
           \/ \E s, d \in Node :
                /\ links[s][d] # <<>> /\ Head(links[s][d]).type \notin Phases
                /\ \/ links' = Taken(links, s, d)
                   \/ \E m \in S, l \in Node :
                        /\ Support(m) = {}
                        /\ \/ links' = Broadcast(Taken(links, s, d), d, <<m>>)
                           \/ links' = SendDirect(Taken(links, s, d), d, l, m)
    PROVE  Supported'
<1>. DEFINE K == Notes
<1>1. Notes' = K /\ PhasesFollow' /\ NothingThrown'
    BY NotesKept DEF Supported, PhasesFollow, NothingThrown
<1>2. AllTold(links, K, K) /\ AllBacked(links, K) /\ \A n \in Node : \A m \in K[n] : m.type \in Phases
    BY NotesAre DEF Supported
<1>. HIDE DEF K
<1>3. AllTold(links', K, K) /\ AllBacked(links', K)
    <2>1. CASE links' = links
        BY <1>2, <2>1
    <2>2. CASE \E n \in Node, m \in S : Support(m) = {} /\ links' = Broadcast(links, n, <<m>>)
        BY <1>2, <2>2, PlainBacked
    <2>3. ASSUME NEW s \in Node, NEW d \in Node,
                 links[s][d] # <<>>, Head(links[s][d]).type \notin Phases,
                 \/ links' = Taken(links, s, d)
                 \/ \E m \in S, l \in Node :
                      /\ Support(m) = {}
                      /\ \/ links' = Broadcast(Taken(links, s, d), d, <<m>>)
                         \/ links' = SendDirect(Taken(links, s, d), d, l, m)
          PROVE  AllTold(links', K, K) /\ AllBacked(links', K)
        <3>. DEFINE rest == Taken(links, s, d)
        <3>1. rest \in LinksOf(S)
            BY <2>3, TakenType
        <3>2. AllTold(rest, K, K) /\ AllBacked(rest, K)
            BY <1>2, <2>3, TakenBacked
        <3>. HIDE DEF rest
        <3>3. CASE links' = rest
            BY <3>2, <3>3
        <3>4. ASSUME NEW m \in S, NEW l \in Node, Support(m) = {},
                     links' = Broadcast(rest, d, <<m>>) \/ links' = SendDirect(rest, d, l, m)
              PROVE  AllTold(links', K, K) /\ AllBacked(links', K)
            BY <3>1, <3>2, <3>4, PlainBacked
        <3>. QED
            BY <2>3, <3>3, <3>4 DEF rest
    <2>. QED
        BY <2>1, <2>2, <2>3
<1>. QED
    BY <1>1, <1>3 DEF Supported

(* What takes no phase further needs nothing. *)
LEMMA PlainMessages ==
    /\ \A m \in ElectionMessage : Support(m) = {} /\ m.type \notin Phases
    /\ \A t : Support(TransactionOf(t)) = {}
    /\ \A h : Support(PrePrepareOf(h)) = {}
BY DEF ElectionMessage, Support, TransactionOf, PrePrepareOf, Phases

(* Transactions are created, and elections held (139-274).                 *)
LEMMA ApartSupported ==
    ASSUME PhasesInv, Supported,
           \/ \E n \in Node, t \in Tx : CreateTransaction(n, t)
           \/ \E n \in Node : RequestElection(n) /\ UNCHANGED ledgerVars
           \/ \E n \in Node : Resume(n)
           \/ \E s, d \in Node : HandleElectionMessage(s, d) /\ UNCHANGED ledgerVars
           \/ UNCHANGED vars
    PROVE  Supported'
<1>. DEFINE S == MessagesUpTo(Len(blocks))
<1>1. links \in LinksOf(S) /\ ElectionMessage \subseteq S /\ ElectionStateOK
    BY DEF PhasesInv, Typed, MessagesUpTo
<1>9. \A n \in Node : ~ UpdatePeerReplica(n)
    BY ListingType DEF UpdatePeerReplica, Supported, NothingThrown
<1>2. UNCHANGED <<blockPool, preparePool, commitPool, messagePool, registry>>
    BY <1>9 DEF CreateTransaction, Resume, FinishRound, ledgerVars, poolVars, vars
<1>3. \A t \in Tx : TransactionOf(t) \in S
    BY DEF TransactionOf, MessagesUpTo
<1>4. \A m \in S : m.type \in {"LeaderElection", "LeaderVote", "SetNewLeader"} => m \in ElectionMessage
    BY DEF MessagesUpTo
<1>. HIDE DEF S
<1>5. ASSUME NEW n \in Node, NEW t \in Tx, CreateTransaction(n, t) PROVE Supported'
    <2>1. links' = Broadcast(links, n, <<TransactionOf(t)>>)
        BY <1>5 DEF CreateTransaction
    <2>. QED
        BY <1>1, <1>2, <1>3, <2>1, PlainMessages, PlainSupported
<1>6. ASSUME links' = links PROVE Supported'
    BY <1>1, <1>2, <1>6, PlainSupported
<1>7. ASSUME NEW n \in Node, ResumeElection(n) PROVE Supported'
    <2>1. PICK m \in ElectionMessage : links' = Broadcast(links, n, <<m>>)
        <3>1. CASE OpenElection(n)
            <4>1. PICK flag \in SessionFlag : OpenElectionWhen(n, flag)
                BY <3>1 DEF OpenElection
            <4>2. Head(electing[n]) \in Node
                BY <1>1, <4>1 DEF OpenElectionWhen, ElectionStateOK
            <4>3. \A l \in Node : /\ [type |-> "LeaderElection", leader |-> l] \in ElectionMessage
                                  /\ [type |-> "SetNewLeader", leader |-> l] \in ElectionMessage
                BY DEF ElectionMessage
            <4>. QED
                BY <4>1, <4>2, <4>3 DEF OpenElectionWhen
        <3>2. CASE AnnounceLeader(n)
            <4>1. [type |-> "SetNewLeader", leader |-> leader[n]] \in ElectionMessage
                BY <1>1 DEF ElectionStateOK, ElectionMessage
            <4>. QED
                BY <3>2, <4>1 DEF AnnounceLeader
        <3>. QED
            BY <1>7, <3>1, <3>2 DEF ResumeElection
    <2>. QED
        BY <1>1, <1>2, <2>1, PlainMessages, PlainSupported
<1>8. ASSUME NEW s \in Node, NEW d \in Node, HandleElectionMessage(s, d) PROVE Supported'
    <2>. DEFINE m == Head(links[s][d])
    <2>1. links[s][d] # <<>> /\ m.type \in {"LeaderElection", "LeaderVote", "SetNewLeader"}
        BY <1>8 DEF HandleElectionMessage, HandleNewElectionRound, CastVote, FailVote,
           HandleNewElectionRoundVote, CountVote, DecideElection, HandleNewElectionRoundResult
    <2>2. m \in ElectionMessage /\ m.type \notin Phases
        BY <1>1, <1>4, <2>1, TakenType, PlainMessages
    <2>3. CASE CastVote(s, d)
        <3>1. m.leader \in Node
            BY <2>2, <2>3 DEF CastVote, ElectionMessage
        <3>2. PICK i \in VoteIndex(Len(Eligible(m.leader))) :
                 /\ i < Len(Eligible(m.leader))
                 /\ links' = SendDirect(Taken(links, s, d), d, m.leader,
                                [type |-> "LeaderVote", vote |-> Eligible(m.leader)[i + 1]])
            BY <2>3 DEF CastVote
        <3>3. [type |-> "LeaderVote", vote |-> Eligible(m.leader)[i + 1]] \in ElectionMessage
            BY <3>1, <3>2, EligibleExcludesLeader DEF ElectionMessage
        <3>. HIDE DEF m
        <3>. QED
            BY <1>1, <1>2, <2>1, <2>2, <3>1, <3>2, <3>3, PlainMessages, PlainSupported DEF m
    <2>4. CASE FailVote(s, d)
        <3>1. links' = Broadcast(Taken(links, s, d), d, <<[type |-> "SetNewLeader", leader |-> m.leader]>>)
            BY <2>4 DEF FailVote
        <3>2. [type |-> "SetNewLeader", leader |-> m.leader] \in ElectionMessage
            BY <2>2, <2>4 DEF FailVote, ElectionMessage
        <3>. HIDE DEF m
        <3>. QED
            BY <1>1, <1>2, <2>1, <2>2, <3>1, <3>2, PlainMessages, PlainSupported DEF m
    <2>5. CASE links' = Taken(links, s, d)
        BY <1>1, <1>2, <2>1, <2>2, <2>5, PlainSupported
    <2>. QED
        BY <1>8, <2>3, <2>4, <2>5 DEF HandleElectionMessage, HandleNewElectionRound,
           HandleNewElectionRoundVote, CountVote, DecideElection, HandleNewElectionRoundResult
<1>. QED
    BY <1>5, <1>6, <1>7, <1>8, <1>9 DEF RequestElection, Resume, FinishRound, vars, electionVars

(* The list that names everyone is the complete one.                       *)
LEMMA NamesEveryone ==
    ASSUME Typed, NEW d \in Node, NEW h \in Hash \ {Genesis}
    PROVE  /\ (\A j \in Node : PrepareOf(h, j) \in Noted(d)) => preparePool[d][h] = Node
           /\ (\A j \in Node : CommitOf(h, j) \in Noted(d)) => commitPool[d][h] = Node
           /\ PrePrepareOf(h) \in Noted(d) => h \in blockPool[d]
<1>1. preparePool[d][h] \in SUBSET Node /\ commitPool[d][h] \in SUBSET Node
    BY PoolTypes
<1>2. \A j \in Node : /\ PrepareOf(h, j) \in Noted(d) => j \in preparePool[d][h]
                      /\ CommitOf(h, j) \in Noted(d) => j \in commitPool[d][h]
    BY DEF Noted, PrepareOf, CommitOf
<1>3. PrePrepareOf(h) \in Noted(d) => h \in blockPool[d]
    BY DEF Noted, PrePrepareOf
<1>. QED
    BY <1>1, <1>2, <1>3

(* No handler misses a list, nor throws (325-331, 355-360, 384-389).       *)
LEMMA NoneThrows ==
    ASSUME PhasesInv, Supported, NEW s \in Node, NEW d \in Node
    PROVE  ~ ThrowAfterRepeat(s, d) /\ ~ ThrowOnCommit(s, d)
<1>. DEFINE m == Head(links[s][d])
            h == m.hash
<1>1. ASSUME links[s][d] # <<>>, m.type \in {"prepare", "commit", "round_change"}
      PROVE  h \in Hash \ {Genesis} /\ m \in Told /\ \A p \in Support(m) : p \in Noted(d)
    BY <1>1, PhaseMessageType, ReadTold, HeadSupported DEF PhasesInv
<1>. HIDE DEF m
<1>2. ASSUME links[s][d] # <<>>, m.type = "prepare" PROVE preparePool[d][h] # {}
    <2>1. PrePrepareOf(h) \in Noted(d) /\ h \in Hash \ {Genesis}
        BY <1>1, <1>2 DEF Support
    <2>. QED
        BY <2>1, NamesEveryone DEF PhasesInv, Lists, PhasesInOrder
<1>3. ASSUME links[s][d] # <<>>, m.type = "commit" PROVE commitPool[d][h] # {}
    <2>1. (\A j \in Node : PrepareOf(h, j) \in Noted(d)) /\ h \in Hash \ {Genesis}
        BY <1>1, <1>3 DEF Support
    <2>2. preparePool[d][h] = Node
        BY <2>1, NamesEveryone DEF PhasesInv
    <2>3. PICK k \in Node : commitPool[k][h] # {}
        BY <1>1, <1>3 DEF Told, Committers
    <2>4. Node # {k}
        BY <2>1, <2>3 DEF Supported, PhasesFollow
    <2>. QED
        BY <2>1, <2>2, <2>4 DEF Supported, PhasesFollow
<1>4. ASSUME links[s][d] # <<>>, m.type = "round_change" PROVE messagePool[d][h] # {}
    <2>1. (\A j \in Node : CommitOf(h, j) \in Noted(d)) /\ h \in Hash \ {Genesis}
        BY <1>1, <1>4 DEF Support
    <2>. QED
        BY <2>1, NamesEveryone DEF PhasesInv, Supported, PhasesFollow
<1>. QED
    BY <1>2, <1>3, <1>4 DEF ThrowAfterRepeat, ThrowOnCommit, Receives, m

(* A handler of a phase reads a packet and answers at once.                *)
LEMMA HandlerReads ==
    ASSUME PhasesInv, NEW s \in Node, NEW d \in Node, links[s][d] # <<>>,
           Head(links[s][d]).type \in {"pre_prepare", "prepare", "commit", "round_change"}
    PROVE  LET m == Head(links[s][d])
           IN  /\ m \in MessagesUpTo(Len(blocks)) /\ m.hash \in 1..Len(blocks)
               /\ m.hash \in Hash \ {Genesis}
               /\ m.type # "pre_prepare" => m.by \in Node
               /\ m.type = "pre_prepare" => m = PrePrepareOf(m.hash)
               /\ m.type = "prepare" => m = PrepareOf(m.hash, m.by)
               /\ m.type = "commit" => m = CommitOf(m.hash, m.by)
               /\ links \in LinksOf(MessagesUpTo(Len(blocks)))
<1>. DEFINE m == Head(links[s][d])
<1>1. /\ m \in MessagesUpTo(Len(blocks)) /\ m.hash \in 1..Len(blocks) /\ m.hash \in Hash \ {Genesis}
      /\ m.type # "pre_prepare" => m.by \in Node
    BY PhaseMessageType DEF PhasesInv
<1>. HIDE DEF m
<1>2. /\ m.type = "pre_prepare" => m = PrePrepareOf(m.hash)
      /\ m.type = "prepare" => m = PrepareOf(m.hash, m.by)
      /\ m.type = "commit" => m = CommitOf(m.hash, m.by)
    BY <1>1 DEF MessagesUpTo, ElectionMessage, PrePrepareOf, PrepareOf, CommitOf
<1>. QED
    BY <1>1, <1>2 DEF m, PhasesInv, Typed

(* The notes after an entry has been made for h by j.                      *)
LEMMA NotesGrow ==
    ASSUME Typed, Typed', NEW d \in Node, NEW h \in Hash \ {Genesis},
           \A n \in Node, g \in Hash \ {Genesis} : n # d \/ g # h =>
              /\ g \in blockPool'[n] <=> g \in blockPool[n]
              /\ preparePool'[n][g] = preparePool[n][g] /\ commitPool'[n][g] = commitPool[n][g],
           h \in blockPool[d] => h \in blockPool'[d],
           preparePool[d][h] \subseteq preparePool'[d][h],
           commitPool[d][h] \subseteq commitPool'[d][h]
    PROVE  /\ \A n \in Node : Noted(n) \subseteq Noted(n)' /\ (n # d => Noted(n)' = Noted(n))
           /\ \A m \in Noted(d)' :
                 \/ m \in Noted(d)
                 \/ m = PrePrepareOf(h) /\ h \in blockPool'[d] \ blockPool[d]
                 \/ \E j \in preparePool'[d][h] \ preparePool[d][h] : m = PrepareOf(h, j)
                 \/ \E j \in commitPool'[d][h] \ commitPool[d][h] : m = CommitOf(h, j)
<1>1. \A m \in PhaseMessage :
         /\ m.hash \in Hash \ {Genesis}
         /\ m.type = "pre_prepare" => m = PrePrepareOf(m.hash)
         /\ m.type = "prepare" => m = PrepareOf(m.hash, m.by)
         /\ m.type = "commit" => m = CommitOf(m.hash, m.by)
    BY DEF PhaseMessage, PrePrepareOf, PrepareOf, CommitOf
<1>2. ASSUME NEW n \in Node, NEW m \in Noted(n) PROVE m \in Noted(n)'
    <2>1. CASE n # d \/ m.hash # h
        BY <1>1, <1>2, <2>1 DEF Noted
    <2>2. CASE n = d /\ m.hash = h
        BY <1>2, <2>2 DEF Noted
    <2>. QED
        BY <2>1, <2>2
<1>3. ASSUME NEW n \in Node, NEW m \in Noted(n)', n # d \/ m.hash # h PROVE m \in Noted(n)
    BY <1>1, <1>3 DEF Noted
<1>4. ASSUME NEW m \in Noted(d)', m.hash = h, m \notin Noted(d)
      PROVE  \/ m = PrePrepareOf(h) /\ h \in blockPool'[d] \ blockPool[d]
             \/ \E j \in preparePool'[d][h] \ preparePool[d][h] : m = PrepareOf(h, j)
             \/ \E j \in commitPool'[d][h] \ commitPool[d][h] : m = CommitOf(h, j)
    BY <1>1, <1>4 DEF Noted
<1>. QED
    BY <1>2, <1>3, <1>4

(* Pre-prepare: the block and the node's own prepare (299-315).            *)
LEMMA PrePrepareSupported ==
    ASSUME PhasesInv, Typed', Supported, NEW s \in Node, NEW d \in Node,
           HandleNewBlockPrePrepare(s, d)
    PROVE  Supported'
<1>. DEFINE m == Head(links[s][d])
            h == m.hash
            S == MessagesUpTo(Len(blocks))
            out == <<PrePrepareOf(h), PrepareOf(h, d)>>
<1>1. /\ links[s][d] # <<>> /\ m.type = "pre_prepare" /\ h \notin blockPool[d]
      /\ blockPool' = [blockPool EXCEPT ![d] = blockPool[d] \cup {h}]
      /\ preparePool' = Relisted(preparePool, d, h, {d})
      /\ Reply(s, d, out)
      /\ UNCHANGED <<commitPool, messagePool, registry>>
    BY DEF HandleNewBlockPrePrepare, Receives
<1>2. m \in S /\ h \in 1..Len(blocks) /\ h \in Hash \ {Genesis} /\ m = PrePrepareOf(h) /\ links \in LinksOf(S)
    BY <1>1, HandlerReads
<1>. HIDE DEF m, S
<1>3. PrepareOf(h, d) \in S /\ out \in Seq(S)
    <2>1. PrepareOf(h, d) \in S /\ PrePrepareOf(h) \in S
        BY <1>2 DEF PrepareOf, PrePrepareOf, MessagesUpTo, S
    <2>. QED
        BY <2>1
<1>4. \A n \in Node, g \in Hash : /\ preparePool'[n][g] = IF n = d /\ g = h THEN {d} ELSE preparePool[n][g]
                                  /\ g \in blockPool'[n] <=> g \in blockPool[n] \/ (n = d /\ g = h)
    <2>1. preparePool \in [Node -> [Hash -> SUBSET Node]] /\ {d} \in SUBSET Node /\ h \in Hash
        BY <1>2, PoolTypes DEF PhasesInv
    <2>2. \A n \in Node, g \in Hash : preparePool'[n][g] = IF n = d /\ g = h THEN {d} ELSE preparePool[n][g]
        BY <1>1, <2>1, RelistedType
    <2>3. DOMAIN blockPool = Node
        BY DEF PhasesInv, Typed, LedgerStateOK
    <2>. QED
        BY <1>1, <2>2, <2>3
<1>5. preparePool[d][h] = {} /\ commitPool[d][h] = {}
    <2>1. preparePool[d][h] = {}
        BY <1>1, <1>2 DEF PhasesInv, Lists, PhasesInOrder
    <2>2. Cardinality(preparePool[d][h]) = 0 /\ Quorum \in Nat /\ Quorum >= 1
        BY <2>1, QuorumPositive, QuorumType, FS_EmptySet
    <2>3. commitPool[d][h] # {} => Cardinality(preparePool[d][h]) >= Quorum
        BY <1>2 DEF PhasesInv, Lists, PhasesInOrder
    <2>. QED
        BY <2>1, <2>2, <2>3
<1>6. /\ \A n \in Node : Noted(n) \subseteq Noted(n)' /\ (n # d => Noted(n)' = Noted(n))
      /\ \A p \in Noted(d)' : p \in Noted(d) \/ p = PrePrepareOf(h) \/ p = PrepareOf(h, d)
    <2>1. /\ \A n \in Node, g \in Hash \ {Genesis} : n # d \/ g # h =>
                /\ g \in blockPool'[n] <=> g \in blockPool[n]
                /\ preparePool'[n][g] = preparePool[n][g] /\ commitPool'[n][g] = commitPool[n][g]
          /\ h \in blockPool[d] => h \in blockPool'[d]
          /\ preparePool[d][h] \subseteq preparePool'[d][h]
          /\ commitPool[d][h] \subseteq commitPool'[d][h]
          /\ preparePool'[d][h] = {d} /\ commitPool'[d][h] = commitPool[d][h]
        <3>1. commitPool' = commitPool
            BY <1>1
        <3>2. \A g : g \in Hash \ {Genesis} => g \in Hash
            OBVIOUS
        <3>3. \A n \in Node, g \in Hash \ {Genesis} : n # d \/ g # h =>
                 (g \in blockPool'[n] <=> g \in blockPool[n]) /\ preparePool'[n][g] = preparePool[n][g]
            BY <1>4, <3>2
        <3>4. h \in blockPool'[d] /\ preparePool'[d][h] = {d}
            BY <1>2, <1>4
        <3>. QED
            BY <1>5, <3>1, <3>3, <3>4
    <2>. QED
        BY <1>2, <1>5, <2>1, NotesGrow DEF PhasesInv
<1>7. /\ Carries(out, PrePrepareOf(h)) /\ Carries(out, PrepareOf(h, d))
      /\ \A i \in DOMAIN out : \A p \in Support(out[i]) : \E l \in 1..(i - 1) : out[l] = p
    <2>1. DOMAIN out = 1..2 /\ out[1] = PrePrepareOf(h) /\ out[2] = PrepareOf(h, d)
        OBVIOUS
    <2>. HIDE DEF out
    <2>2. Carries(out, PrePrepareOf(h)) /\ Carries(out, PrepareOf(h, d))
        BY <2>1 DEF Carries
    <2>3. Support(PrePrepareOf(h)) = {} /\ Support(PrepareOf(h, d)) = {PrePrepareOf(h)}
        BY PlainMessages DEF Support, PrepareOf
    <2>. QED
        BY <2>1, <2>2, <2>3
<1>8. m \in Noted(d)'
    <2>1. PrePrepareOf(h) \in PhaseMessage /\ h \in blockPool'[d]
        BY <1>2, <1>4 DEF PrePrepareOf, PhaseMessage
    <2>. QED
        BY <1>2, <2>1 DEF Noted, PrePrepareOf
<1>. HIDE DEF out
<1>9. AllTold(links', Notes', Notes') /\ AllBacked(links', Notes')
    BY <1>1, <1>2, <1>3, <1>6, <1>7, <1>8, ReplyBacked DEF m
<1>10. PhasesFollow'
    <2>1. commitPool' = commitPool /\ messagePool' = messagePool
        BY <1>1
    <2>2. ASSUME NEW k \in Node, NEW g \in Hash \ {Genesis}
          PROVE  /\ preparePool'[k][g] = Node /\ Node # {k} => commitPool[k][g] # {}
                 /\ commitPool[k][g] # {} => Node # {k}
                 /\ commitPool[k][g] = Node => messagePool[k][g] # {}
        <3>1. /\ preparePool[k][g] = Node /\ Node # {k} => commitPool[k][g] # {}
              /\ commitPool[k][g] # {} => Node # {k}
              /\ commitPool[k][g] = Node => messagePool[k][g] # {}
            BY DEF Supported, PhasesFollow
        <3>2. preparePool'[k][g] = {k} \/ preparePool'[k][g] = preparePool[k][g]
            BY <1>4
        <3>. QED
            BY <3>1, <3>2
    <2>. QED
        BY <2>1, <2>2 DEF PhasesFollow
<1>. QED
    BY <1>1, <1>9, <1>10 DEF Supported, NothingThrown

(* An answer of one or two messages whose needs are met in order.          *)
InOrder(out, N) ==
    \A i \in DOMAIN out : \A p \in Support(out[i]) : p \in N \/ \E l \in 1..(i - 1) : out[l] = p

LEMMA OneAnswer ==
    ASSUME NEW out, NEW a, out = <<a>>, NEW N, \A p \in Support(a) : p \in N
    PROVE  Carries(out, a) /\ InOrder(out, N)
<1>1. DOMAIN out = 1..1 /\ out[1] = a
    OBVIOUS
<1>. QED
    BY <1>1 DEF Carries, InOrder

LEMMA TwoAnswers ==
    ASSUME NEW out, NEW a, NEW b, out = <<a, b>>, NEW N,
           \A p \in Support(a) : p \in N, \A p \in Support(b) : p \in N \/ p = a
    PROVE  Carries(out, a) /\ Carries(out, b) /\ InOrder(out, N)
<1>1. DOMAIN out = 1..2 /\ out[1] = a /\ out[2] = b
    OBVIOUS
<1>2. Carries(out, a) /\ Carries(out, b)
    BY <1>1 DEF Carries
<1>3. ASSUME NEW p \in Support(out[2]) PROVE p \in N \/ \E l \in 1..(2 - 1) : out[l] = p
    BY <1>1, <1>3
<1>4. \A p \in Support(out[1]) : p \in N
    BY <1>1
<1>. QED
    BY <1>1, <1>2, <1>3, <1>4 DEF InOrder

(* Prepare: the last one opens the list of commits (317-345).              *)
LEMMA PrepareSupported ==
    ASSUME PhasesInv, Typed', Supported, Quorum = Cardinality(Node), NEW s \in Node, NEW d \in Node,
           HandleNewBlockPrepare(s, d)
    PROVE  Supported'
<1>. DEFINE m == Head(links[s][d])
            h == m.hash
            j == m.by
            S == MessagesUpTo(Len(blocks))
            authors == preparePool[d][h] \cup {j}
<1>1. /\ links[s][d] # <<>> /\ m.type = "prepare" /\ j \notin preparePool[d][h]
      /\ preparePool[d][h] # {}
      /\ preparePool' = Relisted(preparePool, d, h, authors)
      /\ \/ ~ QuorumReached(authors) /\ Reply(s, d, <<m>>) /\ commitPool' = commitPool
         \/ /\ QuorumReached(authors) /\ Reply(s, d, <<m, CommitOf(h, d)>>)
            /\ commitPool' = Relisted(commitPool, d, h, {d})
      /\ UNCHANGED <<blockPool, messagePool, registry>>
    BY DEF HandleNewBlockPrepare, Receives
<1>2. /\ m \in S /\ h \in 1..Len(blocks) /\ h \in Hash \ {Genesis} /\ j \in Node
      /\ m = PrepareOf(h, j) /\ links \in LinksOf(S)
    BY <1>1, HandlerReads
<1>. HIDE DEF m, S
<1>3. /\ CommitOf(h, d) \in S /\ <<m>> \in Seq(S) /\ <<m, CommitOf(h, d)>> \in Seq(S)
    <2>1. CommitOf(h, d) \in S
        BY <1>2 DEF CommitOf, MessagesUpTo, S
    <2>. QED
        BY <1>2, <2>1
<1>4. /\ preparePool \in [Node -> [Hash -> SUBSET Node]] /\ commitPool \in [Node -> [Hash -> SUBSET Node]]
      /\ authors \in SUBSET Node /\ {d} \in SUBSET Node /\ h \in Hash
    BY <1>2, PoolTypes DEF PhasesInv
<1>5. commitPool[d][h] = {} /\ (QuorumReached(authors) <=> authors = Node) /\ Node # {d}
    <2>1. commitPool[d][h] = {}
        BY <1>1, <1>2, CommitsStartOnce
    <2>2. QuorumReached(authors) <=> authors = Node
        BY <1>4, QuorumNamesAll DEF QuorumReached
    <2>3. preparePool[d][h] \in SUBSET Node
        BY <1>4
    <2>. QED
        BY <1>1, <1>2, <2>1, <2>2, <2>3
<1>. HIDE DEF h, j, authors
<1>6. \A n \in Node, g \in Hash : preparePool'[n][g] = IF n = d /\ g = h THEN authors ELSE preparePool[n][g]
    <2>1. \A n \in Node, g \in Hash : Relisted(preparePool, d, h, authors)[n][g]
             = IF n = d /\ g = h THEN authors ELSE preparePool[n][g]
        BY <1>4 DEF Relisted
    <2>2. preparePool' = Relisted(preparePool, d, h, authors)
        BY <1>1
    <2>3. ASSUME NEW n \in Node, NEW g \in Hash
          PROVE  preparePool'[n][g] = IF n = d /\ g = h THEN authors ELSE preparePool[n][g]
        BY <2>1, <2>2
    <2>. QED
        BY <2>3
<1>7. \/ /\ authors # Node /\ commitPool' = commitPool
      \/ /\ authors = Node
         /\ \A n \in Node, g \in Hash : commitPool'[n][g] = IF n = d /\ g = h THEN {d} ELSE commitPool[n][g]
    <2>1. \A n \in Node, g \in Hash : Relisted(commitPool, d, h, {d})[n][g]
             = IF n = d /\ g = h THEN {d} ELSE commitPool[n][g]
        BY <1>4, RelistedType
    <2>2. \/ authors # Node /\ commitPool' = commitPool
          \/ authors = Node /\ commitPool' = Relisted(commitPool, d, h, {d})
        BY <1>1, <1>5
    <2>. QED
        BY <2>1, <2>2
<1>8. \A g : g \in Hash \ {Genesis} => g \in Hash
    OBVIOUS
<1>9. /\ \A n \in Node : Noted(n) \subseteq Noted(n)' /\ (n # d => Noted(n)' = Noted(n))
      /\ \A p \in Noted(d)' :
            p \in Noted(d) \/ p = m \/ (authors = Node /\ p = CommitOf(h, d))
    <2>1. \A n \in Node, g \in Hash \ {Genesis} : n # d \/ g # h =>
             /\ g \in blockPool'[n] <=> g \in blockPool[n]
             /\ preparePool'[n][g] = preparePool[n][g] /\ commitPool'[n][g] = commitPool[n][g]
        BY <1>1, <1>6, <1>7, <1>8
    <2>2. preparePool'[d][h] = authors /\ (commitPool'[d][h] = {} \/ (authors = Node /\ commitPool'[d][h] = {d}))
        BY <1>4, <1>5, <1>6, <1>7
    <2>3. authors = preparePool[d][h] \cup {j} /\ blockPool' = blockPool
        BY <1>1 DEF authors
    <2>4. /\ \A n \in Node : Noted(n) \subseteq Noted(n)' /\ (n # d => Noted(n)' = Noted(n))
          /\ \A p \in Noted(d)' :
                \/ p \in Noted(d)
                \/ p = PrePrepareOf(h) /\ h \in blockPool'[d] \ blockPool[d]
                \/ \E k \in preparePool'[d][h] \ preparePool[d][h] : p = PrepareOf(h, k)
                \/ \E k \in commitPool'[d][h] \ commitPool[d][h] : p = CommitOf(h, k)
        BY <1>2, <1>5, <2>1, <2>2, <2>3, NotesGrow DEF PhasesInv
    <2>. QED
        BY <1>2, <1>5, <2>2, <2>3, <2>4
<1>10. m \in Noted(d)'
    <2>1. m \in PhaseMessage /\ j \in preparePool'[d][h] /\ m.type = "prepare" /\ m.hash = h /\ m.by = j
        <3>1. PrepareOf(h, j) \in PhaseMessage /\ PrepareOf(h, j).type = "prepare"
              /\ PrepareOf(h, j).hash = h /\ PrepareOf(h, j).by = j
            BY <1>2 DEF PrepareOf, PhaseMessage
        <3>2. j \in preparePool'[d][h]
            BY <1>4, <1>6 DEF authors
        <3>. QED
            BY <1>2, <3>1, <3>2
    <2>. QED
        BY <2>1 DEF Noted
<1>. DEFINE N == Noted(d) \cup Support(m)
            out == IF authors = Node THEN <<m, CommitOf(h, d)>> ELSE <<m>>
<1>11. \A p \in Support(m) : p \in N
    OBVIOUS
<1>12. authors = Node => \A p \in Support(CommitOf(h, d)) : p \in N \/ p = m
    <2>1. Support(CommitOf(h, d)) = {PrepareOf(h, k) : k \in Node}
        BY DEF Support, CommitOf
    <2>2. ASSUME NEW k \in preparePool[d][h] PROVE PrepareOf(h, k) \in Noted(d)
        BY <1>2, <1>4, <2>2 DEF Noted, PrepareOf, PhaseMessage
    <2>. QED
        BY <1>2, <2>1, <2>2 DEF authors
<1>. HIDE DEF N
<1>13. /\ out \in Seq(S) /\ Reply(s, d, out)
       /\ \A p \in Noted(d)' : p \in Noted(d) \/ Carries(out, p)
       /\ InOrder(out, N)
    <2>1. CASE authors = Node
        <3>1. out = <<m, CommitOf(h, d)>> /\ Reply(s, d, out)
            BY <1>1, <1>5, <2>1
        <3>. HIDE DEF out
        <3>2. Carries(out, m) /\ Carries(out, CommitOf(h, d)) /\ InOrder(out, N)
            BY <1>11, <1>12, <2>1, <3>1, TwoAnswers
        <3>. QED
            BY <1>3, <1>9, <3>1, <3>2
    <2>2. CASE authors # Node
        <3>1. out = <<m>> /\ Reply(s, d, out)
            BY <1>1, <1>5, <2>2
        <3>. HIDE DEF out
        <3>2. Carries(out, m) /\ InOrder(out, N)
            BY <1>11, <3>1, OneAnswer
        <3>. QED
            BY <1>3, <1>9, <2>2, <3>1, <3>2
    <2>. QED
        BY <2>1, <2>2
<1>. HIDE DEF out
<1>14. AllTold(links', Notes', Notes') /\ AllBacked(links', Notes')
    BY <1>1, <1>2, <1>9, <1>10, <1>13, ReplyBacked DEF m, N, InOrder
<1>15. PhasesFollow'
    <2>1. ASSUME NEW k \in Node, NEW g \in Hash \ {Genesis}
          PROVE  /\ preparePool'[k][g] = Node /\ Node # {k} => commitPool'[k][g] # {}
                 /\ commitPool'[k][g] # {} => Node # {k}
                 /\ commitPool'[k][g] = Node => messagePool[k][g] # {}
        <3>1. /\ preparePool[k][g] = Node /\ Node # {k} => commitPool[k][g] # {}
              /\ commitPool[k][g] # {} => Node # {k}
              /\ commitPool[k][g] = Node => messagePool[k][g] # {}
            BY DEF Supported, PhasesFollow
        <3>2. CASE k = d /\ g = h
            BY <1>4, <1>5, <1>6, <1>7, <3>1, <3>2
        <3>3. CASE ~ (k = d /\ g = h)
            BY <1>6, <1>7, <1>8, <3>1, <3>3
        <3>. QED
            BY <3>2, <3>3
    <2>2. messagePool' = messagePool
        BY <1>1
    <2>. QED
        BY <2>1, <2>2 DEF PhasesFollow
<1>. QED
    BY <1>1, <1>14, <1>15 DEF Supported, NothingThrown

(* Commit: the last one opens the list of round changes (347-374).         *)
LEMMA CommitSupported ==
    ASSUME PhasesInv, Typed', Supported, Quorum = Cardinality(Node), NEW s \in Node, NEW d \in Node,
           HandleNewBlockCommit(s, d)
    PROVE  Supported'
<1>. DEFINE m == Head(links[s][d])
            h == m.hash
            j == m.by
            S == MessagesUpTo(Len(blocks))
            authors == commitPool[d][h] \cup {j}
<1>1. /\ links[s][d] # <<>> /\ m.type = "commit" /\ j \notin commitPool[d][h]
      /\ commitPool[d][h] # {}
      /\ commitPool' = Relisted(commitPool, d, h, authors)
      /\ \/ ~ QuorumReached(authors) /\ Reply(s, d, <<m>>) /\ messagePool' = messagePool
         \/ /\ QuorumReached(authors) /\ Reply(s, d, <<m, RoundChangeOf(h, d)>>)
            /\ messagePool' = Relisted(messagePool, d, h, {d})
      /\ UNCHANGED <<blockPool, preparePool, registry>>
    BY DEF HandleNewBlockCommit, Receives
<1>2. /\ m \in S /\ h \in 1..Len(blocks) /\ h \in Hash \ {Genesis} /\ j \in Node
      /\ m = CommitOf(h, j) /\ links \in LinksOf(S)
    BY <1>1, HandlerReads
<1>. HIDE DEF m, S
<1>3. /\ RoundChangeOf(h, d) \in S /\ <<m>> \in Seq(S) /\ <<m, RoundChangeOf(h, d)>> \in Seq(S)
    <2>1. RoundChangeOf(h, d) \in S
        BY <1>2 DEF RoundChangeOf, MessagesUpTo, S
    <2>. QED
        BY <1>2, <2>1
<1>4. /\ commitPool \in [Node -> [Hash -> SUBSET Node]] /\ messagePool \in [Node -> [Hash -> SUBSET Node]]
      /\ authors \in SUBSET Node /\ {d} \in SUBSET Node /\ h \in Hash
    BY <1>2, PoolTypes DEF PhasesInv
<1>5. QuorumReached(authors) <=> authors = Node
    BY <1>4, QuorumNamesAll DEF QuorumReached
<1>. HIDE DEF h, j, authors
<1>6. \A n \in Node, g \in Hash : commitPool'[n][g] = IF n = d /\ g = h THEN authors ELSE commitPool[n][g]
    <2>1. \A n \in Node, g \in Hash : Relisted(commitPool, d, h, authors)[n][g]
             = IF n = d /\ g = h THEN authors ELSE commitPool[n][g]
        BY <1>4 DEF Relisted
    <2>2. commitPool' = Relisted(commitPool, d, h, authors)
        BY <1>1
    <2>3. ASSUME NEW n \in Node, NEW g \in Hash
          PROVE  commitPool'[n][g] = IF n = d /\ g = h THEN authors ELSE commitPool[n][g]
        BY <2>1, <2>2
    <2>. QED
        BY <2>3
<1>7. \/ /\ authors # Node /\ messagePool' = messagePool
      \/ /\ authors = Node
         /\ \A n \in Node, g \in Hash : messagePool'[n][g] = IF n = d /\ g = h THEN {d} ELSE messagePool[n][g]
    <2>1. \A n \in Node, g \in Hash : Relisted(messagePool, d, h, {d})[n][g]
             = IF n = d /\ g = h THEN {d} ELSE messagePool[n][g]
        BY <1>4, RelistedType
    <2>2. \/ authors # Node /\ messagePool' = messagePool
          \/ authors = Node /\ messagePool' = Relisted(messagePool, d, h, {d})
        BY <1>1, <1>5
    <2>. QED
        BY <2>1, <2>2
<1>8. \A g : g \in Hash \ {Genesis} => g \in Hash
    OBVIOUS
<1>9. /\ \A n \in Node : Noted(n) \subseteq Noted(n)' /\ (n # d => Noted(n)' = Noted(n))
      /\ \A p \in Noted(d)' : p \in Noted(d) \/ p = m
    <2>1. \A n \in Node, g \in Hash \ {Genesis} : n # d \/ g # h =>
             /\ g \in blockPool'[n] <=> g \in blockPool[n]
             /\ preparePool'[n][g] = preparePool[n][g] /\ commitPool'[n][g] = commitPool[n][g]
        BY <1>1, <1>6, <1>8
    <2>2. commitPool'[d][h] = authors
        BY <1>4, <1>6
    <2>3. authors = commitPool[d][h] \cup {j} /\ blockPool' = blockPool /\ preparePool' = preparePool
        BY <1>1 DEF authors
    <2>4. /\ \A n \in Node : Noted(n) \subseteq Noted(n)' /\ (n # d => Noted(n)' = Noted(n))
          /\ \A p \in Noted(d)' :
                \/ p \in Noted(d)
                \/ p = PrePrepareOf(h) /\ h \in blockPool'[d] \ blockPool[d]
                \/ \E k \in preparePool'[d][h] \ preparePool[d][h] : p = PrepareOf(h, k)
                \/ \E k \in commitPool'[d][h] \ commitPool[d][h] : p = CommitOf(h, k)
        BY <1>2, <2>1, <2>2, <2>3, NotesGrow DEF PhasesInv
    <2>. QED
        BY <1>2, <2>2, <2>3, <2>4
<1>10. m \in Noted(d)'
    <2>1. m \in PhaseMessage /\ j \in commitPool'[d][h] /\ m.type = "commit" /\ m.hash = h /\ m.by = j
        <3>1. CommitOf(h, j) \in PhaseMessage /\ CommitOf(h, j).type = "commit"
              /\ CommitOf(h, j).hash = h /\ CommitOf(h, j).by = j
            BY <1>2 DEF CommitOf, PhaseMessage
        <3>2. j \in commitPool'[d][h]
            BY <1>4, <1>6 DEF authors
        <3>. QED
            BY <1>2, <3>1, <3>2
    <2>. QED
        BY <2>1 DEF Noted
<1>. DEFINE N == Noted(d) \cup Support(m)
            out == IF authors = Node THEN <<m, RoundChangeOf(h, d)>> ELSE <<m>>
<1>11. \A p \in Support(m) : p \in N
    OBVIOUS
<1>12. authors = Node => \A p \in Support(RoundChangeOf(h, d)) : p \in N \/ p = m
    <2>1. Support(RoundChangeOf(h, d)) = {CommitOf(h, k) : k \in Node}
        BY DEF Support, RoundChangeOf
    <2>2. ASSUME NEW k \in commitPool[d][h] PROVE CommitOf(h, k) \in Noted(d)
        BY <1>2, <1>4, <2>2 DEF Noted, CommitOf, PhaseMessage
    <2>. QED
        BY <1>2, <2>1, <2>2 DEF authors
<1>. HIDE DEF N
<1>13. /\ out \in Seq(S) /\ Reply(s, d, out)
       /\ \A p \in Noted(d)' : p \in Noted(d) \/ Carries(out, p)
       /\ InOrder(out, N)
    <2>1. CASE authors = Node
        <3>1. out = <<m, RoundChangeOf(h, d)>> /\ Reply(s, d, out)
            BY <1>1, <1>5, <2>1
        <3>. HIDE DEF out
        <3>2. Carries(out, m) /\ InOrder(out, N)
            BY <1>11, <1>12, <2>1, <3>1, TwoAnswers
        <3>. QED
            BY <1>3, <1>9, <3>1, <3>2
    <2>2. CASE authors # Node
        <3>1. out = <<m>> /\ Reply(s, d, out)
            BY <1>1, <1>5, <2>2
        <3>. HIDE DEF out
        <3>2. Carries(out, m) /\ InOrder(out, N)
            BY <1>11, <3>1, OneAnswer
        <3>. QED
            BY <1>3, <1>9, <3>1, <3>2
    <2>. QED
        BY <2>1, <2>2
<1>. HIDE DEF out
<1>14. AllTold(links', Notes', Notes') /\ AllBacked(links', Notes')
    BY <1>1, <1>2, <1>9, <1>10, <1>13, ReplyBacked DEF m, N, InOrder
<1>15. PhasesFollow'
    <2>1. ASSUME NEW k \in Node, NEW g \in Hash \ {Genesis}
          PROVE  /\ preparePool[k][g] = Node /\ Node # {k} => commitPool'[k][g] # {}
                 /\ commitPool'[k][g] # {} => Node # {k}
                 /\ commitPool'[k][g] = Node => messagePool'[k][g] # {}
        <3>1. /\ preparePool[k][g] = Node /\ Node # {k} => commitPool[k][g] # {}
              /\ commitPool[k][g] # {} => Node # {k}
              /\ commitPool[k][g] = Node => messagePool[k][g] # {}
            BY DEF Supported, PhasesFollow
        <3>2. CASE k = d /\ g = h
            <4>1. commitPool'[k][g] = authors /\ authors # {}
                BY <1>4, <1>6, <3>2 DEF authors
            <4>2. authors = Node => messagePool'[k][g] = {d}
                BY <1>4, <1>7, <3>2
            <4>. QED
                BY <1>1, <3>1, <3>2, <4>1, <4>2
        <3>3. CASE ~ (k = d /\ g = h)
            BY <1>6, <1>7, <1>8, <3>1, <3>3
        <3>. QED
            BY <3>2, <3>3
    <2>2. preparePool' = preparePool
        BY <1>1
    <2>. QED
        BY <2>1, <2>2 DEF PhasesFollow
<1>. QED
    BY <1>1, <1>14, <1>15 DEF Supported, NothingThrown

(* Round change: the lists of round changes only grow (376-405).           *)
LEMMA RoundChangeSupported ==
    ASSUME PhasesInv, Supported, NEW s \in Node, NEW d \in Node, HandleNewRoundChange(s, d)
    PROVE  Supported'
<1>. DEFINE m == Head(links[s][d])
            h == m.hash
            S == MessagesUpTo(Len(blocks))
            authors == messagePool[d][h] \cup {m.by}
            N == Noted(d) \cup Support(m)
            out == <<m>>
<1>1. /\ links[s][d] # <<>> /\ m.type = "round_change"
      /\ messagePool' = Relisted(messagePool, d, h, authors)
      /\ Reply(s, d, out)
      /\ UNCHANGED <<blockPool, preparePool, commitPool, registry>>
    BY DEF HandleNewRoundChange, Receives
<1>2. m \in S /\ h \in Hash /\ m.by \in Node /\ links \in LinksOf(S)
    BY <1>1, HandlerReads
<1>. HIDE DEF m, S
<1>3. out \in Seq(S) /\ m.type \notin Phases
    BY <1>1, <1>2 DEF Phases
<1>4. \A n \in Node, g \in Hash : messagePool[n][g] \subseteq messagePool'[n][g]
    <2>1. messagePool \in [Node -> [Hash -> SUBSET Node]] /\ authors \in SUBSET Node
        BY <1>2, PoolTypes DEF PhasesInv
    <2>2. messagePool[d][h] \subseteq authors
        OBVIOUS
    <2>. HIDE DEF h, authors
    <2>3. \A n \in Node, g \in Hash : Relisted(messagePool, d, h, authors)[n][g]
             = IF n = d /\ g = h THEN authors ELSE messagePool[n][g]
        BY <1>2, <2>1, RelistedType
    <2>. QED
        BY <1>1, <2>2, <2>3
<1>5. InOrder(out, N)
    <2>1. \A p \in Support(m) : p \in N
        OBVIOUS
    <2>. HIDE DEF N
    <2>. QED
        BY <2>1, OneAnswer
<1>6. \A n \in Node : Noted(n)' = Noted(n)
    BY <1>1 DEF Noted
<1>. HIDE DEF out
<1>7. AllTold(links', Notes', Notes') /\ AllBacked(links', Notes')
    BY <1>1, <1>2, <1>3, <1>5, <1>6, ReplyBacked DEF m, InOrder
<1>8. PhasesFollow'
    BY <1>1, <1>4 DEF Supported, PhasesFollow
<1>. QED
    BY <1>1, <1>7, <1>8 DEF Supported, NothingThrown

(* Transactions: repeated, and proposed in a block by the leader (276-297). *)
LEMMA TransactionSupported ==
    ASSUME PhasesInv, Supported, NEW s \in Node, NEW d \in Node, HandleNewTransaction(s, d)
    PROVE  Supported'
<1>. DEFINE m == Head(links[s][d])
            a == TransactionOf(m.tx)
            b == PrePrepareOf(Len(blocks) + 1)
            S == MessagesUpTo(Len(blocks))
            T == S \cup {a, b}
            N == Noted(d) \cup Support(m)
<1>1. /\ links[s][d] # <<>> /\ m.type = "transaction"
      /\ Reply(s, d, <<>>) \/ Reply(s, d, <<a>>) \/ Reply(s, d, <<a, b>>)
      /\ UNCHANGED <<blockPool, preparePool, commitPool, messagePool, registry>>
    BY DEF HandleNewTransaction, Receives
<1>2. links \in LinksOf(S) /\ S \subseteq T
    BY DEF PhasesInv, Typed
<1>3. Support(a) = {} /\ Support(b) = {}
    BY PlainMessages
<1>4. m.type \notin Phases
    BY <1>1 DEF Phases
<1>. HIDE DEF m, a, b, S, N
<1>5. <<>> \in Seq(T) /\ <<a>> \in Seq(T) /\ <<a, b>> \in Seq(T)
    <2>1. a \in T /\ b \in T
        OBVIOUS
    <2>. HIDE DEF T
    <2>. QED
        BY <2>1
<1>. HIDE DEF T
<1>6. PICK out \in Seq(T) : Reply(s, d, out) /\ InOrder(out, N)
    <2>1. InOrder(<<>>, N)
        BY DEF InOrder
    <2>2. InOrder(<<a>>, N)
        BY <1>3, OneAnswer
    <2>3. InOrder(<<a, b>>, N)
        BY <1>3, TwoAnswers
    <2>. QED
        BY <1>1, <1>5, <2>1, <2>2, <2>3
<1>7. \A n \in Node : Noted(n)' = Noted(n)
    BY <1>1 DEF Noted
<1>8. AllTold(links', Notes', Notes') /\ AllBacked(links', Notes')
    BY <1>1, <1>2, <1>4, <1>6, <1>7, ReplyBacked DEF m, N, InOrder
<1>9. PhasesFollow'
    BY <1>1 DEF Supported, PhasesFollow
<1>. QED
    BY <1>1, <1>8, <1>9 DEF Supported, NothingThrown

(* What is turned away was noted before, if new blocks are found valid.    *)
LEMMA IgnoreSupported ==
    ASSUME PhasesInv, BlocksFoundValid, Supported, NEW s \in Node, NEW d \in Node, IgnoreMessage(s, d)
    PROVE  Supported'
<1>. DEFINE m == Head(links[s][d])
            S == MessagesUpTo(Len(blocks))
            N == Noted(d) \cup Support(m)
            out == <<>>
<1>1. /\ links[s][d] # <<>> /\ TurnedAway(d, m) /\ Reply(s, d, out)
      /\ UNCHANGED <<blockPool, preparePool, commitPool, messagePool, registry>>
    BY DEF IgnoreMessage, ledgerVars, poolVars
<1>2. links \in LinksOf(S)
    BY DEF PhasesInv, Typed
<1>3. m \in Noted(d) \/ m.type \notin Phases
    <2>1. CASE m.type = "transaction" \/ m.type = "round_change"
        BY <2>1 DEF Phases
    <2>2. CASE m.type = "pre_prepare" /\ (m.hash \in blockPool[d] \/ ~ ValidBlock(d, m.hash))
        <3>1. m = PrePrepareOf(m.hash) /\ m.hash \in Hash \ {Genesis}
            BY <1>1, <2>2, HandlerReads
        <3>2. m.hash \in blockPool[d]
            BY <1>1, <2>2 DEF BlocksFoundValid, Receives
        <3>3. PrePrepareOf(m.hash) \in PhaseMessage /\ PrePrepareOf(m.hash).type = "pre_prepare"
              /\ PrePrepareOf(m.hash).hash = m.hash
            BY <3>1 DEF PrePrepareOf, PhaseMessage
        <3>. HIDE DEF m
        <3>. QED
            BY <3>1, <3>2, <3>3 DEF Noted
    <2>3. CASE m.type = "prepare" /\ m.by \in preparePool[d][m.hash]
        <3>1. m = PrepareOf(m.hash, m.by) /\ m.hash \in Hash \ {Genesis} /\ m.by \in Node
            BY <1>1, <2>3, HandlerReads
        <3>2. PrepareOf(m.hash, m.by) \in PhaseMessage
            BY <3>1 DEF PrepareOf, PhaseMessage
        <3>. HIDE DEF m
        <3>. QED
            BY <2>3, <3>1, <3>2 DEF Noted
    <2>4. CASE m.type = "commit" /\ m.by \in commitPool[d][m.hash]
        <3>1. m = CommitOf(m.hash, m.by) /\ m.hash \in Hash \ {Genesis} /\ m.by \in Node
            BY <1>1, <2>4, HandlerReads
        <3>2. CommitOf(m.hash, m.by) \in PhaseMessage
            BY <3>1 DEF CommitOf, PhaseMessage
        <3>. HIDE DEF m
        <3>. QED
            BY <2>4, <3>1, <3>2 DEF Noted
    <2>. QED
        BY <1>1, <2>1, <2>2, <2>3, <2>4 DEF TurnedAway
<1>4. \A n \in Node : Noted(n)' = Noted(n)
    BY <1>1 DEF Noted
<1>5. out \in Seq(S) /\ InOrder(out, N)
    BY DEF InOrder
<1>. HIDE DEF S, out
<1>6. AllTold(links', Notes', Notes') /\ AllBacked(links', Notes')
    BY <1>1, <1>2, <1>3, <1>4, <1>5, ReplyBacked DEF N, InOrder
<1>7. PhasesFollow'
    BY <1>1 DEF Supported, PhasesFollow
<1>. QED
    BY <1>1, <1>6, <1>7 DEF Supported, NothingThrown

(* The state the validators start from. *)
LEMMA SupportedInit == Init => Supported
<1>. SUFFICES ASSUME Init PROVE Supported
    OBVIOUS
<1>1. \A n \in Node, h \in Hash \ {Genesis} :
         blockPool[n] = {} /\ preparePool[n][h] = {} /\ commitPool[n][h] = {}
    BY DEF Init
<1>2. \A n \in Node : Noted(n) = {}
    BY <1>1 DEF Noted, PhaseMessage
<1>3. AllTold(links, Notes, Notes)
    BY <1>2 DEF AllTold, Notes
<1>4. AllBacked(links, Notes)
    <2>1. \A s, d \in Node : links[s][d] = <<>>
        BY DEF Init, ElectionInit, NoPackets
    <2>. QED
        BY <2>1 DEF AllBacked, Backed
<1>5. PhasesFollow
    BY <1>1 DEF PhasesFollow
<1>. QED
    BY <1>3, <1>4, <1>5 DEF Supported, Init, NothingThrown

(* A node repeats what it notes before it takes the next phase, so the     *)
(* messages of that phase never overtake what they rest on.                *)
LEMMA SupportedStep ==
    ASSUME PhasesInv, PhasesInv', BlocksFoundValid, Supported, Quorum = Cardinality(Node), [Next]_vars
    PROVE  Supported'
<1>1. Typed'
    BY DEF PhasesInv
<1>2. ASSUME NEW s \in Node, NEW d \in Node, HandleLedgerMessage(s, d) PROVE Supported'
    BY <1>1, <1>2, TransactionSupported, PrePrepareSupported, PrepareSupported, CommitSupported,
       RoundChangeSupported, IgnoreSupported, NoneThrows DEF HandleLedgerMessage
<1>. QED
    BY <1>2, ApartSupported DEF Next, Deliver

(* With up to three validators no handler throws, whatever overtakes what  *)
(* on different links, as long as every node that reads a proposal finds   *)
(* its block valid or has pooled it: a node that turns a new block away    *)
(* lacks the lists its next messages look up (consesnsus.ts:299-389).      *)
THEOREM NothingThrownOfThree ==
    ASSUME Cardinality(Node) <= 3
    PROVE  Spec /\ []BlocksFoundValid => []NothingThrown
<1>1. Init => Supported
    BY SupportedInit
<1>2. PhasesInv /\ PhasesInv' /\ BlocksFoundValid /\ Supported /\ [Next]_vars => Supported'
    BY SupportedStep, QuorumIsEveryone
<1>3. Supported => NothingThrown
    BY DEF Supported
<1>. QED
    BY <1>1, <1>2, <1>3, PhasesInvariant, PTL DEF Spec
===============================================================================
