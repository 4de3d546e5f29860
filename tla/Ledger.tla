-------------------------------- MODULE Ledger --------------------------------
(***************************************************************************)
(* The pBFT ledger of the validators: transactions are gossiped, the       *)
(* leader proposes a block of its pool, and pre-prepare, prepare, commit   *)
(* and round-change messages take it to every chain                        *)
(* (src/consensus/consesnsus.ts, src/consensus/pBft, src/wallet).  A round *)
(* ends by calling electNewLeader, so the module extends Election and      *)
(* shares its links and its leader.                                        *)
(*                                                                         *)
(* A block is named by its hash, and a hash by the order of creation: 0 is *)
(* the genesis block, k the k-th proposal.  Signatures are those of honest *)
(* nodes, so a message is by the node it names.  A message pool keeps one  *)
(* list per hash; the list exists as soon as the node's own message is in  *)
(* it, so the empty set stands for the missing list.  A handler that meets *)
(* a missing list throws: nothing catches that, and the process begins to  *)
(* take its own port out of the "validators" key of Redis (module          *)
(* Registry) and carries on.                                               *)
(***************************************************************************)
EXTENDS Election, Registry

CONSTANTS
    Tx,             \* transactions
    Override,       \* those created with the override flag
    MaxBlocks,      \* bound: proposals ever made
    MaxBacklog      \* bound: packets and Redis answers a node retries with

ASSUME LedgerAssumption ==
    /\ IsFiniteSet(Tx)
    /\ Override \subseteq Tx
    /\ MaxBlocks \in Nat
    /\ MaxBacklog \in Nat

VARIABLES
    chain,          \* the hashes of each node's chain
    txPool,         \* transactionPool.transactions
    blockPool,      \* blockPool.list, as hashes
    preparePool,    \* preparePool.list[hash], as the authors of its messages
    commitPool,     \* commitPool.list[hash]
    messagePool,    \* messagePool.list[hash]: round changes
    clearing,       \* round changes that await their 500 ms delay
    blocks,         \* what each proposal holds
    created,        \* transactions created so far
    registry,       \* the "validators" key of Redis
    redisChain      \* the "chain" key of Redis

poolVars == <<txPool, blockPool, preparePool, commitPool, messagePool>>
ledgerVars == <<chain, poolVars, clearing, blocks, created, registry, redisChain>>
vars == <<electionVars, ledgerVars>>
electionState == <<leader, votes, electing, announcing, redisLeader, requests>>

-------------------------------------------------------------------------------
Hash == 0..MaxBlocks
Genesis == 0
Block == [last : Hash, seq : Nat, txs : SUBSET Tx, proposer : Node]

(* Math.ceil(n * 0.67), in integers: equal for every n below 100. *)
QuorumTwoThirds(n) == (2 * n + 2) \div 3    \* a mutant: two thirds, rounded up
QuorumOf(n) == (67 * n + 99) \div 100
Quorum == QuorumOf(Cardinality(Node))
QuorumNearly(authors) == Cardinality(authors) >= Quorum - 1    \* a mutant: one too few
QuorumReached(authors) == Cardinality(authors) >= Quorum

Tip(n) == chain[n][Len(chain[n])]
SeqOf(h) == IF h = Genesis THEN 0 ELSE blocks[h].seq

(* isValidBlock: the block extends the tip and its proposer leads. *)
ValidBlock(n, h) ==
    /\ blocks[h].seq = SeqOf(Tip(n)) + 1
    /\ blocks[h].last = Tip(n)
    /\ blocks[h].proposer = leader[n]

(* What a message of each phase says: its hash, and who signed it. *)
TransactionOf(t) == [type |-> "transaction", tx |-> t]
PrePrepareOf(h) == [type |-> "pre_prepare", hash |-> h]
PrepareUnsigned(h, n) == [type |-> "prepare", hash |-> h]    \* a mutant: no author
PrepareOf(h, n) == [type |-> "prepare", hash |-> h, by |-> n]
CommitOf(h, n) == [type |-> "commit", hash |-> h, by |-> n]
RoundChangeOf(h, n) == [type |-> "round_change", hash |-> h, by |-> n]
LedgerMessage ==
    [type : {"transaction"}, tx : Tx]
        \cup [type : {"pre_prepare"}, hash : Hash \ {Genesis}]
        \cup [type : {"prepare", "commit", "round_change"}, hash : Hash \ {Genesis}, by : Node]
Message == ElectionMessage \cup LedgerMessage

Init ==
    /\ ElectionInit
    /\ chain = [n \in Node |-> <<Genesis>>]
    /\ txPool = [n \in Node |-> {}]
    /\ blockPool = [n \in Node |-> {}]
    /\ preparePool = [n \in Node |-> [h \in Hash |-> {}]]
    /\ commitPool = [n \in Node |-> [h \in Hash |-> {}]]
    /\ messagePool = [n \in Node |-> [h \in Hash |-> {}]]
    /\ clearing = [n \in Node |-> 0]
    /\ blocks = <<>>
    /\ created = {}
    /\ registry = Listing(Node)
    /\ redisChain = <<Genesis>>

(* pool with the list of hash h at node n replaced by the set of authors.  *)
Relisted(pool, n, h, authors) == [pool EXCEPT ![n] = [pool[n] EXCEPT ![h] = authors]]

(* d takes the oldest packet from s and sends the messages of out to all. *)
Reply(s, d, out) == links' = Broadcast(Taken(links, s, d), d, out)

(* The oldest packet from s to d, of the given type. *)
Receives(s, d, type) == links[s][d] # <<>> /\ Head(links[s][d]).type = type

-------------------------------------------------------------------------------
(***************************************************************************)
(* Transactions.  A client creates one at any node: it enters the node's   *)
(* own pool at once, without the checks of the handler, and goes to all.   *)
(***************************************************************************)
CreateTransaction(n, t) ==
    /\ t \notin created
    /\ created' = created \cup {t}
    /\ txPool' = [txPool EXCEPT ![n] = txPool[n] \cup {t}]
    /\ links' = Broadcast(links, n, <<TransactionOf(t)>>)
    /\ UNCHANGED <<electionState, chain, blockPool, preparePool, commitPool, messagePool,
                   clearing, blocks, registry, redisChain>>

(* A mutant of ThresholdReached: the flag is lost. *)
ThresholdWithoutFlag(n, t) == Cardinality(txPool[n] \cup {t}) >= Quorum

(* addTransaction: the pool reaches the threshold, or the flag overrides it. *)
ThresholdReached(n, t) ==
    t \in Override \/ Cardinality(txPool[n] \cup {t}) >= Quorum

HandleNewTransaction(s, d) ==
    /\ Receives(s, d, "transaction")
    /\ LET t == Head(links[s][d]).tx
           proposal == [last |-> Tip(d), seq |-> SeqOf(Tip(d)) + 1,
                        txs |-> txPool[d] \cup {t}, proposer |-> d]
       IN  /\ t \notin txPool[d]
           /\ txPool' = [txPool EXCEPT ![d] = txPool[d] \cup {t}]
           /\ \/ /\ ~ ThresholdReached(d, t)
                 /\ Reply(s, d, <<>>)
                 /\ UNCHANGED blocks
              \/ /\ ThresholdReached(d, t) /\ leader[d] # d
                 /\ Reply(s, d, <<TransactionOf(t)>>)
                 /\ UNCHANGED blocks
              \/ /\ ThresholdReached(d, t) /\ leader[d] = d
                 /\ Len(blocks) < MaxBlocks
                 /\ blocks' = Append(blocks, proposal)
                 /\ Reply(s, d, <<TransactionOf(t), PrePrepareOf(Len(blocks) + 1)>>)
    /\ UNCHANGED <<electionState, chain, blockPool, preparePool, commitPool, messagePool,
                   clearing, created, registry, redisChain>>

-------------------------------------------------------------------------------
(* Pre-prepare: the node pools a valid new block, repeats it and prepares. *)
HandleNewBlockPrePrepare(s, d) ==
    /\ Receives(s, d, "pre_prepare")
    /\ LET h == Head(links[s][d]).hash
       IN  /\ h \notin blockPool[d]
           /\ ValidBlock(d, h)
           /\ blockPool' = [blockPool EXCEPT ![d] = blockPool[d] \cup {h}]
           /\ preparePool' = Relisted(preparePool, d, h, {d})
           /\ Reply(s, d, <<PrePrepareOf(h), PrepareOf(h, d)>>)
    /\ UNCHANGED <<electionState, chain, txPool, commitPool, messagePool,
                   clearing, blocks, created, registry, redisChain>>

(***************************************************************************)
(* Prepare: with a quorum in the list the node commits, and starts its     *)
(* list of commits anew: so does every further prepare.                    *)
(***************************************************************************)
HandleNewBlockPrepare(s, d) ==
    /\ Receives(s, d, "prepare")
    /\ LET m == Head(links[s][d])
           authors == preparePool[d][m.hash] \cup {m.by}
       IN  /\ m.by \notin preparePool[d][m.hash]
           /\ preparePool[d][m.hash] # {}
           /\ preparePool' = Relisted(preparePool, d, m.hash, authors)
           /\ \/ /\ ~ QuorumReached(authors)
                 /\ Reply(s, d, <<m>>)
                 /\ UNCHANGED commitPool
              \/ /\ QuorumReached(authors)
                 /\ commitPool' = Relisted(commitPool, d, m.hash, {d})
                 /\ Reply(s, d, <<m, CommitOf(m.hash, d)>>)
    /\ UNCHANGED <<electionState, chain, txPool, blockPool, messagePool,
                   clearing, blocks, created, registry, redisChain>>

(* Commit: each commit from the quorum on appends the block to the chain.  *)
HandleNewBlockCommit(s, d) ==
    /\ Receives(s, d, "commit")
    /\ LET m == Head(links[s][d])
           authors == commitPool[d][m.hash] \cup {m.by}
       IN  /\ m.by \notin commitPool[d][m.hash]
           /\ commitPool[d][m.hash] # {}
           /\ commitPool' = Relisted(commitPool, d, m.hash, authors)
           /\ \/ /\ ~ QuorumReached(authors)
                 /\ Reply(s, d, <<m>>)
                 /\ UNCHANGED <<chain, redisChain, messagePool>>
              \/ /\ QuorumReached(authors)
                 /\ chain' = [chain EXCEPT ![d] = Append(chain[d], m.hash)]
                 /\ redisChain' = Append(chain[d], m.hash)
                 /\ messagePool' = Relisted(messagePool, d, m.hash, {d})
                 /\ Reply(s, d, <<m, RoundChangeOf(m.hash, d)>>)
    /\ UNCHANGED <<electionState, txPool, blockPool, preparePool,
                   clearing, blocks, created, registry>>

(* Round change: with a quorum of them the node starts its 500 ms delay.   *)
HandleNewRoundChange(s, d) ==
    /\ Receives(s, d, "round_change")
    /\ LET m == Head(links[s][d])
           authors == messagePool[d][m.hash] \cup {m.by}
       IN  /\ m.by \notin messagePool[d][m.hash]
           /\ messagePool[d][m.hash] # {}
           /\ messagePool' = Relisted(messagePool, d, m.hash, authors)
           /\ clearing' = IF QuorumReached(authors)
                        THEN [clearing EXCEPT ![d] = clearing[d] + 1]
                        ELSE clearing
           /\ Reply(s, d, <<m>>)
    /\ UNCHANGED <<electionState, chain, txPool, blockPool, preparePool, commitPool,
                   blocks, created, registry, redisChain>>

(* The delay is over: the pool is emptied, whatever is in it by now, and a *)
(* leader with a pool to empty calls for an election.                      *)
FinishRound(n) ==
    /\ clearing[n] > 0
    /\ clearing' = [clearing EXCEPT ![n] = clearing[n] - 1]
    /\ txPool' = [txPool EXCEPT ![n] = {}]
    /\ IF leader[n] = n /\ txPool[n] # {}
       THEN ElectNewLeader(n)
       ELSE UNCHANGED <<electing, redisLeader>>
    /\ UNCHANGED <<leader, votes, announcing, requests, links, chain, blockPool, preparePool,
                   commitPool, messagePool, blocks, created, registry, redisChain>>

-------------------------------------------------------------------------------
(***************************************************************************)
(* What the handlers turn away at their first condition: a message that is *)
(* pooled already, and a block that is known or not valid.                 *)
(***************************************************************************)
TurnedAway(d, m) ==
    \/ m.type = "transaction" /\ m.tx \in txPool[d]
    \/ m.type = "pre_prepare" /\ (m.hash \in blockPool[d] \/ ~ ValidBlock(d, m.hash))
    \/ m.type = "prepare" /\ m.by \in preparePool[d][m.hash]
    \/ m.type = "commit" /\ m.by \in commitPool[d][m.hash]
    \/ m.type = "round_change" /\ m.by \in messagePool[d][m.hash]

IgnoreMessage(s, d) ==
    /\ links[s][d] # <<>>
    /\ TurnedAway(d, Head(links[s][d]))
    /\ Reply(s, d, <<>>)
    /\ UNCHANGED <<electionState, ledgerVars>>

(***************************************************************************)
(* A prepare or a round change without a list: addMessage leaves it out,   *)
(* the message goes to all again, the sender included, and reading the     *)
(* length of the list throws.                                              *)
(***************************************************************************)
ThrowAfterRepeat(s, d) ==
    /\ links[s][d] # <<>>
    /\ LET m == Head(links[s][d])
       IN  /\ \/ m.type = "prepare" /\ preparePool[d][m.hash] = {}
              \/ m.type = "round_change" /\ messagePool[d][m.hash] = {}
           /\ Len(links[d][d]) < MaxBacklog /\ Len(registry.reads[d]) < MaxBacklog
           /\ Reply(s, d, <<m>>)
    /\ registry' = ReadBy(registry, d)
    /\ UNCHANGED <<electionState, chain, poolVars, clearing, blocks, created, redisChain>>

(* A commit without a list: addMessage itself throws, and it is lost here. *)
ThrowOnCommit(s, d) ==
    /\ Receives(s, d, "commit")
    /\ commitPool[d][Head(links[s][d]).hash] = {}
    /\ Reply(s, d, <<>>)
    /\ registry' = ReadBy(registry, d)
    /\ UNCHANGED <<electionState, chain, poolVars, clearing, blocks, created, redisChain>>

(* Redis has answered a node that has thrown: it writes the list back. *)
UpdatePeerReplica(n) ==
    /\ HasRead(registry, n)
    /\ registry' = WrittenBy(registry, n)
    /\ UNCHANGED <<electionVars, chain, poolVars, clearing, blocks, created, redisChain>>

-------------------------------------------------------------------------------
(* One packet handled by d, and what the code takes up by itself at n. *)
HandleLedgerMessage(s, d) ==
    \/ HandleNewTransaction(s, d)
    \/ HandleNewBlockPrePrepare(s, d)
    \/ HandleNewBlockPrepare(s, d)
    \/ HandleNewBlockCommit(s, d)
    \/ HandleNewRoundChange(s, d)
    \/ IgnoreMessage(s, d)
    \/ ThrowAfterRepeat(s, d)
    \/ ThrowOnCommit(s, d)

Deliver(s, d) ==
    \/ HandleLedgerMessage(s, d)
    \/ HandleElectionMessage(s, d) /\ UNCHANGED ledgerVars
Resume(n) ==
    \/ FinishRound(n)
    \/ UpdatePeerReplica(n)
    \/ ResumeElection(n) /\ UNCHANGED ledgerVars

Next ==
    \/ \E n \in Node : \E t \in Tx : CreateTransaction(n, t)
    \/ \E n \in Node : RequestElection(n) /\ UNCHANGED ledgerVars
    \/ \E n \in Node : Resume(n)
    \/ \E s, d \in Node : Deliver(s, d)

Spec == Init /\ [][Next]_vars
Fairness ==
    /\ \A n \in Node : WF_vars(Resume(n))
    /\ \A s, d \in Node : WF_vars(Deliver(s, d))
FairSpec == Spec /\ Fairness

-------------------------------------------------------------------------------
(* Types of the ledger state. *)
TypeOK ==
    /\ leader \in [Node -> Node]
    /\ votes \in [Node -> Seq(Vote)]
    /\ electing \in [Node -> Seq(Node)]
    /\ announcing \in [Node -> Nat]
    /\ redisLeader \in Node
    /\ requests \in 0..MaxRequests
    /\ links \in [Node -> [Node -> Seq(Message)]]
    /\ chain \in [Node -> Seq(Hash)]
    /\ txPool \in [Node -> SUBSET Tx]
    /\ blockPool \in [Node -> SUBSET (Hash \ {Genesis})]
    /\ preparePool \in [Node -> [Hash -> SUBSET Node]]
    /\ commitPool \in [Node -> [Hash -> SUBSET Node]]
    /\ messagePool \in [Node -> [Hash -> SUBSET Node]]
    /\ clearing \in [Node -> Nat]
    /\ blocks \in Seq(Block)
    /\ Len(blocks) \in Hash
    /\ created \in SUBSET Tx
    /\ registry \in RegistryOf(Node)
    /\ redisChain \in Seq(Hash)

(* What the chain of node n holds besides the genesis block. *)
Appended(n) == {chain[n][i] : i \in 2..Len(chain[n])}

(* The lists of a node fill in the order of the phases: a node that lists  *)
(* commits of a block holds a quorum of its prepares, one that appended it *)
(* lists its commits, and one that lists round changes appended it.  So    *)
(* addUpdatedBlock (consesnsus.ts:51-61) never looks up a block the block  *)
(* pool lacks, and never attaches a list that is missing.                  *)
PhasesInOrder ==
    \A n \in Node, h \in Hash \ {Genesis} :
        /\ preparePool[n][h] # {} <=> h \in blockPool[n]
        /\ commitPool[n][h] # {} => Cardinality(preparePool[n][h]) >= Quorum
        /\ h \in Appended(n) => commitPool[n][h] # {}
        /\ messagePool[n][h] # {} => h \in Appended(n)

(* The validators that committed h, and those that pooled it as valid. *)
Committers(h) == {n \in Node : commitPool[n][h] # {}}
Endorsers(h) == {n \in Node : h \in blockPool[n]}

(* No chain gets ahead of the votes: a block is in a chain only when a     *)
(* quorum of validators committed it, each of them only when a quorum had  *)
(* found it valid, however packets of the phases overtake one another on   *)
(* different links and whatever handlers throw (consesnsus.ts:299-374).    *)
Certified ==
    \A h \in Hash \ {Genesis} :
        /\ (\E n \in Node : h \in Appended(n)) => Cardinality(Committers(h)) >= Quorum
        /\ Committers(h) # {} => Cardinality(Endorsers(h)) >= Quorum

(* Every author a node lists did take that step itself: prepares are of    *)
(* validators that pooled the block, commits of ones that committed it,    *)
(* round changes of ones that appended it.                                 *)
ListedAuthors ==
    \A n \in Node, h \in Hash \ {Genesis} :
        /\ preparePool[n][h] \subseteq Endorsers(h)
        /\ commitPool[n][h] \subseteq Committers(h)
        /\ messagePool[n][h] \subseteq {k \in Node : h \in Appended(k)}

(* isValidChain (consesnsus.ts:85-100) of the node's own chain. *)
OwnChainValid ==
    \A n \in Node : \A i \in 2..Len(chain[n]) : blocks[chain[n][i]].last = chain[n][i - 1]

(* Nothing is under way, and no await or delay is pending. *)
Quiet == ElectionQuiet /\ \A n \in Node : clearing[n] = 0

(* No handler has thrown: each message finds the lists it needs, because   *)
(* every node repeats a message before it takes the next phase             *)
(* (consesnsus.ts:325-331, 355-360, 384-389).                              *)
NothingThrown == registry = Listing(Node)

(* A node that reads the proposal of a block finds the block valid, or has *)
(* pooled it before (consesnsus.ts:299-303).                               *)
BlocksFoundValid ==
    \A s, d \in Node :
        Receives(s, d, "pre_prepare") =>
            LET h == Head(links[s][d]).hash
            IN  h \in blockPool[d] \/ ValidBlock(d, h)

(* No round has a block that a node turns away, and one that is over has   *)
(* emptied every pool, left the same valid chain with every node and with  *)
(* Redis, put every transaction into one block of it, and made the same    *)
(* leader known to all.                                                    *)
RoundsSettle ==
    /\ BlocksFoundValid
    /\ Quiet =>
          /\ OwnChainValid
          /\ \A n \in Node : chain[n] = redisChain /\ leader[n] = redisLeader /\ txPool[n] = {}
          /\ \A t \in created :
                Cardinality({i \in 2..Len(redisChain) : t \in blocks[redisChain[i]].txs}) = 1

(* A node never drops commits it has collected (commitPool.ts:11-16 starts *)
(* the list anew on every call of message).                                *)
CommitsKept ==
    [][\A n \in Node, h \in Hash : commitPool[n][h] \subseteq commitPool'[n][h]]_vars

(* The transactions in the chain of node n. *)
Recorded(n) == UNION {blocks[h].txs : h \in Appended(n)}

(* A transaction that is created ends in a block of every chain, and the   *)
(* round that brings it there ends with another leader than its proposer   *)
(* (consesnsus.ts:276-405, 139-274).                                       *)
RoundsComplete ==
    \A t \in Tx :
        (t \in created /\ \A n \in Node : t \notin Recorded(n))
            ~> \A n \in Node : \E h \in Appended(n) :
                   t \in blocks[h].txs /\ leader[n] # blocks[h].proposer

(* Every keygen session that concludes, and so submits its proof, brings a *)
(* new block (README.md:42).                                               *)
EverySessionMakesBlock ==
    Quiet => \A t \in created : \A n \in Node : t \in Recorded(n)

(* The ledger keeps the promise of QuorumLog: a validator endorses a block *)
(* by pooling it and votes for it by starting a list of commits.           *)
Promise == INSTANCE QuorumLog WITH
    Validator <- Node, Proposal <- Hash \ {Genesis}, First <- Genesis, Majority <- Quorum,
    endorsed <- [h \in Hash \ {Genesis} |-> Endorsers(h)],
    voted <- [h \in Hash \ {Genesis} |-> Committers(h)],
    log <- chain
KeepsPromise == Promise!LogSpec
===============================================================================
