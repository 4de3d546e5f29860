# A verification of Threshold-sig-Multiparty-DSA

The repository is a network of validators that generate a threshold ECDSA key
together, sign with it, and record what they did in a small pBFT ledger. This
directory holds TLA+ modules of its protocols, TLC configurations that check
them on small instances, and proofs that TLAPS checks for every instance. Paths
below are relative to the repository root (`src/` is its source tree) and a bare
file name with a line, as in `consesnsus.ts:217`, is below `src/`.

## 1. The system and its parts

Every validator is one Node process. It runs an HTTP server, a WebSocket server
and a client connection to every other validator and to itself; all of them
share one Redis. Nothing in a process runs in parallel, but every `await` and
every `delay(...)` lets other handlers run.

| part | state it keeps | operations |
|---|---|---|
| Message transport (`p2p/server.ts`, `p2p/eventEmitter.ts`) | `connections`, `neighbors`, `seenMessages` | `broadcast`, `sendDirect`, the `message` listener |
| Membership (`p2p/server.ts:70-222`, `p2p/validators`) | `ValidatorsGroup.validators`, `validators`, `threshold` | handshake, connect, disconnect, `updateReplica` |
| Validator registry (`protocol/index.ts`, `db/redis.ts`) | the Redis keys `validators`, `leader`, `chain` | `updatePeerReplica`, get and set |
| Leader election (`consensus/consesnsus.ts:139-274`) | `leader`, `votes`, the Redis key `leader` | `electNewLeader` and three message handlers |
| Transactions (`wallet/`) | `transactionPool.transactions` | create, gossip, threshold, clear |
| pBFT ledger (`consensus/`) | `chain`, `blockPool`, three message pools | five message handlers, the round change |
| Chain synchronisation (`consesnsus.ts:102-121, 160-172`) | `chain` | `replaceChain`, `resetState`, the chain read at a handshake |
| Keygen session (`protocol/keygenProtocol.ts`, `abstractProtocolHnadler.ts`) | rounds, two message queues, proofs, `sessionInitialized` | start, round, direct message, end |
| Sign session (`protocol/signingProtocol.ts`) | as the keygen session, in a new manager per request; the rounds' objects | start, round, direct message, end |
| Rounds (`mpc/keygen`, `mpc/signing`) | the key share, the session's hash, what each round keeps for the next | five rounds of each kind |
| Arithmetic and proofs (`mpc/math`, `mpc/paillierKeyPair`, `mpc/zk`) | none | polynomials, interpolation, Paillier, eight kinds of proof |
| HTTP routes, JSON-RPC, Bitcoin adapter | none of the protocol | entry points and I/O |

How they interact: a keygen session ends with `POST /create-transaction` at
`validators[0]`, which pools a transaction of the proofs and broadcasts it. A
handler that has enough of them makes the leader broadcast a block
(`pre_prepare`); `prepare`, `commit` and `round_change` messages take it to
every chain. The last round change waits 500 ms, empties the pool and, at the
leader, calls `electNewLeader`, which asks every validator for a vote and
broadcasts the winner. An election is also called by `POST /elect-leader`, by
the end of a keygen session and by the loss of the leader's connection.

What is hard here: every handler broadcasts what it handled again, so each
message reaches a node once from every peer, in an order that differs between
links; handlers read lists that only the node's own earlier step creates; three
timers (200, 500 and 1500 ms) stand where a protocol would have an
acknowledgement; the leader of a round is read, awaited for and used afterwards;
with three validators a quorum is everybody and with four it is not. The hazards
are listed with their lines in `PROJECT.json`.

What makes each part correct: a leader election ends with one leader whom all
nodes and Redis name, who is not the old one; a block is in a chain only when a
quorum of validators committed it and each of them saw a quorum find it valid;
every round ends, with the same chain everywhere, each transaction in it once,
and empty pools; no handler meets a list that is missing; a session reaches its
last round at every node with the same key, and leaves nothing that stops the
next one; no number that must be used once signs twice, and a signature is made
of one session's shares; listed validators know the same validators, in the same
order, with one leader and one chain, whoever has come and gone; an honest proof
holds, the shares of a key belong to it, and the shares of a product add up to
it.

## 2. The modules

| module | what it is |
|---|---|
| `Links` | the connections: one FIFO queue from each node to each node, the node itself included |
| `Registry` | the list of ports in Redis as the handlers that throw leave it; EXTENDED by `Ledger`, `KeygenSession` and `SignSession` |
| `Election` | leader election over `Links` |
| `Ledger` | transactions, pBFT phases and the round change; EXTENDS `Election`, whose links and leader it shares |
| `QuorumLog` | the abstract specification: blocks enter logs only by quorums of votes |
| `Membership` | processes, connections, handshakes, the Redis keys and what a connect or disconnect makes of them, the chain a node takes over |
| `KeygenSession` | key generation sessions: start, five rounds, end; EXTENDS `Election`, which a session's end calls |
| `Lockstep` | the abstract specification: nobody publishes a round before all have published the one before |
| `SignSession` | signing sessions: requests, their managers, five rounds over objects that outlive them, end |
| `Sharing` | the scalar field, polynomials, interpolation, ECDSA, over any prime order |
| `Paillier` | Paillier keys and encryption, Pedersen parameters, the number theory below them |
| `ZkProofs` | the proofs: what a prover sends and what a verifier asks of it |
| `KeyRounds`, `SignRounds` | what the parties compute in the rounds of a key generation and of a signature with its key |
| `MCElection`, `MCLedger`, `MCMembership`, `MCKeygen`, `MCSign`, `MCRounds` | instances for TLC: sets, and the schedules described in section 3 |
| `LinksProof`, `ElectionProof`, `LedgerProof`, `MembershipProof`, `KeygenProof`, `SignProof` | lemmas and theorems about each (those on `Registry` are in `LinksProof`); `LedgerProof` has the proof that `Ledger` implements `QuorumLog`, `KeygenProof` that key generation sessions one after the other implement `Lockstep` |
| `ElectionTurns` | elections one after the other: that they settle |
| `GroupProof` | theorems about `Sharing` and the Schnorr proof of `ZkProofs` |

`SignSession` and `Membership` stand beside the others: what they share with
them is said under *What the modules assume*.

**Steps.** A handler runs to its first `await` in one action. What comes after
the `await` or the `delay` is an action of its own: `electNewLeader` is
`ElectNewLeader` and `OpenElection`, the end of an election `DecideElection` and
`AnnounceLeader`, the end of a round `HandleNewRoundChange` and `FinishRound`.
The variables `electing`, `announcing` and `clearing` hold what is still to be
done. The three `await`s that a message passes before
`handleBlockchainConsensusMessage` (`server.ts:319-321`) keep the order of the
messages of a link and are not steps.

**Links.** One link is one TCP connection, so it is FIFO; nothing orders two
links. A packet's `origin` is a uuid and never a port (`server.ts:108`), so the
transport repeats nothing by itself: the repetitions are those of the handlers.
A direct packet counts as seen once it is sent (`server.ts:253-254`), so the one
that a node sends to itself is dropped when it comes back (105) and `SendDirect`
leaves it out: a conductor's own vote is never counted. A broadcast is not noted
as seen, and the sender handles its own copy.

**Leaving the list.** A handler that throws is caught by nobody, and
`protocol/index.ts:45-51` has the process take its port out of the `validators`
key: it reads the list, awaits, and writes back what it read without its own
port. `Registry` holds the list and, for each port, the lists it has read and
not written yet: what throws is `ReadBy`, the rest is the action
`UpdatePeerReplica`, so of two that throw at once the second may put the first
back. Nothing else in these modules reads the list; it is what a node that
starts later would connect to. `Membership` has the same
read and write in its own continuations, beside those of starts and signals.

**Blocks and signatures.** A hash is the number of the proposal (0 is the
genesis block) and `blocks` says what each holds. `Block.hash` covers the time,
the last hash and the data; two proposals of one millisecond on one tip are not
distinguished by the code and are not modelled. Messages are those of honest
validators, so a signature is the name of its author, and a message pool keeps
for each hash the set of authors. The code has no list until the node's own
message is in it, and that entry never goes away, so the empty set stands for
the missing list: a prepare or a round change without a list is repeated and
then throws (`ThrowAfterRepeat`), a commit without one throws at once
(`ThrowOnCommit`). The rejection is unhandled, and the node sets out to leave
the Redis list: `registry`.

**Quorum.** `QuorumOf(n)` is `Math.ceil(n * 0.67)` in integers, equal for every
n below 100. It is 2 of 2, 3 of 3 (67 in 100 is above two thirds), 3 of 4.

**Election.** `VoteIndex(len)` is the range of
`Math.abs(Math.floor(Math.random() * len - 1))`: -1 counts as 1, so the last
eligible validator is never voted for when there are three or more, and with one
every ballot misses the list (`FailVote`). `Wins` keeps the lowest port of those
that tie, as the ascending order of integer keys does in `for ... in`.
`SessionFlag` is the set of values that `sessionInitialized` of the keygen
session may have when `electNewLeader` reads it, where no session is modelled
(`KeygenSession` gives `OpenElectionWhen` the real one); `RequestElection` is a
call of `electNewLeader` from outside the round: the HTTP route, the end of a
keygen session, the loss of a connection.

**Sessions.** `currentRound` is 0 while no session is active, which is when
`sessionInitialized` is false. Each delay is a variable that says what awaits
it: `starting` (500 ms before a session), `resting` (1500 ms before the verifier
of a round), `sharing` (500 ms before the direct messages), `waiting` (200 ms at
a time, until the direct messages are there), `ending` (200 ms before the
reset). `startNewSession` and `finalizeCurrentRound(0)` are `StartNewSession`; a
handled broadcast that is the last is `FinalizeCurrentRound`, with
`startNewRound` in it; what the verifier does in round k is `KeygenRound`k;
`FailRound` and `RefuseRound` are the ways it throws.

**What a node contributes to a key** is fresh in every session, so a commitment,
its opening and the share that belongs to it are named by the number of the
session of the node that made them. What the zero-knowledge proofs and hashes
decide is then whether two numbers are equal: an opening is kept if it is that
of the commitment (`Openings`), a share if it is of the polynomial that was
opened and its proof is about the same key (`Received`). A key is a function
from the validators to those numbers. The rounds are objects that outlive a
session (`keygenProtocol.ts:30`), and so do `commitments`, `opened` and
`shares`; the output of a round is checked only for being there, which it is
once any session has filled the record (`FailRound` otherwise). The queues and
the last round's `proofs` are those of the manager. A message is stored under
the reader's round (`Stored`), with its own round kept so that the next round
can turn it away.

**Signing.** Every `signSessionInit` makes a new `SigningSessionManager`
(`server.ts:311`), while the timers of the one before go on: `managers[n]` is
the list of those, the last one in use. The rounds' objects are made once for
the process (`mpc/signing/index.ts:23-30`), so `store` belongs to the node and
every manager works on it. What a node draws is named by its number: `picks` (k
and gamma), `masks` (the betas), and `contributions` and `sigmas` record what
each delta and each share of s was made of. A proof holds when the numbers it
speaks of are those the verifier has. A broadcast that has to wait takes with it
the list of rounds whose hashes are still to be made (`rounds`), and makes them
when it is through. Unlike those of a key generation the handlers throw what
they catch, and the node leaves the list of `registry`. `keyParties` is who held
a share when the key was made.

**Membership.** A connection has two ends, and a node connects to itself too, so
an end is named by its client, its server, the client's life and its side;
`wires` are the open ends with the packets on their way to each, and `neighbors`
says on which end a port last shook hands. Redis applies a command when it is
issued and a client's replies come in that order, so `awaiting` is a queue of
continuations, each with what the reply says: `updatePeerReplica` is `InitList`
and `UpdatePeerReplica`, a connect or a disconnect `ReadLeader` and
`UpdateReplica`, a handshake `Handshake` and `HandlePeerConnection`. SIGINT and
SIGTERM are `Interrupt`, an end without either `Kill`. What blocks do to the
chain meanwhile is `Certify` and `AddBlock`, each node appending in its own
time.

**Rounds and proofs.** A point of the curve is its multiple of the base point in
a group of order `Order`, written additively: nothing in the protocols reads
coordinates but x and the parity of y of R, which `X` and `PublicPoint` stand
for. Paillier numbers are numbers, and only lengths are parameters. A hash is
what was hashed: a proof carries what its prover asked the hash (`Asks`), the
verifier asks its own, and gets another challenge if it asks anything else. A
round's action has as conjuncts whatever would throw; what is only written to
the log goes to `refused` and what a promise nobody awaits comes to goes to
`modResult`.

**What the modules assume.** `Election`, `Ledger` and the sessions: all
validators are connected throughout, and Redis holds a leader that every node
starts from (`FirstLeader`); that a change of membership may come in the middle
of a round is `Membership`'s subject, which has no rounds. A Redis command takes
effect when it is issued. `KeygenSession` leaves the ledger out: `posted` counts
the transactions that `verifyAndEndSession` creates, and the answer to its own
request comes. `KeyRounds` and `SignRounds` begin where the sessions' properties
end: every round has all of the messages of the one before, of one session.
Draws by which a step would multiply by zero are not among those of the
instance: at the real size they have negligible probability.

**Bounds.** `MaxRequests`: elections from outside. `MaxStarts`: calls of `POST
/start`. `MaxBlocks`: proposals. `MaxOps`: starts, signals, kills, resets and
blocks of `Membership`. `MaxBacklog`: packets on a node's link to itself at
which it stops repeating a message that throws, since such a message comes back
for ever, and answers of Redis that it awaits for the same reason. All are
guards, and the theorems hold for all their values.

## 3. What the runs check

`tlc -config <cfg> <module>` for each row; deadlock is not checked because the
system is at rest when clients ask for nothing more.

| run | instance | states | shows |
|---|---|---|---|
| `election` | 3 validators, 2 elections that overlap or do not, session flag either way | 7 152 | `ElectionTypeOK`, `NoVoteForConductor`, `LeaderStepsDown`; in turn `ElectionSettles` and `RotatesLeader` |
| `membership` | 3 processes, 5 operations, 2 blocks | 340 021 | `MembershipTypeOK`, `NeighborsOpen`, `Mutual`, `JoinsMesh`; in turn `ListsAgree`, `LeaderOfRedis`, `ChainOfRedis`, `OwnChainValid` |
| `rounds` | 3 validators, 2 transactions, 2 whole rounds with their elections | 43 665 | `NothingThrown`, `RoundsSettle`, `CommitsKept`, `RoundsComplete` |
| `pair` | 2 validators, the whole of `Spec`, 1 transaction, 1 election from outside | 192 684 | `TypeOK`, `PairKeepsLeader` |
| `four` | 4 validators, 2 transactions of node 2 at any moment, one order of delivery | 37 656 | `PhasesInOrder`, `Certified`, `KeepsPromise` |
| `session_serial` | 3 validators, 2 sessions one after another, with their elections | 71 538 | `ConcludedKey`, `NothingLeft`, `SessionEnds`, `SessionRotatesLeader` |
| `session_slow` | 3 validators, one of them as slow as it likes, 1 session and its election | 230 454 | `KeygenInv`, `KeepsStep` |
| `session_pair` | 2 validators, 2 starts and 1 election at any moment | 11 815 | `RefusedSessionStays` |
| `sign` | 3 validators, one of them perhaps not in the key, up to 3 requests | 32 861 | `NonceUsedOnce`, `SignInv`, `LaterSessionEnds`, `NewcomerUnlistsNodes` |
| `ceremony` | 3 parties, a group of order 7, a modulus of 7 * 23, 6 choices of all draws | 540 | `HonestProofsHold`, `ModProofFailsForLargeW`, `SharesMatchKey`, `KeyMissesLastCoefficients`, `ProductsShared`, `SignatureRecovers`, `CeremonyEnds` |
| `leader_submits` | 3 validators, a transaction anywhere | violation | `EverySessionMakesBlock` fails |
| `four_commits` | 4 validators, 1 transaction | violation | `OwnChainValid` fails |

`ElectionSettles` says that when an election is over all nodes and Redis name
one leader and no vote is left anywhere. `RefusedSessionStays` and
`NewcomerUnlistsNodes` are about what all nodes do at once when a session cannot
be held: each port is out of the list at some moment after the request, and from
some moment on the list is never whole again. They do not say that every port is
out in the end, since the removals may overwrite each other: of two nodes that
read the full list, the later writer leaves the other one in.
`RefusedSessionStays` also says that the session stays active for ever.
`KeygenInv` and `SignInv` are the types of a session together with what a
concluded session is made of (`ConcludedKey`, `ConcludedSignature`); `SignInv`
also says that requests come in turn (`RequestsInTurn`), which is what the proof
of `NonceUsedOnce` asks of a schedule. `RoundsSettle` says that no node turns
the block of a round away (`BlocksFoundValid`), and what a round leaves behind:
one chain at every node and in Redis that passes `isValidChain`, with every
transaction once, and empty pools.

**Schedules.** `pair` and `session_pair` check the specification as it is,
`ceremony` too. The others add one of these, from the MC modules:

- `serial` of `MCElection`, which may be true or not: an election from outside
  begins only when the last is over. Two elections of different nodes that
  overlap can leave the nodes with different leaders, so what is true of
  elections in turn is stated with `InTurn` in its name.
- `MCMembership`: an operation comes when the last one has settled, except that
  between two processes the last one of all may come at any moment
  (`overlapped`). Redis' replies and what a node sends to itself come first.
  Ports are started in order at first.
- `RoundsSpec`: transactions are created only between rounds, and a 500 ms delay
  ends only when no packet is under way, that of the round before that of its
  election. `SkipPooled` reads a message that will be turned away in every case
  first; at three validators no list loses an entry (`CommitsKeptOfThree`), so no
  state of the pools is missed.
- `FourthAhead`, an action constraint of `Spec` in the runs of four validators:
  packets for node 4 go first, then those of the lowest sender, so that one node
  is a block ahead when the next block is proposed and turns it away; only the
  moments at which node 2 creates transactions vary. Every order of delivery
  between four validators is out of TLC's reach; the properties of that run are
  proved for all of them.

- `SerialSpec` of `MCKeygen`: a session is asked for when nothing is under way,
  and the 1500 ms of a round outlast what they are there for: when they end
  everyone is in the round, and no packet or retry of an earlier round is left
  (`Settled`; a node's own message that still waits for the shares of the
  present round may be left). A session is reset when the round messages have
  been delivered. This is what the delays buy the code: packets on one host take
  a few milliseconds, and starts at the nodes differ by as much. Messages that
  will wait are read first, which changes no outcome: on its link or at its
  reader, such a message is handled only when the shares are there.
- `OneSlowReader`, an action constraint of `KeygenSpec`: nothing is assumed of
  node 3, whose packets and timers may be late by any number of rounds, nor of
  the timers of the others, but the others read at once. Here round messages
  come before the session (`DropRoundMessage`), a round fails for want of a
  commitment (`FailRound`), broadcasts are retried in later rounds and outlive
  the session (`DropWaiting`). What holds without any timing is `KeepsStep` and
  that a session that concludes has the right key; that it concludes needs the
  schedule above.
- `MCSign`: packets arrive within the 500 ms that follow a request or a round;
  the timers of 1500 ms that were set together end together (`due`), in any
  order and interleaved with what they send; packets whose handling has no
  choice go first, one at a time. A request comes when all is quiet, or in the
  500 ms of the one before, and a third one when that has got the nodes stuck.
  With a validator missing from the key what the nodes read and write of the
  Redis list interleaves freely (`RequestStep`). Otherwise a list that has been
  read is written at once (`UnlistFirst`), and a further request comes only where
  the list is whole or empty: no step of a session reads the list, and every
  state of the sessions is reached all the same.
  On this schedule some of the ways to throw are never taken (`RefuseBegin`,
  `RefuseRound`, `RefuseToFinalize`, `DropWaiting`, and `FailRound` from round
  3): they need a packet or a timer that is later than 1500 ms, or fewer than
  three validators.

**Why the bounds are enough.** Two rounds are what it takes for the leader of
the second to be another than the first's, for lists and votes of the first to
be there in the second, and for a second block to have the first as its tip.
Three validators are the least for a choice in an election and the least that
generate a key; four the least at which a quorum is not everyone; two are where
`FailVote` and `RefuseRound` happen. Two sessions are what it takes for the
rounds to hold something of an earlier one; a third request is the one after a
session that got stuck. Five operations on three processes let one be killed,
come back and be interrupted while the others know it. Seven leaves room for
three different nonzero ids and for polynomials of degree three; 7 * 23 is a
product of two primes that are 3 mod 4, as the code's are, on which nothing
wraps round; among the six choices of draws are both outcomes of the mod proof
and an s in either half.

**Fairness.** `ElectionFairness`, `MCFairness` and `Fairness` of `Ledger` are
weak fairness of each link's delivery and of each node's pending continuation:
TCP delivers, Redis answers (`UpdatePeerReplica`), and every timer and promise
of the event loop ends. Nothing is
assumed of clients. `RoundsSpec`, `SerialSpec`, `MCSpec` of `MCSign` and of
`MCMembership`, and `Ceremony` assume it of the schedule's step as a whole,
which is less; `KeygenFairness`, for `session_pair`, of each continuation and
link.

**Findings.** `leader_submits`: the proof of a session is submitted at
`validators[0]`; when that node leads, no block is ever made of it, while
`README.md:42` says that every session makes one. `four_commits`: with the four
or five nodes of `README.md:67` one block is appended twice, and the chain fails
the code's own `isValidChain`.

Seen in the models, with no run of their own:

- `Ledger`: at three validators a leader that proposes twice before the first
  block is appended has both appended on one tip. `MCLedger`'s `rounds` run
  therefore creates transactions between rounds.
- `KeygenSession`: the test for an active session is made when an election is
  opened; a session that begins before the result is announced changes its
  leader on the way, against `consesnsus.ts:149`. One node submits the proofs of
  a session (`NothingLeft`), where `README.md:42` says that each does. A second
  `POST /start` is refused by a rejection that nobody handles, so that each
  connected validator sets out to leave the Redis list (`RefuseSession`).
- `SignSession`: two requests within 500 ms run two first rounds in one manager
  and get the session stuck, until a later request makes a new manager; with
  a validator that is in the list and not in the key everyone throws and sets out
  to leave the list (`NewcomerUnlistsNodes`); removals at once may undo each other.
- `Membership`: two processes that start at once may both read the list before
  either has written it; the later write loses the other port, the two never
  connect, and the lost one is in nobody's list, against `README.md:39`.
- `KeyRounds`: the polynomials have the degree `threshold`, the number of
  parties (`keygenSession.ts:52`), where `README.md:31` says one less. The key
  is consistent all the same (`SharesMatchKey`, `SignatureRecovers`): it is not
  the sum of the secrets chosen (`KeyMissesLastCoefficients`). The mod proof of
  a `w` that is not below the modulus fails (`ModProofFailsForLargeW`, about one
  honest draw in four at the precomputed primes), and nobody waits for the
  answer (`round4.ts:31`), where `README.md:36` says that the proofs are
  verified.

## 4. What is proved

Assumptions: those named in the modules. `ValidatorsAssumption`: nodes are
natural numbers and each is in the list `Validators` once. `ElectionAssumption`,
`LedgerAssumption` and `KeygenAssumption`: types of the constants. `Tx` is
finite, and any of its transactions may have the override flag.
`MembershipAssumption`: ports are positive numbers. `SharingAssumption`: the
order of the group is a prime above 2. `SignAssumption`: ports are integers and
there are finitely many. Nothing else is assumed about the number of validators,
proposals, elections or requests. The theorems about `ElectionSpec`,
`KeygenSpec` and each module's `Spec` are about every interleaving, without
fairness and without the schedules of section 3. Three say when they hold:
`SerialElections` and `TurnSpec` are a specification with the condition that
clients ask only when the last election or session is over, which leaves every
delay and every order of delivery free; `MaxStarts <= 1` (or `starts <= 1` in
the formula) is the same condition for the first session, which has none before
it. Two theorems of the ledger are about up to three validators, where
`Math.ceil(n * 0.67)` is n: with four of them TLC finds `CommitsKept` and
`NothingThrown` violated.

| theorem | module | states |
|---|---|---|
| `ElectionTypeCorrect` | `ElectionProof` | `ElectionSpec => []ElectionTypeOK` |
| `NoVoteForConductorHolds` | `ElectionProof` | `ElectionSpec => []NoVoteForConductor` |
| `LeaderStepsDownHolds` | `ElectionProof` | `ElectionSpec => LeaderStepsDown` |
| `SerialElectionsSettle` | `ElectionTurns` | `SerialElections => []ElectionSettles` |
| `ElectionSettlesInTurnHolds` | `ElectionTurns` | `MCSpec => []ElectionSettlesInTurn` (of `MCElection`) |
| `TypeCorrect` | `LedgerProof` | `Spec => []TypeOK` |
| `PhasesInOrderHolds` | `LedgerProof` | `Spec => []PhasesInOrder` |
| `ListedAuthorsHolds` | `LedgerProof` | `Spec => []ListedAuthors` |
| `CertifiedHolds` | `LedgerProof` | `Spec => []Certified` |
| `CommitsKeptOfThree` | `LedgerProof` | `Spec => CommitsKept` if `Cardinality(Node) <= 3` |
| `NothingThrownOfThree` | `LedgerProof` | `Spec /\ []BlocksFoundValid => []NothingThrown` if `Cardinality(Node) <= 3` |
| `PairKeepsLeaderHolds` | `LedgerProof` | `Spec => PairKeepsLeader` |
| `PromiseKept` | `LedgerProof` | `Spec => KeepsPromise` |
| `NeighborsOpenHolds` | `MembershipProof` | `Spec => []NeighborsOpen` |
| `MembershipTypeCorrect` | `MembershipProof` | `Spec => []MembershipTypeOK` |
| `KeygenTypeCorrect` | `KeygenProof` | `KeygenSpec => []KeygenTypeOK` |
| `TurnsKeepStep` | `KeygenProof` | `TurnSpec => KeepsStep` |
| `SessionKeepsStep` | `KeygenProof` | `KeygenSpec => KeepsStep` if `MaxStarts <= 1` |
| `FirstSessionConcludes` | `KeygenProof` | `KeygenSpec => [](starts <= 1 => ConcludedKey)` |
| `KeygenInvHolds` | `KeygenProof` | `KeygenSpec => []KeygenInv` if `MaxStarts <= 1` |
| `SignTypeCorrect` | `SignProof` | `SignSpec => []SignTypeOK` |
| `NonceUsedOnceInTurn` | `SignProof` | `SignSpec /\ []RequestsInTurn => []NonceUsedOnce` |
| `TimelyRequestsInTurn` | `SignProof` | `MCSpec => []RequestsInTurn` (of `MCSign`) |
| `NonceUsedOnceTimely` | `SignProof` | `MCSpec => []NonceUsedOnce` (of `MCSign`) |
| `EthereumFormRecovers` | `GroupProof` | a signature that verifies gives its key back in the form for Ethereum |
| `SchnorrAccepts` | `GroupProof` | an honest Schnorr proof is accepted, but for a zero response |
| `SchnorrExtracts` | `GroupProof` | two answers to one commitment give the logarithm |

**Types.** `TypeOK` is not inductive: a handler reads `blocks[h]` for the hash
of a message. `Typed` adds that no chain and no packet names a block that has
not been proposed.

**Votes.** `BallotsInv` adds to the types that every vote under way to d, or
counted at d, is for another node than d. It is kept because the leader's name
in a `LeaderElection` message is both what the ballot leaves out and where the
vote goes (`EligibleExcludesLeader`). `LeaderStepsDown` follows, since a winner
is one of the candidates voted for.

**One election at a time.** With three validators or more, `OneElection` says
which phase an election is in, and what is on every link in each: `Calm`,
`CalledFor` (a node has called and awaits Redis), `Polling`, `Decided` (its
conductor awaits the 500 ms), `Announced`. In `Polling` each other validator has
the call before it, or its vote is on the link, or is counted, and somebody's is
not, so the count cannot be reached before everyone has voted and nothing of the
election is left when it is. The conductor's own call may stay on its link to
itself through all later phases: it is not a voter, its ballot comes back to
nobody, and the call changes nothing. In the calm state no node keeps a vote, so
none counts in the next election. A call by a node that does not lead broadcasts
the leader and is over, so a calm state may hold any number of such messages,
all of which name the leader.

**Two validators.** There is one candidate, and `VoteIndex` never draws the
index at which it stands. So no ballot is ever made, no vote counted, and each
message there is restates the leader that Redis started with (`LeaderKept`,
`Restating`): the leader never changes, though it should step down whenever it
calls. One validator is the same, with nobody to vote for.

**Phases.** The messages are the difficulty: whether a list may grow depends on
what is under way. `Told` is the set of messages that are true now: a prepare by
a node that pooled the block, a commit by one whose list of commits exists, a
round change by one that appended it. `PhasesInv` is `Typed`, `Lists`
(`PhasesInOrder`, `ListedAuthors`, and that an appended block has a quorum of
committers) and `links \in LinksOf(Told)`. Nothing that makes a message true is
ever undone (`Grown`, `ToldGrows`), so messages under way stay true however late
they arrive, and each handler has only to show that what it sends is true. That
a list of commits starts anew at a further prepare undoes nothing of this: the
node's own commit is in the new list. `Certified` then follows: committers of a
block hold quorums of prepares, whose authors pooled it.

**Up to three validators.** There a quorum is everyone. A list of prepares that
is complete has no place for a further author, so a list of commits is started
once and only grows: `CommitsKept`. That no handler throws is harder, because
links are not ordered among each other and a node hears of a block first from
whoever is fastest. `Supported` says what holds at every moment: what a node has
noted in its pools (`Noted`), every other has noted too or has on the link
between them (`AllTold`); and whatever the reader of a packet must have noted
(`Support`: the block, for a prepare; everyone's prepares, for a commit;
everyone's commits, for a round change) it has noted, or it is ahead of that
packet on the same link (`AllBacked`). Each handler keeps this because it
repeats the message it took before it sends its own of the next phase, and
because by then its list names everybody; a quorum of two thirds of four leaves
one prepare out, and with it the argument. A complete list leads to the next one
(`PhasesFollow`), so the reader of a packet finds the list it looks up. The one
handler that drops what it read without having noted it is the pre-prepare of a
block that is not valid; that this never happens is the hypothesis
`BlocksFoundValid`, a matter of when rounds and elections begin, and part of
`RoundsSettle` in the run `rounds`. It is needed: under the whole of `Spec`,
when an election is called in the middle of a round, TLC finds a node that turns
the block away and throws at a prepare.

**Refinement.** `QuorumLog`'s `endorsed` is the set of nodes that pooled a
block, `voted` of those whose list of commits exists, `log` is `chain`. A
pre-prepare maps to `Endorse`, the first commit of a node to `VoteFor`, each
append to `Enter`; all else stutters.

**Processes.** `MemberInv` types what is under way: the packets on every wire,
and the continuations in `awaiting` with the reply of Redis that each holds.
That no port is twice in the list of Redis rests on every list that was read
having no port twice (`Ports`): what `InitList` adds was not in the list it
read, and `UpdatePeerReplica` writes back what it made of such a list, however
old. `Without`, the list without a port, is written by recursion; what it
returns is proved by a least counterexample.

**Neighbors.** `NeighborsInv` is `NeighborsOpen`, that a node's neighbors are on
open connections to the ports they are filed under, and that every node has a
table of them. Every handler but three leaves `neighbors` alone and closes
nothing (`KeptOpen`); `Handshake` files the peer of the very connection it came
on; a close takes out every neighbor on the closed end, whichever port it is
filed under; a process that ends forgets its own, and its peers' ends stay open
until they see the close. So it does not matter how many connections there are
between two ports, nor in what order packets, closes and replies of Redis come.

**Rounds in step.** The difficulty is that a message is filed under the round
its reader is in, whatever round it was sent in, and that a message which has to
wait is handled 200 ms later or more. `TurnInv` follows each message from its
author to the queue. A link carries each stage of the session once (`OnceUnder`;
stage 0 is the invitation). `Heard` says that what is on a link has been said by
its author, and what waits at a reader too, which is on the link no more and
waits once; `Recorded` that a reader in round k has an entry of each author in
every queue before k, and that those entries are of different rounds that were
said, wherever they are filed; `Counted` that the last round's proofs are at
most as many as the authors whose last message has been taken. Different rounds
in k - 1 queues reach up to k - 1 at least: by the pigeonhole everyone has said
round k - 1 (`EveryoneHasSaid`), so nobody publishes a round before all have
published the one before, and that is `Lockstep`. A session that is asked for
when nobody is in one and nothing of one waits or is on a link (`SessionOver`)
begins as the first does; the schedule of the session run, `SerialSpec`, asks
for more than that before each start.

**The key.** `Early` says that all data, in the rounds' objects and under way,
are of session 1 or of none, and `Keyed` that a node which has said round 3, 4
or 5 has every opening, every share, or the key made of both. A node that
concludes then holds everyone's contribution to that session. This needs that no
other session ran before, because the objects outlive it: with a reader as slow
as it likes, a later session can find the entry of round 1 overwritten by its
author's message of round 2, keep the commitment and opening of the session
before, and mix two keys. So `ConcludedKey` of later sessions is a matter of the
delays, which `session_serial` checks.

**Requests for a signature.** A manager's round is bounded because every request
does one thing: `CountInv` counts those that are on a link to a node, await
their 500 ms there, or have begun a session, against `starts`. `OwnInv` is what
a session knows of itself: nothing is filed under a round to come, its timer is
set at most once for a round it has not published in, and its own message of the
round is there once it has - unless a second request has pushed it on, which
shows in a hash of a broadcast that is missing (`Proper`).

**Nonces.** The danger is that the rounds' objects belong to the process: a
superseded session that runs its first round again gives the session in use
another k between its second and its third round. `NonceInv` orders what a
node's objects hold: the pair picked last is at least as new as what the second
round was given, that as what the second passed on, that as what the third has
(`Ordered`); all pairs behind shares of s are different, in the order they were
used (`Referred`); and the pair that a session in use is about to sign with is
newer than all of them (`InRound`), as long as it is `Proper` - and one that is
not never gets through its third round, for want of the hash. A superseded
session must stay out of its third round, or two sessions would use one object's
pair: that is `Spent`, and it is all that `RequestsInTurn` asks. `SpentRead`
shows that it stays so, since direct messages reach only the manager in use.
Without the condition a request that comes between two rounds of a session
leaves two managers that both run the third; whether they then sign with one k
is a matter of who is first, and nothing is claimed there.

**The schedule of signing.** `TimelyInv`: while anybody asks or awaits the 500
ms, nothing but requests is on the links, the sessions from before rest, and
those that have begun are in their first two rounds with no direct message of
the second; at all other times no request is on a link. It is inductive under
`MCSign`'s schedule for any number of validators and requests, and gives
`RequestsInTurn`.

**Signatures and proofs.** Division with remainder gives congruence modulo the
order (`Same`) with sums and products; that what is not zero has an inverse
(`InverseExists`) follows from its least positive residue of a multiple, which
divides the prime order (`LeastRemainderDivides`). From the equation of a
signature (`SignatureEquation`: R times s is m plus the key times r) the key
comes back, also with R and s both negated, since the product is the same; that
the parity in the form picks R or its negative as s was negated or not is
`PointOfSignature`. `SignatureRecovers` states it of the signatures of a
ceremony.

**Model-checked only.** Liveness (`RotatesLeader`, `RoundsComplete`,
`SessionEnds`, `LaterSessionEnds`, `JoinsMesh` and the others) is out of the
prover's reach, and so is what is defined by recursion or a fold over data:
evaluation and interpolation of polynomials, powers, the Jacobi symbol, and the
proofs built on them. `KeyRounds` and `SignRounds` use bitwise operators, which
a module with proofs cannot. `RoundsSettle` with its `BlocksFoundValid` (so
`NothingThrown` unconditionally), `NothingLeft`, `ConcludedKey` of later
sessions and the properties of `Membership` but `NeighborsOpen` and the types
hold under the schedules of section 3, which order packets against timers; the
proofs of these modules have no such schedule. Of `SignInv` the types and
`RequestsInTurn` are proved and `ConcludedSignature` is not.

## 5. Not modelled, and what is left

1. `RoundWindow`: `Ledger` without equal delays. Known there: a transaction that
   arrives in the 500 ms is wiped; a late copy of one is new again; a leader
   elected while its own delay runs holds another election; a
   `create-transaction` whose answer is lost is posted again by `tryNTimes`
   (`rpc/utils/helpers.ts:18`) with another id. The retry helper itself is a
   loop around requests to other services.
2. `ConcludedSignature` proved, for the first session and for requests in turn.
   The properties of `MCMembership` for more than three processes. Composition
   with `Ledger`, so that `posted` is `CreateTransaction`, and of `Membership`
   with both, so that a validator may come or go in the middle of a round.
3. `mtaProveAffP` and `zk/affp.ts`, which no round calls, and the search for
   Blum primes, which the sessions skip for two primes written into
   `keygenSession.ts:30-33`.

Not planned: the stream splitter, a transform for TCP sockets that has no caller
since the move to WebSocket; the Bitcoin adapter and address formats, JSON-RPC
and HTTP plumbing (I/O); the generated protobuf code of `types_pb.js`, which
nothing calls; configuration and logging.
