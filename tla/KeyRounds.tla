-------------------------------- MODULE KeyRounds --------------------------------
(***************************************************************************)
(* The arithmetic of a key generation: what every party computes in the    *)
(* five rounds (src/mpc/keygen) and makes of what the others send.         *)
(*                                                                         *)
(* KeygenSession shows that a session which ends takes every round with    *)
(* everyone's messages of the round before and of the same session, so     *)
(* that is where this module starts: a round waits for all of the last.    *)
(* A handler that throws is logged and stores nothing; if the round then   *)
(* lacks a value it throws too, and the party is stuck.  Its conditions    *)
(* are conjuncts of the round's action.  What is only logged is collected  *)
(* in refused.                                                             *)
(***************************************************************************)
EXTENDS ZkProofs, Bitwise

CONSTANTS
    PartyIds,       \* validators, the list every server has, as a sequence
    PrecomputedP, PrecomputedQ, \* the primes written into keygenSession.ts
    Ceremonies      \* what the parties may draw and the hash may answer

ASSUME KeyRoundsAssumption ==
    Range(PartyIds) = Party /\ Len(PartyIds) = Cardinality(Party)

VARIABLES
    draws,          \* of each party, what it draws
    oracle,         \* the challenges: a scalar, bits and residues
    hasher,         \* session.hasher: what each party has hashed
    keyOut,         \* of each party, the outputs of its rounds so far
    modResult,      \* of each party, what the checks of the mod proofs gave
    refused,        \* <<party, sender, proof>> of the refusals in the log
    partyKeyShare   \* validator.PartyKeyShare

keyRoundVars == <<draws, oracle, hasher, keyOut, modResult, refused, partyKeyShare>>

NoShare == [threshold |-> 0]
KeyThreshold == Len(PartyIds)

KeyRoundsInit ==
    /\ \E c \in Ceremonies : draws = c.draws /\ oracle = c.oracle
    /\ hasher = [n \in Party |-> <<KeyThreshold>> \o PartyIds]
    /\ keyOut = [n \in Party |-> <<>>]
    /\ modResult = [n \in Party |-> {}]
    /\ refused = {}
    /\ partyKeyShare = [n \in Party |-> NoShare]

---------------------------------------------------------------------------
(* A hash is what was hashed: two are equal when that is.  A proof carries *)
(* what its prover asked the hash, and the verifier asks it again; if it   *)
(* asks something else it gets other challenges.                           *)
CloneHashForId(n, id) == Append(hasher[n], id)
Asks(asked, own) == IF asked = own THEN oracle.e ELSE FnAdd(oracle.e, 1)
AsksBits(asked, own) ==
    IF asked = own THEN oracle.bits ELSE [i \in DOMAIN oracle.bits |-> ~ oracle.bits[i]]
AsksResidues(asked, own) ==
    IF asked = own THEN oracle.ys ELSE [i \in DOMAIN oracle.ys |-> oracle.ys[i] + 1]

Commit(transcript, data, decommitment) == <<transcript, data, decommitment>>

Others(n) == Party \ {n}
Outputs(r) == \A n \in Party : Len(keyOut[n]) >= r
Output(n, r) == keyOut[n][r]
Enters(n, r) == Len(keyOut[n]) = r - 1 /\ Outputs(r - 1)
Emit(n, out) == keyOut' = [keyOut EXCEPT ![n] = Append(@, out)]

(* Round 1 makes the Paillier key and the secrets, and commits to them. *)
KeyRound1(n) ==
    LET d == draws[n]
        key == PaillierSecretKey(PrecomputedP, PrecomputedQ)
        opening == [rid |-> d.rid, chainKey |-> d.chainKey, vss |-> FromPoly(d.vss),
                    schnorr |-> SchCommitment(d.schnorr), elgamal |-> Times(Base, d.elgamal),
                    pedersen |-> GeneratePedersen(key, d.lambda, d.tau)]
    IN  /\ Enters(n, 1)
        /\ ValidPaillierPrime(PrecomputedP) /\ ValidPaillierPrime(PrecomputedQ)
        /\ SamplesPolynomial(d.vss, KeyThreshold)
        /\ Emit(n, [broadcasts |-> Commit(CloneHashForId(n, n), opening, d.decommitment),
                    opening |-> opening, paillier |-> key,
                    share |-> Evaluate(d.vss, PartyScalar[n])])
        /\ UNCHANGED <<draws, oracle, hasher, modResult, refused, partyKeyShare>>

(* Round 2 keeps the commitments and opens its own. *)
KeyRound2(n) ==
    /\ Enters(n, 2)
    /\ Emit(n, [broadcasts |-> [opening |-> Output(n, 1).opening,
                                decommitment |-> draws[n].decommitment],
                commitments |-> [j \in Party |-> Output(j, 1).broadcasts]])
    /\ UNCHANGED <<draws, oracle, hasher, modResult, refused, partyKeyShare>>

(* Round 3 reads the openings, ... *)
Opens(n, from) ==
    LET m == Output(from, 2).broadcasts
        pedersen == m.opening.pedersen
    IN  /\ (Constant(draws[n].vss) = 0) = m.opening.vss.isConstant
        /\ ExponentDegree(m.opening.vss) = KeyThreshold
        /\ ValidN(pedersen.n) /\ ValidPedersen(pedersen.n, pedersen.s, pedersen.t)
        /\ Output(n, 2).commitments[from] =
             Commit(CloneHashForId(n, from), m.opening, m.decommitment)
Opening(j) == Output(j, 2).broadcasts.opening
XorAll(f) == FoldSet(LAMBDA j, r : r ^^ f[j], 0, DOMAIN f)

DirectMessage(share, fac, asked) == [share |-> share, fac |-> fac, facAsked |-> asked]

(* ... proves that its modulus and its parameters are well made, and sends *)
(* everyone their share.                                                   *)
KeyRound3(n) ==
    LET d == draws[n]
        key == Output(n, 1).paillier
        aux(j) == Opening(j).pedersen
        rid == XorAll([j \in Party |-> Opening(j).rid])
        asks == hasher[n] \o <<rid, n>>
        tells(j) ==
            DirectMessage(Encrypt(aux(j).n, Evaluate(d.vss, PartyScalar[j]), d.shareNonce),
                          FacProve(key, aux(j), d.fac, oracle.e), <<asks, key.n, aux(j)>>)
    IN  /\ Enters(n, 3)
        /\ \A j \in Party : Opens(n, j)
        /\ \A j \in Others(n) : Encrypts(aux(j).n, Evaluate(d.vss, PartyScalar[j]))
        /\ SamplesQNR(d.w, key.n)
        /\ Emit(n, [broadcasts |->
                      [mod |-> ModProve(key, d.w, oracle.ys), modAsked |-> <<asks, key.n, d.w>>,
                       prm |-> PrmProve(key, aux(n), d.lambda, d.prm, oracle.bits),
                       prmAsked |-> <<asks, aux(n)>>],
                    directs |-> [j \in Others(n) |-> tells(j)],
                    rid |-> rid,
                    chainKey |-> XorAll([j \in Party |-> Opening(j).chainKey]),
                    openings |-> [j \in Party |-> Opening(j)]])
        /\ hasher' = [hasher EXCEPT ![n] = Append(@, rid)]
        /\ UNCHANGED <<draws, oracle, modResult, refused, partyKeyShare>>

---------------------------------------------------------------------------
(* Round 4 checks both proofs of everyone.  The check of the mod proof is  *)
(* a promise nobody waits for, so that only prm can be refused; and that   *)
(* leaves nothing unstored.                                                *)
ModHolds(n, from) ==
    LET m == Output(from, 3).broadcasts
        N == Output(n, 3).openings[from].pedersen.n
    IN  ModVerify(m.mod, N,
                  AsksResidues(m.modAsked, <<CloneHashForId(n, from), N, m.mod.w>>))
PrmHolds(n, from) ==
    LET m == Output(from, 3).broadcasts
        aux == Output(n, 3).openings[from].pedersen
    IN  PrmVerify(m.prm, aux, AsksBits(m.prmAsked, <<CloneHashForId(n, from), aux>>))

(* A share is stored when its proof holds and it is on the polynomial. *)
ShareOf(n, from) == Decrypt(Output(n, 1).paillier, Output(from, 3).directs[n].share)
TakesShare(n, from) ==
    LET m == Output(from, 3).directs[n]
        openings == Output(n, 3).openings
        N == openings[from].pedersen.n
        aux == openings[n].pedersen
        share == ShareOf(n, from)
    IN  /\ ValidCiphertext(aux.n, m.share)
        /\ FacVerify(m.fac, N, aux, Asks(m.facAsked, <<CloneHashForId(n, from), N, aux>>))
        /\ FnMod(share) = share /\ Multiplier(share)
        /\ ExponentEvaluate(openings[from].vss, PartyScalar[n]) = Times(Base, share)
ShareReceivedFromOthers(n) ==    \* a mutant: the own share is not counted
    [j \in Party |-> IF j = n THEN 0 ELSE ShareOf(n, j)]
ShareReceived(n) ==
    [j \in Party |-> IF j = n THEN Output(n, 1).share ELSE ShareOf(n, j)]

PublicData(n) ==
    LET openings == Output(n, 3).openings
        vss == [i \in DOMAIN PartyIds |-> openings[PartyIds[i]].vss]
    IN  [j \in Party |->
           [ecdsa |-> ExponentEvaluate(ExponentSum(vss), PartyScalar[j]),
            elgamal |-> openings[j].elgamal, pedersen |-> openings[j].pedersen]]
UpdatedConfig(n) ==
    [threshold |-> KeyThreshold, partyId |-> n, ecdsa |-> PlusAll(ShareReceived(n)),
     elgamal |-> draws[n].elgamal, paillier |-> Output(n, 1).paillier,
     rid |-> Output(n, 3).rid, chainKey |-> Output(n, 3).chainKey,
     publicPartyData |-> PublicData(n)]
PublicPoint(config) ==
    LET lag == Lagrange(Party)
    IN  PlusAll([j \in Party |-> Times(config.publicPartyData[j].ecdsa, lag[j])])
Hashable(config) == <<config.threshold, config.rid, config.publicPartyData>>

KeyRound4(n) ==
    LET config == UpdatedConfig(n)
        pub == config.publicPartyData[n].ecdsa
        C == Output(n, 1).opening.schnorr
        asks == hasher[n] \o <<Hashable(config), n>>
        rejected == {j \in Party : ~ PrmHolds(n, j)}
    IN  /\ Enters(n, 4)
        /\ \A j \in Others(n) : TakesShare(n, j)
        /\ SchProves(pub, config.ecdsa)
        /\ modResult' = [modResult EXCEPT ![n] = {j \in Party : ~ ModHolds(n, j)}]
        /\ refused' = refused \cup {<<n, j, "prm">> : j \in rejected}
        /\ Emit(n, [broadcasts |-> [Z |-> SchProve(draws[n].schnorr, oracle.e, config.ecdsa),
                                    asked |-> <<asks, C, pub>>],
                    config |-> config])
        /\ hasher' = [hasher EXCEPT ![n] = Append(@, Hashable(config))]
        /\ UNCHANGED <<draws, oracle, partyKeyShare>>

(* Round 5 checks that everyone knows the secret of their public share,    *)
(* and keeps the key whatever it finds.                                    *)
SchHolds(n, from) ==
    LET m == Output(from, 4).broadcasts
        pub == Output(n, 4).config.publicPartyData[from].ecdsa
        C == Output(n, 3).openings[from].schnorr
    IN  SchVerify(m.Z, Asks(m.asked, <<CloneHashForId(n, from), C, pub>>), pub, C)
KeyRound5(n) ==
    LET rejected == {j \in Party : ~ SchHolds(n, j)}
    IN  /\ Enters(n, 5)
        /\ refused' = refused \cup {<<n, j, "sch">> : j \in rejected}
        /\ partyKeyShare' = [partyKeyShare EXCEPT ![n] = Output(n, 4).config]
        /\ Emit(n, [broadcasts |-> Output(n, 4).config])
        /\ UNCHANGED <<draws, oracle, hasher, modResult>>

KeyRoundsNext ==
    \E n \in Party :
        \/ KeyRound1(n)
        \/ KeyRound2(n)
        \/ KeyRound3(n)
        \/ KeyRound4(n)
        \/ KeyRound5(n)
===============================================================================
