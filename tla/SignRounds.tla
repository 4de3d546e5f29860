------------------------------- MODULE SignRounds -------------------------------
(***************************************************************************)
(* The arithmetic of a signature: what every signer computes in the five   *)
(* rounds (src/mpc/signing) with the key that KeyRounds has left it.       *)
(*                                                                         *)
(* As there, a round waits for everyone's messages of the round before.    *)
(* Here a handler that throws takes its node down: every condition it      *)
(* checks is a conjunct of the round's action.                             *)
(***************************************************************************)
EXTENDS KeyRounds

CONSTANT Message    \* scalarFromHash of what is signed

ASSUME SignRoundsAssumption == Message \in NonZero

VARIABLES
    signer,         \* session: inputForRound1 and the hasher
    signOut,        \* of each signer, the outputs of its rounds so far
    signature       \* this.signature of each signer

signRoundVars == <<signer, signOut, signature>>
ceremonyVars == <<keyRoundVars, signRoundVars>>

NoSigner == [publicKey |-> Identity]
NoSignature == [S |-> 0]

SignRoundsInit ==
    /\ signer = [n \in Party |-> NoSigner]
    /\ signOut = [n \in Party |-> <<>>]
    /\ signature = [n \in Party |-> NoSignature]

(* SignSession.init: the shares are scaled so that they add up to the key. *)
SignerSessionInit(n) ==
    LET config == partyKeyShare[n]
        lag == Lagrange(Party)
        scaled == [j \in Party |-> Times(config.publicPartyData[j].ecdsa, lag[j])]
    IN  /\ signer[n] = NoSigner
        /\ \A j \in Party : partyKeyShare[j] # NoShare
        /\ \A j \in Party : Multiplier(lag[j])
        /\ signer' = [signer EXCEPT ![n] =
             [secretEcdsa |-> FnMul(lag[n], config.ecdsa), secretPaillier |-> config.paillier,
              publicKey |-> PlusAll(scaled), ecdsa |-> scaled,
              pedersen |-> [j \in Party |-> config.publicPartyData[j].pedersen],
              hasher |-> <<Hashable(config), Message>>]]
        /\ UNCHANGED <<keyRoundVars, signOut, signature>>

SignOutput(n, r) == signOut[n][r]
EntersSigning(n, r) ==
    /\ signer[n] # NoSigner /\ Len(signOut[n]) = r - 1
    /\ \A j \in Party : Len(signOut[j]) >= r - 1
Sends(n, out) == signOut' = [signOut EXCEPT ![n] = Append(@, out)]

CloneSignHashForId(n, id) == Append(signer[n].hasher, id)
Aux(n, j) == signer[n].pedersen[j]
Modulus(n, j) == signer[n].pedersen[j].n

(* Round 1 encrypts two picks, k and gamma. *)
SignerRound1(n) ==
    LET d == draws[n]
        N == signer[n].secretPaillier.n
        K == Encrypt(N, d.k, d.kNonce)
        asks == CloneSignHashForId(n, n)
    IN  /\ EntersSigning(n, 1)
        /\ Encrypts(N, d.k) /\ Encrypts(N, d.gamma) /\ Multiplier(d.gamma)
        /\ Sends(n, [broadcasts |-> [K |-> K, G |-> Encrypt(N, d.gamma, d.gammaNonce)],
                     directs |-> [j \in Others(n) |->
                        [proof |-> EncProve(K, N, Aux(n, j), d.k, d.kNonce, d.enc, oracle.e),
                         asked |-> <<asks, K, N, Aux(n, j)>>]],
                     BigGammaShare |-> Times(Base, d.gamma)])
        /\ UNCHANGED <<keyRoundVars, signer, signature>>

(* Round 2 multiplies everyone's k by the own gamma and by the own share   *)
(* of the key, in shares.                                                  *)
EncHolds(n, from) ==
    LET m == SignOutput(from, 1).directs[n]
        K == SignOutput(from, 1).broadcasts.K
        N == Modulus(n, from)
    IN  EncVerify(m.proof, K, N, Aux(n, n),
                  Asks(m.asked, <<CloneSignHashForId(n, from), K, N, Aux(n, n)>>))
ValidCiphertexts(n, from) ==
    LET m == SignOutput(from, 1).broadcasts
    IN  ValidCiphertext(Modulus(n, from), m.K) /\ ValidCiphertext(Modulus(n, from), m.G)

Sent(mta, asked) == [D |-> mta.D, F |-> mta.F, proof |-> mta.proof, asked |-> asked]
SignerRound2(n) ==
    LET d == draws[n]
        N == signer[n].secretPaillier.n
        BigGamma == SignOutput(n, 1).BigGammaShare
        asks == CloneSignHashForId(n, n)
        K(j) == SignOutput(j, 1).broadcasts.K
        product(x, point, j, draw) ==
            MtaProveAffG(x, point, K(j), N, Modulus(n, j), Aux(n, j), draw, oracle.e)
        delta == [j \in Others(n) |-> product(d.gamma, BigGamma, j, d.delta[j])]
        chi == [j \in Others(n) |->
                  product(signer[n].secretEcdsa, signer[n].ecdsa[n], j, d.chi[j])]
        G == SignOutput(n, 1).broadcasts.G
    IN  /\ EntersSigning(n, 2)
        /\ \A j \in Party : ValidCiphertexts(n, j)
        /\ \A j \in Others(n) : EncHolds(n, j)
        /\ Multiplier(d.log.alpha)
        /\ Sends(n, [broadcasts |-> [BigGammaShare |-> BigGamma],
                     directs |-> [j \in Others(n) |->
                        [delta |-> Sent(delta[j], <<asks, K(j), BigGamma, Aux(n, j)>>),
                         chi |-> Sent(chi[j], <<asks, K(j), signer[n].ecdsa[n], Aux(n, j)>>),
                         log |-> LogstarProve(G, Base, N, Aux(n, j), d.gamma, d.gammaNonce,
                                              d.log, oracle.e),
                         logAsked |-> <<asks, G, BigGamma, Base, Aux(n, j)>>]],
                     deltaBetas |-> [j \in Others(n) |-> delta[j].beta],
                     chiBetas |-> [j \in Others(n) |-> chi[j].beta]])
        /\ UNCHANGED <<keyRoundVars, signer, signature>>

(* Round 3 adds up the own shares of the products with k, and k times the  *)
(* sum of the Gammas.                                                      *)
AffgHolds(n, from, m, point) ==
    LET K == SignOutput(n, 1).broadcasts.K
        pub == [K |-> K, D |-> m.D, F |-> m.F, X |-> point, prover |-> Modulus(n, from),
                verifier |-> Modulus(n, n), aux |-> Aux(n, n)]
    IN  AffgVerify(m.proof, pub,
                   Asks(m.asked, <<CloneSignHashForId(n, from), K, point, Aux(n, n)>>))
ProductsHold(n, from) ==
    LET m == SignOutput(from, 2).directs[n]
        BigGamma == SignOutput(from, 2).broadcasts.BigGammaShare
        G == SignOutput(from, 1).broadcasts.G
    IN  /\ AffgHolds(n, from, m.delta, BigGamma)
        /\ AffgHolds(n, from, m.chi, signer[n].ecdsa[from])
        /\ LogstarVerify(m.log, G, Modulus(n, from), Aux(n, n),
               Asks(m.logAsked, <<CloneSignHashForId(n, from), G, BigGamma, Base, Aux(n, n)>>))

Alpha(n, from, product) ==
    Decrypt(signer[n].secretPaillier, SignOutput(from, 2).directs[n][product].D)
SumOthers(n, f) == MapThenSumSet(LAMBDA j : f[j], Others(n))
SignerRound3(n) ==
    LET d == draws[n]
        N == Modulus(n, n)
        Gamma == PlusAll([j \in Party |-> SignOutput(j, 2).broadcasts.BigGammaShare])
        BigDelta == Times(Gamma, d.k)
        own == SignOutput(n, 2)
        deltaShare == d.gamma * d.k
                      + SumOthers(n, [j \in Others(n) |-> Alpha(n, j, "delta") + own.deltaBetas[j]])
        chiShare == signer[n].secretEcdsa * d.k
                    + SumOthers(n, [j \in Others(n) |-> Alpha(n, j, "chi") + own.chiBetas[j]])
        K == SignOutput(n, 1).broadcasts.K
        asks == CloneSignHashForId(n, n)
    IN  /\ EntersSigning(n, 3)
        /\ \A j \in Party : SignOutput(j, 2).broadcasts.BigGammaShare # Identity
        /\ \A j \in Others(n) : ProductsHold(n, j)
        /\ Multiplier(d.k) /\ Multiplier(d.logDelta.alpha)
        /\ Sends(n, [broadcasts |-> [DeltaShare |-> FnMod(deltaShare), BigDeltaShare |-> BigDelta],
                     directs |-> [j \in Others(n) |->
                        [log |-> LogstarProve(K, Gamma, N, Aux(n, j), d.k, d.kNonce,
                                              d.logDelta, oracle.e),
                         logAsked |-> <<asks, K, BigDelta, Gamma, Aux(n, j)>>]],
                     Gamma |-> Gamma, ChiShare |-> FnMod(chiShare)])
        /\ UNCHANGED <<keyRoundVars, signer, signature>>

(* Round 4 finds R, the inverse of the ks in the exponent, and the own     *)
(* share of s.                                                             *)
DeltaLogHolds(n, from) ==
    LET m == SignOutput(from, 3).directs[n]
        K == SignOutput(from, 1).broadcasts.K
        BigDelta == SignOutput(from, 3).broadcasts.BigDeltaShare
    IN  LogstarVerify(m.log, K, Modulus(n, from), Aux(n, n),
            Asks(m.logAsked, <<CloneSignHashForId(n, from), K, BigDelta,
                               SignOutput(n, 3).Gamma, Aux(n, n)>>))
SignerRound4(n) ==
    LET told(j) == SignOutput(j, 3).broadcasts
        Delta == PlusAll([j \in Party |-> told(j).DeltaShare])
        BigDelta == PlusAll([j \in Party |-> told(j).BigDeltaShare])
        BigR == Times(SignOutput(n, 3).Gamma, FnInv(Delta))
        km == FnMul(Message, draws[n].k)
    IN  /\ EntersSigning(n, 4)
        /\ \A j \in Party : told(j).DeltaShare # 0 /\ told(j).BigDeltaShare # Identity
        /\ \A j \in Others(n) : DeltaLogHolds(n, j)
        /\ Multiplier(Delta) /\ Times(Base, Delta) = BigDelta
        /\ Sends(n, [broadcasts |->
                       [SigmaShare |-> FnAdd(FnMul(X(BigR), SignOutput(n, 3).ChiShare), km)],
                     BigR |-> BigR])
        /\ UNCHANGED <<keyRoundVars, signer, signature>>

(* Round 5 adds up s. *)
SignerRound5(n) ==
    LET sigma == [j \in Party |-> SignOutput(j, 4).broadcasts.SigmaShare]
        S == PlusAll(sigma)
        BigR == SignOutput(n, 4).BigR
    IN  /\ EntersSigning(n, 5)
        /\ \A j \in Party : sigma[j] # 0
        /\ VerifySignature(BigR, S, signer[n].publicKey, Message)
        /\ signature' = [signature EXCEPT ![n] = [R |-> BigR, S |-> S]]
        /\ Sends(n, [broadcasts |-> {}])
        /\ UNCHANGED <<keyRoundVars, signer>>

SignRoundsNext ==
    \E n \in Party :
        \/ SignerSessionInit(n)
        \/ SignerRound1(n)
        \/ SignerRound2(n)
        \/ SignerRound3(n)
        \/ SignerRound4(n)
        \/ SignerRound5(n)

---------------------------------------------------------------------------
(* A key generation and a signature with its key. *)
CeremonyInit == KeyRoundsInit /\ SignRoundsInit
CeremonyNext ==
    \/ KeyRoundsNext /\ UNCHANGED signRoundVars
    \/ SignRoundsNext

(* A round that has its messages is run. *)
Ceremony == CeremonyInit /\ [][CeremonyNext]_ceremonyVars /\ WF_ceremonyVars(CeremonyNext)

---------------------------------------------------------------------------
HasKey(n) == partyKeyShare[n] # NoShare
HasSigned(n) == signature[n] # NoSignature

(* No honest proof is refused: what a party has hashed when it makes a     *)
(* prm or Schnorr proof (round3.ts:105, round4.ts:140) is what everyone    *)
(* else has hashed of that party when they check it a round later.         *)
HonestProofsHold == refused = {}

(* Of the checks nobody waits for (round4.ts:31), the ones that fail are   *)
(* those whose w is not below the modulus: sampleQNR draws 2048 bits       *)
(* (sample.ts:34) and zkModVerifyProof wants w mod n.  All verifiers agree.*)
ModProofFailsForLargeW ==
    \A n \in Party : Len(keyOut[n]) >= 4 =>
        modResult[n] = {j \in Party : draws[j].w >= PrecomputedP * PrecomputedQ}

(* Whoever has a key has the same key: the same public data, rid and chain *)
(* key, and for everyone who has a secret share the public share of it is  *)
(* in it (round4.ts, process).                                             *)
SharesMatchKey ==
    \A m, n \in Party : HasKey(m) /\ HasKey(n) =>
        /\ Hashable(partyKeyShare[m]) = Hashable(partyKeyShare[n])
        /\ partyKeyShare[m].chainKey = partyKeyShare[n].chainKey
        /\ partyKeyShare[m].publicPartyData[n].ecdsa = Times(Base, partyKeyShare[n].ecdsa)
        /\ partyKeyShare[m].publicPartyData[n].elgamal = Times(Base, partyKeyShare[n].elgamal)

(* The key that signs is not the sum of the secrets f(0) that the parties  *)
(* chose.  The polynomials have degree threshold, which is the number of   *)
(* parties (keygenSession.ts:52): one share short of fixing them, so that  *)
(* interpolation leaves out the last coefficient, c * (0-x1)*...*(0-xt).   *)
Missed(p) == FnMul(Last(p), FoldSet(LAMBDA j, r : FnMul(r, FnMod(-PartyScalar[j])), 1, Party))
KeyMissesLastCoefficients ==
    \A n \in Party : signer[n] # NoSigner =>
        signer[n].publicKey = Times(Base, FnMod(MapThenSumSet(
            LAMBDA j : FnSub(Constant(draws[j].vss), Missed(draws[j].vss)), Party)))

(* Two signers share a product: what one decrypts and what the other kept  *)
(* add up to k of the one times gamma (or the share of the key) of the     *)
(* other.  Paillier decrypts to a symmetric residue and beta is negative:  *)
(* nothing wraps round (mta.ts:93, round 3).                               *)
ProductsShared ==
    \A n \in Party : \A j \in Others(n) : Len(signOut[n]) >= 3 =>
        /\ FnMod(Alpha(n, j, "delta") + SignOutput(j, 2).deltaBetas[n]) =
             FnMul(draws[n].k, draws[j].gamma)
        /\ FnMod(Alpha(n, j, "chi") + SignOutput(j, 2).chiBetas[n]) =
             FnMul(draws[n].k, signer[j].secretEcdsa)

(* A signature is the one of the sums of the signers' ks and of their      *)
(* shares, the same at everyone, and in the form Ethereum reads it a       *)
(* contract finds the public point of the key: the assertion of            *)
(* verifyAndEndSession (signingProtocol.ts:321).                           *)
SignatureRecovers ==
    LET k == FnMod(MapThenSumSet(LAMBDA j : draws[j].k, Party))
        x == FnMod(MapThenSumSet(LAMBDA j : signer[j].secretEcdsa, Party))
    IN  \A n \in Party : HasSigned(n) =>
            LET R == signature[n].R
                ethereum == SigEthereum(R, signature[n].S)
            IN  /\ Times(R, k) = Base
                /\ signature[n].S = FnMul(k, FnAdd(Message, FnMul(X(R), x)))
                /\ ~ FnIsOverHalfOrder(ethereum.s)
                /\ Recover(ethereum, Message) = PublicPoint(partyKeyShare[n])

(* A key generation without degenerate draws, and a signature with its     *)
(* key, come to their end: no check of a round turns an honest party away. *)
CeremonyEnds == <>(\A n \in Party : HasSigned(n))
===============================================================================
