-------------------------------- MODULE ZkProofs --------------------------------
(***************************************************************************)
(* The zero-knowledge proofs (src/mpc/zk): what a prover sends and what a  *)
(* verifier asks of it.                                                    *)
(*                                                                         *)
(* A proof is of public values, made from private ones and from draws d of *)
(* the prover; e is the challenge, the hash of the session and of all the  *)
(* public values and commitments.  Prover and verifier hash separately, so *)
(* e is a parameter of both.  Multiplying a point by 0 throws: a conjunct  *)
(* Multiplier says so.  A proof travels as text and back unchanged.        *)
(***************************************************************************)
EXTENDS Sharing, Paillier

CONSTANT ScalarBits     \* L = SEC_PARAM, the length of the order

LPlusEpsilon == 3 * ScalarBits
LPrimePlusEpsilon == 7 * ScalarBits
IsInInterval(x, bits) == BitLength(x) <= bits

---------------------------------------------------------------------------
(* Schnorr: the prover knows the logarithm of a point. *)
SchCommitment(a) == Times(Base, a)
SchProves(pub, secret) == pub # Identity /\ secret # 0
SchProve(a, e, secret) == FnAdd(FnMul(e, secret), a)
SchIsResponseValid(Z) == Z # 0
SchVerify(Z, e, pub, C) ==
    /\ SchIsResponseValid(Z) /\ pub # Identity /\ Multiplier(e)
    /\ Times(Base, Z) = Plus(Times(pub, e), C)

(* enc: the plaintext k of K is short. *)
EncProveUnhidden(K, n, aux, k, rho, d, e) ==    \* a mutant: A hides another number
    [S |-> PedersenCommit(aux, k, d.mu), A |-> Encrypt(n, d.gamma, d.r),
     C |-> PedersenCommit(aux, d.alpha, d.gamma),
     Z1 |-> k * e + d.alpha,
     Z2 |-> ModMul(ModPow(rho, e, n), d.r, n),
     Z3 |-> e * d.mu + d.gamma]
EncProve(K, n, aux, k, rho, d, e) ==
    [S |-> PedersenCommit(aux, k, d.mu), A |-> Encrypt(n, d.alpha, d.r),
     C |-> PedersenCommit(aux, d.alpha, d.gamma),
     Z1 |-> k * e + d.alpha,
     Z2 |-> ModMul(ModPow(rho, e, n), d.r, n),
     Z3 |-> e * d.mu + d.gamma]
EncVerify(p, K, n, aux, e) ==
    /\ ValidCiphertext(n, p.A) /\ IsValidModN(n, p.Z2)
    /\ IsInInterval(p.Z1, LPlusEpsilon)
    /\ PedersenVerify(aux, p.Z1, p.Z3, e, p.C, p.S)
    /\ Encrypts(n, p.Z1)
    /\ Encrypt(n, p.Z1, p.Z2) = PaillierAdd(n, PaillierMultiply(n, K, e), p.A)

(* logstar: the plaintext x of C is the logarithm of a point to the base   *)
(* G.  The point itself is only hashed, so it is no parameter here.        *)
LogstarProve(C, G, n, aux, x, rho, d, e) ==
    [S |-> PedersenCommit(aux, x, d.mu), A |-> Encrypt(n, d.alpha, d.r),
     Y |-> Times(G, FnMod(d.alpha)), D |-> PedersenCommit(aux, d.alpha, d.gamma),
     Z1 |-> x * e + d.alpha,
     Z2 |-> ModMul(ModPow(rho, e, n), d.r, n),
     Z3 |-> e * d.mu + d.gamma]
LogstarIsProofValid(p, n) ==
    ValidCiphertext(n, p.A) /\ p.Y # Identity /\ IsValidModN(n, p.Z2)
LogstarVerify(p, C, n, aux, e) ==
    /\ LogstarIsProofValid(p, n)
    /\ IsInInterval(p.Z1, LPlusEpsilon)
    /\ PedersenVerify(aux, p.Z1, p.Z3, e, p.D, p.S)
    /\ Encrypts(n, p.Z1)
    /\ Encrypt(n, p.Z1, p.Z2) = PaillierAdd(n, PaillierMultiply(n, C, e), p.A)

(* affg: D is K raised to x plus y, F is y, and x is the logarithm of a    *)
(* point; K and D are the verifier's, F the prover's.                      *)
AffgProve(pub, x, y, s, r, d, e) ==
    [A |-> PaillierAdd(pub.verifier, Encrypt(pub.verifier, d.beta, d.rho),
                       PaillierMultiply(pub.verifier, pub.K, d.alpha)),
     Bx |-> Times(Base, FnMod(d.alpha)), By |-> Encrypt(pub.prover, d.beta, d.rhoY),
     E |-> PedersenCommit(pub.aux, d.alpha, d.gamma), S |-> PedersenCommit(pub.aux, x, d.m),
     F |-> PedersenCommit(pub.aux, d.beta, d.delta), T |-> PedersenCommit(pub.aux, y, d.mu),
     Z1 |-> x * e + d.alpha, Z2 |-> y * e + d.beta,
     Z3 |-> e * d.m + d.gamma, Z4 |-> e * d.mu + d.delta,
     W |-> ModMul(ModPow(s, e, pub.verifier), d.rho, pub.verifier),
     Wy |-> ModMul(ModPow(r, e, pub.prover), d.rhoY, pub.prover)]
AffgIsProofValid(p, pub) ==
    /\ ValidCiphertext(pub.verifier, p.A) /\ ValidCiphertext(pub.prover, p.By)
    /\ IsValidModN(pub.prover, p.Wy) /\ IsValidModN(pub.verifier, p.W)
    /\ p.Bx # Identity
AffgVerify(p, pub, e) ==
    /\ AffgIsProofValid(p, pub)
    /\ IsInInterval(p.Z1, LPlusEpsilon) /\ IsInInterval(p.Z2, LPrimePlusEpsilon)
    /\ PedersenVerify(pub.aux, p.Z1, p.Z3, e, p.E, p.S)
    /\ PedersenVerify(pub.aux, p.Z2, p.Z4, e, p.F, p.T)
    /\ Encrypts(pub.verifier, p.Z2)
    /\ PaillierAdd(pub.verifier, Encrypt(pub.verifier, p.Z2, p.W),
                   PaillierMultiply(pub.verifier, pub.K, p.Z1)) =
         PaillierAdd(pub.verifier, PaillierMultiply(pub.verifier, pub.D, e), p.A)
    /\ Multiplier(FnMod(p.Z1)) /\ Multiplier(e)
    /\ Times(Base, FnMod(p.Z1)) = Plus(Times(pub.X, e), p.Bx)
    /\ Encrypts(pub.prover, p.Z2)
    /\ Encrypt(pub.prover, p.Z2, p.Wy) =
         PaillierAdd(pub.prover, PaillierMultiply(pub.prover, pub.F, e), p.By)

(* The product of a secret x and of the plaintext of the receiver's K, in  *)
(* shares: the receiver decrypts D, the sender keeps beta.                 *)
MtaNewUnsigned(x, K, sender, receiver, d) ==    \* a mutant: the mask is not negated
    [D |-> PaillierAdd(receiver, Encrypt(receiver, d.betaNeg, d.s), PaillierMultiply(receiver, K, x)),
     F |-> Encrypt(sender, d.betaNeg, d.r),
     beta |-> d.betaNeg]
MtaNew(x, K, sender, receiver, d) ==
    [D |-> PaillierAdd(receiver, Encrypt(receiver, d.betaNeg, d.s), PaillierMultiply(receiver, K, x)),
     F |-> Encrypt(sender, d.betaNeg, d.r),
     beta |-> -d.betaNeg]
MtaProveAffG(x, point, K, sender, receiver, aux, d, e) ==
    LET new == MtaNew(x, K, sender, receiver, d)
        pub == [K |-> K, D |-> new.D, F |-> new.F, X |-> point,
                prover |-> sender, verifier |-> receiver, aux |-> aux]
    IN  [D |-> new.D, F |-> new.F, beta |-> new.beta,
         proof |-> AffgProve(pub, x, d.betaNeg, d.s, d.r, d, e)]

---------------------------------------------------------------------------
(* mod: n is a product of two primes that are 3 mod 4.  The challenge is a *)
(* sequence of residues; each has, up to its sign and a factor w that is   *)
(* no square, a fourth root.                                               *)
SamplesQNR(w, n) == w \in 0..(2^PaillierBits - 1) /\ Jacobi(w, n) = -1
IsQR(y, key) ==
    ModPow(y, key.p \div 2, key.p) = 1 /\ ModPow(y, key.q \div 2, key.q) = 1
FourthRootExponentOnce(phi) == (phi + 4) \div 8    \* a mutant: a square root only
FourthRootExponent(phi) == LET e == (phi + 4) \div 8 IN ModMul(e, e, phi)
MakeQuadraticResidue(y, w, key) ==
    LET y0 == y % key.n
        y1 == ModMul(y0, -1, key.n)
        y2 == ModMul(y1, w, key.n)
    IN  IF IsQR(y0, key) THEN [a |-> FALSE, b |-> FALSE, out |-> y0]
        ELSE IF IsQR(y1, key) THEN [a |-> TRUE, b |-> FALSE, out |-> y1]
        ELSE IF IsQR(y2, key) THEN [a |-> TRUE, b |-> TRUE, out |-> y2]
        ELSE [a |-> FALSE, b |-> TRUE, out |-> ModMul(y2, -1, key.n)]
ModProve(key, w, ys) ==
    [w |-> w,
     responses |-> [i \in DOMAIN ys |->
        LET square == MakeQuadraticResidue(ys[i], w, key)
        IN  [A |-> square.a, B |-> square.b,
             X |-> ModPow(square.out, FourthRootExponent(key.phi), key.n),
             Z |-> ModPow(ys[i], ModInv(key.n, key.phi), key.n)]]]
ModResponseHolds(r, n, w, y) ==
    LET signed == IF r.A THEN ModMul(y, -1, n) ELSE y
        fourth == ModMul(ModMul(r.X, r.X, n), ModMul(r.X, r.X, n), n)
    IN  /\ ModPow(r.Z, n, n) = y
        /\ fourth = IF r.B THEN ModMul(signed, w, n) ELSE signed
ModVerify(p, n, ys) ==
    /\ n % 2 # 0 /\ ~ IsPrime(n)
    /\ Jacobi(p.w, n) = -1 /\ IsValidModN(n, p.w)
    /\ \A i \in DOMAIN p.responses : ModResponseHolds(p.responses[i], n, p.w, ys[i])

(* prm: s is a power lambda of t.  The challenge is a sequence of bits. *)
PrmProveModN(key, aux, lambda, as, bits) ==    \* a mutant: exponents modulo n
    [As |-> [i \in DOMAIN as |-> ModPow(aux.t, as[i], key.n)],
     Zs |-> [i \in DOMAIN as |-> IF bits[i] THEN (as[i] + lambda) % key.n ELSE as[i]]]
PrmProve(key, aux, lambda, as, bits) ==
    [As |-> [i \in DOMAIN as |-> ModPow(aux.t, as[i], key.n)],
     Zs |-> [i \in DOMAIN as |-> IF bits[i] THEN (as[i] + lambda) % key.phi ELSE as[i]]]
PrmVerify(p, aux, bits) ==
    /\ ValidPedersen(aux.n, aux.s, aux.t)
    /\ \A i \in DOMAIN p.As :
          /\ IsValidModN(aux.n, p.As[i]) /\ IsValidModN(aux.n, p.Zs[i]) /\ p.As[i] # 1
          /\ ModPow(aux.t, p.Zs[i], aux.n) =
               IF bits[i] THEN ModMul(p.As[i], aux.s, aux.n) ELSE p.As[i]

(* fac: neither factor of the prover's n is small. *)
FacProve(key, aux, d, e) ==
    LET Q == PedersenCommit(aux, key.q, d.nu)
    IN  [P |-> PedersenCommit(aux, key.p, d.mu), Q |-> Q,
         A |-> PedersenCommit(aux, d.alpha, d.x), B |-> PedersenCommit(aux, d.beta, d.y),
         T |-> ModMul(ModPow(Q, d.alpha, aux.n), ModPow(aux.t, d.r, aux.n), aux.n),
         sigma |-> d.sigma,
         Z1 |-> e * key.p + d.alpha, Z2 |-> e * key.q + d.beta,
         W1 |-> e * d.mu + d.x, W2 |-> e * d.nu + d.y,
         V |-> e * (d.sigma - d.nu * key.p) + d.r]
FacVerify(p, n, aux, e) ==
    LET R == ModMul(ModPow(aux.s, n, aux.n), ModPow(aux.t, p.sigma, aux.n), aux.n)
    IN  /\ PedersenVerify(aux, p.Z1, p.W1, e, p.A, p.P)
        /\ PedersenVerify(aux, p.Z2, p.W2, e, p.B, p.Q)
        /\ ModMul(ModPow(p.Q, p.Z1, aux.n), ModPow(aux.t, p.V, aux.n), aux.n) =
             ModMul(ModPow(R, e, aux.n), p.T, aux.n)
        /\ IsInInterval(p.Z1, 1 + LPlusEpsilon + PaillierBits \div 2)
        /\ IsInInterval(p.Z2, 1 + LPlusEpsilon + PaillierBits \div 2)
===============================================================================
