-------------------------------- MODULE Sharing --------------------------------
(***************************************************************************)
(* Secret sharing over the scalars of the curve (src/mpc/math): the field, *)
(* polynomials, polynomials in the exponent and interpolation.             *)
(*                                                                         *)
(* The points of secp256k1 form a cyclic group of prime order, so a point  *)
(* is written as its multiple of the base point: adding points adds the    *)
(* multiples, and nothing here reads them.  x and the parity of y are all  *)
(* that leaves the group; a point and its negative share x and differ in   *)
(* the parity.                                                             *)
(***************************************************************************)
EXTENDS Integers, Sequences, FiniteSets, SequencesExt, FiniteSetsExt

CONSTANTS
    Order,          \* the order of the group, secp256k1.CURVE.n
    Party,          \* the ids of the parties
    PartyScalar     \* partyIdToScalar: the bytes of an id as a number

(* partyIdToScalar reads the id as a number, so that ids that differ give  *)
(* different scalars as long as they are below the order.                  *)
ASSUME SharingAssumption ==
    /\ Order \in Nat /\ Order > 2
    /\ \A d \in 2..(Order - 1) : Order % d # 0
    /\ PartyScalar \in [Party -> 1..(Order - 1)]
    /\ \A i, j \in Party : PartyScalar[i] = PartyScalar[j] => i = j

Scalar == 0..(Order - 1)
NonZero == 1..(Order - 1)

(* The field. *)
FnMod(x) == x % Order
FnMul(a, b) == (a * b) % Order
FnAdd(a, b) == (a + b) % Order
FnSub(a, b) == (a + (Order - b)) % Order
FnInv(x) == CHOOSE y \in Scalar : FnMul(FnMod(x), y) = 1
FnDiv(a, b) == FnMul(a, FnInv(b))
FnIsOverHalfOrder(x) == x > Order \div 2

(* The group.  noble multiplies by nothing but 1..(Order - 1). *)
Point == Scalar
Base == 1
Identity == 0
Multiplier(k) == k \in NonZero
Times(P, k) == FnMul(P, k)
Plus(P, Q) == FnAdd(P, Q)
PlusAll(f) == FnMod(MapThenSumSet(LAMBDA i : f[i], DOMAIN f))
X(P) == IF FnIsOverHalfOrder(P) THEN Order - P ELSE P
OddY(P) == FnIsOverHalfOrder(P)

(* A polynomial is the sequence of its coefficients, the constant first.   *)
(* Horner's rule, from the last coefficient down.                          *)
SamplesPolynomial(p, degree) ==
    Len(p) = degree + 1 /\ \A i \in DOMAIN p : p[i] \in NonZero
Degree(p) == Len(p) - 1
Constant(p) == p[1]
Evaluate(p, x) == FoldRight(LAMBDA c, r : FnAdd(FnMul(r, x), c), p, 0)

(* The same in the exponent; a zero constant is left out of the points. *)
FromPoly(p) ==
    [isConstant |-> Constant(p) = 0,
     coefficients |-> LET points == [i \in DOMAIN p |-> Times(Base, p[i])]
                      IN  IF Constant(p) = 0 THEN Tail(points) ELSE points]
ExponentEvaluate(F, x) ==
    LET result == FoldRight(LAMBDA c, r : Plus(Times(r, x), c), F.coefficients, Identity)
    IN  IF F.isConstant THEN Times(result, x) ELSE result
ExponentDegree(F) == IF F.isConstant THEN Len(F.coefficients) ELSE Len(F.coefficients) - 1
ExponentSum(Fs) ==
    [Head(Fs) EXCEPT !.coefficients = [i \in DOMAIN @ |->
        PlusAll([k \in DOMAIN Fs |-> Fs[k].coefficients[i]])]]

(* The coefficients with which the shares of a domain interpolate at 0. *)
Numerator(domain) == FoldSet(LAMBDA i, r : FnMul(r, PartyScalar[i]), 1, domain)
DenominatorWithoutOwn(domain, j) ==    \* a mutant: the own scalar is left out
    FoldSet(LAMBDA i, r : IF i = j THEN r
                          ELSE FnMul(r, FnSub(PartyScalar[i], PartyScalar[j])), 1, domain)
Denominator(domain, j) ==
    FoldSet(LAMBDA i, r : FnMul(r, IF i = j THEN PartyScalar[j]
                                   ELSE FnSub(PartyScalar[i], PartyScalar[j])), 1, domain)
Lagrange(domain) == [j \in domain |-> FnDiv(Numerator(domain), Denominator(domain, j))]

(* A signature: the point R, whose x is r, and s. *)
VerifySignature(R, s, key, m) ==
    LET r == X(R)
    IN  /\ r # 0 /\ s # 0
        /\ Times(Plus(Times(Base, m), Times(key, r)), FnInv(s)) = R

(* The form Ethereum reads: s in the lower half, and the parity of y that  *)
(* goes with it.                                                           *)
SigEthereumKeepsParity(R, s) ==    \* a mutant: s is negated, the parity stays
    [r |-> X(R), s |-> IF FnIsOverHalfOrder(s) THEN FnMod(-s) ELSE s, v |-> OddY(R)]
SigEthereum(R, s) ==
    [r |-> X(R),
     s |-> IF FnIsOverHalfOrder(s) THEN FnMod(-s) ELSE s,
     v |-> OddY(R) # FnIsOverHalfOrder(s)]

(* What a contract does with it: the key of which it is a signature. *)
Recover(signature, m) ==
    LET R == CHOOSE P \in Point : X(P) = signature.r /\ OddY(P) = signature.v
    IN  Times(Plus(Times(R, signature.s), Times(Base, FnMod(-m))), FnInv(signature.r))
===============================================================================
