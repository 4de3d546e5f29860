------------------------------ MODULE GroupProof ------------------------------
(***************************************************************************)
(* Theorems about the group (src/mpc/math, src/mpc/eth.ts, src/mpc/zk):    *)
(* for every prime order, key, message and signature, and every challenge. *)
(***************************************************************************)
EXTENDS ZkProofs, WellFoundedInduction, TLAPS

-------------------------------------------------------------------------------
(***************************************************************************)
(* Residues.                                                               *)
(***************************************************************************)

(* A number is a multiple of q and a residue, in one way only.             *)
LEMMA Division ==
    ASSUME NEW q \in Nat \ {0}, NEW x \in Int
    PROVE  /\ x % q \in 0..(q - 1)
           /\ \E k \in Int : x = (k * q) + (x % q)
<1>1. x % q \in 0..(q - 1)
    OBVIOUS
<1>2. x = ((x \div q) * q) + (x % q) /\ x \div q \in Int
    OBVIOUS
<1>. QED
    BY <1>1, <1>2

(* See Division. *)
LEMMA Residue ==
    ASSUME NEW q \in Nat \ {0}, NEW x \in Int, NEW k \in Int, NEW r \in 0..(q - 1),
           x = (k * q) + r
    PROVE  x % q = r
OBVIOUS

(* Numbers that differ by a multiple of q have the same residue.           *)
LEMMA Congruent ==
    ASSUME NEW q \in Nat \ {0}, NEW x \in Int, NEW y \in Int, NEW k \in Int,
           x = y + (k * q)
    PROVE  x % q = y % q
<1>1. PICK j \in Int : y = (j * q) + (y % q)
    BY Division
<1>. DEFINE r == y % q
<1>2. r \in 0..(q - 1) /\ y = (j * q) + r
    BY <1>1, Division
<1>. HIDE DEF r
<1>3. x = ((j + k) * q) + r /\ j + k \in Int
    BY <1>2
<1>4. x % q = r
    BY <1>2, <1>3, Residue
<1>. QED
    BY <1>4 DEF r

(* See Congruent. *)
LEMMA Difference ==
    ASSUME NEW q \in Nat \ {0}, NEW x \in Int, NEW y \in Int, x % q = y % q
    PROVE  \E k \in Int : x = y + (k * q)
<1>1. PICK i \in Int : x = (i * q) + (x % q)
    BY Division
<1>2. PICK j \in Int : y = (j * q) + (y % q)
    BY Division
<1>. DEFINE r == y % q
<1>3. x = (i * q) + r /\ y = (j * q) + r /\ r \in Int
    BY <1>1, <1>2, Division
<1>. HIDE DEF r
<1>4. x = y + ((i - j) * q) /\ i - j \in Int
    BY <1>3
<1>. QED
    BY <1>4

(* Products and sums are the same of the residues.                         *)
LEMMA ResidueOfProduct ==
    ASSUME NEW q \in Nat \ {0}, NEW a \in Int, NEW b \in Int
    PROVE  ((a % q) * b) % q = (a * b) % q
<1>. DEFINE r == a % q
<1>1. PICK k \in Int : a = (k * q) + r
    BY Division
<1>2. r \in Int
    BY Division
<1>. HIDE DEF r
<1>3. a * b = (r * b) + ((k * b) * q) /\ k * b \in Int /\ a * b \in Int /\ r * b \in Int
    BY <1>1, <1>2
<1>4. (a * b) % q = (r * b) % q
    BY <1>3, Congruent
<1>. QED
    BY <1>4 DEF r

(* See ResidueOfProduct. *)
LEMMA ResidueOfSum ==
    ASSUME NEW q \in Nat \ {0}, NEW a \in Int, NEW b \in Int
    PROVE  ((a % q) + b) % q = (a + b) % q
<1>. DEFINE r == a % q
<1>1. PICK k \in Int : a = (k * q) + r
    BY Division
<1>2. r \in Int
    BY Division
<1>. HIDE DEF r
<1>3. a + b = (r + b) + (k * q) /\ a + b \in Int /\ r + b \in Int
    BY <1>1, <1>2
<1>4. (a + b) % q = (r + b) % q
    BY <1>3, Congruent
<1>. QED
    BY <1>4 DEF r

-------------------------------------------------------------------------------
(***************************************************************************)
(* The field.  The order is prime, so what is not zero has an inverse: the *)
(* least positive multiple of it divides the order.                        *)
(***************************************************************************)

(* Every set of naturals has a least element.                              *)
LEMMA LeastOf ==
    ASSUME NEW T \in SUBSET Nat, T # {}
    PROVE  \E x \in T : \A y \in T : x <= y
<1>. DEFINE R == OpToRel(<, Nat)
<1>1. R = {p \in Nat \X Nat : p[1] < p[2]}
    BY DEF OpToRel
<1>2. IsWellFoundedOn(R, Nat)
    BY NatLessThanWellFounded
<1>. HIDE DEF R
<1>3. PICK x \in T : \A y \in T : <<y, x>> \notin R
    BY <1>2, WFMin
<1>4. ASSUME NEW y \in T
      PROVE  x <= y
    <2>1. <<y, x>> \in Nat \X Nat /\ x \in Nat /\ y \in Nat
        OBVIOUS
    <2>2. ~ (<<y, x>>[1] < <<y, x>>[2])
        BY <1>1, <1>3, <2>1
    <2>. QED
        BY <2>1, <2>2
<1>. QED
    BY <1>4

(* A multiple that leaves a remainder g, below which none leaves any:      *)
(* g divides q.                                                            *)
LEMMA LeastRemainderDivides ==
    ASSUME NEW q \in Nat \ {0}, NEW x \in Int, NEW a \in Int, NEW g \in 1..(q - 1),
           (x * a) % q = g,
           \A b \in Int : (x * b) % q \in {0} \cup g..(q - 1)
    PROVE  q % g = 0
<1>1. x * a \in Int /\ g \in Nat \ {0} /\ q \in Int
    OBVIOUS
<1>. DEFINE p == x * a
<1>2. p \in Int /\ p % q = g
    BY <1>1
<1>. HIDE DEF p
<1>3. PICK j \in Int : p = (j * q) + g
    BY <1>2, Division
<1>. DEFINE r == q % g
<1>4. PICK k \in Int : q = (k * g) + r
    BY <1>1, Division
<1>5. r \in 0..(g - 1)
    BY <1>1, Division
<1>. HIDE DEF r
<1>. DEFINE b == 0 - (k * a)
            c == 0 - (1 + (k * j))
<1>6. x * b = (c * q) + r
    <2>1. x * b = 0 - (k * p)
        BY DEF p
    <2>2. k * p = ((k * j) * q) + (k * g)
        BY <1>1, <1>2, <1>3
    <2>3. c * q = (0 - q) - ((k * j) * q)
        OBVIOUS
    <2>. DEFINE A == k * p
                B == (k * j) * q
                C == k * g
                D == x * b
                E == c * q
    <2>4. B \in Int /\ C \in Int /\ r \in Int
        BY <1>1, <1>5
    <2>5. D = 0 - A /\ A = B + C /\ E = (0 - q) - B /\ q = C + r
        BY <2>1, <2>2, <2>3, <1>4
    <2>. HIDE DEF A, B, C, D, E
    <2>6. D = E + r
        BY <2>4, <2>5
    <2>. QED
        BY <2>6 DEF D, E
<1>7. b \in Int /\ c \in Int /\ x * b \in Int /\ r \in 0..(q - 1)
    BY <1>1, <1>5
<1>. HIDE DEF c
<1>8. (x * b) % q = r
    <2>. DEFINE D == x * b
    <2>1. D \in Int /\ D = (c * q) + r
        BY <1>6, <1>7
    <2>. HIDE DEF D
    <2>2. D % q = r
        BY <1>7, <2>1, Residue
    <2>. QED
        BY <2>2 DEF D
<1>9. r \in {0} \cup g..(q - 1)
    BY <1>7, <1>8
<1>10. r = 0
    BY <1>1, <1>5, <1>9
<1>. QED
    BY <1>10 DEF r

(* An inverse for any x that is not zero (Fn.inv).                         *)
LEMMA InverseExists ==
    ASSUME NEW x \in NonZero
    PROVE  \E y \in Scalar : (x * y) % Order = 1
<1>. DEFINE q == Order
<1>1. q \in Nat \ {0} /\ q > 2 /\ x \in 1..(q - 1) /\ x \in Int
    BY SharingAssumption DEF NonZero
<1>2. \A d \in 2..(q - 1) : q % d # 0
    BY SharingAssumption
<1>. HIDE DEF q
<1>. DEFINE T == {n \in 1..(q - 1) : \E a \in Int : (x * a) % q = n}
<1>3. x \in T
    <2>1. x * 1 = (0 * q) + x /\ 0 \in Int /\ x \in 0..(q - 1)
        BY <1>1
    <2>2. (x * 1) = x
        BY <1>1
    <2>3. x % q = x
        BY <1>1, <2>1, <2>2, Residue
    <2>4. (x * 1) % q = x /\ 1 \in Int
        BY <2>2, <2>3
    <2>5. \E a \in Int : (x * a) % q = x
        BY <2>4, Zenon
    <2>. QED
        BY <1>1, <2>5, Zenon
<1>4. T \in SUBSET Nat
    BY <1>1
<1>5. PICK g \in T : \A y \in T : g <= y
    BY <1>3, <1>4, LeastOf
<1>6. PICK a \in Int : (x * a) % q = g
    BY <1>5
<1>7. g \in 1..(q - 1)
    BY <1>5
<1>8. \A b \in Int : (x * b) % q \in {0} \cup g..(q - 1)
    <2>. SUFFICES ASSUME NEW b \in Int
                  PROVE  (x * b) % q \in {0} \cup g..(q - 1)
        OBVIOUS
    <2>1. x * b \in Int
        BY <1>1
    <2>2. (x * b) % q \in 0..(q - 1)
        BY <1>1, <2>1, Division
    <2>. DEFINE r == (x * b) % q
    <2>3. \E d \in Int : (x * d) % q = r
        OBVIOUS
    <2>4. r \in 0..(q - 1)
        BY <2>2
    <2>. HIDE DEF r
    <2>6. r # 0 => r \in 1..(q - 1)
        BY <1>1, <2>4
    <2>7. r # 0 => r \in T
        BY <2>3, <2>6, Zenon
    <2>8. r # 0 => g <= r
        BY <1>5, <2>7, Zenon
    <2>5. r \in {0} \cup g..(q - 1)
        BY <1>1, <1>7, <2>4, <2>8
    <2>. QED
        BY <2>5 DEF r
<1>. HIDE DEF T
<1>9. q % g = 0
    BY <1>1, <1>6, <1>7, <1>8, LeastRemainderDivides
<1>10. g = 1
    BY <1>1, <1>2, <1>7, <1>9
<1>11. a % q \in 0..(q - 1) /\ a % q \in Int
    BY <1>1, Division
<1>12. (x * (a % q)) % q = 1
    <2>1. ((a % q) * x) % q = (a * x) % q
        BY <1>1, ResidueOfProduct
    <2>. DEFINE b == a % q
    <2>2. b \in Int
        BY <1>11
    <2>. HIDE DEF b
    <2>3. b * x = x * b /\ a * x = x * a
        BY <1>1, <2>2
    <2>4. (b * x) % q = (a * x) % q
        BY <2>1 DEF b
    <2>5. (x * b) % q = 1
        BY <1>6, <1>10, <2>3, <2>4
    <2>. QED
        BY <2>5 DEF b
<1>. QED
    BY <1>11, <1>12 DEF q, Scalar

(* What Fn.inv returns. *)
LEMMA InverseOf ==
    ASSUME NEW x \in NonZero
    PROVE  FnInv(x) \in Scalar /\ (x * FnInv(x)) % Order = 1
<1>1. Order \in Nat \ {0} /\ x \in Int /\ x = (0 * Order) + x /\ x \in 0..(Order - 1)
    BY SharingAssumption DEF NonZero
<1>2. FnMod(x) = x
    BY <1>1, Residue DEF FnMod
<1>3. \E y \in Scalar : FnMul(FnMod(x), y) = 1
    BY <1>2, InverseExists DEF FnMul
<1>. QED
    BY <1>2, <1>3 DEF FnInv, FnMul

-------------------------------------------------------------------------------
(***************************************************************************)
(* Congruence modulo the order.                                            *)
(***************************************************************************)
Same(a, b) == a % Order = b % Order

(* Sums and products of congruent numbers are congruent.                   *)
LEMMA SameSum ==
    ASSUME NEW a \in Int, NEW b \in Int, NEW c \in Int, NEW d \in Int,
           Same(a, c), Same(b, d)
    PROVE  Same(a + b, c + d)
<1>1. Order \in Nat \ {0}
    BY SharingAssumption
<1>2. PICK j \in Int : a = c + (j * Order)
    BY <1>1, Difference DEF Same
<1>3. PICK k \in Int : b = d + (k * Order)
    BY <1>1, Difference DEF Same
<1>4. a + b = (c + d) + ((j + k) * Order)
    BY <1>1, <1>2, <1>3
<1>5. j + k \in Int /\ a + b \in Int /\ c + d \in Int
    OBVIOUS
<1>. DEFINE u == a + b
            v == c + d
            n == j + k
<1>6. u \in Int /\ v \in Int /\ n \in Int /\ u = v + (n * Order)
    BY <1>4, <1>5
<1>. HIDE DEF u, v, n
<1>7. u % Order = v % Order
    BY <1>1, <1>6, Congruent
<1>. QED
    BY <1>7 DEF u, v, Same

(* See SameSum. *)
LEMMA SameProduct ==
    ASSUME NEW a \in Int, NEW b \in Int, NEW c \in Int, NEW d \in Int,
           Same(a, c), Same(b, d)
    PROVE  Same(a * b, c * d)
<1>1. Order \in Nat \ {0}
    BY SharingAssumption
<1>2. PICK j \in Int : a = c + (j * Order)
    BY <1>1, Difference DEF Same
<1>3. PICK k \in Int : b = d + (k * Order)
    BY <1>1, Difference DEF Same
<1>4. a * b = (c * d) + (((c * k) + (j * b)) * Order)
    <2>1. a * b = (c * b) + ((j * b) * Order)
        BY <1>1, <1>2
    <2>2. c * b = (c * d) + ((c * k) * Order)
        BY <1>1, <1>3
    <2>3. ((c * k) + (j * b)) * Order = ((c * k) * Order) + ((j * b) * Order)
        BY <1>1
    <2>. QED
        BY <1>1, <2>1, <2>2, <2>3
<1>5. (c * k) + (j * b) \in Int /\ a * b \in Int /\ c * d \in Int
    OBVIOUS
<1>. DEFINE u == a * b
            v == c * d
            n == (c * k) + (j * b)
<1>6. u \in Int /\ v \in Int /\ n \in Int /\ u = v + (n * Order)
    BY <1>4, <1>5
<1>. HIDE DEF u, v, n
<1>7. u % Order = v % Order
    BY <1>1, <1>6, Congruent
<1>. QED
    BY <1>7 DEF u, v, Same

(* A residue is congruent to what it is the residue of.                    *)
LEMMA SameAsResidue ==
    ASSUME NEW a \in Int
    PROVE  a % Order \in Scalar /\ a % Order \in Int /\ Same(a % Order, a)
<1>1. Order \in Nat \ {0}
    BY SharingAssumption
<1>2. a % Order \in 0..(Order - 1)
    BY <1>1, Division
<1>. DEFINE r == a % Order
<1>3. r \in 0..(Order - 1) /\ r = (0 * Order) + r /\ 0 \in Int /\ r \in Int
    BY <1>1, <1>2
<1>. HIDE DEF r
<1>4. r % Order = r
    BY <1>1, <1>3, Residue
<1>. QED
    BY <1>3, <1>4 DEF r, Same, Scalar

(* Scalars are their own residues.                                         *)
LEMMA ScalarResidue ==
    ASSUME NEW a \in Scalar
    PROVE  a \in Int /\ a % Order = a
<1>1. Order \in Nat \ {0} /\ a \in 0..(Order - 1) /\ a = (0 * Order) + a /\ 0 \in Int
    BY SharingAssumption DEF Scalar
<1>. QED
    BY <1>1, Residue

(* Multiplying and dividing by what is not zero.                           *)
LEMMA MultiplyAndDivide ==
    ASSUME NEW a \in Int, NEW x \in NonZero
    PROVE  /\ FnInv(x) \in Int /\ x \in Int
           /\ Same((a * x) * FnInv(x), a)
           /\ Same((a * FnInv(x)) * x, a)
<1>. DEFINE y == FnInv(x)
<1>1. Order \in Nat /\ Order > 2 /\ x \in Int
    BY SharingAssumption DEF NonZero
<1>2. y \in Int /\ (x * y) % Order = 1
    BY InverseOf, ScalarResidue
<1>. HIDE DEF y
<1>3. 1 % Order = 1
    BY <1>1, ScalarResidue DEF Scalar
<1>4. x * y \in Int /\ Same(x * y, 1) /\ Same(a, a)
    BY <1>1, <1>2, <1>3 DEF Same
<1>5. Same(a * (x * y), a * 1)
    BY <1>4, SameProduct
<1>6. a * 1 = a /\ a * (x * y) = (a * x) * y /\ a * (x * y) = (a * y) * x
    BY <1>1, <1>2
<1>. QED
    BY <1>1, <1>2, <1>5, <1>6 DEF y

-------------------------------------------------------------------------------
(***************************************************************************)
(* Signatures.                                                             *)
(***************************************************************************)

(* What a signature that verifies says of R and s.                         *)
LEMMA SignatureEquation ==
    ASSUME NEW R \in Scalar, NEW s \in Scalar, NEW key \in Scalar, NEW m \in Int,
           VerifySignature(R, s, key, m)
    PROVE  s # 0 /\ X(R) # 0 /\ Same(R * s, m + (key * X(R)))
<1>. DEFINE r == X(R)
            y == FnInv(s)
            A == Times(Base, m)
            B == Times(key, r)
            C == Plus(A, B)
<1>1. s # 0 /\ r # 0 /\ Times(C, y) = R
    BY DEF VerifySignature
<1>2. Order \in Nat /\ R \in Int /\ s \in Int /\ key \in Int /\ s \in NonZero
    BY <1>1, SharingAssumption DEF Scalar, NonZero
<1>3. r \in Int
    BY <1>2 DEF X
<1>4. y \in Int
    BY <1>2, MultiplyAndDivide
<1>5. A \in Int /\ Same(A, m)
    <2>1. 1 * m = m
        OBVIOUS
    <2>. QED
        BY <2>1, SameAsResidue DEF Times, FnMul, Base
<1>6. key * r \in Int /\ B \in Int /\ Same(B, key * r)
    <2>1. key * r \in Int
        BY <1>2, <1>3
    <2>. QED
        BY <2>1, SameAsResidue DEF Times, FnMul
<1>7. C = (A + B) % Order
    BY DEF Plus, FnAdd
<1>. HIDE DEF A, B, r
<1>8. C \in Int /\ Same(C, m + (key * r))
    <2>1. A + B \in Int /\ Same(A + B, m + (key * r))
        BY <1>5, <1>6, SameSum
    <2>2. C \in Int /\ Same(C, A + B)
        BY <1>7, <2>1, SameAsResidue
    <2>. QED
        BY <2>1, <2>2 DEF Same
<1>. HIDE DEF C
<1>9. R = (C * y) % Order
    BY <1>1 DEF Times, FnMul
<1>. HIDE DEF y
<1>10. Same(R, C * y)
    <2>1. C * y \in Int
        BY <1>4, <1>8
    <2>. QED
        BY <1>9, <2>1, SameAsResidue
<1>11. Same(R * s, (C * y) * s)
    <2>1. C * y \in Int /\ Same(s, s)
        BY <1>4, <1>8 DEF Same
    <2>. QED
        BY <1>2, <1>10, <2>1, SameProduct
<1>12. Same((C * y) * s, C)
    BY <1>2, <1>8, MultiplyAndDivide DEF y
<1>. QED
    BY <1>1, <1>8, <1>11, <1>12 DEF Same, r

(* A product that is congruent to R * s gives the key back.                *)
LEMMA KeyOfProduct ==
    ASSUME NEW P \in Int, NEW t \in Int, NEW key \in Scalar, NEW m \in Int,
           NEW r \in NonZero, Same(P * t, m + (key * r))
    PROVE  Times(Plus(Times(P, t), Times(Base, FnMod(-m))), FnInv(r)) = key
<1>. DEFINE y == FnInv(r)
            n == FnMod(-m)
            A == Times(P, t)
            B == Times(Base, n)
            C == Plus(A, B)
<1>1. Order \in Nat /\ key \in Int /\ r \in Int /\ y \in Int
    BY MultiplyAndDivide, ScalarResidue, SharingAssumption
<1>2. key * r \in Int /\ P * t \in Int /\ -m \in Int /\ m + (key * r) \in Int
    BY <1>1
<1>3. A \in Int /\ Same(A, m + (key * r))
    <2>1. A \in Int /\ Same(A, P * t)
        BY <1>2, SameAsResidue DEF Times, FnMul
    <2>. QED
        BY <2>1 DEF Same
<1>4. B \in Int /\ Same(B, -m)
    <2>1. n \in Int /\ Same(n, -m)
        BY <1>2, SameAsResidue DEF FnMod
    <2>. HIDE DEF n
    <2>2. 1 * n = n
        BY <2>1
    <2>3. B = n % Order
        BY <2>2 DEF Times, FnMul, Base
    <2>. QED
        BY <2>1, <2>3, SameAsResidue DEF Same
<1>5. C = (A + B) % Order
    BY DEF Plus, FnAdd
<1>. HIDE DEF A, B
<1>6. C \in Int /\ Same(C, key * r)
    <2>1. A + B \in Int /\ Same(A + B, (m + (key * r)) + (-m))
        BY <1>2, <1>3, <1>4, SameSum
    <2>2. (m + (key * r)) + (-m) = key * r
        BY <1>2
    <2>3. C \in Int /\ Same(C, A + B)
        BY <1>5, <2>1, SameAsResidue
    <2>. QED
        BY <2>1, <2>2, <2>3 DEF Same
<1>. HIDE DEF C
<1>7. Same(C * y, (key * r) * y)
    <2>1. Same(y, y)
        BY DEF Same
    <2>. QED
        BY <1>1, <1>2, <1>6, <2>1, SameProduct
<1>8. Same((key * r) * y, key)
    BY <1>1, MultiplyAndDivide
<1>9. (C * y) % Order = key
    BY <1>7, <1>8, ScalarResidue DEF Same
<1>. QED
    BY <1>9 DEF Times, FnMul, A, B, C

(* Of the two points with the x of the signature, the parity tells the one *)
(* that goes with s in the lower half.                                     *)
LEMMA PointOfSignature ==
    ASSUME NEW R \in NonZero, NEW s \in NonZero
    PROVE  LET signature == SigEthereum(R, s)
               P == CHOOSE P \in Point : X(P) = signature.r /\ OddY(P) = signature.v
           IN  /\ signature.r = X(R)
               /\ ~ FnIsOverHalfOrder(signature.s)
               /\ \/ P = R /\ signature.s = s
                  \/ P = Order - R /\ signature.s = Order - s
<1>. DEFINE h == Order \div 2
            signature == SigEthereum(R, s)
<1>1. Order \in Nat /\ Order > 2 /\ R \in 1..(Order - 1) /\ s \in 1..(Order - 1)
    BY SharingAssumption DEF NonZero
<1>2. Order % 2 # 0
    BY <1>1, SharingAssumption
<1>3. h \in Nat /\ Order = 2 * h + 1
    BY <1>1, <1>2
<1>4. \A P \in Int : /\ FnIsOverHalfOrder(P) <=> P > h
                     /\ OddY(P) <=> P > h
                     /\ X(P) = IF P > h THEN Order - P ELSE P
    BY DEF FnIsOverHalfOrder, OddY, X
<1>5. signature.r = X(R) /\ signature.v = (OddY(R) # FnIsOverHalfOrder(s))
    BY DEF SigEthereum
<1>6. signature.s = IF FnIsOverHalfOrder(s) THEN FnMod(-s) ELSE s
    BY DEF SigEthereum
<1>7. FnMod(-s) = Order - s
    <2>. DEFINE u == -s
                v == Order - s
    <2>1. u \in Int /\ v \in 0..(Order - 1) /\ u = ((-1) * Order) + v /\ -1 \in Int
        BY <1>1
    <2>. HIDE DEF u, v
    <2>2. u % Order = v
        BY <1>1, <2>1, Residue
    <2>. QED
        BY <2>2 DEF u, v, FnMod
<1>8. OddY(R) \in BOOLEAN /\ FnIsOverHalfOrder(s) \in BOOLEAN
    BY DEF OddY, FnIsOverHalfOrder
<1>. HIDE DEF h, signature
<1>9. CASE s > h
    <2>1. signature.s = Order - s /\ ~ FnIsOverHalfOrder(signature.s)
        BY <1>1, <1>3, <1>4, <1>6, <1>7, <1>9
    <2>2. \A P \in Point : X(P) = signature.r /\ OddY(P) = signature.v <=> P = Order - R
        <3>. TAKE P \in Point
        <3>1. P \in 0..(Order - 1)
            BY DEF Point, Scalar
        <3>2. OddY(P) = signature.v <=> (P > h <=> ~ R > h)
            <4>1. P \in Int /\ R \in Int /\ s \in Int
                BY <1>1, <3>1
            <4>2. (OddY(P) <=> P > h) /\ (OddY(R) <=> R > h) /\ FnIsOverHalfOrder(s) = TRUE
                BY <1>4, <1>8, <1>9, <4>1, Zenon
            <4>3. OddY(P) \in BOOLEAN /\ OddY(R) \in BOOLEAN
                BY DEF OddY, FnIsOverHalfOrder
            <4>. QED
                BY <1>5, <4>2, <4>3, Zenon
        <3>3. X(P) = signature.r <=>
              (IF P > h THEN Order - P ELSE P) = (IF R > h THEN Order - R ELSE R)
            BY <1>1, <1>4, <1>5, <3>1
        <3>. QED
            BY <1>1, <1>3, <3>1, <3>2, <3>3
    <2>3. Order - R \in Point
        BY <1>1 DEF Point, Scalar
    <2>. QED
        BY <1>5, <2>1, <2>2, <2>3 DEF signature
<1>10. CASE ~ s > h
    <2>1. signature.s = s /\ ~ FnIsOverHalfOrder(signature.s)
        BY <1>1, <1>3, <1>4, <1>6, <1>10
    <2>2. \A P \in Point : X(P) = signature.r /\ OddY(P) = signature.v <=> P = R
        <3>. TAKE P \in Point
        <3>1. P \in 0..(Order - 1)
            BY DEF Point, Scalar
        <3>2. OddY(P) = signature.v <=> (P > h <=> R > h)
            <4>1. P \in Int /\ R \in Int /\ s \in Int
                BY <1>1, <3>1
            <4>2. (OddY(P) <=> P > h) /\ (OddY(R) <=> R > h) /\ FnIsOverHalfOrder(s) = FALSE
                BY <1>4, <1>8, <1>10, <4>1, Zenon
            <4>3. OddY(P) \in BOOLEAN /\ OddY(R) \in BOOLEAN
                BY DEF OddY, FnIsOverHalfOrder
            <4>. QED
                BY <1>5, <4>2, <4>3, Zenon
        <3>3. X(P) = signature.r <=>
              (IF P > h THEN Order - P ELSE P) = (IF R > h THEN Order - R ELSE R)
            BY <1>1, <1>4, <1>5, <3>1
        <3>. QED
            BY <1>1, <1>3, <3>1, <3>2, <3>3
    <2>3. R \in Point
        BY <1>1 DEF Point, Scalar
    <2>. QED
        BY <1>5, <2>1, <2>2, <2>3 DEF signature
<1>. QED
    BY <1>9, <1>10

(* A signature that verifies, in the form for Ethereum, has its s in the   *)
(* lower half, and what is recovered from it is the very key that it was   *)
(* verified with, whichever halves R and s were in (eth.ts:9-38).          *)
THEOREM EthereumFormRecovers ==
    ASSUME NEW R \in Scalar, NEW s \in Scalar, NEW key \in Scalar, NEW m \in Int,
           VerifySignature(R, s, key, m)
    PROVE  /\ ~ FnIsOverHalfOrder(SigEthereum(R, s).s)
           /\ Recover(SigEthereum(R, s), m) = key
<1>. DEFINE signature == SigEthereum(R, s)
            P == CHOOSE P \in Point : X(P) = signature.r /\ OddY(P) = signature.v
            t == signature.s
            r == signature.r
<1>1. s # 0 /\ X(R) # 0 /\ Same(R * s, m + (key * X(R)))
    BY SignatureEquation
<1>2. Order \in Nat /\ Order > 2 /\ Order \in Int
    BY SharingAssumption
<1>3. X(0) = 0
    BY <1>2 DEF X, FnIsOverHalfOrder
<1>4. R \in NonZero /\ s \in NonZero
    BY <1>1, <1>2, <1>3 DEF Scalar, NonZero
<1>5. r = X(R) /\ ~ FnIsOverHalfOrder(t)
    BY <1>4, PointOfSignature
<1>6. \/ P = R /\ t = s
      \/ P = Order - R /\ t = Order - s
    BY <1>4, PointOfSignature
<1>7. Recover(signature, m) = Times(Plus(Times(P, t), Times(Base, FnMod(-m))), FnInv(r))
    BY DEF Recover
<1>8. R \in 1..(Order - 1) /\ s \in 1..(Order - 1)
    BY <1>4 DEF NonZero
<1>9. r \in NonZero
    <2>1. X(R) \in 0..(Order - 1)
        BY <1>2, <1>8 DEF X
    <2>. QED
        BY <1>1, <1>2, <1>5, <2>1 DEF NonZero
<1>. HIDE DEF signature, P, t, r
<1>10. P \in Int /\ t \in Int /\ R \in Int /\ s \in Int
    BY <1>2, <1>6, <1>8
<1>11. Same(P * t, R * s)
    <2>1. CASE P = R /\ t = s
        BY <2>1 DEF Same
    <2>2. CASE P = Order - R /\ t = Order - s
        <3>. DEFINE u == P * t
                    v == R * s
                    n == (Order - R) - s
        <3>1. (Order - R) * (Order - s) = (R * s) + (((Order - R) - s) * Order)
            BY <1>2, <1>10
        <3>2. u \in Int /\ v \in Int /\ n \in Int /\ u = v + (n * Order)
            BY <1>2, <1>10, <2>2, <3>1
        <3>3. Order \in Nat \ {0}
            BY <1>2
        <3>. HIDE DEF u, v, n
        <3>4. u % Order = v % Order
            BY <3>2, <3>3, Congruent
        <3>. QED
            BY <3>4 DEF u, v, Same
    <2>. QED
        BY <1>6, <2>1, <2>2
<1>12. Same(P * t, m + (key * r))
    BY <1>1, <1>5, <1>11 DEF Same
<1>13. Times(Plus(Times(P, t), Times(Base, FnMod(-m))), FnInv(r)) = key
    BY <1>9, <1>10, <1>12, KeyOfProduct
<1>. QED
    BY <1>5, <1>7, <1>13 DEF signature, t

-------------------------------------------------------------------------------
(***************************************************************************)
(* Schnorr's proofs.                                                       *)
(***************************************************************************)

(* An honest proof of a logarithm is accepted whatever is drawn, but for   *)
(* the draw that makes the response zero (zksch.ts:124-177, 198-203).      *)
THEOREM SchnorrAccepts ==
    ASSUME NEW secret \in NonZero, NEW a \in Scalar, NEW e \in NonZero
    PROVE  SchVerify(SchProve(a, e, secret), e, Times(Base, secret), SchCommitment(a))
             <=> SchProve(a, e, secret) # 0
<1>. DEFINE Z == SchProve(a, e, secret)
<1>1. secret \in Scalar /\ e \in Int /\ secret \in Int /\ a \in Int /\ secret # 0
    BY SharingAssumption DEF NonZero, Scalar
<1>2. \A x \in Scalar : Times(Base, x) = x
    <2>. TAKE x \in Scalar
    <2>1. x \in Int /\ x % Order = x
        BY ScalarResidue
    <2>2. 1 * x = x
        BY <2>1
    <2>. QED
        BY <2>1, <2>2 DEF Times, FnMul, Base
<1>3. e * secret \in Int /\ e * secret = secret * e
    BY <1>1
<1>. DEFINE p == e * secret
            b == p % Order
<1>4. b \in Int /\ Same(b, p) /\ p \in Int /\ Same(a, a)
    BY <1>3, SameAsResidue DEF Same
<1>5. FnMul(e, secret) = b /\ Times(secret, e) = b
    BY <1>3 DEF Times, FnMul
<1>6. Z = (b + a) % Order
    BY <1>5 DEF SchProve, FnAdd
<1>. HIDE DEF b, p
<1>7. Z \in Scalar
    <2>1. b + a \in Int
        BY <1>1, <1>4
    <2>. QED
        BY <1>6, <2>1, SameAsResidue
<1>8. Plus(Times(secret, e), a) = Z
    BY <1>5, <1>6 DEF Plus, FnAdd
<1>. HIDE DEF Z
<1>9. Times(Base, Z) = Plus(Times(secret, e), a)
    BY <1>2, <1>7, <1>8
<1>10. SchVerify(Z, e, secret, a) <=> Z # 0
    BY <1>1, <1>9 DEF SchVerify, SchIsResponseValid, Multiplier, Identity
<1>11. Times(Base, secret) = secret /\ SchCommitment(a) = a
    BY <1>1, <1>2 DEF SchCommitment
<1>. QED
    BY <1>10, <1>11 DEF Z

(* Two answers to different challenges that the verifier takes for one     *)
(* commitment give the logarithm of the point: who can answer both knows   *)
(* it (zksch.ts:149-177).                                                  *)
THEOREM SchnorrExtracts ==
    ASSUME NEW pub \in Point, NEW C \in Point,
           NEW Z1 \in Scalar, NEW Z2 \in Scalar, NEW e1 \in Scalar, NEW e2 \in Scalar,
           SchVerify(Z1, e1, pub, C), SchVerify(Z2, e2, pub, C), e1 # e2
    PROVE  Times(Base, FnDiv(FnSub(Z1, Z2), FnSub(e1, e2))) = pub
<1>. DEFINE Z == FnSub(Z1, Z2)
            e == FnSub(e1, e2)
            y == FnInv(e)
<1>1. Order \in Nat /\ Order > 2 /\ Z1 \in Int /\ Z2 \in Int /\ e1 \in Int /\ e2 \in Int
      /\ pub \in Int /\ C \in Int
    BY SharingAssumption DEF Scalar, Point
<1>2. \A a, b \in Scalar : FnSub(a, b) \in Scalar /\ Same(FnSub(a, b), a - b)
    <2>. TAKE a, b \in Scalar
    <2>. DEFINE u == a + (Order - b)
                v == a - b
    <2>1. u \in Int /\ v \in Int /\ u = v + (1 * Order) /\ 1 \in Int /\ Order \in Nat \ {0}
        BY <1>1 DEF Scalar
    <2>2. FnSub(a, b) = u % Order
        BY DEF FnSub
    <2>. HIDE DEF u, v
    <2>3. u % Order = v % Order
        BY <2>1, Congruent
    <2>4. u % Order \in Scalar /\ Same(u % Order, u)
        BY <2>1, SameAsResidue
    <2>. QED
        BY <2>2, <2>3, <2>4 DEF Same, v
<1>3. \A a, c \in Scalar : SchVerify(a, c, pub, C) => Same(a, (pub * c) + C)
    <2>. SUFFICES ASSUME NEW a \in Scalar, NEW c \in Scalar, SchVerify(a, c, pub, C)
                  PROVE  Same(a, (pub * c) + C)
        OBVIOUS
    <2>1. a \in Int /\ a % Order = a /\ c \in Int
        BY ScalarResidue
    <2>2. 1 * a = a
        BY <2>1
    <2>3. a = FnAdd(FnMul(pub, c), C)
        BY <2>1, <2>2 DEF SchVerify, Times, Plus, FnMul, Base
    <2>. DEFINE p == pub * c
                b == p % Order
    <2>4. p \in Int
        BY <1>1, <2>1
    <2>5. b \in Int /\ Same(b, p) /\ Same(C, C)
        BY <2>4, SameAsResidue DEF Same
    <2>6. a = (b + C) % Order
        BY <2>3 DEF FnAdd, FnMul
    <2>. HIDE DEF b, p
    <2>7. Same(b + C, p + C) /\ b + C \in Int
        BY <1>1, <2>4, <2>5, SameSum
    <2>. QED
        BY <2>6, <2>7, SameAsResidue DEF Same, p
<1>4. Same(Z1, (pub * e1) + C) /\ Same(Z2, (pub * e2) + C)
    BY <1>3
<1>5. Z \in Int /\ Same(Z, Z1 - Z2) /\ e \in Scalar /\ Same(e, e1 - e2)
    BY <1>2, ScalarResidue
<1>. HIDE DEF Z, e
<1>6. e \in NonZero
    <2>. SUFFICES ASSUME e = 0 PROVE FALSE
        BY <1>1, <1>5 DEF NonZero, Scalar
    <2>1. Same(e2, e2)
        BY DEF Same
    <2>2. e1 - e2 \in Int /\ Same(e1 - e2, 0) /\ 0 \in Int
        BY <1>1, <1>5 DEF Same
    <2>3. Same((e1 - e2) + e2, 0 + e2)
        BY <1>1, <2>1, <2>2, SameSum
    <2>4. (e1 - e2) + e2 = e1 /\ 0 + e2 = e2
        BY <1>1
    <2>5. e1 % Order = e2 % Order
        BY <2>3, <2>4 DEF Same
    <2>. QED
        BY <2>5, ScalarResidue
<1>7. Same(Z, pub * e)
    <2>. DEFINE A == (pub * e1) + C
                B == (pub * e2) + C
    <2>1. A \in Int /\ B \in Int
        BY <1>1
    <2>2. Same(Z2, B) /\ Same(-1, -1)
        BY <1>4 DEF Same
    <2>3. Same((-1) * Z2, (-1) * B)
        BY <1>1, <2>1, <2>2, SameProduct
    <2>4. Same(Z1 + ((-1) * Z2), A + ((-1) * B))
        BY <1>1, <1>4, <2>1, <2>3, SameSum
    <2>5. Z1 + ((-1) * Z2) = Z1 - Z2
        BY <1>1
    <2>6. A + ((-1) * B) = pub * (e1 - e2)
        BY <1>1
    <2>7. e \in Int /\ e1 - e2 \in Int /\ Same(pub, pub)
        BY <1>1, <1>5, ScalarResidue DEF Same
    <2>8. Same(pub * e, pub * (e1 - e2))
        BY <1>1, <1>5, <2>7, SameProduct
    <2>. QED
        BY <1>5, <2>4, <2>5, <2>6, <2>8 DEF Same
<1>8. y \in Int /\ e \in Int /\ Same((pub * e) * y, pub)
    BY <1>1, <1>6, MultiplyAndDivide
<1>. HIDE DEF y
<1>9. Same(Z * y, pub)
    <2>1. Same(y, y) /\ pub * e \in Int
        BY <1>1, <1>8 DEF Same
    <2>2. Same(Z * y, (pub * e) * y)
        BY <1>5, <1>7, <1>8, <2>1, SameProduct
    <2>. QED
        BY <1>8, <2>2 DEF Same
<1>10. FnDiv(Z, e) = pub
    <2>1. pub % Order = pub
        BY ScalarResidue DEF Point
    <2>. QED
        BY <1>9, <2>1 DEF FnDiv, FnMul, Same, y
<1>11. Times(Base, pub) = pub
    <2>1. pub % Order = pub
        BY ScalarResidue DEF Point
    <2>2. 1 * pub = pub
        BY <1>1
    <2>. QED
        BY <2>1, <2>2 DEF Times, FnMul, Base
<1>. QED
    BY <1>10, <1>11 DEF Z, e

===============================================================================
