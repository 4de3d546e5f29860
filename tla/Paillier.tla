-------------------------------- MODULE Paillier --------------------------------
(***************************************************************************)
(* The Paillier keys and the Pedersen parameters on their modulus          *)
(* (src/mpc/paillierKeyPair), with the number theory they rest on          *)
(* (src/mpc/math/arith.ts).  Numbers are numbers: only the length of the   *)
(* primes is a parameter.  A public key is its modulus n.                  *)
(***************************************************************************)
EXTENDS Integers, FiniteSets

CONSTANTS
    BlumBits,       \* BITS_BLUM_PRIME: the lengths a prime may have
    PaillierBits    \* BITS_PAILLIER and BITS_INT_MOD_N: the length of n

(* What the code takes from bigint-crypto-utils. *)
Gcd(a, b) ==
    LET gcd[x \in Nat, y \in Nat] == IF y = 0 THEN x ELSE gcd[y, x % y] IN gcd[a, b]
BitLength(x) == LET abs == IF x < 0 THEN -x ELSE x
                IN  CHOOSE k \in 0..31 : /\ k < 31 => abs < 2^k
                                         /\ k > 0 => abs >= 2^(k - 1)
IsPrime(p) == p > 1 /\ \A d \in 2..(p - 1) : p % d # 0
ModInv(x, n) == CHOOSE y \in 0..(n - 1) : ((x % n) * y) % n = 1
NatPow(x, e, n) ==
    LET pow[k \in Nat] ==
          IF k = 0 THEN 1 % n
          ELSE IF k % 2 = 0 THEN (pow[k \div 2]^2) % n
          ELSE (x * pow[k - 1]) % n
    IN  pow[e]
ModPow(x, e, n) == IF e < 0 THEN ModInv(NatPow(x % n, -e, n), n) ELSE NatPow(x % n, e, n)
ModMul(x, y, n) == ((x % n) * (y % n)) % n

IsValidModN(n, x) == x < n /\ Gcd(x, n) = 1

(* The Jacobi symbol by reciprocity: the twos of a are taken out, and the  *)
(* two odd numbers change places.                                          *)
TrailingZeroBits(x) == CHOOSE k \in 0..30 : x % 2^k = 0 /\ x % 2^(k + 1) # 0
Jacobi(x, y) ==
    LET jacobi[a \in Nat, b \in Nat] ==
          LET r == a % b
              s == TrailingZeroBits(r)
              c == r \div 2^s
              two == IF s % 2 = 1 /\ b % 8 \in {3, 5} THEN -1 ELSE 1
              swap == IF b % 4 = 3 /\ c % 4 = 3 THEN -1 ELSE 1
          IN  IF b = 1 THEN 1
              ELSE IF r = 0 THEN 0
              ELSE two * swap * jacobi[b, c]
    IN  jacobi[x, y]

---------------------------------------------------------------------------
(* The primes: 3 mod 4, and half of one less is prime again.  Of p itself  *)
(* the validation asks for no more.                                        *)
ValidPaillierPrime(p) ==
    BitLength(p) \in BlumBits /\ p % 4 = 3 /\ IsPrime((p - 1) \div 2)
ValidN(n) == BitLength(n) = PaillierBits /\ n % 2 # 0

PaillierSecretKey(p, q) ==
    [p |-> p, q |-> q, n |-> p * q, phi |-> (p - 1) * (q - 1),
     phiInv |-> ModInv((p - 1) * (q - 1), p * q)]

(* encrypt draws a unit and raises it to n; a message of more than half of *)
(* n throws.                                                               *)
Unit(n, x) == Gcd(x, n) = 1
Encrypts(n, m) == (IF m < 0 THEN -m ELSE m) <= n \div 2
Encrypt(n, m, nonce) == ModMul(ModPow(n + 1, m, n * n), ModPow(nonce, n, n * n), n * n)
ValidCiphertext(n, c) == c < n * n /\ Gcd(c, n * n) = 1

ModSymmetric(x, n) ==
    LET abs == (IF x < 0 THEN -x ELSE x) % n
        negated == (-abs) % n
    IN  IF negated <= abs THEN -negated ELSE abs
Decrypt(key, c) ==
    LET c1 == ModPow(c, key.phi, key.n * key.n)
        c3 == (c1 - 1) \div key.n
    IN  ModSymmetric(ModMul(c3, key.phiInv, key.n), key.n)

PaillierAdd(n, a, b) == ModMul(a, b, n * n)
PaillierMultiply(n, c, k) == ModPow(c, k, n * n)

---------------------------------------------------------------------------
(* Pedersen parameters: s is a power of the square t. *)
GeneratePedersen(key, lambda, tau) ==
    LET t == ModMul(tau, tau, key.n)
    IN  [n |-> key.n, s |-> ModPow(t, lambda, key.n), t |-> t]
ValidPedersen(n, s, t) ==
    /\ n > 0 /\ s \in 1..(n - 1) /\ t \in 1..(n - 1)
    /\ s # t /\ Gcd(s, n) = 1 /\ Gcd(t, n) = 1
PedersenCommit(aux, x, y) == ModMul(ModPow(aux.s, x, aux.n), ModPow(aux.t, y, aux.n), aux.n)
PedersenVerify(aux, a, b, e, S, T) ==
    /\ ValidPedersen(aux.n, S, T)
    /\ PedersenCommit(aux, a, b) = ModMul(ModPow(T, e, aux.n), S, aux.n)
===============================================================================
