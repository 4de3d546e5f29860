-------------------------------- MODULE MCRounds --------------------------------
(***************************************************************************)
(* Three parties on a group of order 7 and a Paillier modulus of 7 * 23    *)
(* make a key and sign with it.                                            *)
(***************************************************************************)
EXTENDS SignRounds

Ids == <<"a", "b", "c">>
IdScalar == [a |-> 1, b |-> 2, c |-> 3]
Blum == {3, 5}

(* Numbers that look drawn: the i-th of those of a seed. *)
Pick(seed, i, low, high) ==
    LET a == (seed * 7919 + i * 9973) % 46337
    IN  low + (((a * a + a) % 46337) % (high - low + 1))
Interval(seed, i) == Pick(seed, i, 1, Order - 1)
PickUnit(seed, i) ==
    LET u == Pick(seed, i, 2, 160) IN IF Gcd(u, 161) = 1 THEN u ELSE u + 1

EncDraw(s, i) ==
    [alpha |-> Interval(s, i), mu |-> Interval(s, i + 1), gamma |-> Interval(s, i + 2),
     r |-> PickUnit(s, i + 3)]
MtaDraw(s, i) ==
    [alpha |-> Interval(s, i), beta |-> Interval(s, i + 1), gamma |-> Interval(s, i + 2),
     m |-> Interval(s, i + 3), delta |-> Interval(s, i + 4), mu |-> Interval(s, i + 5),
     rho |-> PickUnit(s, i + 6), rhoY |-> PickUnit(s, i + 7),
     betaNeg |-> Interval(s, i + 8), s |-> PickUnit(s, i + 9), r |-> PickUnit(s, i + 10)]
FacDraw(s, i) ==
    [alpha |-> Interval(s, i), beta |-> Interval(s, i + 1), mu |-> Interval(s, i + 2),
     nu |-> Interval(s, i + 3), sigma |-> Interval(s, i + 4), r |-> Interval(s, i + 5),
     x |-> Interval(s, i + 6), y |-> Interval(s, i + 7)]
PrmDraw(s, i, lambda) ==
    CHOOSE x \in Pick(s, i, 2, 60)..131 :
        x % 33 # 0 /\ Gcd(x, 161) = 1 /\ Gcd((x + lambda) % 132, 161) = 1
Lambda(s) == Pick(s, 5, 2, 131)
Draw(s) ==
    [vss |-> [i \in 1..4 |-> Interval(s, i)],
     lambda |-> Lambda(s), tau |-> <<2, 3, 5>>[Pick(s, 6, 1, 3)],
     elgamal |-> Interval(s, 7), schnorr |-> Interval(s, 8),
     rid |-> Pick(s, 9, 0, 7), chainKey |-> Pick(s, 10, 0, 7),
     decommitment |-> Pick(s, 11, 1, 7),
     w |-> CHOOSE w \in Pick(s, 12, 2, 200)..255 : Jacobi(w, 161) = -1,
     prm |-> [i \in 1..2 |-> PrmDraw(s, 12 + i, Lambda(s))], shareNonce |-> PickUnit(s, 15),
     fac |-> FacDraw(s, 16),
     k |-> Interval(s, 24), kNonce |-> PickUnit(s, 25),
     gamma |-> Interval(s, 26), gammaNonce |-> PickUnit(s, 27),
     enc |-> EncDraw(s, 28), log |-> EncDraw(s, 32), logDelta |-> EncDraw(s, 36),
     delta |-> [j \in Party |-> MtaDraw(s, 30 + 11 * PartyScalar[j])],
     chi |-> [j \in Party |-> MtaDraw(s, 70 + 11 * PartyScalar[j])]]
Drawn(s) ==
    [draws |-> [n \in Party |-> Draw(3 * s + PartyScalar[n])],
     oracle |-> [e |-> Interval(3 * s, 1), bits |-> [i \in 1..2 |-> (s + i) % 2 = 0],
                 ys |-> [i \in 1..2 |-> PickUnit(3 * s, 1 + i)]]]
Seeds == {190, 1300, 1928, 9228, 10844, 15489}
MCCeremonies == {Drawn(s) : s \in Seeds}
===============================================================================
