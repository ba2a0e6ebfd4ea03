-------------------------- MODULE ThresholdCustody --------------------------
(***************************************************************************)
(* Loss-resistant key shares (services-go/custody/custody.go): a secret is *)
(* the value at 0 of a random polynomial over the integers modulo a prime, *)
(* a share its value at a positive point.                                  *)
(***************************************************************************)
EXTENDS Integers, FiniteSets, SequencesExt

CONSTANT Modulus   \* the group order, a prime

ASSUME CustodyAssumption == Modulus \in Nat /\ Modulus > 1

Field == 0 .. Modulus - 1
Panic == -1

\* Mutant of Coefficient: the random coefficients leave out zero.
NonzeroCoefficient == 1 .. Modulus - 1

\* rand.Int(n): anything below n.
Coefficient == 0 .. Modulus - 1

\* The polynomials Split may draw for a secret.
Polynomials(secret, need) ==
    {<<secret % Modulus>> \o c : c \in [1 .. need - 1 -> Coefficient]}

\* The share at x: Horner's rule from the highest coefficient.
ShareAt(poly, x) ==
    FoldRight(LAMBDA c, y : (y * x + c) % Modulus, poly, 0)
SplitRefuses(need, total) == need < 2 \/ need > total
Split(poly, total) == [i \in 1 .. total |-> [x |-> i, y |-> ShareAt(poly, i)]]

Product(f) == FoldLeft(LAMBDA a, b : (a * b) % Modulus, 1, f)

\* ModInverse; there is none of 0.
HasInverse(d) == d % Modulus # 0
ModInverse(d) == CHOOSE i \in Field : (i * d) % Modulus = 1

Numerator(shares, i) ==
    Product([j \in DOMAIN shares |-> IF j = i THEN 1 ELSE -shares[j].x])
Denominator(shares, i) ==
    Product([j \in DOMAIN shares |->
                IF j = i THEN 1 ELSE shares[i].x - shares[j].x])

\* Recover: interpolation at 0.  Two shares of one point have no inverse,
\* and the code multiplies by the nil it is given.
Recover(shares) ==
    IF \E i \in DOMAIN shares : ~HasInverse(Denominator(shares, i)) THEN Panic
    ELSE FoldLeft(LAMBDA a, b : (a + b) % Modulus, 0,
                  [i \in DOMAIN shares |->
                      (shares[i].y * Numerator(shares, i)
                       * ModInverse(Denominator(shares, i))) % Modulus])

\* The shares of the points in S.
SharesAt(shares, S) == SelectSeq(shares, LAMBDA s : s.x \in S)

\* Any need shares, or more, recover the secret; a share given twice never
\* yields a wrong secret, it stops the program (custody.go:29-82).
EnoughSharesRecover(secret, need, poly, total) ==
    LET shares == Split(poly, total) IN
    \A S \in SUBSET (1 .. total) : Cardinality(S) >= need =>
        /\ Recover(SharesAt(shares, S)) = secret
        /\ \A s \in S : Recover(Append(SharesAt(shares, S), shares[s])) = Panic

\* Fewer than need shares tell nothing: every secret is the secret of equally
\* many polynomials through them (custody.go:33-41).
FewerSharesTellNothing(need, poly, total) ==
    LET shares == Split(poly, total)
        Fitting(secret, S) ==
            {p \in Polynomials(secret, need) :
                SharesAt(Split(p, total), S) = SharesAt(shares, S)}
    IN  \A S \in SUBSET (1 .. total) : Cardinality(S) < need =>
            \A s \in Field :
                Cardinality(Fitting(s, S)) = Modulus^(need - 1 - Cardinality(S))
=============================================================================
