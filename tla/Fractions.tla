----------------------------- MODULE Fractions ------------------------------
(***************************************************************************)
(* Exact fractions in lowest terms, for prices and returns the code keeps  *)
(* as floats: equal fractions are equal values.                            *)
(***************************************************************************)
EXTENDS Integers, Functions

\* Euclid's algorithm on two naturals.
gcd[p \in Nat \X Nat] == IF p[2] = 0 THEN p[1] ELSE gcd[<<p[2], p[1] % p[2]>>]

Magnitude(n) == IF n < 0 THEN -n ELSE n

\* n / d for a positive d; a function, so that TLC evaluates its argument once.
lowest[p \in Int \X Nat] ==
    LET g == gcd[<<Magnitude(p[1]), p[2]>>]
    IN  [n |-> p[1] \div g, d |-> p[2] \div g]

Frac(n, d) == lowest[<<n, d>>]

Whole(n) == [n |-> n, d |-> 1]

\* The values the operators below work on.
IsFraction(a) == a \in [n : Int, d : Nat \ {0}] /\ a = Frac(a.n, a.d)

\* Over the least common denominator.
Plus(a, b) ==
    LET g == gcd[<<a.d, b.d>>]
    IN  Frac(a.n * (b.d \div g) + b.n * (a.d \div g), (a.d \div g) * b.d)
Minus(a, b) == Plus(a, [b EXCEPT !.n = -@])
Times(k, a) == Frac(k * a.n, a.d)

\* Cancelled crosswise before the parts are multiplied.
Product(a, b) ==
    LET x == Frac(a.n, b.d)
        y == Frac(b.n, a.d)
    IN  [n |-> x.n * y.n, d |-> x.d * y.d]

\* a / k for a positive integer k, and a / b for a fraction b that is not zero.
Share(a, k) == Frac(a.n, a.d * k)
Over(a, b)  == Product(a, IF b.n > 0 THEN [n |-> b.d, d |-> b.n] ELSE [n |-> -b.d, d |-> -b.n])

Absolute(a) == [a EXCEPT !.n = Magnitude(@)]

Below(a, b)  == a.n * b.d < b.n * a.d
AtMost(a, b) == a.n * b.d <= b.n * a.d

UnitInterval(a) == ~Below(a, Whole(0)) /\ AtMost(a, Whole(1))

\* The integer square root, one binary digit per call.
isqrt[m \in Nat] ==
    IF m = 0 THEN 0
    ELSE LET half == 2 * isqrt[m \div 4]
         IN  IF (half + 1) * (half + 1) <= m THEN half + 1 ELSE half

\* The square root of a fraction that is not negative, rounded to the nearest
\* multiple of 1 / steps as floats round it to one of their own.
Root(a, steps) == Frac((isqrt[(4 * a.n * steps * steps) \div a.d] + 1) \div 2, steps)

\* The sum and the product of the values of a function with a finite domain.
Total(v)     == FoldFunction(Plus, Whole(0), v)
ProductOf(v) == FoldFunction(Product, Whole(1), v)

=============================================================================
