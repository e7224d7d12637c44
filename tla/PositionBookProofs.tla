------------------------- MODULE PositionBookProofs -------------------------
(***************************************************************************)
(* What PositionBook promises, for any symbols, orders, prices and costs,  *)
(* when sizes add exactly: the book is a cash account, it can be told from *)
(* its fills, and the reconciliation finds the faulty fill.                *)
(***************************************************************************)
EXTENDS PositionBook, DataLemmas

\* The sum of two sizes is the exact one.
Exact == \A x \in Int : Rounded(x) = x

-----------------------------------------------------------------------------
(* One position                                                            *)

Positions == {p \in [net : Int, entry : Rational, realized : Rational] :
                 /\ p.net = 0 => p = Closed
                 /\ p.net # 0 => p.entry.n > 0}

\* What a position has paid for what it holds.
Cost(p) == Times(p.net, p.entry)

\* The bounds of the entry of q, which was p before a fill.
Lower(p, q, signed, price) ==
    \/ SameDirection(p.net, q.net) /\ AtMost(p.entry, q.entry)
    \/ SameDirection(signed, q.net) /\ AtMost(Whole(price), q.entry)

Upper(p, q, signed, price) ==
    \/ SameDirection(p.net, q.net) /\ AtMost(q.entry, p.entry)
    \/ SameDirection(signed, q.net) /\ AtMost(q.entry, Whole(price))

\* A fill makes q of p and realizes the gain.
Moves(p, q, signed, price, gain) ==
    /\ q \in Positions
    /\ q.net = p.net + signed
    /\ gain \in Rational
    /\ Cost(q) = Plus(Cost(p), Plus(Whole(signed * price), gain))
    /\ q.net # 0 => Lower(p, q, signed, price) /\ Upper(p, q, signed, price)

\* The entry of an open position over a denominator of its own.
LEMMA EntryIs ==
    ASSUME NEW p \in Positions, p.net # 0
    PROVE  \E e \in Nat \ {0}, d \in Nat \ {0} : p.entry = Frac(e, d)
<1>1. p.entry \in Rational /\ p.entry.n > 0
  BY DEF Positions
<1>2. p.entry.n \in Int /\ p.entry.d \in Nat \ {0} /\ p.entry = Frac(p.entry.n, p.entry.d)
  BY <1>1, RationalIsFrac
<1>3. p.entry.n \in Nat \ {0}
  BY <1>1, <1>2
<1> QED
  BY <1>2, <1>3

\* A whole number over any denominator.
LEMMA WholeOver ==
    ASSUME NEW k \in Int, NEW d \in Nat \ {0}
    PROVE  k * d \in Int /\ Whole(k) = Frac(k * d, d) /\ Whole(k) \in Rational
BY WholeIs

\* The weighted average lies between the entry and the price.
LEMMA AverageIs ==
    ASSUME NEW m \in Nat \ {0}, NEW k \in Nat \ {0}, NEW e \in Nat \ {0}, NEW d \in Nat \ {0},
           NEW price \in Nat \ {0}
    PROVE  LET paid == m * e + k * (price * d)
               avg  == Frac(paid, d * (m + k))
           IN  /\ paid \in Nat \ {0} /\ avg \in Rational /\ avg.n > 0
               /\ Times(m + k, avg) = Frac(paid, d)
               /\ Times(-(m + k), avg) = Frac(-paid, d)
               /\ \/ AtMost(Frac(e, d), avg) /\ AtMost(avg, Whole(price))
                  \/ AtMost(Whole(price), avg) /\ AtMost(avg, Frac(e, d))
<1> DEFINE q == price * d
           paid == m * e + k * q
           n == m + k
           D == d * n
           avg == Frac(paid, D)
<1>1. q \in Nat \ {0} /\ n \in Nat \ {0}
  OBVIOUS
<1>2. D \in Nat \ {0} /\ m * e \in Nat \ {0} /\ k * q \in Nat \ {0} /\ m * q \in Nat \ {0}
      /\ k * e \in Nat \ {0}
  BY <1>1
<1>3. paid \in Nat \ {0}
  BY <1>2
<1>4. avg \in Rational /\ avg.n > 0
  <2>1. paid \in Int /\ 0 \in Int /\ paid > 0
    BY <1>3
  <2> QED
    BY <1>2, <2>1, FracIs, OrderOverOne
<1>5. Times(n, avg) = Frac(paid, d) /\ Times(-n, avg) = Frac(-paid, d)
  <2>1. paid \in Int /\ -paid \in Int /\ n \in Int /\ -n \in Int
    BY <1>1, <1>3
  <2>2. Times(n, avg) = Frac(n * paid, D) /\ Times(-n, avg) = Frac((-n) * paid, D)
    BY <1>2, <2>1, TimesOverOne
  <2>3. n * paid = paid * n /\ (-n) * paid = (-paid) * n
    BY <2>1
  <2>4. Frac(paid * n, D) = Frac(paid, d) /\ Frac((-paid) * n, D) = Frac(-paid, d)
    BY <1>1, <2>1, FracScale
  <2> QED
    BY <2>2, <2>3, <2>4
<1>6. Frac(e, d) = Frac(e * n, D) /\ e * n = m * e + k * e /\ e * n \in Int
  <2>1. e * n = m * e + k * e
    OBVIOUS
  <2>2. e \in Int /\ n \in Nat \ {0}
    BY <1>1
  <2> HIDE DEF n
  <2> QED
    BY <2>1, <2>2, FracScale
<1>7. Whole(price) = Frac(price * D, D) /\ price * D = m * q + k * q /\ price * D \in Int
  <2>1. price * D = q * n
    OBVIOUS
  <2>2. q * n = m * q + k * q
    BY <1>1
  <2> QED
    BY <1>2, <2>1, <2>2, WholeOver
<1> DEFINE l == e * n
           h == price * D
<1>8. /\ AtMost(Frac(l, D), avg) <=> l <= paid
      /\ AtMost(avg, Frac(l, D)) <=> paid <= l
      /\ AtMost(Frac(h, D), avg) <=> h <= paid
      /\ AtMost(avg, Frac(h, D)) <=> paid <= h
  <2>1. paid \in Int /\ l \in Int /\ h \in Int
    BY <1>3, <1>6, <1>7
  <2> HIDE DEF l, h, paid, D
  <2> QED
    BY <1>2, <2>1, OrderOverOne
<1>9. e <= q \/ q <= e
  BY <1>1
<1>10. (e <= q => k * e <= k * q /\ m * e <= m * q) /\ (q <= e => k * q <= k * e /\ m * q <= m * e)
  <2>1. e \in Int /\ q \in Int
    BY <1>1
  <2> HIDE DEF q
  <2> QED
    BY <2>1, ScaleOrder
<1>11. (l <= paid /\ paid <= h) \/ (h <= paid /\ paid <= l)
  <2>1. l = m * e + k * e /\ h = m * q + k * q
    BY <1>6, <1>7
  <2> HIDE DEF l, h, q
  <2> QED
    BY <1>2, <1>9, <1>10, <2>1
<1>12. \/ AtMost(Frac(e, d), avg) /\ AtMost(avg, Whole(price))
       \/ AtMost(Whole(price), avg) /\ AtMost(avg, Frac(e, d))
  BY <1>6, <1>7, <1>8, <1>11
<1> QED
  BY <1>3, <1>4, <1>5, <1>12

-----------------------------------------------------------------------------
(* The three ways a fill moves a position                                  *)

LEMMA PlusType ==
    ASSUME NEW a \in Rational, NEW b \in Rational
    PROVE  Plus(a, b) \in Rational
<1> DEFINE x == a.n * b.d
           y == b.n * a.d
           d == a.d * b.d
<1>1. a.n \in Int /\ a.d \in Nat \ {0} /\ b.n \in Int /\ b.d \in Nat \ {0}
  BY RationalIsFrac
<1>2. x \in Int /\ y \in Int /\ d \in Nat \ {0} /\ x + y \in Int
  BY <1>1
<1>3. Plus(a, b) = Frac(x + y, d)
  BY PlusIs
<1> HIDE DEF x, y, d
<1> QED
  BY <1>2, <1>3, FracIs

LEMMA MinusType ==
    ASSUME NEW a \in Rational, NEW b \in Rational
    PROVE  Minus(a, b) \in Rational
<1>1. [b EXCEPT !.n = -@] \in Rational
  BY OppositeIs
<1> QED
  BY <1>1, PlusType DEF Minus

LEMMA TimesType ==
    ASSUME NEW k \in Int, NEW a \in Rational
    PROVE  Times(k, a) \in Rational
<1> DEFINE x == k * a.n
<1>1. x \in Int /\ a.d \in Nat \ {0}
  BY RationalIsFrac
<1> HIDE DEF x
<1>2. Frac(x, a.d) \in Rational
  BY <1>1, FracIs
<1> QED
  BY <1>2 DEF Times, x

LEMMA TimesWhole ==
    ASSUME NEW k \in Int, NEW x \in Int
    PROVE  k * x \in Int /\ Times(k, Whole(x)) = Whole(k * x)
<1> DEFINE one == 1
<1>1. k * x \in Int /\ x * one = x /\ (k * x) * one = k * x /\ one \in Nat \ {0}
  OBVIOUS
<1> HIDE DEF one
<1>2. Whole(x) = Frac(x * one, one) /\ Whole(k * x) = Frac((k * x) * one, one)
  BY <1>1, WholeIs
<1>3. Times(k, Frac(x, one)) = Frac(k * x, one)
  BY <1>1, TimesOverOne
<1> QED
  BY <1>1, <1>2, <1>3

LEMMA ClosedPosition ==
    /\ Closed \in Positions /\ Cost(Closed) = Whole(0) /\ Whole(0) \in Rational
    /\ \A q \in Rational : Plus(q, Whole(0)) = q /\ Plus(Whole(0), q) = q
<1>1. Whole(0) \in Rational
  BY WholeIs
<1>2. Closed \in Positions
  BY <1>1 DEF Closed, Positions
<1>3. Cost(Closed) = Whole(0)
  <2> DEFINE zero == 0
  <2>1. zero \in Int /\ zero * zero = zero
    OBVIOUS
  <2>2. Cost(Closed) = Times(zero, Whole(zero))
    BY DEF Cost, Closed
  <2> HIDE DEF zero
  <2>3. Cost(Closed) = Whole(zero)
    BY <2>1, <2>2, TimesWhole
  <2> QED
    BY <2>3 DEF zero
<1>4. ASSUME NEW q \in Rational
      PROVE  Plus(q, Whole(0)) = q /\ Plus(Whole(0), q) = q
  <2> DEFINE d == q.d
             n == q.n
  <2>1. n \in Int /\ d \in Nat \ {0} /\ q = Frac(n, d)
    BY RationalIsFrac
  <2> HIDE DEF n, d
  <2> DEFINE zero == 0
  <2>2. Whole(0) = Frac(zero * d, d) /\ zero * d = zero /\ zero \in Int
        /\ n + zero = n /\ zero + n = n
    BY <2>1, WholeIs
  <2> HIDE DEF zero
  <2>3. /\ Plus(Frac(n, d), Frac(zero, d)) = Frac(n + zero, d)
        /\ Plus(Frac(zero, d), Frac(n, d)) = Frac(zero + n, d)
    BY <2>1, <2>2, SumOverOne
  <2> QED
    BY <2>1, <2>2, <2>3
<1> QED
  BY <1>1, <1>2, <1>3, <1>4

LEMMA OrderReflexive ==
    ASSUME NEW q \in Rational
    PROVE  AtMost(q, q)
<1>1. q.n \in Int /\ q.d \in Nat \ {0} /\ q = Frac(q.n, q.d)
  BY RationalIsFrac
<1> QED
  BY <1>1 DEF AtMost

\* The first fill of a symbol opens a position at its price.
LEMMA OpenedMoves ==
    ASSUME NEW signed \in Int, signed # 0, NEW price \in Nat \ {0}
    PROVE  Moves(Closed, Opened(signed, price), signed, price, Whole(0))
<1> DEFINE q == Opened(signed, price)
<1>1. Whole(price) \in Rational /\ Whole(price).n = price
  BY WholeIs DEF Whole
<1>2. q \in Positions /\ q.net = signed /\ q.entry = Whole(price)
  BY <1>1, ClosedPosition DEF Opened, Positions
<1>3. Cost(q) = Whole(signed * price)
  <2>1. Times(signed, Whole(price)) = Whole(signed * price)
    BY TimesWhole
  <2> QED
    BY <1>2, <2>1 DEF Cost
<1>4. Whole(signed * price) \in Rational
  BY WholeIs
<1>5. Cost(q) = Plus(Cost(Closed), Plus(Whole(signed * price), Whole(0)))
  BY <1>3, <1>4, ClosedPosition
<1>6. SameDirection(signed, q.net) /\ AtMost(Whole(price), q.entry) /\ AtMost(q.entry, Whole(price))
  BY <1>1, <1>2, OrderReflexive DEF SameDirection
<1>7. q.net = Closed.net + signed
  BY <1>2 DEF Closed
<1>8. Lower(Closed, q, signed, price) /\ Upper(Closed, q, signed, price)
  BY <1>6 DEF Lower, Upper
<1> HIDE DEF q
<1>9. Moves(Closed, q, signed, price, Whole(0))
  BY <1>2, <1>5, <1>7, <1>8, ClosedPosition DEF Moves
<1> QED
  BY <1>9 DEF q

\* A fill in the direction of the position averages into its entry.
LEMMA AveragedMoves ==
    ASSUME Exact, NEW p \in Positions, NEW signed \in Int, SameDirection(p.net, signed),
           NEW price \in Nat \ {0}
    PROVE  Moves(p, Averaged(p, signed, price), signed, price, Whole(0))
<1> DEFINE m == Magnitude(p.net)
           k == Magnitude(signed)
           q == Averaged(p, signed, price)
<1>1. p.net \in Int /\ p.net # 0 /\ p.realized \in Rational /\ p.entry \in Rational
      /\ p = [net |-> p.net, entry |-> p.entry, realized |-> p.realized]
  BY DEF SameDirection, Positions
<1>2. m \in Nat \ {0} /\ k \in Nat \ {0}
  BY <1>1 DEF SameDirection, Magnitude
<1>3. Rounded(p.net + signed) = p.net + signed /\ p.net + signed # 0
      /\ Magnitude(p.net + signed) = m + k
  BY <1>1 DEF Exact, SameDirection, Magnitude
<1>4. PICK e \in Nat \ {0}, d \in Nat \ {0} : p.entry = Frac(e, d)
  BY <1>1, EntryIs
<1> DEFINE paid == m * e + k * (price * d)
           avg == Frac(paid, d * (m + k))
<1>5. /\ paid \in Nat \ {0} /\ avg \in Rational /\ avg.n > 0
      /\ Times(m + k, avg) = Frac(paid, d)
      /\ Times(-(m + k), avg) = Frac(-paid, d)
      /\ \/ AtMost(Frac(e, d), avg) /\ AtMost(avg, Whole(price))
         \/ AtMost(Whole(price), avg) /\ AtMost(avg, Frac(e, d))
  <2> HIDE DEF m, k
  <2> QED
    BY <1>2, AverageIs
<1>6. Share(Plus(Times(m, p.entry), Whole(price * k)), m + k) = avg
  <2> HIDE DEF m, k
  <2> DEFINE x == m * e
             y == k * (price * d)
  <2>1. x \in Int /\ y \in Int /\ m \in Int /\ e \in Int /\ m + k \in Nat \ {0} /\ price * k \in Int
    BY <1>2
  <2>2. Times(m, p.entry) = Frac(x, d)
    BY <1>4, <2>1, TimesOverOne
  <2>3. Whole(price * k) = Frac((price * k) * d, d)
    BY <2>1, WholeOver
  <2>4. (price * k) * d = y
    BY <1>2
  <2>5. Plus(Frac(x, d), Frac(y, d)) = Frac(x + y, d)
    BY <2>1, SumOverOne
  <2>6. Share(Frac(x + y, d), m + k) = Frac(x + y, d * (m + k))
    <3>1. x + y \in Int
      BY <2>1
    <3> HIDE DEF x, y
    <3> QED
      BY <2>1, <3>1, ShareOverOne
  <2> QED
    BY <2>2, <2>3, <2>4, <2>5, <2>6
<1>7. q = [net |-> p.net + signed, entry |-> avg, realized |-> p.realized]
  <2>1. Averaged(p, signed, price) =
          [p EXCEPT !.net = p.net + signed,
                    !.entry = Share(Plus(Times(m, p.entry), Whole(price * k)), m + k)]
    BY <1>3 DEF Averaged
  <2> HIDE DEF avg
  <2> QED
    BY <1>1, <1>6, <2>1
<1>8. q \in Positions /\ q.net = p.net + signed /\ q.entry = avg
  <2> HIDE DEF avg
  <2> QED
    BY <1>1, <1>3, <1>5, <1>7 DEF Positions
<1>9. Cost(q) = Plus(Cost(p), Whole(signed * price))
  <2> DEFINE P == price * d
  <2>1. Cost(p) = Frac(p.net * e, d) /\ p.net * e \in Int
    BY <1>1, <1>4, TimesOverOne DEF Cost
  <2>2. Whole(signed * price) = Frac((signed * price) * d, d) /\ signed * price \in Int
    BY WholeOver
  <2>3. (signed * price) * d = signed * P /\ P \in Nat /\ signed * P \in Int
    OBVIOUS
  <2> HIDE DEF P
  <2>4. Plus(Cost(p), Whole(signed * price)) = Frac(p.net * e + signed * P, d)
    <3> DEFINE x == p.net * e
               y == signed * P
    <3>1. x \in Int /\ y \in Int /\ Cost(p) = Frac(x, d) /\ Whole(signed * price) = Frac(y, d)
      BY <2>1, <2>2, <2>3
    <3> HIDE DEF x, y
    <3>2. Plus(Cost(p), Whole(signed * price)) = Frac(x + y, d)
      BY <3>1, SumOverOne
    <3> QED
      BY <3>2 DEF x, y
  <2>5. CASE p.net > 0
    <3>1. m = p.net /\ k = signed
      BY <1>1, <2>5 DEF SameDirection, Magnitude
    <3>2. Cost(q) = Frac(paid, d)
      BY <1>5, <1>8, <3>1 DEF Cost
    <3>3. paid = p.net * e + signed * P
      BY <3>1 DEF P
    <3> QED
      BY <2>4, <3>2, <3>3
  <2>6. CASE p.net < 0
    <3>1. m = -p.net /\ k = -signed /\ p.net + signed = -(m + k)
      BY <1>1, <2>6 DEF SameDirection, Magnitude
    <3>2. Cost(q) = Frac(-paid, d)
      BY <1>5, <1>8, <3>1 DEF Cost
    <3>3. -paid = p.net * e + signed * P
      <4>1. paid = (-p.net) * e + (-signed) * P
        BY <3>1 DEF P
      <4>2. (-p.net) * e = -(p.net * e) /\ (-signed) * P = -(signed * P)
        BY <1>1, <2>3
      <4>3. p.net * e \in Int /\ signed * P \in Int
        BY <2>1, <2>3
      <4> HIDE DEF paid
      <4> QED
        BY <4>1, <4>2, <4>3
    <3> QED
      BY <2>4, <3>2, <3>3
  <2> QED
    BY <1>1, <2>5, <2>6
<1>10. Whole(signed * price) \in Rational
  BY WholeOver
<1>11. Cost(q) = Plus(Cost(p), Plus(Whole(signed * price), Whole(0)))
  BY <1>9, <1>10, ClosedPosition
<1>12. SameDirection(p.net, q.net) /\ SameDirection(signed, q.net)
  BY <1>1, <1>8 DEF SameDirection
<1>13. Lower(p, q, signed, price) /\ Upper(p, q, signed, price)
  <2> HIDE DEF q, avg
  <2> QED
    BY <1>4, <1>5, <1>8, <1>12 DEF Lower, Upper
<1> HIDE DEF q, avg
<1>14. Moves(p, q, signed, price, Whole(0))
  BY <1>8, <1>11, <1>13, ClosedPosition DEF Moves
<1> QED
  BY <1>14 DEF q

\* The signed portion of a position that a fill in the other direction closes.
Closing(p, signed) ==
    (IF Magnitude(signed) < Magnitude(p.net) THEN Magnitude(signed) ELSE Magnitude(p.net))
        * PositionSign(p)

LEMMA ClosingIs ==
    ASSUME NEW p \in Positions, p.net # 0, NEW signed \in Int, signed # 0,
           ~SameDirection(p.net, signed)
    PROVE  /\ Closing(p, signed) \in Int
           /\ Closing(p, signed) > 0 <=> p.net > 0
           /\ Closing(p, signed) < 0 <=> p.net < 0
           /\ ~(Magnitude(signed) > Magnitude(p.net)) => Closing(p, signed) = -signed
           /\ Magnitude(signed) > Magnitude(p.net) => Closing(p, signed) = p.net
           /\ Magnitude(signed) > Magnitude(p.net) => SameDirection(signed, p.net + signed)
           /\ Magnitude(signed) < Magnitude(p.net) => SameDirection(p.net, p.net + signed)
           /\ Magnitude(signed) = Magnitude(p.net) => p.net + signed = 0
<1>1. p.net \in Int
  BY DEF Positions
<1> DEFINE n == p.net
<1>2. CASE n > 0
  <2>1. signed < 0 /\ Magnitude(signed) = -signed /\ Magnitude(n) = n /\ PositionSign(p) = 1
    BY <1>1, <1>2 DEF SameDirection, Magnitude, PositionSign
  <2>2. Closing(p, signed) = IF -signed < n THEN -signed ELSE n
    BY <1>1, <2>1 DEF Closing
  <2> HIDE DEF n
  <2>3. n \in Int
    BY <1>1 DEF n
  <2> QED
    BY <1>2, <2>1, <2>2, <2>3 DEF SameDirection, n
<1>3. CASE n < 0
  <2>1. signed > 0 /\ Magnitude(signed) = signed /\ Magnitude(n) = -n /\ PositionSign(p) = -1
    BY <1>1, <1>3 DEF SameDirection, Magnitude, PositionSign
  <2>2. Closing(p, signed) = IF signed < -n THEN -signed ELSE n
    BY <1>1, <2>1 DEF Closing
  <2> HIDE DEF n
  <2>3. n \in Int
    BY <1>1 DEF n
  <2> QED
    BY <1>3, <2>1, <2>2, <2>3 DEF SameDirection, n
<1> QED
  BY <1>1, <1>2, <1>3

\* The sign of a product of an integer with a positive one.
LEMMA SignOfProduct ==
    ASSUME NEW c \in Int, NEW x \in Int
    PROVE  /\ c * x \in Int
           /\ c > 0 => (c * x > 0 <=> x > 0) /\ (c * x < 0 <=> x < 0)
           /\ c < 0 => (c * x > 0 <=> x < 0) /\ (c * x < 0 <=> x > 0)
<1>1. CASE c > 0
  <2> DEFINE zero == 0
  <2>1. zero \in Int /\ c \in Nat \ {0} /\ c * zero = zero
    BY <1>1
  <2> HIDE DEF zero
  <2>2. (c * zero < c * x <=> zero < x) /\ (c * x < c * zero <=> x < zero)
    BY <2>1, ScaleOrder
  <2> QED
    BY <1>1, <2>1, <2>2 DEF zero
<1>2. CASE c < 0
  <2> DEFINE zero == 0
             b == -c
  <2>1. zero \in Int /\ b \in Nat \ {0} /\ b * zero = zero /\ b * x = -(c * x)
    BY <1>2
  <2> HIDE DEF zero, b
  <2>2. (b * zero < b * x <=> zero < x) /\ (b * x < b * zero <=> x < zero)
    BY <2>1, ScaleOrder
  <2> QED
    BY <1>2, <2>1, <2>2 DEF zero
<1> QED
  BY <1>1, <1>2

\* A fill in the other direction closes, shrinks or flips the position.  What
\* it realizes has the sign of the return that is recorded.
LEMMA ReducedMoves ==
    ASSUME Exact, NEW p \in Positions, p.net # 0, NEW signed \in Int, signed # 0,
           ~SameDirection(p.net, signed), NEW price \in Nat \ {0}
    PROVE  LET gain == RealizedBy(p, signed, price)
               r    == TradeReturn(p, price)
           IN  /\ Moves(p, Reduced(p, signed, price), signed, price, gain)
               /\ r \in Rational
               /\ (gain.n > 0 <=> r.n > 0) /\ (gain.n < 0 <=> r.n < 0)
<1> DEFINE gain == RealizedBy(p, signed, price)
           r    == TradeReturn(p, price)
           q    == Reduced(p, signed, price)
           n    == p.net
           c    == Closing(p, signed)
           flip == Magnitude(signed) > Magnitude(n)
<1>1. n \in Int /\ p.realized \in Rational /\ p.entry \in Rational
  BY DEF Positions
<1>2. PICK e \in Nat \ {0}, d \in Nat \ {0} : p.entry = Frac(e, d)
  BY EntryIs
<1> DEFINE P == price * d
           diff == P - e
<1>3. P \in Nat \ {0} /\ diff \in Int /\ e \in Int
  OBVIOUS
<1>4. Whole(price) = Frac(P, d) /\ Whole(price) \in Rational
  BY WholeOver
<1> HIDE DEF P
<1>5. Minus(Whole(price), p.entry) = Frac(diff, d)
  <2>0. P \in Int /\ e \in Int
    BY <1>3
  <2>1. Minus(Frac(P, d), Frac(e, d)) = Frac(P - e, d)
    BY ONLY <2>0, d \in Nat \ {0}, DifferenceOverOne
  <2> QED
    BY <1>2, <1>4, <2>1
<1> HIDE DEF diff
<1>6. c \in Int /\ (c > 0 <=> n > 0) /\ (c < 0 <=> n < 0)
  BY ClosingIs
<1>7. gain = Frac(c * diff, d) /\ c * diff \in Int
  <2>1. gain = Times(c, Frac(diff, d))
    BY <1>5 DEF RealizedBy, Closing
  <2> HIDE DEF c, gain
  <2> QED
    BY <1>3, <1>6, <2>1, TimesOverOne
<1>8. gain \in Rational /\ (gain.n > 0 <=> c * diff > 0) /\ (gain.n < 0 <=> c * diff < 0)
  <2> DEFINE x == c * diff
  <2>1. x \in Int /\ gain = Frac(x, d)
    BY <1>7
  <2> HIDE DEF x, gain
  <2>2. gain \in Rational /\ (gain.n > 0 <=> x > 0) /\ (gain.n < 0 <=> x < 0)
    BY <2>1, FracIs, OrderOverOne
  <2> QED
    BY <2>2 DEF x
<1> DEFINE sign == PositionSign(p)
<1>9. sign \in Int /\ (sign > 0 <=> n > 0) /\ (sign < 0 <=> n < 0)
  BY <1>1 DEF PositionSign
<1>10. r = Frac(sign * diff, e) /\ sign * diff \in Int
  <2>1. Over(Frac(diff, d), Frac(e, d)) = Frac(diff, e)
    BY <1>3, OverOne
  <2>2. r = Times(sign, Frac(diff, e))
    BY <1>2, <1>5, <2>1 DEF TradeReturn
  <2> HIDE DEF r, sign
  <2>3. sign * diff \in Int
    BY <1>3, <1>9
  <2> QED
    BY <1>3, <1>9, <2>2, <2>3, TimesOverOne
<1>11. r \in Rational /\ (r.n > 0 <=> sign * diff > 0) /\ (r.n < 0 <=> sign * diff < 0)
  <2> DEFINE x == sign * diff
  <2>1. x \in Int /\ r = Frac(x, e)
    BY <1>10
  <2> HIDE DEF x, r
  <2>2. r \in Rational /\ (r.n > 0 <=> x > 0) /\ (r.n < 0 <=> x < 0)
    BY <2>1, FracIs, OrderOverOne
  <2> QED
    BY <2>2 DEF x
<1>12. (c * diff > 0 <=> sign * diff > 0) /\ (c * diff < 0 <=> sign * diff < 0)
  <2> HIDE DEF c, sign
  <2>1. n > 0 \/ n < 0
    BY <1>1
  <2> HIDE DEF n
  <2> QED
    BY <1>3, <1>6, <1>9, <2>1, SignOfProduct
<1>13. q = IF n + signed = 0 THEN Closed
           ELSE [net |-> n + signed, entry |-> IF flip THEN Whole(price) ELSE p.entry,
                 realized |-> Plus(p.realized, gain)]
  BY <1>1 DEF Exact, Reduced
<1>14. Plus(p.realized, gain) \in Rational
  <2> HIDE DEF gain
  <2> QED
    BY <1>1, <1>8, PlusType
<1>15. p.entry.n > 0 /\ Whole(price).n > 0
  BY DEF Positions, Whole
<1>16. q \in Positions /\ q.net = n + signed
       /\ (q.net # 0 => q.entry = IF flip THEN Whole(price) ELSE p.entry)
  <2>1. CASE n + signed = 0
    <3>1. q = Closed
      BY <1>13, <2>1
    <3> QED
      BY <2>1, <3>1, ClosedPosition DEF Closed
  <2>2. CASE n + signed # 0
    <3>1. q = [net |-> n + signed, entry |-> IF flip THEN Whole(price) ELSE p.entry,
               realized |-> Plus(p.realized, gain)]
      BY <1>13, <2>2
    <3> HIDE DEF q, flip, gain
    <3> QED
      BY <1>1, <1>4, <1>14, <1>15, <2>2, <3>1 DEF Positions
  <2> QED
    BY <2>1, <2>2
<1>17. Cost(q) = Frac((n + signed) * (IF flip THEN P ELSE e), d)
       /\ (n + signed) * (IF flip THEN P ELSE e) \in Int
  <2> DEFINE E == IF flip THEN P ELSE e
  <2>1. E \in Int /\ n + signed \in Int
    BY <1>1, <1>3
  <2>2. Times(n + signed, Frac(E, d)) = Frac((n + signed) * E, d) /\ (n + signed) * E \in Int
    <3> DEFINE j == n + signed
    <3>0. j \in Int
      BY <2>1
    <3> HIDE DEF E, j
    <3>1. Times(j, Frac(E, d)) = Frac(j * E, d)
      BY <2>1, <3>0, TimesOverOne
    <3>2. j * E \in Int
      BY <2>1, <3>0
    <3> QED
      BY <3>1, <3>2 DEF j
  <2>3. CASE q.net = 0
    <3>1. q = Closed /\ n + signed = 0
      BY <1>16, <2>3 DEF Positions
    <3>2. (n + signed) * E = 0
      BY <2>1, <3>1
    <3>3. Whole(0) = Frac(0 * d, d) /\ 0 * d = 0
      BY WholeIs
    <3> QED
      BY <3>1, <3>2, <3>3, ClosedPosition
  <2>4. CASE q.net # 0
    <3>1. q.entry = Frac(E, d)
      BY <1>2, <1>4, <1>16, <2>4
    <3> HIDE DEF E
    <3>2. Cost(q) = Frac((n + signed) * E, d)
      BY <1>16, <2>2, <3>1 DEF Cost
    <3> QED
      BY <2>2, <3>2 DEF E
  <2> QED
    BY <2>3, <2>4
<1>18. Plus(Cost(p), Plus(Whole(signed * price), gain)) = Frac(n * e + (signed * P + c * diff), d)
  <2>1. Cost(p) = Frac(n * e, d) /\ n * e \in Int
    <3>1. Times(n, Frac(e, d)) = Frac(n * e, d)
      BY <1>1, <1>3, TimesOverOne
    <3>2. n * e \in Int
      BY <1>1, <1>3
    <3> QED
      BY <1>2, <3>1, <3>2 DEF Cost
  <2>2. Whole(signed * price) = Frac(signed * P, d) /\ signed * P \in Int
    <3>1. signed * price \in Int /\ (signed * price) * d = signed * P
      BY DEF P
    <3> QED
      BY <1>3, <3>1, WholeOver
  <2> DEFINE x == n * e
             y == signed * P
             z == c * diff
  <2>3. /\ x \in Int /\ y \in Int /\ z \in Int
        /\ Cost(p) = Frac(x, d) /\ Whole(signed * price) = Frac(y, d) /\ gain = Frac(z, d)
    BY <1>7, <2>1, <2>2
  <2> HIDE DEF x, y, z, gain
  <2>7. y + z \in Int
    BY <2>3
  <2>4. Plus(Frac(y, d), Frac(z, d)) = Frac(y + z, d)
    BY <2>3, SumOverOne
  <2>5. Plus(Frac(x, d), Frac(y + z, d)) = Frac(x + (y + z), d)
    BY <2>3, <2>7, SumOverOne
  <2>6. Plus(Cost(p), Plus(Whole(signed * price), gain)) = Frac(x + (y + z), d)
    BY <2>3, <2>4, <2>5
  <2> QED
    BY <2>6 DEF x, y, z
<1>19. (n + signed) * (IF flip THEN P ELSE e) = n * e + (signed * P + c * diff)
  <2>1. CASE flip
    <3>1. c = n
      BY <2>1, ClosingIs
    <3>2. n * diff = n * P - n * e /\ (n + signed) * P = n * P + signed * P
      BY <1>1, <1>3 DEF diff
    <3>3. n * P \in Int /\ n * e \in Int /\ signed * P \in Int
      BY <1>1, <1>3
    <3> HIDE DEF n, c, flip
    <3> QED
      BY <2>1, <3>1, <3>2, <3>3
  <2>2. CASE ~flip
    <3>1. c = -signed
      BY <2>2, ClosingIs
    <3>2. (-signed) * diff = signed * e - signed * P /\ (n + signed) * e = n * e + signed * e
      BY <1>1, <1>3 DEF diff
    <3>3. n * e \in Int /\ signed * e \in Int /\ signed * P \in Int
      BY <1>1, <1>3
    <3> HIDE DEF n, c, flip
    <3> QED
      BY <2>2, <3>1, <3>2, <3>3
  <2> QED
    BY <2>1, <2>2
<1>20. ASSUME q.net # 0
       PROVE  Lower(p, q, signed, price) /\ Upper(p, q, signed, price)
  <2>1. CASE flip
    <3>1. SameDirection(signed, q.net) /\ q.entry = Whole(price)
      BY <1>16, <1>20, <2>1, ClosingIs
    <3> HIDE DEF q
    <3> QED
      BY <1>4, <3>1, OrderReflexive DEF Lower, Upper
  <2>2. CASE ~flip
    <3>1. SameDirection(p.net, q.net) /\ q.entry = p.entry
      <4>1. Magnitude(signed) \in Int /\ Magnitude(n) \in Int
        BY <1>1 DEF Magnitude
      <4>2. Magnitude(signed) # Magnitude(n)
        BY <1>16, <1>20, ClosingIs
      <4>3. Magnitude(signed) < Magnitude(n)
        BY <2>2, <4>1, <4>2
      <4> QED
        BY <1>16, <1>20, <2>2, <4>3, ClosingIs
    <3> HIDE DEF q
    <3> QED
      BY <1>1, <3>1, OrderReflexive DEF Lower, Upper
  <2> QED
    BY <2>1, <2>2
<1>21. Cost(q) = Plus(Cost(p), Plus(Whole(signed * price), gain))
  BY <1>17, <1>18, <1>19
<1>22. Moves(p, q, signed, price, gain)
  <2> HIDE DEF q, gain
  <2> QED
    BY <1>8, <1>16, <1>20, <1>21 DEF Moves
<1> QED
  BY <1>8, <1>11, <1>12, <1>22

-----------------------------------------------------------------------------
(* The book                                                                *)

Books == [positions : [Symbols -> Positions], realized : Rational, returns : Seq(Rational)]

FillTypes ==
    [symbol : Symbols, direction : {"LONG", "SHORT"}, size : Nat \ {0}, time : Nat,
     price : Nat \ {0}]

Signed(f) == SignedSize(f.direction, f.size)

\* The fills of the specification are well formed.
LEMMA FillsAreTyped == Fills \subseteq FillTypes
<1> SUFFICES ASSUME NEW o \in Orders, NEW time \in 0..MaxTime
             PROVE  SimulateFill(o, time) \in FillTypes
  BY DEF Fills
<1>1. /\ o \in [symbol : Symbols, direction : {"LONG", "SHORT"}, size : Positive, market : Prices]
      /\ o.market \in Nat \ {0} /\ o.size \in Nat \ {0} /\ time \in Nat
  <2>1. o \in [symbol : Symbols, direction : {"LONG", "SHORT"}, size : Positive, market : Prices]
        /\ Prices \subseteq Positive
    BY PositionBookAssumption DEF PositionBookAssumption
  <2>2. MaxTime \in Nat
    BY PositionBookAssumption, Zenon DEF PositionBookAssumption
  <2>3. time \in Nat
    BY <2>2
  <2> QED
    BY <2>1, <2>3 DEF Positive
<1>2. FillPrice(o.direction, o.market, CostBps) \in Nat \ {0}
  <2> DEFINE x == BpsScale + (IF o.direction = "LONG" THEN CostBps ELSE -CostBps)
             m == o.market
  <2>1. x \in Nat \ {0} /\ m \in Nat \ {0}
    BY <1>1, PositionBookAssumption DEF PositionBookAssumption, BpsScale
  <2>2. FillPrice(o.direction, o.market, CostBps) = m * x
    BY DEF FillPrice
  <2> HIDE DEF x, m
  <2>3. m * x \in Nat \ {0}
    BY <2>1
  <2> QED
    BY <2>2, <2>3
<1> QED
  BY <1>1, <1>2 DEF SimulateFill, FillTypes

LEMMA SignedIs ==
    ASSUME NEW f \in FillTypes
    PROVE  /\ f.symbol \in Symbols /\ Signed(f) \in Int /\ Signed(f) # 0
           /\ f.price \in Nat \ {0} /\ f.size \in Nat \ {0} /\ f.time \in Nat
BY DEF FillTypes, Signed, SignedSize

\* The returns agree with the sign of the gain.
ReturnsMove(old, new, gain) ==
    \/ gain = Whole(0) /\ new = old
    \/ \E r \in Rational :
          /\ new = Append(old, r)
          /\ (gain.n > 0 <=> r.n > 0) /\ (gain.n < 0 <=> r.n < 0)

\* A fill makes the book `new' of `book' and realizes the gain.
BookMoves(book, new, f, gain) ==
    /\ new \in Books
    /\ \A s \in Symbols \ {f.symbol} : new.positions[s] = book.positions[s]
    /\ Moves(book.positions[f.symbol], new.positions[f.symbol], Signed(f), f.price, gain)
    /\ new.realized = Plus(book.realized, gain)
    /\ ReturnsMove(book.returns, new.returns, gain)

LEMMA EmptyBookIs ==
    /\ EmptyBook \in Books
    /\ \A s \in Symbols : EmptyBook.positions[s] = Closed
    /\ EmptyBook.realized = Whole(0) /\ EmptyBook.returns = << >>
BY ClosedPosition DEF EmptyBook, Books

\* Every fill moves the book that way.
LEMMA FillMoves ==
    ASSUME Exact, NEW book \in Books, NEW f \in FillTypes
    PROVE  \E gain \in Rational : BookMoves(book, ApplyFill(book, f), f, gain)
<1> DEFINE a == f.symbol
           p == book.positions[a]
           signed == Signed(f)
           new == ApplyFill(book, f)
<1>1. /\ a \in Symbols /\ signed \in Int /\ signed # 0 /\ f.price \in Nat \ {0}
  BY SignedIs
<1>2. /\ p \in Positions /\ p.net \in Int /\ book.realized \in Rational
      /\ book.returns \in Seq(Rational) /\ book.positions \in [Symbols -> Positions]
      /\ book = [positions |-> book.positions, realized |-> book.realized,
                 returns |-> book.returns]
  BY <1>1 DEF Books, Positions
<1>3. ASSUME NEW q \in Positions, NEW gain \in Rational, Moves(p, q, signed, f.price, gain),
             NEW r \in Seq(Rational), ReturnsMove(book.returns, r, gain),
             new = [positions |-> [book.positions EXCEPT ![a] = q],
                    realized |-> Plus(book.realized, gain), returns |-> r]
      PROVE  BookMoves(book, new, f, gain)
  <2>1. Plus(book.realized, gain) \in Rational
    BY <1>2, PlusType
  <2>2. [book.positions EXCEPT ![a] = q] \in [Symbols -> Positions]
        /\ [book.positions EXCEPT ![a] = q][a] = q
        /\ \A s \in Symbols \ {a} : [book.positions EXCEPT ![a] = q][s] = book.positions[s]
    BY <1>1, <1>2
  <2>3. new \in Books
    BY <1>3, <2>1, <2>2 DEF Books
  <2> HIDE DEF new
  <2>4. Moves(p, new.positions[a], signed, f.price, gain)
    BY <1>3, <2>2
  <2> QED
    BY <1>3, <2>2, <2>3, <2>4 DEF BookMoves
<1>4. CASE ~HasPosition(book, a)
  <2> DEFINE q == Opened(signed, f.price)
  <2>1. p.net = 0 /\ p = Closed
    BY <1>2, <1>4 DEF HasPosition, Positions
  <2>2. new = [book EXCEPT !.positions[a] = q]
    BY <1>4 DEF ApplyFill, Signed
  <2>3. Plus(book.realized, Whole(0)) = book.realized /\ Whole(0) \in Rational
    BY <1>2, ClosedPosition
  <2>4. new = [positions |-> [book.positions EXCEPT ![a] = q],
               realized |-> Plus(book.realized, Whole(0)), returns |-> book.returns]
    <3> HIDE DEF q, new
    <3> QED
      BY <1>1, <1>2, <2>2, <2>3
  <2>5. Moves(p, q, signed, f.price, Whole(0))
    <3> HIDE DEF p, signed
    <3> QED
      BY <1>1, <2>1, OpenedMoves
  <2>6. q \in Positions /\ ReturnsMove(book.returns, book.returns, Whole(0))
    BY <2>5 DEF Moves, ReturnsMove
  <2> HIDE DEF q, new, p, signed, a
  <2>7. BookMoves(book, new, f, Whole(0))
    BY <1>2, <1>3, <2>3, <2>4, <2>5, <2>6
  <2> QED
    BY <2>3, <2>7 DEF new
<1>5. CASE HasPosition(book, a) /\ SameDirection(p.net, signed)
  <2> DEFINE q == Averaged(p, signed, f.price)
  <2>2. new = [book EXCEPT !.positions[a] = q]
    BY <1>5 DEF ApplyFill, Signed
  <2>3. Plus(book.realized, Whole(0)) = book.realized /\ Whole(0) \in Rational
    BY <1>2, ClosedPosition
  <2>4. new = [positions |-> [book.positions EXCEPT ![a] = q],
               realized |-> Plus(book.realized, Whole(0)), returns |-> book.returns]
    <3> HIDE DEF q, new
    <3> QED
      BY <1>1, <1>2, <2>2, <2>3
  <2>5. Moves(p, q, signed, f.price, Whole(0))
    <3> HIDE DEF p, signed
    <3> QED
      BY <1>1, <1>2, <1>5, AveragedMoves
  <2>6. q \in Positions /\ ReturnsMove(book.returns, book.returns, Whole(0))
    BY <2>5 DEF Moves, ReturnsMove
  <2> HIDE DEF q, new, p, signed, a
  <2>7. BookMoves(book, new, f, Whole(0))
    BY <1>2, <1>3, <2>3, <2>4, <2>5, <2>6
  <2> QED
    BY <2>3, <2>7 DEF new
<1>6. CASE HasPosition(book, a) /\ ~SameDirection(p.net, signed)
  <2> DEFINE q == Reduced(p, signed, f.price)
             gain == RealizedBy(p, signed, f.price)
             r == TradeReturn(p, f.price)
  <2>1. p.net # 0
    BY <1>6 DEF HasPosition
  <2>2. new = [positions |-> [book.positions EXCEPT ![a] = q],
               realized |-> Plus(book.realized, gain), returns |-> Append(book.returns, r)]
    BY <1>6 DEF ApplyFill, Signed
  <2>3. /\ Moves(p, q, signed, f.price, gain) /\ r \in Rational
        /\ (gain.n > 0 <=> r.n > 0) /\ (gain.n < 0 <=> r.n < 0)
    <3> HIDE DEF p, signed
    <3> QED
      BY <1>1, <1>2, <1>6, <2>1, ReducedMoves
  <2> HIDE DEF q, gain, r, new, p, signed, a
  <2>4. q \in Positions /\ gain \in Rational /\ Append(book.returns, r) \in Seq(Rational)
    BY <1>2, <2>3 DEF Moves
  <2>5. ReturnsMove(book.returns, Append(book.returns, r), gain)
    BY <2>3 DEF ReturnsMove
  <2>6. BookMoves(book, new, f, gain)
    BY <1>3, <2>2, <2>3, <2>4, <2>5
  <2> QED
    BY <2>4, <2>6 DEF new
<1> QED
  BY <1>4, <1>5, <1>6

\* Net sizes move by the signed size of the fill.
LEMMA NetsMove ==
    ASSUME NEW book \in Books, NEW new, NEW f \in FillTypes, NEW gain, BookMoves(book, new, f, gain)
    PROVE  /\ \A s \in Symbols : book.positions[s].net \in Int
           /\ \A s \in Symbols : new.positions[s].net
                  = book.positions[s].net + (IF s = f.symbol THEN Signed(f) ELSE 0)
<1> SUFFICES ASSUME NEW s \in Symbols
             PROVE  /\ book.positions[s].net \in Int
                    /\ new.positions[s].net
                          = book.positions[s].net + (IF s = f.symbol THEN Signed(f) ELSE 0)
  OBVIOUS
<1>1. new \in Books /\ f.symbol \in Symbols /\ Signed(f) \in Int
  BY SignedIs DEF BookMoves
<1>2. book.positions[s] \in Positions /\ new.positions[s] \in Positions
  BY <1>1 DEF Books
<1>3. book.positions[s].net \in Int /\ new.positions[s].net \in Int
  BY <1>2 DEF Positions
<1>4. CASE s = f.symbol
  BY <1>1, <1>3, <1>4 DEF BookMoves, Moves
<1>5. CASE s # f.symbol
  BY <1>1, <1>3, <1>5 DEF BookMoves
<1> QED
  BY <1>3, <1>4, <1>5

Costs(book) == [s \in Symbols |-> Cost(book.positions[s])]

LEMMA SymbolsFinite == IsFiniteSet(Symbols)
BY PositionBookAssumption DEF PositionBookAssumption

LEMMA CostsAre ==
    ASSUME NEW book \in Books
    PROVE  /\ Costs(book) \in [Symbols -> Rational] /\ Total(Costs(book)) \in Rational
           /\ CashOf(book) = Minus(book.realized, Total(Costs(book)))
           /\ CashOf(book) \in Rational /\ book.realized \in Rational
<1>1. ASSUME NEW s \in Symbols
      PROVE  Cost(book.positions[s]) \in Rational
  <2>1. book.positions[s].net \in Int /\ book.positions[s].entry \in Rational
    BY DEF Books, Positions
  <2> QED
    BY <2>1, TimesType DEF Cost
<1>2. Costs(book) \in [Symbols -> Rational]
  BY <1>1 DEF Costs
<1>3. Total(Costs(book)) \in Rational
  BY <1>2, SymbolsFinite, TotalType
<1>4. book.realized \in Rational
  BY DEF Books
<1>5. CashOf(book) = Minus(book.realized, Total(Costs(book)))
  BY DEF CashOf, Costs, Cost
<1> QED
  BY <1>2, <1>3, <1>4, <1>5, MinusType

\* A gain moves between the realized PnL and the cost of the holdings; what
\* is paid for a fill is its price.
LEMMA CashArithmetic ==
    ASSUME NEW r \in Rational, NEW gain \in Rational, NEW cost \in Rational, NEW k \in Int
    PROVE  Minus(Plus(r, gain), Plus(cost, Plus(Whole(k), gain))) = Minus(Minus(r, cost), Whole(k))
<1>1. Whole(k) \in Rational
  BY WholeIs
<1>2. PICK d \in Nat \ {0} : AllOver(r, gain, cost, Whole(k), d)
  BY <1>1, CommonDenominator
<1>3. PICK x, y, z, w \in Int :
         r = Frac(x, d) /\ gain = Frac(y, d) /\ cost = Frac(z, d) /\ Whole(k) = Frac(w, d)
  BY <1>2 DEF AllOver
<1>4. x + y \in Int /\ w + y \in Int /\ x - z \in Int
  OBVIOUS
<1>5. z + (w + y) \in Int
  OBVIOUS
<1>6. Plus(Frac(x, d), Frac(y, d)) = Frac(x + y, d) /\ Plus(Frac(w, d), Frac(y, d)) = Frac(w + y, d)
      /\ Minus(Frac(x, d), Frac(z, d)) = Frac(x - z, d)
  BY SumOverOne, DifferenceOverOne
<1>7. Plus(Frac(z, d), Frac(w + y, d)) = Frac(z + (w + y), d)
  BY <1>4, SumOverOne
<1>8. Minus(Frac(x + y, d), Frac(z + (w + y), d)) = Frac((x + y) - (z + (w + y)), d)
  BY <1>4, <1>5, DifferenceOverOne
<1>9. Minus(Frac(x - z, d), Frac(w, d)) = Frac((x - z) - w, d)
  BY <1>4, DifferenceOverOne
<1>10. (x + y) - (z + (w + y)) = (x - z) - w
  OBVIOUS
<1>11. Minus(Plus(r, gain), Plus(cost, Plus(Whole(k), gain))) = Frac((x + y) - (z + (w + y)), d)
  BY <1>3, <1>6, <1>7, <1>8
<1>12. Minus(Minus(r, cost), Whole(k)) = Frac((x - z) - w, d)
  BY <1>3, <1>6, <1>9
<1> QED
  BY <1>10, <1>11, <1>12

\* A fill costs its signed size times its price.
LEMMA CashMoves ==
    ASSUME NEW book \in Books, NEW new, NEW f \in FillTypes, NEW gain, BookMoves(book, new, f, gain)
    PROVE  CashOf(new) = Minus(CashOf(book), Whole(Signed(f) * f.price))
<1> DEFINE a == f.symbol
           k == Signed(f) * f.price
           q == Plus(Whole(k), gain)
<1>1. new \in Books /\ a \in Symbols /\ k \in Int /\ gain \in Rational
      /\ Cost(new.positions[a]) = Plus(Cost(book.positions[a]), q)
  BY SignedIs DEF BookMoves, Moves
<1>2. q \in Rational
  BY <1>1, WholeIs, PlusType
<1>3. \A s \in Symbols \ {a} : Costs(new)[s] = Costs(book)[s]
  BY DEF BookMoves, Costs
<1>4. Costs(new)[a] = Plus(Costs(book)[a], q)
  BY <1>1 DEF Costs
<1> HIDE DEF q
<1>5. Total(Costs(new)) = Plus(Total(Costs(book)), q)
  BY <1>1, <1>2, <1>3, <1>4, CostsAre, SymbolsFinite, TotalUpdate
<1>6. new.realized = Plus(book.realized, gain)
  BY DEF BookMoves
<1>7. CashOf(new) = Minus(Plus(book.realized, gain), Plus(Total(Costs(book)), Plus(Whole(k), gain)))
  BY <1>1, <1>5, <1>6, CostsAre DEF q
<1> HIDE DEF k
<1>8. CashOf(new) = Minus(Minus(book.realized, Total(Costs(book))), Whole(k))
  BY <1>1, <1>7, CostsAre, CashArithmetic
<1> QED
  BY <1>8, CostsAre DEF k

\* What the holdings of a book would return at one price per symbol.
Marked(book, mark) ==
    [s \in Symbols |->
        Times(book.positions[s].net, Minus(Whole(mark[s]), book.positions[s].entry))]

LEMMA TimesZero ==
    ASSUME NEW q \in Rational
    PROVE  Times(0, q) = Whole(0)
<1> DEFINE d == q.d
           n == q.n
           zero == 0
<1>1. n \in Int /\ d \in Nat \ {0} /\ q = Frac(n, d) /\ zero \in Int /\ zero * n = zero
      /\ zero * d = zero
  BY RationalIsFrac
<1> HIDE DEF n, d, zero
<1>2. Times(zero, Frac(n, d)) = Frac(zero * n, d) /\ Whole(zero) = Frac(zero * d, d)
  BY <1>1, TimesOverOne, WholeIs
<1>3. Times(zero, q) = Whole(zero)
  BY <1>1, <1>2
<1> QED
  BY <1>3 DEF zero

LEMMA MarkedIs ==
    ASSUME NEW book \in Books, NEW mark \in [Symbols -> Int]
    PROVE  /\ Marked(book, mark) \in [Symbols -> Rational]
           /\ UnrealizedPnl(book, mark) = Total(Marked(book, mark))
           /\ UnrealizedPnl(book, mark) \in Rational
<1> DEFINE H == {t \in Symbols : HasPosition(book, t)}
           v == Marked(book, mark)
           w == [s \in H |->
                  Times(book.positions[s].net, Minus(Whole(mark[s]), book.positions[s].entry))]
<1>1. ASSUME NEW s \in Symbols
      PROVE  /\ book.positions[s].net \in Int /\ v[s] \in Rational
             /\ Minus(Whole(mark[s]), book.positions[s].entry) \in Rational
  <2>1. book.positions[s].net \in Int /\ book.positions[s].entry \in Rational /\ mark[s] \in Int
    BY DEF Books, Positions
  <2>2. Minus(Whole(mark[s]), book.positions[s].entry) \in Rational
    BY <2>1, WholeIs, MinusType
  <2>3. Times(book.positions[s].net, Minus(Whole(mark[s]), book.positions[s].entry)) \in Rational
    BY <2>1, <2>2, TimesType
  <2> QED
    BY <2>1, <2>2, <2>3 DEF Marked
<1>2. v \in [Symbols -> Rational]
  BY <1>1 DEF Marked
<1>3. H \in SUBSET Symbols /\ \A s \in H : w[s] = v[s]
  BY DEF Marked
<1>4. w \in [H -> Rational]
  BY <1>1, <1>3
<1>5. \A s \in Symbols \ H : v[s] = Whole(0)
  <2> SUFFICES ASSUME NEW s \in Symbols \ H
               PROVE  v[s] = Whole(0)
    OBVIOUS
  <2>1. book.positions[s].net = 0
    BY DEF HasPosition
  <2>2. Times(0, Minus(Whole(mark[s]), book.positions[s].entry)) = Whole(0)
    BY <1>1, TimesZero
  <2> QED
    BY <2>1, <2>2 DEF Marked
<1>6. UnrealizedPnl(book, mark) = Total(w)
  BY DEF UnrealizedPnl
<1> HIDE DEF H, v, w
<1>7. Total(w) = Total(v) /\ Total(v) \in Rational
  BY <1>2, <1>3, <1>4, <1>5, SymbolsFinite, TotalWithoutZeros, TotalType
<1> QED
  BY <1>2, <1>6, <1>7 DEF v

\* The cost of a position moves by a price and a gain.
CostMoves(n, k, price, entry, entry2, gain) ==
    Times(n + k, entry2) = Plus(Times(n, entry), Plus(Whole(k * price), gain))

\* At a mark, a fill changes the value of a position by the difference of the
\* mark and its price, less the gain it realizes.
LEMMA MarkArithmetic ==
    ASSUME NEW n \in Int, NEW k \in Int, NEW price \in Int, NEW mark \in Int,
           NEW entry \in Rational, NEW entry2 \in Rational, NEW gain \in Rational,
           CostMoves(n, k, price, entry, entry2, gain)
    PROVE  Times(n + k, Minus(Whole(mark), entry2))
              = Plus(Times(n, Minus(Whole(mark), entry)), Minus(Whole(k * (mark - price)), gain))
<1>1. Whole(0) \in Rational
  BY WholeIs
<1>2. PICK d \in Nat \ {0} : AllOver(entry, entry2, gain, Whole(0), d)
  BY <1>1, CommonDenominator
<1>3. PICK x, y, z \in Int : entry = Frac(x, d) /\ entry2 = Frac(y, d) /\ gain = Frac(z, d)
  BY <1>2 DEF AllOver
<1> DEFINE m  == mark * d
           l  == n + k
           c  == (k * price) * d
           e  == (k * (mark - price)) * d
           lm == m - y
           nm == m - x
<1>4. /\ m \in Int /\ l \in Int /\ c \in Int /\ e \in Int
      /\ Whole(mark) = Frac(m, d) /\ Whole(k * price) = Frac(c, d)
      /\ Whole(k * (mark - price)) = Frac(e, d)
  <2>1. k * price \in Int /\ k * (mark - price) \in Int
    OBVIOUS
  <2> QED
    BY <2>1, WholeOver
<1>5. e = k * m - c
  <2>1. k * (mark - price) = k * mark - k * price
    OBVIOUS
  <2>2. (k * mark - k * price) * d = (k * mark) * d - (k * price) * d
    OBVIOUS
  <2>3. (k * mark) * d = k * (mark * d)
    OBVIOUS
  <2> QED
    BY <2>1, <2>2, <2>3
<1>6. l * m = n * m + k * m
  <2> HIDE DEF m
  <2> QED
    BY <1>4
<1> HIDE DEF m, l, c, e
<1>7. lm \in Int /\ nm \in Int /\ l * y \in Int /\ n * x \in Int /\ l * m \in Int /\ n * m \in Int
      /\ k * m \in Int /\ l * lm = l * m - l * y /\ n * nm = n * m - n * x
      /\ l * lm \in Int /\ n * nm \in Int
  BY <1>4
<1>8. Minus(Whole(mark), entry2) = Frac(lm, d) /\ Minus(Whole(mark), entry) = Frac(nm, d)
  <2>1. Minus(Frac(m, d), Frac(y, d)) = Frac(m - y, d)
        /\ Minus(Frac(m, d), Frac(x, d)) = Frac(m - x, d)
    BY <1>4, DifferenceOverOne
  <2> QED
    BY <1>3, <1>4, <2>1
<1> DEFINE ly == l * y
           nx == n * x
           A  == l * lm
           B  == n * nm
<1>9. Times(l, entry2) = Frac(ly, d) /\ Times(n, entry) = Frac(nx, d)
  BY <1>3, <1>4, TimesOverOne
<1> HIDE DEF lm, nm
<1>10. Times(l, Frac(lm, d)) = Frac(A, d) /\ Times(n, Frac(nm, d)) = Frac(B, d)
  BY <1>4, <1>7, TimesOverOne
<1>11. ly \in Int /\ nx \in Int /\ A \in Int /\ B \in Int /\ A = l * m - ly /\ B = n * m - nx
  BY <1>7
<1> HIDE DEF ly, nx, A, B
<1>12. ly = nx + (c + z)
  <2>0. c + z \in Int /\ nx + (c + z) \in Int
    BY <1>4, <1>11
  <2>1. Plus(Frac(c, d), Frac(z, d)) = Frac(c + z, d)
    BY <1>4, SumOverOne
  <2>2. Plus(Frac(nx, d), Frac(c + z, d)) = Frac(nx + (c + z), d)
    BY <1>11, <2>0, SumOverOne
  <2>3. Frac(ly, d) = Frac(nx + (c + z), d)
    BY <1>3, <1>4, <1>9, <2>1, <2>2 DEF l, CostMoves
  <2> DEFINE s == nx + (c + z)
  <2>4. s \in Int /\ Frac(ly, d) = Frac(s, d)
    BY <2>0, <2>3
  <2> HIDE DEF s
  <2>5. ly = s
    BY <1>11, <2>4, OrderOverOne
  <2> QED
    BY <2>5 DEF s
<1>13. Minus(Frac(e, d), Frac(z, d)) = Frac(e - z, d) /\ e - z \in Int
  <2>1. e - z \in Int
    BY <1>4
  <2> QED
    BY <1>4, <2>1, DifferenceOverOne
<1>14. Plus(Frac(B, d), Frac(e - z, d)) = Frac(B + (e - z), d)
  BY <1>11, <1>13, SumOverOne
<1>15. A = B + (e - z)
  BY <1>4, <1>5, <1>6, <1>7, <1>11, <1>12
<1>16. Times(n + k, Minus(Whole(mark), entry2)) = Frac(A, d)
  BY <1>8, <1>10 DEF l
<1>17. Plus(Times(n, Minus(Whole(mark), entry)), Minus(Whole(k * (mark - price)), gain))
          = Frac(B + (e - z), d)
  BY <1>3, <1>4, <1>8, <1>10, <1>13, <1>14
<1> QED
  BY <1>15, <1>16, <1>17

\* The gain moves between what is realized and what is not.
LEMMA WorthArithmetic ==
    ASSUME NEW r \in Rational, NEW gain \in Rational, NEW u \in Rational, NEW k \in Int
    PROVE  Plus(Plus(r, gain), Plus(u, Minus(Whole(k), gain))) = Plus(Plus(r, u), Whole(k))
<1>1. Whole(k) \in Rational
  BY WholeIs
<1>2. PICK d \in Nat \ {0} : AllOver(r, gain, u, Whole(k), d)
  BY <1>1, CommonDenominator
<1>3. PICK x, y, z, w \in Int :
         r = Frac(x, d) /\ gain = Frac(y, d) /\ u = Frac(z, d) /\ Whole(k) = Frac(w, d)
  BY <1>2 DEF AllOver
<1>4. x + y \in Int /\ w - y \in Int /\ x + z \in Int
  OBVIOUS
<1>5. z + (w - y) \in Int
  OBVIOUS
<1>6. Plus(Frac(x, d), Frac(y, d)) = Frac(x + y, d) /\ Minus(Frac(w, d), Frac(y, d)) = Frac(w - y, d)
      /\ Plus(Frac(x, d), Frac(z, d)) = Frac(x + z, d)
  BY SumOverOne, DifferenceOverOne
<1>7. Plus(Frac(z, d), Frac(w - y, d)) = Frac(z + (w - y), d)
  BY <1>4, SumOverOne
<1>8. Plus(Frac(x + y, d), Frac(z + (w - y), d)) = Frac((x + y) + (z + (w - y)), d)
  BY <1>4, <1>5, SumOverOne
<1>9. Plus(Frac(x + z, d), Frac(w, d)) = Frac((x + z) + w, d)
  BY <1>4, SumOverOne
<1>10. (x + y) + (z + (w - y)) = (x + z) + w
  OBVIOUS
<1>11. Plus(Plus(r, gain), Plus(u, Minus(Whole(k), gain))) = Frac((x + y) + (z + (w - y)), d)
  BY <1>3, <1>6, <1>7, <1>8
<1>12. Plus(Plus(r, u), Whole(k)) = Frac((x + z) + w, d)
  BY <1>3, <1>6, <1>9
<1> QED
  BY <1>10, <1>11, <1>12

\* What a book is worth at a mark.
Worth(book, mark) == Plus(book.realized, UnrealizedPnl(book, mark))

LEMMA WorthMoves ==
    ASSUME NEW book \in Books, NEW new, NEW f \in FillTypes, NEW gain, BookMoves(book, new, f, gain),
           NEW mark \in [Symbols -> Int]
    PROVE  Worth(new, mark)
              = Plus(Worth(book, mark), Whole(Signed(f) * (mark[f.symbol] - f.price)))
<1> DEFINE a == f.symbol
           n == book.positions[a].net
           k == Signed(f)
           price == f.price
           entry == book.positions[a].entry
           entry2 == new.positions[a].entry
           w == k * (mark[a] - price)
           q == Minus(Whole(w), gain)
<1>1. new \in Books /\ a \in Symbols /\ k \in Int /\ price \in Int /\ gain \in Rational
      /\ new.positions[a].net = n + k
      /\ Cost(new.positions[a]) = Plus(Cost(book.positions[a]), Plus(Whole(k * price), gain))
  BY SignedIs DEF BookMoves, Moves
<1>2. n \in Int /\ entry \in Rational /\ entry2 \in Rational /\ mark[a] \in Int
  BY <1>1 DEF Books, Positions
<1>3. w \in Int
  BY <1>1, <1>2
<1>4. q \in Rational
  <2> HIDE DEF w
  <2> QED
    BY <1>1, <1>3, WholeIs, MinusType
<1>5. CostMoves(n, k, price, entry, entry2, gain)
  BY <1>1 DEF Cost, CostMoves
<1>6. Times(n + k, Minus(Whole(mark[a]), entry2)) = Plus(Times(n, Minus(Whole(mark[a]), entry)), q)
  <2> DEFINE m == mark[a]
  <2>1. m \in Int
    BY <1>2
  <2> HIDE DEF n, k, price, entry, entry2, m
  <2>2. Times(n + k, Minus(Whole(m), entry2))
           = Plus(Times(n, Minus(Whole(m), entry)), Minus(Whole(k * (m - price)), gain))
    BY <1>1, <1>2, <1>5, <2>1, MarkArithmetic
  <2> QED
    BY <2>2 DEF m
<1>7. Marked(new, mark)[a] = Plus(Marked(book, mark)[a], q)
  BY <1>1, <1>6 DEF Marked
<1>8. \A s \in Symbols \ {a} : Marked(new, mark)[s] = Marked(book, mark)[s]
  BY DEF BookMoves, Marked
<1> HIDE DEF q
<1>9. Total(Marked(new, mark)) = Plus(Total(Marked(book, mark)), q)
  BY <1>1, <1>4, <1>7, <1>8, MarkedIs, SymbolsFinite, TotalUpdate
<1>10. new.realized = Plus(book.realized, gain) /\ book.realized \in Rational
  BY DEF BookMoves, Books
<1>11. /\ UnrealizedPnl(book, mark) \in Rational
       /\ UnrealizedPnl(new, mark) = Plus(UnrealizedPnl(book, mark), q)
  BY <1>1, <1>9, MarkedIs
<1>12. Worth(new, mark)
          = Plus(Plus(book.realized, gain), Plus(UnrealizedPnl(book, mark), Minus(Whole(w), gain)))
  BY <1>10, <1>11 DEF Worth, q
<1> HIDE DEF w
<1>13. Worth(new, mark) = Plus(Plus(book.realized, UnrealizedPnl(book, mark)), Whole(w))
  BY <1>1, <1>3, <1>10, <1>11, <1>12, WorthArithmetic
<1> QED
  BY <1>13 DEF Worth, w

-----------------------------------------------------------------------------
(* The actions: every fill of the ledger counts as often as it was applied *)

\* The sum of the values x of the fills, each as often as delivered.
Weighted(d, x) == SumFunction([i \in DOMAIN d |-> d[i] * x[i]])

LEMMA WeightedType ==
    ASSUME NEW n \in Nat, NEW d \in [1..n -> Int], NEW x \in [1..n -> Int]
    PROVE  Weighted(d, x) \in Int
<1> DEFINE v == [i \in 1..n |-> d[i] * x[i]]
<1>1. v \in [1..n -> Int] /\ IsFiniteSet(1..n) /\ DOMAIN d = 1..n
  BY FS_Interval
<1>2. SumFunction(v) \in Int
  <2> HIDE DEF v
  <2> QED
    BY <1>1, SumInt
<1> QED
  BY <1>1, <1>2 DEF Weighted

\* One more fill.
LEMMA WeightedAppend ==
    ASSUME NEW n \in Nat, NEW d \in [1..n -> Int], NEW x \in [1..n -> Int],
           NEW e \in [1..(n + 1) -> Int], NEW y \in [1..(n + 1) -> Int],
           \A i \in 1..n : e[i] = d[i] /\ y[i] = x[i]
    PROVE  Weighted(e, y) = Weighted(d, x) + e[n + 1] * y[n + 1]
<1> DEFINE v == [i \in 1..n |-> d[i] * x[i]]
           w == [i \in 1..(n + 1) |-> e[i] * y[i]]
           a == n + 1
           S == 1..n
<1>0. IsFiniteSet(S)
  BY FS_Interval
<1>1. /\ v \in [S -> Int] /\ DOMAIN d = S /\ DOMAIN e = 1..a
      /\ a \notin S /\ 1..a = S \cup {a} /\ a \in 1..a
  OBVIOUS
<1>2. w \in [S \cup {a} -> Int]
  BY <1>1
<1>3. (\A i \in S : w[i] = v[i]) /\ w[a] = e[a] * y[a]
  BY <1>1
<1>4. Weighted(d, x) = SumFunction(v) /\ Weighted(e, y) = SumFunction(w)
  BY <1>1 DEF Weighted
<1> HIDE DEF v, w, S, a
<1>5. SumFunction(w) = SumFunction(v) + w[a]
  <2>1. OneMore(v, w, S, a)
    BY <1>1, <1>2, <1>3 DEF OneMore
  <2> QED
    BY <1>0, <2>1, SumAppend
<1> QED
  BY <1>3, <1>4, <1>5 DEF a

\* One fill delivered more or less often.
LEMMA WeightedUpdate ==
    ASSUME NEW n \in Nat, NEW d \in [1..n -> Int], NEW x \in [1..n -> Int],
           NEW e \in [1..n -> Int], NEW a \in 1..n, \A i \in (1..n) \ {a} : e[i] = d[i]
    PROVE  Weighted(e, x) = Weighted(d, x) + (e[a] - d[a]) * x[a]
<1> DEFINE v == [i \in 1..n |-> d[i] * x[i]]
           w == [i \in 1..n |-> e[i] * x[i]]
<1>1. /\ v \in [1..n -> Int] /\ w \in [1..n -> Int] /\ IsFiniteSet(1..n)
      /\ DOMAIN d = 1..n /\ DOMAIN e = 1..n
  BY FS_Interval
<1>2. (\A i \in (1..n) \ {a} : w[i] = v[i]) /\ w[a] = e[a] * x[a] /\ v[a] = d[a] * x[a]
  OBVIOUS
<1>3. Weighted(d, x) = SumFunction(v) /\ Weighted(e, x) = SumFunction(w)
  BY <1>1 DEF Weighted
<1> HIDE DEF v, w
<1>4. SumFunction(w) = SumFunction(v) + (w[a] - v[a])
  BY <1>1, <1>2, SumUpdate
<1>5. (e[a] - d[a]) * x[a] = e[a] * x[a] - d[a] * x[a]
  <2> DEFINE k == e[a]
             l == d[a]
             z == x[a]
  <2>1. k \in Int /\ l \in Int /\ z \in Int
    OBVIOUS
  <2> HIDE DEF k, l, z
  <2>2. (k - l) * z = k * z - l * z
    BY <2>1
  <2> QED
    BY <2>2 DEF k, l, z
<1> QED
  BY <1>2, <1>3, <1>4, <1>5

\* What a fill buys of a symbol.
Bought(f, s) == IF f.symbol = s THEN Signed(f) ELSE 0
Purchases(fills, s) == [i \in DOMAIN fills |-> Bought(fills[i], s)]

LedgerTypes ==
    /\ ledger \in Seq(Fills)
    /\ deliveries \in Seq(0..2)
    /\ Len(deliveries) = Len(ledger)

\* The net sizes of the live book add up what was delivered to it.
NetIsDelivered ==
    \A s \in Symbols : live.positions[s].net = Weighted(deliveries, Purchases(ledger, s))

\* A fill is recorded, and delivered once or not at all.
Recorded(f, times) ==
    /\ f \in Fills
    /\ ledger' = Append(ledger, f)
    /\ deliveries' = Append(deliveries, times)

\* The last fill is delivered again.
Repeated(f) ==
    /\ ledger # << >>
    /\ ledger' = ledger
    /\ f = ledger[Len(ledger)]
    /\ deliveries[Len(ledger)] = 1
    /\ deliveries' = [deliveries EXCEPT ![Len(ledger)] = 2]

\* What the actions do to the three variables.
LEMMA ActionsAre ==
    ASSUME LedgerTypes, [Next]_vars
    PROVE  \/ \E f \in Fills : Recorded(f, 1) /\ live' = ApplyFill(live, f)
           \/ \E f \in Fills : Recorded(f, 0) /\ live' = live
           \/ \E f \in Fills : Repeated(f) /\ live' = ApplyFill(live, f)
           \/ UNCHANGED vars
<1>1. CASE RepeatFill
  <2>1. /\ ledger # << >> /\ Last(deliveries) = 1
        /\ live' = ApplyFill(live, Last(ledger))
        /\ deliveries' = [deliveries EXCEPT ![Len(ledger)] = 2]
        /\ UNCHANGED ledger
    BY <1>1 DEF RepeatFill
  <2>2. Last(ledger) = ledger[Len(ledger)] /\ Last(deliveries) = deliveries[Len(ledger)]
    BY DEF Last, LedgerTypes
  <2>3. ledger[Len(ledger)] \in Fills
    BY <2>1 DEF LedgerTypes
  <2>4. Repeated(Last(ledger)) /\ Last(ledger) \in Fills
    BY <2>1, <2>2, <2>3 DEF Repeated
  <2> QED
    BY <2>1, <2>4
<1>2. ASSUME NEW f \in Fills, BookFill(f)
      PROVE  Recorded(f, 1) /\ live' = ApplyFill(live, f)
  BY <1>2 DEF BookFill, Record, Recorded
<1>3. ASSUME NEW f \in Fills, MissFill(f)
      PROVE  Recorded(f, 0) /\ live' = live
  BY <1>3 DEF MissFill, Record, Recorded
<1> QED
  BY <1>1, <1>2, <1>3 DEF Next

LEMMA LedgerIs ==
    ASSUME LedgerTypes
    PROVE  /\ Len(ledger) \in Nat /\ DOMAIN ledger = 1..Len(ledger)
           /\ DOMAIN deliveries = 1..Len(ledger) /\ deliveries \in [1..Len(ledger) -> Int]
           /\ deliveries \in [1..Len(ledger) -> 0..2]
           /\ \A i \in 1..Len(ledger) : ledger[i] \in Fills /\ ledger[i] \in FillTypes
<1>1. /\ Len(ledger) \in Nat /\ DOMAIN ledger = 1..Len(ledger)
      /\ DOMAIN deliveries = 1..Len(ledger)
      /\ deliveries \in [1..Len(ledger) -> 0..2]
      /\ \A i \in 1..Len(ledger) : ledger[i] \in Fills
  BY DEF LedgerTypes
<1>2. deliveries \in [1..Len(ledger) -> Int]
  BY <1>1
<1> QED
  BY <1>1, <1>2, FillsAreTyped

\* How a recorded and a repeated fill change the ledger.
LEMMA RecordedIs ==
    ASSUME LedgerTypes, NEW f \in Fills, NEW times \in {0, 1}, Recorded(f, times)
    PROVE  /\ LedgerTypes' /\ Len(ledger') = Len(ledger) + 1
           /\ ledger'[Len(ledger) + 1] = f /\ deliveries'[Len(ledger) + 1] = times
           /\ \A i \in 1..Len(ledger) : ledger'[i] = ledger[i] /\ deliveries'[i] = deliveries[i]
<1>1. ledger' = Append(ledger, f) /\ deliveries' = Append(deliveries, times)
  BY DEF Recorded
<1>2. times \in 0..2
  OBVIOUS
<1> QED
  BY <1>1, <1>2 DEF LedgerTypes

LEMMA RepeatedIs ==
    ASSUME LedgerTypes, NEW f \in Fills, Repeated(f)
    PROVE  /\ LedgerTypes' /\ Len(ledger) \in 1..Len(ledger) /\ ledger' = ledger
           /\ ledger[Len(ledger)] = f
           /\ deliveries[Len(ledger)] = 1 /\ deliveries'[Len(ledger)] = 2
           /\ \A i \in (1..Len(ledger)) \ {Len(ledger)} : deliveries'[i] = deliveries[i]
BY DEF Repeated, LedgerTypes

-----------------------------------------------------------------------------
(* Types, and the net sizes                                                *)

BookTypes == LedgerTypes /\ live \in Books

\* The fills and positions stay well formed.
LEMMA TypesStep ==
    ASSUME Exact, BookTypes, [Next]_vars
    PROVE  BookTypes'
<1>1. LedgerTypes /\ live \in Books
  BY DEF BookTypes
<1>2. ASSUME NEW f \in Fills, live' = ApplyFill(live, f)
      PROVE  live' \in Books
  <2>1. PICK gain \in Rational : BookMoves(live, ApplyFill(live, f), f, gain)
    BY <1>1, FillMoves, FillsAreTyped
  <2> QED
    BY <1>2, <2>1 DEF BookMoves
<1>3. CASE \E f \in Fills : Recorded(f, 1) /\ live' = ApplyFill(live, f)
  BY <1>1, <1>2, <1>3, RecordedIs DEF BookTypes
<1>4. CASE \E f \in Fills : Recorded(f, 0) /\ live' = live
  BY <1>1, <1>4, RecordedIs DEF BookTypes
<1>5. CASE \E f \in Fills : Repeated(f) /\ live' = ApplyFill(live, f)
  BY <1>1, <1>2, <1>5, RepeatedIs DEF BookTypes
<1>6. CASE UNCHANGED vars
  BY <1>1, <1>6 DEF BookTypes, LedgerTypes, vars
<1> QED
  BY <1>1, <1>3, <1>4, <1>5, <1>6, ActionsAre

LEMMA InitTypes ==
    ASSUME Init
    PROVE  BookTypes
BY EmptyBookIs DEF Init, BookTypes, LedgerTypes

\* The same sum over the ledger of the fills' values, whatever is summed.
LEMMA RecordedWeight ==
    ASSUME LedgerTypes, NEW f \in Fills, NEW times \in {0, 1}, Recorded(f, times),
           NEW x, NEW y, x \in [1..Len(ledger) -> Int], y \in [1..Len(ledger') -> Int],
           \A i \in 1..Len(ledger) : y[i] = x[i]
    PROVE  /\ y[Len(ledger')] \in Int /\ Weighted(deliveries, x) \in Int
           /\ Weighted(deliveries', y) = Weighted(deliveries, x) + times * y[Len(ledger')]
<1> DEFINE n == Len(ledger)
<1>1. /\ n \in Nat /\ Len(ledger') = n + 1 /\ deliveries'[n + 1] = times
      /\ \A i \in 1..n : deliveries'[i] = deliveries[i]
      /\ deliveries \in [1..n -> Int] /\ deliveries' \in [1..(n + 1) -> Int]
  <2>1. /\ LedgerTypes' /\ Len(ledger') = n + 1 /\ deliveries'[n + 1] = times
        /\ \A i \in 1..n : deliveries'[i] = deliveries[i]
    BY RecordedIs
  <2>2. n \in Nat /\ deliveries \in [1..n -> Int]
    BY LedgerIs
  <2> HIDE DEF n
  <2>3. deliveries' \in Seq(0..2) /\ Len(deliveries') = n + 1
    BY <2>1 DEF LedgerTypes
  <2>4. deliveries' \in [1..(n + 1) -> Int]
    BY ONLY <2>2, <2>3
  <2> QED
    BY <2>1, <2>2, <2>4
<1>2. y \in [1..(n + 1) -> Int] /\ x \in [1..n -> Int] /\ \A i \in 1..n : y[i] = x[i]
  BY <1>1
<1> DEFINE d == deliveries
           e == deliveries'
<1>3. /\ n \in Nat /\ Len(ledger') = n + 1 /\ e[n + 1] = times
      /\ \A i \in 1..n : e[i] = d[i] /\ y[i] = x[i]
      /\ d \in [1..n -> Int] /\ e \in [1..(n + 1) -> Int]
  BY <1>1, <1>2
<1> HIDE DEF n, d, e
<1>4. Weighted(e, y) = Weighted(d, x) + e[n + 1] * y[n + 1]
  BY <1>2, <1>3, WeightedAppend
<1>5. Weighted(d, x) \in Int
  BY <1>2, <1>3, WeightedType
<1>6. y[n + 1] \in Int
  BY <1>2, <1>3
<1> QED
  BY <1>3, <1>4, <1>5, <1>6 DEF d, e

LEMMA RepeatedWeight ==
    ASSUME LedgerTypes, NEW f \in Fills, Repeated(f), NEW x, x \in [1..Len(ledger) -> Int]
    PROVE  /\ x[Len(ledger)] \in Int /\ Weighted(deliveries, x) \in Int
           /\ Weighted(deliveries', x) = Weighted(deliveries, x) + x[Len(ledger)]
<1> DEFINE n == Len(ledger)
           d == deliveries
           e == deliveries'
<1>1. /\ n \in Nat /\ n \in 1..n /\ d[n] = 1 /\ e[n] = 2
      /\ \A i \in (1..n) \ {n} : e[i] = d[i]
      /\ d \in [1..n -> Int] /\ e \in [1..n -> Int] /\ x \in [1..n -> Int]
  <2>1. n \in 1..n /\ d[n] = 1 /\ e[n] = 2 /\ \A i \in (1..n) \ {n} : e[i] = d[i]
    BY RepeatedIs
  <2>2. n \in Nat /\ d \in [1..n -> Int]
    BY LedgerIs
  <2>3. LedgerTypes' /\ ledger' = ledger
    BY RepeatedIs
  <2>4. e \in [1..n -> Int]
    BY <2>3 DEF LedgerTypes
  <2> QED
    BY <2>1, <2>2, <2>4
<1> HIDE DEF n, d, e
<1>2. Weighted(e, x) = Weighted(d, x) + (e[n] - d[n]) * x[n]
  BY <1>1, WeightedUpdate
<1>3. Weighted(d, x) \in Int /\ x[n] \in Int
  BY <1>1, WeightedType
<1>4. (e[n] - d[n]) * x[n] = x[n]
  BY <1>1, <1>3
<1> QED
  BY <1>2, <1>3, <1>4 DEF n, d, e

\* What the ledger buys of a symbol.
LEMMA PurchasesAre ==
    ASSUME LedgerTypes, NEW s \in Symbols
    PROVE  /\ Purchases(ledger, s) \in [1..Len(ledger) -> Int]
           /\ \A i \in 1..Len(ledger) : Purchases(ledger, s)[i] = Bought(ledger[i], s)
<1>1. \A i \in 1..Len(ledger) : Bought(ledger[i], s) \in Int
  BY LedgerIs, SignedIs DEF Bought
<1> QED
  BY <1>1, LedgerIs DEF Purchases

\* Recording and delivering keep the net sizes equal to what was delivered.
LEMMA NetStep ==
    ASSUME Exact, BookTypes, NetIsDelivered, [Next]_vars
    PROVE  NetIsDelivered'
<1>1. LedgerTypes /\ live \in Books /\ LedgerTypes' /\ live' \in Books
  BY TypesStep DEF BookTypes
<1>2. ASSUME NEW f \in Fills, live' = ApplyFill(live, f), NEW s \in Symbols
      PROVE  /\ live.positions[s].net \in Int /\ Bought(f, s) \in Int
             /\ live'.positions[s].net = live.positions[s].net + Bought(f, s)
  <2>1. PICK gain \in Rational : BookMoves(live, ApplyFill(live, f), f, gain)
    BY <1>1, FillMoves, FillsAreTyped
  <2>2. BookMoves(live, live', f, gain) /\ f \in FillTypes
    BY <1>2, <2>1, FillsAreTyped
  <2>3. Signed(f) \in Int
    BY <2>2, SignedIs
  <2> DEFINE new == live'
  <2>4. BookMoves(live, new, f, gain)
    BY <2>2
  <2> HIDE DEF new
  <2>5. /\ live.positions[s].net \in Int
        /\ new.positions[s].net =
              live.positions[s].net + (IF s = f.symbol THEN Signed(f) ELSE 0)
    <3> DEFINE book == live
    <3>1. book \in Books /\ BookMoves(book, new, f, gain) /\ f \in FillTypes
      BY <1>1, <2>2, <2>4
    <3> HIDE DEF book
    <3>2. /\ \A z \in Symbols : book.positions[z].net \in Int
          /\ \A z \in Symbols : new.positions[z].net
                 = book.positions[z].net + (IF z = f.symbol THEN Signed(f) ELSE 0)
      BY <3>1, NetsMove
    <3> QED
      BY <3>2, Zenon DEF book
  <2> QED
    BY <2>3, <2>5 DEF Bought, new
<1>3. ASSUME NEW f \in Fills, NEW times \in {0, 1}, Recorded(f, times), NEW s \in Symbols
      PROVE  /\ Weighted(deliveries, Purchases(ledger, s)) \in Int
             /\ Weighted(deliveries', Purchases(ledger', s))
                   = Weighted(deliveries, Purchases(ledger, s)) + times * Bought(f, s)
  <2> DEFINE x == Purchases(ledger, s)
             y == Purchases(ledger', s)
  <2>1. x \in [1..Len(ledger) -> Int] /\ \A i \in 1..Len(ledger) : x[i] = Bought(ledger[i], s)
    BY <1>1, PurchasesAre
  <2>2. y \in [1..Len(ledger') -> Int] /\ \A i \in 1..Len(ledger') : y[i] = Bought(ledger'[i], s)
    <3>1. \A i \in 1..Len(ledger') : ledger'[i] \in FillTypes
      BY <1>1, FillsAreTyped DEF LedgerTypes
    <3>2. \A i \in 1..Len(ledger') : Bought(ledger'[i], s) \in Int
      BY <3>1, SignedIs DEF Bought
    <3>3. DOMAIN ledger' = 1..Len(ledger')
      BY <1>1 DEF LedgerTypes
    <3> QED
      BY <3>2, <3>3 DEF Purchases
  <2>3. /\ Len(ledger') = Len(ledger) + 1 /\ ledger'[Len(ledger')] = f
        /\ \A i \in 1..Len(ledger) : ledger'[i] = ledger[i]
        /\ Len(ledger) \in Nat
    BY <1>1, <1>3, RecordedIs, LedgerIs
  <2> HIDE DEF x, y
  <2>4. (\A i \in 1..Len(ledger) : y[i] = x[i]) /\ y[Len(ledger')] = Bought(f, s)
    BY <2>1, <2>2, <2>3
  <2>5. /\ Weighted(deliveries, x) \in Int
        /\ Weighted(deliveries', y) = Weighted(deliveries, x) + times * y[Len(ledger')]
    BY <1>1, <1>3, <2>1, <2>2, <2>4, RecordedWeight
  <2> QED
    BY <2>4, <2>5 DEF x, y
<1>4. CASE \E f \in Fills : Recorded(f, 1) /\ live' = ApplyFill(live, f)
  <2>1. PICK f \in Fills : Recorded(f, 1) /\ live' = ApplyFill(live, f)
    BY <1>4
  <2>2. ASSUME NEW s \in Symbols
        PROVE  live'.positions[s].net = Weighted(deliveries', Purchases(ledger', s))
    BY <1>2, <1>3, <2>1 DEF NetIsDelivered
  <2> QED
    BY <2>2 DEF NetIsDelivered
<1>5. CASE \E f \in Fills : Recorded(f, 0) /\ live' = live
  <2>1. PICK f \in Fills : Recorded(f, 0) /\ live' = live
    BY <1>5
  <2>2. ASSUME NEW s \in Symbols
        PROVE  live'.positions[s].net = Weighted(deliveries', Purchases(ledger', s))
    <3>1. Bought(f, s) \in Int
      BY SignedIs, FillsAreTyped DEF Bought
    <3> QED
      BY <1>3, <2>1, <3>1 DEF NetIsDelivered
  <2> QED
    BY <2>2 DEF NetIsDelivered
<1>6. CASE \E f \in Fills : Repeated(f) /\ live' = ApplyFill(live, f)
  <2>1. PICK f \in Fills : Repeated(f) /\ live' = ApplyFill(live, f)
    BY <1>6
  <2>2. ledger' = ledger /\ ledger[Len(ledger)] = f /\ Len(ledger) \in 1..Len(ledger)
    BY <1>1, <2>1, RepeatedIs
  <2>3. ASSUME NEW s \in Symbols
        PROVE  live'.positions[s].net = Weighted(deliveries', Purchases(ledger', s))
    <3> DEFINE x == Purchases(ledger, s)
    <3>1. x \in [1..Len(ledger) -> Int] /\ x[Len(ledger)] = Bought(f, s)
      BY <1>1, <2>2, PurchasesAre
    <3> HIDE DEF x
    <3>2. Weighted(deliveries', x) = Weighted(deliveries, x) + x[Len(ledger)]
      BY <1>1, <2>1, <3>1, RepeatedWeight
    <3> QED
      BY <1>2, <2>1, <2>2, <3>1, <3>2 DEF NetIsDelivered, x
  <2> QED
    BY <2>3 DEF NetIsDelivered
<1>7. CASE UNCHANGED vars
  BY <1>7 DEF NetIsDelivered, vars
<1> QED
  BY <1>1, <1>4, <1>5, <1>6, <1>7, ActionsAre

LEMMA InitNet ==
    ASSUME Init
    PROVE  NetIsDelivered
<1> SUFFICES ASSUME NEW s \in Symbols
             PROVE  live.positions[s].net = Weighted(deliveries, Purchases(ledger, s))
  BY DEF NetIsDelivered
<1>1. live.positions[s].net = 0
  BY EmptyBookIs DEF Init, Closed
<1>2. deliveries = << >> /\ DOMAIN << >> = {}
  BY DEF Init
<1> DEFINE v == [i \in {} |-> deliveries[i] * Purchases(ledger, s)[i]]
<1>3. v \in [{} -> Int] /\ IsFiniteSet({})
  BY FS_EmptySet
<1>4. Weighted(deliveries, Purchases(ledger, s)) = SumFunction(v)
  BY <1>2 DEF Weighted
<1> HIDE DEF v
<1>5. SumFunction(v) = 0
  BY <1>3, SumZero
<1> QED
  BY <1>1, <1>4, <1>5

-----------------------------------------------------------------------------
(* The book is a cash account                                              *)

\* Whole numbers subtract and add as integers do.
LEMMA WholeArithmetic ==
    ASSUME NEW a \in Int, NEW b \in Int
    PROVE  /\ Minus(Whole(a), Whole(b)) = Whole(a - b) /\ Plus(Whole(a), Whole(b)) = Whole(a + b)
           /\ a - b \in Int /\ a + b \in Int
<1> DEFINE one == 1
           l == a - b
           m == a + b
<1>1. /\ one \in Nat \ {0} /\ a * one = a /\ b * one = b /\ l \in Int /\ m \in Int
      /\ l * one = l /\ m * one = m
  OBVIOUS
<1>2. Minus(Frac(a, one), Frac(b, one)) = Frac(l, one) /\ Plus(Frac(a, one), Frac(b, one)) = Frac(m, one)
  <2> HIDE DEF one
  <2> QED
    BY <1>1, DifferenceOverOne, SumOverOne
<1> HIDE DEF one, l, m
<1>3. /\ Whole(a) = Frac(a * one, one) /\ Whole(b) = Frac(b * one, one)
      /\ Whole(l) = Frac(l * one, one) /\ Whole(m) = Frac(m * one, one)
  BY <1>1, WholeIs
<1>4. Minus(Whole(a), Whole(b)) = Whole(l) /\ Plus(Whole(a), Whole(b)) = Whole(m)
  BY <1>1, <1>2, <1>3
<1> QED
  BY <1>1, <1>4 DEF l, m

CashIsWhole == \E c \in Int : CashOf(live) = Whole(c)

LEMMA InitCash ==
    ASSUME Init
    PROVE  CashOf(live) = Whole(0) /\ CashIsWhole
<1> DEFINE v == Costs(EmptyBook)
<1>1. v \in [Symbols -> Rational] /\ CashOf(EmptyBook) = Minus(EmptyBook.realized, Total(v))
  BY EmptyBookIs, CostsAre
<1>2. \A s \in Symbols : v[s] = Whole(0)
  BY EmptyBookIs, ClosedPosition DEF Costs
<1> HIDE DEF v
<1>3. Total(v) = Whole(0)
  BY <1>1, <1>2, SymbolsFinite, TotalZero
<1> DEFINE zero == 0
<1>4. zero \in Int /\ zero - zero = zero
  OBVIOUS
<1>5. CashOf(EmptyBook) = Minus(Whole(zero), Whole(zero))
  BY <1>1, <1>3, EmptyBookIs
<1> HIDE DEF zero
<1>6. CashOf(EmptyBook) = Whole(zero)
  BY <1>4, <1>5, WholeArithmetic
<1>7. live = EmptyBook
  BY DEF Init
<1> QED
  BY <1>4, <1>6, <1>7 DEF CashIsWhole, zero

\* One application of a fill is one exchange of the account.
LEMMA ApplicationIsExchange ==
    ASSUME Exact, BookTypes, CashIsWhole, NEW f \in Fills, live' = ApplyFill(live, f)
    PROVE  Account!Next /\ CashIsWhole'
<1>1. live \in Books /\ f \in FillTypes
  BY FillsAreTyped DEF BookTypes
<1> DEFINE new == ApplyFill(live, f)
<1>2. PICK gain \in Rational : BookMoves(live, new, f, gain)
  BY <1>1, FillMoves
<1>3. PICK c \in Int : CashOf(live) = Whole(c)
  BY DEF CashIsWhole
<1>4. PICK o \in Orders, time \in 0..MaxTime : f = SimulateFill(o, time)
  BY DEF Fills
<1>5. /\ f.symbol = o.symbol /\ Signed(f) = SignedSize(o.direction, o.size)
      /\ f.price = FillPrice(o.direction, o.market, CostBps)
  BY <1>4 DEF SimulateFill, Signed
<1> DEFINE k == Signed(f) * f.price
<1>6. k \in Int /\ f.symbol \in Symbols
  BY <1>1, SignedIs
<1> HIDE DEF new
<1>7. CashOf(new) = Minus(Whole(c), Whole(k))
  BY <1>1, <1>2, <1>3, CashMoves
<1>8. CashOf(new) = Whole(c - k) /\ c - k \in Int
  <2> HIDE DEF k
  <2> QED
    BY <1>6, <1>7, WholeArithmetic
<1>9. \A s \in Symbols : new.positions[s].net
         = live.positions[s].net + (IF s = f.symbol THEN Signed(f) ELSE 0)
  <2> DEFINE book == live
  <2>1. book \in Books /\ f \in FillTypes /\ BookMoves(book, new, f, gain)
    BY <1>1, <1>2
  <2> HIDE DEF book
  <2>2. /\ \A s \in Symbols : book.positions[s].net \in Int
        /\ \A s \in Symbols : new.positions[s].net
               = book.positions[s].net + (IF s = f.symbol THEN Signed(f) ELSE 0)
    BY ONLY <2>1, NetsMove
  <2> QED
    BY ONLY <2>2 DEF book
<1>10. \A s \in Symbols : live.positions[s].net \in Int
  BY ONLY <1>1, <1>2, NetsMove
<1>11. live' = new
  BY DEF new
<1>12. NetSizes(live)' = [NetSizes(live) EXCEPT ![o.symbol] = @ + SignedSize(o.direction, o.size)]
  <2>1. NetSizes(new) = [NetSizes(live) EXCEPT ![o.symbol] = @ + SignedSize(o.direction, o.size)]
    BY <1>5, <1>6, <1>9, <1>10 DEF NetSizes
  <2> QED
    BY <1>11, <2>1 DEF NetSizes
<1>13. CashOf(live)' = Whole(CashOf(live).n
                              - SignedSize(o.direction, o.size) * FillPrice(o.direction, o.market, CostBps))
  <2>1. CashOf(live).n = c
    BY <1>3 DEF Whole
  <2>2. CashOf(new) = Whole(CashOf(live).n
                              - SignedSize(o.direction, o.size) * FillPrice(o.direction, o.market, CostBps))
    BY <1>5, <1>8, <2>1
  <2>3. CashOf(live)' = CashOf(new)
    BY <1>11 DEF CashOf, Total
  <2> QED
    BY <2>2, <2>3
<1>14. Account!Exchange(o)
  BY <1>12, <1>13 DEF Account!Exchange, Account!SignedSize, Account!FillPrice, Account!BpsScale,
     Account!Whole, SignedSize, FillPrice, BpsScale, Whole
<1>15. CashIsWhole'
  <2>1. CashOf(live)' = CashOf(new)
    BY <1>11 DEF CashOf
  <2> QED
    BY <1>8, <2>1 DEF CashIsWhole
<1> QED
  BY <1>14, <1>15 DEF Account!Next

\* Every step of the book is a step of the account, or leaves it alone.
LEMMA StepIsAccountStep ==
    ASSUME Exact, BookTypes, CashIsWhole, [Next]_vars
    PROVE  [Account!Next]_(Account!accountVars) /\ CashIsWhole'
<1>1. LedgerTypes
  BY DEF BookTypes
<1>2. ASSUME live' = live
      PROVE  UNCHANGED Account!accountVars /\ CashIsWhole'
  <2>1. CashOf(live)' = CashOf(live) /\ NetSizes(live)' = NetSizes(live)
    BY <1>2 DEF CashOf, NetSizes
  <2> QED
    BY <2>1 DEF CashIsWhole, Account!accountVars
<1>3. CASE UNCHANGED vars
  BY <1>2, <1>3 DEF vars
<1> QED
  BY <1>1, <1>2, <1>3, ActionsAre, ApplicationIsExchange

\* However its positions are averaged, reduced, flipped and deleted, the live
\* book moves as an account that holds quantities and pays for them: net sizes,
\* and realized PnL less the cost of what is held, change by exactly the size
\* and the price of every application of a fill.
THEOREM BookKeepsACashAccount ==
    ASSUME Exact
    PROVE  Spec => BookIsACashAccount
<1> DEFINE Inv == BookTypes /\ CashIsWhole
<1>1. Init => Inv /\ Account!Init
  <2> SUFFICES ASSUME Init PROVE Inv /\ Account!Init
    OBVIOUS
  <2>1. NetSizes(live) = [s \in Symbols |-> 0]
    BY EmptyBookIs DEF Init, NetSizes, Closed
  <2> QED
    BY <2>1, InitTypes, InitCash DEF Account!Init, Account!Whole, Whole
<1>2. Inv /\ [Next]_vars => Inv' /\ [Account!Next]_(Account!accountVars)
  BY TypesStep, StepIsAccountStep
<1> HIDE DEF Inv
<1> QED
  BY <1>1, <1>2, PTL DEF Spec, BookIsACashAccount, Account!Spec

-----------------------------------------------------------------------------
(* The book can be told from its fills                                     *)

\* The fills on the side of a position.
Side(fills, s, net) ==
    {f \in fills : f.symbol = s /\ SameDirection(SignedSize(f.direction, f.size), net)}

\* The entry of a position of s lies within the prices of those fills.
WithinSide(p, s, fills) ==
    IF p.net = 0 THEN p = Closed
    ELSE /\ \E f \in Side(fills, s, p.net) : AtMost(Whole(f.price), p.entry)
         /\ \E f \in Side(fills, s, p.net) : AtMost(p.entry, Whole(f.price))

LEMMA EntriesAre == EntryWithinPricesPaid
                      <=> \A s \in Symbols : WithinSide(live.positions[s], s, ToSet(ledger))
BY DEF EntryWithinPricesPaid, WithinSide, Side, HasPosition

\* More fills leave room for the same entries.
LEMMA LargerSide ==
    ASSUME NEW p, NEW s, NEW fills, NEW more, fills \subseteq more, WithinSide(p, s, fills)
    PROVE  WithinSide(p, s, more)
BY DEF WithinSide, Side

\* A fill keeps the entry within the prices of its side.
LEMMA EntryMoves ==
    ASSUME NEW fills, fills \subseteq FillTypes, NEW f \in fills, NEW p \in Positions,
           WithinSide(p, f.symbol, fills), NEW q, NEW gain, Moves(p, q, Signed(f), f.price, gain)
    PROVE  WithinSide(q, f.symbol, fills)
<1> DEFINE s == f.symbol
<1>1. q \in Positions /\ f \in FillTypes
  BY DEF Moves
<1>2. CASE q.net = 0
  BY <1>1, <1>2 DEF Positions, WithinSide
<1>3. CASE q.net # 0
  <2>1. Lower(p, q, Signed(f), f.price) /\ Upper(p, q, Signed(f), f.price)
    BY <1>3 DEF Moves
  <2>2. p.net \in Int /\ q.net \in Int /\ p.entry \in Rational /\ q.entry \in Rational
    BY <1>1 DEF Positions
  <2>3. ASSUME SameDirection(p.net, q.net)
        PROVE  p.net # 0 /\ Side(fills, s, p.net) = Side(fills, s, q.net)
    <3>1. p.net # 0 /\ \A x : SameDirection(x, p.net) <=> SameDirection(x, q.net)
      BY <2>2, <2>3 DEF SameDirection
    <3> QED
      BY <3>1 DEF Side
  <2>4. ASSUME SameDirection(Signed(f), q.net)
        PROVE  f \in Side(fills, s, q.net)
    BY <2>4 DEF Side, Signed
  <2>5. \A g \in fills : Whole(g.price) \in Rational
    <3>1. \A g \in fills : g.price \in Int
      BY SignedIs
    <3> QED
      BY <3>1, WholeIs
  <2>6. \E g \in Side(fills, s, q.net) : AtMost(Whole(g.price), q.entry)
    <3>1. CASE SameDirection(p.net, q.net) /\ AtMost(p.entry, q.entry)
      <4>1. PICK g \in Side(fills, s, q.net) : AtMost(Whole(g.price), p.entry)
        BY <2>3, <3>1 DEF WithinSide
      <4>2. g \in fills
        BY DEF Side
      <4>3. AtMost(Whole(g.price), q.entry)
        BY <2>2, <2>5, <3>1, <4>1, <4>2, AtMostTransitive
      <4> QED
        BY <4>3
    <3>2. CASE SameDirection(Signed(f), q.net) /\ AtMost(Whole(f.price), q.entry)
      BY <2>4, <3>2
    <3> QED
      BY <2>1, <3>1, <3>2 DEF Lower
  <2>7. \E g \in Side(fills, s, q.net) : AtMost(q.entry, Whole(g.price))
    <3>1. CASE SameDirection(p.net, q.net) /\ AtMost(q.entry, p.entry)
      <4>1. PICK g \in Side(fills, s, q.net) : AtMost(p.entry, Whole(g.price))
        BY <2>3, <3>1 DEF WithinSide
      <4>2. g \in fills
        BY DEF Side
      <4>3. AtMost(q.entry, Whole(g.price))
        BY <2>2, <2>5, <3>1, <4>1, <4>2, AtMostTransitive
      <4> QED
        BY <4>3
    <3>2. CASE SameDirection(Signed(f), q.net) /\ AtMost(q.entry, Whole(f.price))
      BY <2>4, <3>2
    <3> QED
      BY <2>1, <3>1, <3>2 DEF Upper
  <2> QED
    BY <1>3, <2>6, <2>7 DEF WithinSide
<1> QED
  BY <1>2, <1>3

\* The statistics keep agreeing with the money.
ReturnsExplain(book) ==
    /\ book.realized.n > 0 => \E i \in DOMAIN book.returns : book.returns[i].n > 0
    /\ book.realized.n < 0 => \E i \in DOMAIN book.returns : book.returns[i].n < 0

\* A sum is positive or negative only if a term is.
LEMMA SignOfSum ==
    ASSUME NEW a \in Rational, NEW b \in Rational
    PROVE  /\ Plus(a, b).n > 0 => a.n > 0 \/ b.n > 0
           /\ Plus(a, b).n < 0 => a.n < 0 \/ b.n < 0
<1>1. PICK d \in Nat \ {0} : AllOver(a, b, a, b, d)
  BY CommonDenominator
<1>2. PICK x, y \in Int : a = Frac(x, d) /\ b = Frac(y, d)
  BY <1>1 DEF AllOver
<1> DEFINE z == x + y
<1>3. z \in Int /\ 0 \in Int
  OBVIOUS
<1>4. Plus(a, b) = Frac(z, d)
  BY <1>2, SumOverOne
<1> HIDE DEF z
<1>5. /\ (a.n > 0 <=> x > 0) /\ (a.n < 0 <=> x < 0)
      /\ (b.n > 0 <=> y > 0) /\ (b.n < 0 <=> y < 0)
      /\ (Plus(a, b).n > 0 <=> z > 0) /\ (Plus(a, b).n < 0 <=> z < 0)
  BY <1>2, <1>3, <1>4, OrderOverOne
<1> QED
  BY <1>5 DEF z

LEMMA ReturnsMoves ==
    ASSUME NEW book \in Books, ReturnsExplain(book), NEW new, NEW f, NEW gain,
           BookMoves(book, new, f, gain)
    PROVE  ReturnsExplain(new)
<1>1. /\ book.realized \in Rational /\ gain \in Rational
      /\ new.realized = Plus(book.realized, gain)
      /\ ReturnsMove(book.returns, new.returns, gain)
      /\ book.returns \in Seq(Rational) /\ new.returns \in Seq(Rational)
  BY DEF Books, BookMoves, Moves
<1>2. CASE gain = Whole(0) /\ new.returns = book.returns
  <2>1. new.realized = book.realized
    BY <1>1, <1>2, ClosedPosition
  <2> QED
    BY <1>2, <2>1 DEF ReturnsExplain
<1>3. ASSUME NEW r \in Rational, new.returns = Append(book.returns, r),
             (gain.n > 0 <=> r.n > 0) /\ (gain.n < 0 <=> r.n < 0)
      PROVE  ReturnsExplain(new)
  <2> DEFINE old == book.returns
             n == Len(old) + 1
  <2>1. /\ DOMAIN new.returns = DOMAIN old \cup {n} /\ new.returns[n] = r
        /\ \A i \in DOMAIN old : new.returns[i] = old[i]
    BY <1>1, <1>3, AppendEntries
  <2>2. /\ new.realized.n > 0 => book.realized.n > 0 \/ gain.n > 0
        /\ new.realized.n < 0 => book.realized.n < 0 \/ gain.n < 0
    BY <1>1, SignOfSum
  <2> HIDE DEF n
  <2> QED
    BY <1>3, <2>1, <2>2 DEF ReturnsExplain
<1> QED
  BY <1>1, <1>2, <1>3 DEF ReturnsMove

\* What the simulator charges for a fill when its market stands at `market'.
Charge(f, market) == f.size * market[f.symbol] * CostBps
Charges(fills, market) == [i \in DOMAIN fills |-> Charge(fills[i], market)]

\* A fill made at that market.
MadeAt(f, market) == f.price = FillPrice(f.direction, market[f.symbol], CostBps)

MarkOf(market) == [s \in Symbols |-> market[s] * BpsScale]

\* The book is down by the charge of every fill, as often as delivered.
PaysItsCosts(market) ==
    (\A i \in DOMAIN ledger : MadeAt(ledger[i], market))
        => Worth(live, MarkOf(market)) = Whole(-Weighted(deliveries, Charges(ledger, market)))

LEMMA ChargeIs ==
    ASSUME NEW f \in FillTypes, NEW market \in [Symbols -> Prices]
    PROVE  /\ Charge(f, market) \in Int /\ MarkOf(market) \in [Symbols -> Int]
           /\ f.size \in Nat /\ market[f.symbol] \in Nat /\ CostBps \in Nat
           /\ MadeAt(f, market) =>
                 Signed(f) * (MarkOf(market)[f.symbol] - f.price) = -Charge(f, market)
<1> DEFINE m == market[f.symbol]
           z == f.size
           price == f.price
<1>1. \A s \in Symbols : market[s] \in Nat
  BY PositionBookAssumption DEF PositionBookAssumption, Positive
<1>2. CostBps \in Nat /\ BpsScale \in Nat
  BY PositionBookAssumption DEF PositionBookAssumption, BpsScale
<1>3. f.symbol \in Symbols /\ z \in Nat /\ m \in Nat /\ f.direction \in {"LONG", "SHORT"}
      /\ price \in Nat
  BY <1>1 DEF FillTypes
<1>4. MarkOf(market) \in [Symbols -> Int] /\ MarkOf(market)[f.symbol] = m * BpsScale
  BY <1>1, <1>2, <1>3 DEF MarkOf
<1>5. Charge(f, market) = (z * m) * CostBps
  BY DEF Charge
<1>6. (z * m) * CostBps \in Int
  BY <1>2, <1>3
<1>7. ASSUME MadeAt(f, market)
      PROVE  Signed(f) * (m * BpsScale - price) = -((z * m) * CostBps)
  <2> DEFINE c == CostBps
             b == BpsScale
  <2>1. c \in Nat /\ b \in Nat
    BY <1>2
  <2>2. CASE f.direction = "LONG"
    <3>1. Signed(f) = z /\ price = m * (b + c)
      BY <1>7, <2>2 DEF Signed, SignedSize, MadeAt, FillPrice
    <3> HIDE DEF c, b, z, m, price
    <3>2. m * (b + c) = m * b + m * c /\ m * b \in Int /\ m * c \in Int
      BY <1>3, <2>1
    <3>3. m * b - price = -(m * c)
      BY <3>1, <3>2
    <3>4. z * (-(m * c)) = -((z * m) * c)
      BY <1>3, <2>1
    <3> QED
      BY <3>1, <3>3, <3>4 DEF b, c
  <2>3. CASE f.direction = "SHORT"
    <3>1. Signed(f) = -z /\ price = m * (b + (-c))
      BY <1>7, <2>3 DEF Signed, SignedSize, MadeAt, FillPrice
    <3> HIDE DEF c, b, z, m, price
    <3>2. m * (b + (-c)) = m * b - m * c /\ m * b \in Int /\ m * c \in Int
      BY <1>3, <2>1
    <3>3. m * b - price = m * c
      BY <3>1, <3>2
    <3>4. (-z) * (m * c) = -((z * m) * c)
      BY <1>3, <2>1
    <3> QED
      BY <3>1, <3>3, <3>4 DEF b, c
  <2> QED
    BY <1>3, <2>2, <2>3
<1> QED
  BY <1>2, <1>3, <1>4, <1>5, <1>6, <1>7

\* The property the run checks is this one, for every market.
LEMMA CostsAreCharged ==
    ASSUME LedgerTypes
    PROVE  CostsArePaid <=> \A market \in [Symbols -> Prices] : PaysItsCosts(market)
<1> SUFFICES ASSUME NEW market \in [Symbols -> Prices]
             PROVE  SumFunction([i \in DOMAIN ledger |->
                        deliveries[i] * ledger[i].size * market[ledger[i].symbol] * CostBps])
                      = Weighted(deliveries, Charges(ledger, market))
  BY DEF CostsArePaid, PaysItsCosts, MadeAt, MarkOf, Worth
<1>1. DOMAIN ledger = DOMAIN deliveries
  BY LedgerIs
<1>2. ASSUME NEW i \in DOMAIN ledger
      PROVE  deliveries[i] * ledger[i].size * market[ledger[i].symbol] * CostBps
                = deliveries[i] * Charges(ledger, market)[i]
  <2> DEFINE d == deliveries[i]
             z == ledger[i].size
             m == market[ledger[i].symbol]
             c == CostBps
  <2>1. ledger[i] \in FillTypes /\ d \in Int
    BY LedgerIs
  <2>2. z \in Int /\ m \in Int /\ c \in Int
    BY <2>1, ChargeIs
  <2>3. Charges(ledger, market)[i] = (z * m) * c
    BY DEF Charges, Charge
  <2> HIDE DEF d, z, m, c
  <2>4. ((d * z) * m) * c = d * ((z * m) * c)
    BY <2>1, <2>2
  <2> QED
    BY <2>3, <2>4 DEF d, z, m, c
<1> QED
  BY <1>1, <1>2 DEF Weighted

LEMMA ChargesAre ==
    ASSUME LedgerTypes, NEW market \in [Symbols -> Prices]
    PROVE  /\ Charges(ledger, market) \in [1..Len(ledger) -> Int]
           /\ \A i \in 1..Len(ledger) : Charges(ledger, market)[i] = Charge(ledger[i], market)
<1>1. \A i \in 1..Len(ledger) : Charge(ledger[i], market) \in Int
  BY LedgerIs, ChargeIs
<1> QED
  BY <1>1, LedgerIs DEF Charges

\* One application of a fill costs its charge.
LEMMA ApplicationCosts ==
    ASSUME Exact, BookTypes, NEW f \in Fills, live' = ApplyFill(live, f),
           NEW market \in [Symbols -> Prices], MadeAt(f, market), NEW total \in Int,
           Worth(live, MarkOf(market)) = Whole(-total)
    PROVE  Worth(live, MarkOf(market))' = Whole(-(total + Charge(f, market)))
<1> DEFINE new == ApplyFill(live, f)
           mark == MarkOf(market)
           k == -Charge(f, market)
<1>1. live \in Books /\ f \in FillTypes
  BY FillsAreTyped DEF BookTypes
<1>2. PICK gain \in Rational : BookMoves(live, new, f, gain)
  BY <1>1, FillMoves
<1>3. mark \in [Symbols -> Int] /\ Charge(f, market) \in Int
      /\ Signed(f) * (mark[f.symbol] - f.price) = k
  BY <1>1, ChargeIs
<1>4. k \in Int /\ -total \in Int /\ (-total) + k = -(total + Charge(f, market))
  BY <1>3
<1>5. Worth(live, mark)' = Worth(new, mark)
  BY DEF Worth, MarkOf
<1> HIDE DEF new, mark, k
<1>6. Worth(new, mark) = Plus(Worth(live, mark), Whole(Signed(f) * (mark[f.symbol] - f.price)))
  BY <1>1, <1>2, <1>3, WorthMoves
<1>7. Worth(new, mark) = Plus(Whole(-total), Whole(k))
  BY <1>3, <1>6 DEF mark
<1>8. Plus(Whole(-total), Whole(k)) = Whole((-total) + k)
  <2> DEFINE j == -total
  <2>1. j \in Int
    BY <1>4
  <2> HIDE DEF j
  <2>2. Plus(Whole(j), Whole(k)) = Whole(j + k)
    BY <1>4, <2>1, WholeArithmetic
  <2> QED
    BY <2>2 DEF j
<1> QED
  BY <1>4, <1>5, <1>7, <1>8 DEF mark

\* Recording and delivering charge what the ledger says.
LEMMA CostsStep ==
    ASSUME Exact, BookTypes, [Next]_vars, NEW market \in [Symbols -> Prices], PaysItsCosts(market)
    PROVE  PaysItsCosts(market)'
<1> DEFINE x == Charges(ledger, market)
           y == Charges(ledger', market)
           n == Len(ledger)
<1>1. LedgerTypes /\ LedgerTypes'
  BY TypesStep DEF BookTypes
<1>2. /\ x \in [1..n -> Int] /\ (\A i \in 1..n : x[i] = Charge(ledger[i], market))
      /\ n \in Nat /\ DOMAIN ledger = 1..n /\ Weighted(deliveries, x) \in Int
  <2>1. x \in [1..n -> Int] /\ \A i \in 1..n : x[i] = Charge(ledger[i], market)
    BY <1>1, ChargesAre
  <2>2. n \in Nat /\ DOMAIN ledger = 1..n /\ deliveries \in [1..n -> Int]
    BY <1>1, LedgerIs
  <2> HIDE DEF x, n
  <2> QED
    BY <2>1, <2>2, WeightedType
<1>3. ASSUME NEW f \in Fills, NEW times \in {0, 1}, Recorded(f, times)
      PROVE  /\ (\A i \in DOMAIN ledger' : MadeAt(ledger'[i], market))
                    => MadeAt(f, market) /\ \A i \in DOMAIN ledger : MadeAt(ledger[i], market)
             /\ Charge(f, market) \in Int
             /\ Weighted(deliveries', y) = Weighted(deliveries, x) + times * Charge(f, market)
  <2>1. /\ Len(ledger') = n + 1 /\ ledger'[n + 1] = f /\ \A i \in 1..n : ledger'[i] = ledger[i]
    BY <1>1, <1>3, RecordedIs
  <2>2. DOMAIN ledger' = 1..(n + 1) /\ \A i \in 1..(n + 1) : ledger'[i] \in FillTypes
    BY <1>1, <2>1, FillsAreTyped DEF LedgerTypes
  <2>3. Charge(f, market) \in Int
    BY FillsAreTyped, ChargeIs
  <2>4. y \in [1..(n + 1) -> Int] /\ \A i \in 1..(n + 1) : y[i] = Charge(ledger'[i], market)
    <3>1. \A i \in 1..(n + 1) : Charge(ledger'[i], market) \in Int
      BY <2>2, ChargeIs
    <3> QED
      BY <2>2, <3>1 DEF Charges
  <2> HIDE DEF x, y
  <2>5. (\A i \in 1..n : y[i] = x[i]) /\ y[n + 1] = Charge(f, market)
    BY <1>2, <2>1, <2>4
  <2>6. y \in [1..Len(ledger') -> Int] /\ \A i \in 1..Len(ledger) : y[i] = x[i]
    BY <2>1, <2>4, <2>5
  <2>7. Weighted(deliveries', y) = Weighted(deliveries, x) + times * y[Len(ledger')]
    BY <1>1, <1>2, <1>3, <2>6, RecordedWeight
  <2>8. (\A i \in DOMAIN ledger' : MadeAt(ledger'[i], market))
            => MadeAt(f, market) /\ \A i \in DOMAIN ledger : MadeAt(ledger[i], market)
    <3> SUFFICES ASSUME \A i \in 1..(n + 1) : MadeAt(ledger'[i], market)
                 PROVE  MadeAt(f, market) /\ \A i \in 1..n : MadeAt(ledger[i], market)
      BY <1>2, <2>2
    <3>1. n + 1 \in 1..(n + 1) /\ \A i \in 1..n : i \in 1..(n + 1)
      BY <1>2
    <3> QED
      BY <2>1, <3>1
  <2> QED
    BY <2>1, <2>3, <2>5, <2>7, <2>8
<1>4. SUFFICES ASSUME \A i \in DOMAIN ledger' : MadeAt(ledger'[i], market)
               PROVE  Worth(live, MarkOf(market))' = Whole(-Weighted(deliveries', y))
  BY DEF PaysItsCosts, MadeAt, Charges, Charge, Worth, MarkOf
<1>5. CASE \E f \in Fills : Recorded(f, 1) /\ live' = ApplyFill(live, f)
  <2>1. PICK f \in Fills : Recorded(f, 1) /\ live' = ApplyFill(live, f)
    BY <1>5
  <2>2. /\ MadeAt(f, market) /\ \A i \in DOMAIN ledger : MadeAt(ledger[i], market)
        /\ Charge(f, market) \in Int
        /\ Weighted(deliveries', y) = Weighted(deliveries, x) + 1 * Charge(f, market)
    BY <1>3, <1>4, <2>1
  <2>3. Worth(live, MarkOf(market)) = Whole(-Weighted(deliveries, x))
    BY <2>2 DEF PaysItsCosts
  <2>4. Worth(live, MarkOf(market))' = Whole(-(Weighted(deliveries, x) + Charge(f, market)))
    BY <1>2, <2>1, <2>2, <2>3, ApplicationCosts
  <2>5. Weighted(deliveries', y) = Weighted(deliveries, x) + Charge(f, market)
    BY <2>2
  <2> QED
    BY <2>4, <2>5
<1>6. CASE \E f \in Fills : Recorded(f, 0) /\ live' = live
  <2>1. PICK f \in Fills : Recorded(f, 0) /\ live' = live
    BY <1>6
  <2>2. /\ \A i \in DOMAIN ledger : MadeAt(ledger[i], market)
        /\ Charge(f, market) \in Int
        /\ Weighted(deliveries', y) = Weighted(deliveries, x) + 0 * Charge(f, market)
    BY <1>3, <1>4, <2>1
  <2>3. Worth(live, MarkOf(market)) = Whole(-Weighted(deliveries, x))
    BY <2>2 DEF PaysItsCosts
  <2>4. Worth(live, MarkOf(market))' = Worth(live, MarkOf(market))
    BY <2>1 DEF Worth, MarkOf
  <2>5. Weighted(deliveries', y) = Weighted(deliveries, x)
    BY <1>2, <2>2
  <2> QED
    BY <2>3, <2>4, <2>5
<1>7. CASE \E f \in Fills : Repeated(f) /\ live' = ApplyFill(live, f)
  <2>1. PICK f \in Fills : Repeated(f) /\ live' = ApplyFill(live, f)
    BY <1>7
  <2>2. ledger' = ledger /\ ledger[n] = f /\ n \in 1..n
    BY <1>1, <2>1, RepeatedIs
  <2>3. y = x /\ x[n] = Charge(f, market) /\ MadeAt(f, market)
        /\ \A i \in DOMAIN ledger : MadeAt(ledger[i], market)
    BY <1>2, <1>4, <2>2
  <2>4. Weighted(deliveries', x) = Weighted(deliveries, x) + x[n]
    <3> HIDE DEF x
    <3> QED
      BY <1>1, <1>2, <2>1, RepeatedWeight
  <2>5. Worth(live, MarkOf(market)) = Whole(-Weighted(deliveries, x))
    BY <2>3 DEF PaysItsCosts
  <2>6. Worth(live, MarkOf(market))' = Whole(-(Weighted(deliveries, x) + Charge(f, market)))
    BY <1>2, <2>1, <2>3, <2>5, ApplicationCosts
  <2> QED
    BY <2>3, <2>4, <2>6
<1>8. CASE UNCHANGED vars
  <2>1. ledger' = ledger /\ live' = live /\ deliveries' = deliveries
    BY <1>8 DEF vars
  <2>2. Worth(live, MarkOf(market)) = Whole(-Weighted(deliveries, x))
    BY <1>4, <2>1 DEF PaysItsCosts
  <2>3. Worth(live, MarkOf(market))' = Worth(live, MarkOf(market))
    BY <2>1 DEF Worth, MarkOf
  <2> QED
    BY <2>1, <2>2, <2>3
<1> QED
  BY <1>1, <1>5, <1>6, <1>7, <1>8, ActionsAre

LEMMA InitCosts ==
    ASSUME Init, NEW market \in [Symbols -> Prices]
    PROVE  PaysItsCosts(market)
<1> DEFINE mark == MarkOf(market)
           v == Marked(live, mark)
           x == Charges(ledger, market)
           zero == 0
<1>1. live = EmptyBook /\ live \in Books /\ live.realized = Whole(zero) /\ deliveries = << >>
  BY EmptyBookIs DEF Init
<1>2. mark \in [Symbols -> Int]
  <2>1. \A s \in Symbols : market[s] \in Nat
    BY PositionBookAssumption DEF PositionBookAssumption, Positive
  <2>2. BpsScale \in Nat
    BY DEF BpsScale
  <2>3. \A s \in Symbols : market[s] * BpsScale \in Int
    BY <2>1, <2>2
  <2> QED
    BY <2>3 DEF MarkOf
<1> HIDE DEF mark
<1>3. v \in [Symbols -> Rational] /\ UnrealizedPnl(live, mark) = Total(v)
  BY <1>1, <1>2, MarkedIs
<1>4. \A s \in Symbols : v[s] = Whole(zero)
  <2> SUFFICES ASSUME NEW s \in Symbols
               PROVE  v[s] = Whole(zero)
    OBVIOUS
  <2>1. live.positions[s].net = 0 /\ live.positions[s].entry = Whole(0)
    BY <1>1, EmptyBookIs DEF Closed
  <2>2. mark[s] \in Int /\ Whole(0) \in Rational
    BY <1>2, ClosedPosition
  <2>3. Minus(Whole(mark[s]), Whole(0)) \in Rational
    BY <2>2, WholeIs, MinusType
  <2> QED
    BY <2>1, <2>3, TimesZero DEF Marked
<1> HIDE DEF v
<1>5. Total(v) = Whole(zero)
  BY <1>3, <1>4, SymbolsFinite, TotalZero
<1>6. zero \in Int /\ zero + zero = zero /\ -zero = zero
  <2>1. zero \in Int /\ zero = 0 /\ zero + zero = zero
    OBVIOUS
  <2> HIDE DEF zero
  <2> DEFINE y == -zero
  <2>2. y \in Int /\ y + zero = 0
    BY <2>1
  <2> HIDE DEF y
  <2>3. y = zero
    BY <2>1, <2>2
  <2> QED
    BY <2>1, <2>3 DEF y
<1>7. Worth(live, mark) = Plus(Whole(zero), Whole(zero))
  BY <1>1, <1>3, <1>5 DEF Worth
<1> HIDE DEF zero
<1>8. Worth(live, mark) = Whole(zero)
  BY <1>6, <1>7, WholeArithmetic
<1>9. Weighted(deliveries, x) = zero
  <2> DEFINE w == [i \in {} |-> deliveries[i] * x[i]]
  <2>1. w \in [{} -> Int] /\ IsFiniteSet({}) /\ DOMAIN << >> = {}
    BY FS_EmptySet
  <2>2. Weighted(deliveries, x) = SumFunction(w)
    BY <1>1, <2>1 DEF Weighted
  <2> HIDE DEF w
  <2> QED
    BY <2>1, <2>2, SumZero DEF zero
<1> QED
  BY <1>6, <1>8, <1>9 DEF PaysItsCosts, mark

EntriesWithinSides == \A s \in Symbols : WithinSide(live.positions[s], s, ToSet(ledger))

\* One application of a recorded fill keeps the entries within their sides.
LEMMA ApplicationKeepsEntries ==
    ASSUME Exact, NEW book \in Books, NEW fills, fills \subseteq FillTypes, NEW f \in fills,
           \A s \in Symbols : WithinSide(book.positions[s], s, fills)
    PROVE  \A s \in Symbols : WithinSide(ApplyFill(book, f).positions[s], s, fills)
<1> DEFINE new == ApplyFill(book, f)
<1>1. PICK gain \in Rational : BookMoves(book, new, f, gain)
  BY FillMoves
<1> HIDE DEF new
<1>2. f.symbol \in Symbols
  BY SignedIs
<1>3. WithinSide(new.positions[f.symbol], f.symbol, fills)
  <2>1. book.positions[f.symbol] \in Positions
    BY <1>2 DEF Books
  <2>2. Moves(book.positions[f.symbol], new.positions[f.symbol], Signed(f), f.price, gain)
    BY <1>1 DEF BookMoves
  <2> QED
    BY <1>2, <2>1, <2>2, EntryMoves
<1>4. \A s \in Symbols \ {f.symbol} : new.positions[s] = book.positions[s]
  BY <1>1 DEF BookMoves
<1> QED
  BY <1>3, <1>4 DEF new

LEMMA EntriesStep ==
    ASSUME Exact, BookTypes, EntriesWithinSides, [Next]_vars
    PROVE  EntriesWithinSides'
<1>1. LedgerTypes /\ live \in Books
  BY DEF BookTypes
<1>2. /\ ToSet(ledger) \subseteq FillTypes /\ DOMAIN ledger = 1..Len(ledger) /\ Len(ledger) \in Nat
  BY <1>1, LedgerIs DEF ToSet
<1>3. ASSUME NEW f \in Fills, NEW times \in {0, 1}, Recorded(f, times)
      PROVE  /\ ToSet(ledger') = ToSet(ledger) \cup {f} /\ ToSet(ledger') \subseteq FillTypes
             /\ \A s \in Symbols : WithinSide(live.positions[s], s, ToSet(ledger'))
  <2>1. ledger' = Append(ledger, f) /\ ledger \in Seq(Fills)
    BY <1>1, <1>3 DEF Recorded, LedgerTypes
  <2>2. ToSet(ledger') = ToSet(ledger) \cup {f}
    <3>1. LET n == Len(ledger) + 1
          IN  /\ DOMAIN ledger' = DOMAIN ledger \cup {n} /\ ledger'[n] = f
              /\ \A i \in DOMAIN ledger : ledger'[i] = ledger[i]
      BY <2>1, AppendEntries
    <3> QED
      BY <3>1 DEF ToSet
  <2> QED
    BY <1>2, <2>2, FillsAreTyped, LargerSide DEF EntriesWithinSides
<1>4. CASE \E f \in Fills : Recorded(f, 1) /\ live' = ApplyFill(live, f)
  BY <1>1, <1>3, <1>4, ApplicationKeepsEntries DEF EntriesWithinSides
<1>5. CASE \E f \in Fills : Recorded(f, 0) /\ live' = live
  BY <1>3, <1>5 DEF EntriesWithinSides
<1>6. CASE \E f \in Fills : Repeated(f) /\ live' = ApplyFill(live, f)
  <2>1. PICK f \in Fills : Repeated(f) /\ live' = ApplyFill(live, f)
    BY <1>6
  <2>2. ledger' = ledger /\ f \in ToSet(ledger)
    BY <1>1, <1>2, <2>1, RepeatedIs DEF ToSet
  <2>3. \A s \in Symbols : WithinSide(ApplyFill(live, f).positions[s], s, ToSet(ledger))
    BY <1>1, <1>2, <2>2, ApplicationKeepsEntries DEF EntriesWithinSides
  <2> QED
    BY <2>1, <2>2, <2>3 DEF EntriesWithinSides
<1>7. CASE UNCHANGED vars
  BY <1>7 DEF EntriesWithinSides, vars
<1> QED
  BY <1>1, <1>4, <1>5, <1>6, <1>7, ActionsAre

LEMMA ReturnsStep ==
    ASSUME Exact, BookTypes, ReturnsExplain(live), [Next]_vars
    PROVE  ReturnsExplain(live)'
<1>1. LedgerTypes /\ live \in Books
  BY DEF BookTypes
<1>2. ASSUME NEW f \in Fills, live' = ApplyFill(live, f)
      PROVE  ReturnsExplain(live')
  <2>1. PICK gain \in Rational : BookMoves(live, ApplyFill(live, f), f, gain)
    BY <1>1, FillMoves, FillsAreTyped
  <2> DEFINE new == live'
  <2>2. BookMoves(live, new, f, gain)
    BY <1>2, <2>1
  <2> HIDE DEF new
  <2>3. ReturnsExplain(new)
    BY <1>1, <2>2, ReturnsMoves
  <2> QED
    BY <2>3 DEF new
<1>3. ASSUME live' = live
      PROVE  ReturnsExplain(live')
  BY <1>3
<1>4. ReturnsExplain(live')
  BY <1>1, <1>2, <1>3, ActionsAre DEF vars
<1> QED
  BY <1>4 DEF ReturnsExplain

\* The invariant behind the properties of the book.
BookInv ==
    /\ BookTypes
    /\ NetIsDelivered
    /\ EntriesWithinSides
    /\ ReturnsExplain(live)
    /\ \A market \in [Symbols -> Prices] : PaysItsCosts(market)

LEMMA BookInvHolds ==
    ASSUME Exact
    PROVE  Spec => []BookInv
<1>1. Init => BookInv
  <2> SUFFICES ASSUME Init PROVE BookInv
    OBVIOUS
  <2>1. EntriesWithinSides
    BY EmptyBookIs DEF Init, EntriesWithinSides, WithinSide, Closed
  <2>2. ReturnsExplain(live)
    BY EmptyBookIs DEF Init, ReturnsExplain, Whole
  <2> QED
    BY <2>1, <2>2, InitTypes, InitNet, InitCosts DEF BookInv
<1>2. BookInv /\ [Next]_vars => BookInv'
  <2> SUFFICES ASSUME BookInv, [Next]_vars PROVE BookInv'
    OBVIOUS
  <2>1. BookTypes' /\ NetIsDelivered' /\ EntriesWithinSides' /\ ReturnsExplain(live)'
    BY TypesStep, NetStep, EntriesStep, ReturnsStep DEF BookInv
  <2>2. \A market \in [Symbols -> Prices] : PaysItsCosts(market)'
    BY CostsStep DEF BookInv
  <2> QED
    BY <2>1, <2>2 DEF BookInv
<1> QED
  BY <1>1, <1>2, PTL DEF Spec

\* Whatever sequence of opening, adding, partly closing, flipping, missed and
\* repeated fills made it, the book can be told from its fills: every entry
\* lies within what its side was filled at, a realized profit or loss shows in
\* the returns, and at fixed markets the book is down by exactly the costs.
THEOREM BookCanBeTold ==
    ASSUME Exact
    PROVE  Spec => []BookFollowsItsFills
<1>1. BookInv => BookFollowsItsFills
  <2> SUFFICES ASSUME BookInv PROVE BookFollowsItsFills
    OBVIOUS
  <2>1. EntryWithinPricesPaid
    BY EntriesAre DEF BookInv, EntriesWithinSides
  <2>2. ReturnsExplainRealized
    BY DEF BookInv, ReturnsExplain, ReturnsExplainRealized
  <2>3. CostsArePaid
    BY CostsAreCharged DEF BookInv, BookTypes
  <2> QED
    BY <2>1, <2>2, <2>3 DEF BookFollowsItsFills
<1> QED
  BY <1>1, BookInvHolds, PTL

-----------------------------------------------------------------------------
(* The replay                                                              *)

Latest(T) == CHOOSE i \in T : \A j \in T : i >= j

\* The recursion Replay(q) solves, over the sets of the rows applied so far.
ReplayStep(q, g, T) ==
    IF T = {} THEN EmptyBook ELSE ApplyFill(g[T \ {Latest(T)}], q[Latest(T)])

PartialReplays(q) ==
    CHOOSE g : g = [T \in SUBSET DOMAIN q |-> ReplayStep(q, g, T)]

LEMMA ReplayIsPartial ==
    ASSUME NEW q
    PROVE  Replay(q) = PartialReplays(q)[DOMAIN q]
BY Zenon DEF Replay, FoldLeft, MapThenFoldSet, PartialReplays, ReplayStep, Latest, Max

\* The last of some rows, and the rows before it.
LEMMA LatestIs ==
    ASSUME NEW n \in Nat, NEW T \in SUBSET (1..n), T # {}
    PROVE  /\ Latest(T) \in T /\ Latest(T) \in 1..n
           /\ T \ {Latest(T)} \in SUBSET (1..n)
           /\ T \ {Latest(T)} \in SUBSET T /\ T \ {Latest(T)} # T
<1>1. Latest(T) \in T
  BY GreatestNatural DEF Latest
<1> QED
  BY <1>1

LEMMA FillKeepsBooks ==
    ASSUME Exact, NEW book \in Books, NEW f \in FillTypes
    PROVE  ApplyFill(book, f) \in Books
BY FillMoves DEF BookMoves

\* The recursion has a solution, so PartialReplays is one, and its values are
\* books.
LEMMA PartialReplaysExist ==
    ASSUME Exact, NEW n \in Nat, NEW q \in [1..n -> FillTypes]
    PROVE  \A T \in SUBSET (1..n) :
              /\ PartialReplays(q)[T] \in Books
              /\ PartialReplays(q)[T] = ReplayStep(q, PartialReplays(q), T)
<1> DEFINE D == SUBSET (1..n)
           measure == [T \in D |-> Cardinality(T)]
           next == [T \in D |-> IF T = {} THEN T ELSE T \ {Latest(T)}]
           base == [T \in D |-> EmptyBook]
           combine == [T \in D |-> IF T = {} THEN [b \in Books |-> b]
                                   ELSE [b \in Books |-> ApplyFill(b, q[Latest(T)])]]
<1>1. ASSUME NEW T \in D
      PROVE  IsFiniteSet(T) /\ Cardinality(T) \in Nat /\ (Cardinality(T) = 0 <=> T = {})
  <2>1. IsFiniteSet(1..n)
    BY FS_Interval
  <2>2. IsFiniteSet(T)
    BY <2>1, FS_Subset
  <2> QED
    BY <2>2, FS_CardinalityType, FS_EmptySet
<1>2. ASSUME NEW T \in D, T # {}
      PROVE  /\ Latest(T) \in 1..n /\ q[Latest(T)] \in FillTypes
             /\ T \ {Latest(T)} \in D
             /\ Cardinality(T \ {Latest(T)}) < Cardinality(T)
  <2>1. /\ Latest(T) \in T /\ Latest(T) \in 1..n
        /\ T \ {Latest(T)} \in D /\ T \ {Latest(T)} \in SUBSET T /\ T \ {Latest(T)} # T
    BY <1>2, LatestIs
  <2> QED
    BY <1>1, <2>1, FS_Subset
<1>3. measure \in [D -> Nat] /\ base \in [D -> Books]
  BY <1>1, EmptyBookIs
<1>4. next \in [D -> D]
  BY <1>2
<1>5. combine \in [D -> [Books -> Books]]
  <2> SUFFICES ASSUME NEW T \in D
               PROVE  (IF T = {} THEN [b \in Books |-> b]
                       ELSE [b \in Books |-> ApplyFill(b, q[Latest(T)])]) \in [Books -> Books]
    OBVIOUS
  <2>1. CASE T = {}
    BY <2>1
  <2>2. CASE T # {}
    <3>1. q[Latest(T)] \in FillTypes
      BY <1>2, <2>2
    <3>2. \A b \in Books : ApplyFill(b, q[Latest(T)]) \in Books
      BY <3>1, FillKeepsBooks
    <3> QED
      BY <2>2, <3>2
  <2> QED
    BY <2>1, <2>2
<1>6. Decreases(D, measure, next)
  BY <1>1, <1>2 DEF Decreases
<1>7. \E f \in [D -> Books] : Recurses(f, D, measure, next, base, combine)
  <2> HIDE DEF D, measure, next, base, combine
  <2> QED
    BY <1>3, <1>4, <1>5, <1>6, RecursionExists
<1>8. PICK f \in [D -> Books] : \A T \in D : f[T] = ReplayStep(q, f, T)
  <2>1. PICK f \in [D -> Books] :
          \A T \in D : f[T] = IF measure[T] = 0 THEN base[T] ELSE combine[T][f[next[T]]]
    BY <1>7, Zenon DEF Recurses
  <2>2. ASSUME NEW T \in D
        PROVE  f[T] = ReplayStep(q, f, T)
    <3>1. CASE T = {}
      BY <1>1, <2>1, <3>1 DEF ReplayStep
    <3>2. CASE T # {}
      <4>1. measure[T] # 0 /\ next[T] = T \ {Latest(T)} /\ next[T] \in D
        BY <1>1, <1>2, <3>2
      <4>2. f[next[T]] \in Books
        BY <4>1
      <4>3. combine[T] = [b \in Books |-> ApplyFill(b, q[Latest(T)])]
        BY <3>2
      <4>4. f[T] = combine[T][f[next[T]]]
        BY <2>1, <4>1
      <4> HIDE DEF combine, next, measure
      <4>5. f[T] = ApplyFill(f[next[T]], q[Latest(T)])
        BY <4>2, <4>3, <4>4
      <4> QED
        BY <3>2, <4>1, <4>5 DEF ReplayStep
    <3> QED
      BY <3>1, <3>2
  <2> QED
    BY <2>2
<1> DEFINE Solution(g) == g = [T \in SUBSET DOMAIN q |-> ReplayStep(q, g, T)]
<1>9. Solution(PartialReplays(q))
  <2>1. Solution(f)
    BY <1>8
  <2>2. PartialReplays(q) = CHOOSE g : Solution(g)
    BY Zenon DEF PartialReplays
  <2> HIDE DEF Solution
  <2> QED
    BY <2>1, <2>2
<1> DEFINE P == PartialReplays(q)
<1>10. \A T \in D : P[T] = ReplayStep(q, P, T)
  <2>1. P = [T \in SUBSET DOMAIN q |-> ReplayStep(q, P, T)] /\ DOMAIN q = 1..n
    BY <1>9
  <2> HIDE DEF P
  <2> QED
    BY <2>1
<1> HIDE DEF P
<1> DEFINE Bad == {T \in D : P[T] \notin Books}
<1>11. ASSUME Bad # {} PROVE FALSE
  <2>1. PICK T \in Bad : \A t \in SUBSET T : t # T => t \notin Bad
    <3> DEFINE N == 1..n
    <3>1. Bad \in SUBSET SUBSET N /\ IsFiniteSet(N)
      BY FS_Interval
    <3> HIDE DEF Bad, N
    <3> QED
      BY <1>11, <3>1, MinimalSubset
  <2>2. T \in D /\ P[T] \notin Books
    BY <2>1
  <2>3. T # {}
    BY <1>10, <2>2, EmptyBookIs DEF ReplayStep
  <2>4. T \ {Latest(T)} \in D /\ T \ {Latest(T)} \in SUBSET T /\ T \ {Latest(T)} # T
    BY <2>2, <2>3, LatestIs
  <2>5. P[T \ {Latest(T)}] \in Books /\ q[Latest(T)] \in FillTypes
    BY <1>2, <2>1, <2>2, <2>3, <2>4
  <2>6. P[T] = ApplyFill(P[T \ {Latest(T)}], q[Latest(T)])
    BY <1>10, <2>2, <2>3 DEF ReplayStep
  <2> QED
    BY <2>2, <2>5, <2>6, FillKeepsBooks
<1> QED
  BY <1>10, <1>11 DEF P

\* A replay nets what its fills bought and sold.
LEMMA ReplayNets ==
    ASSUME Exact, NEW n \in Nat, NEW q \in [1..n -> FillTypes], NEW s \in Symbols
    PROVE  Replay(q).positions[s].net = SumFunction(Purchases(q, s))
<1> DEFINE D == SUBSET (1..n)
           x == Purchases(q, s)
           P == PartialReplays(q)
           Sum == PartialSums(x, 1..n)
           Net(b) == b.positions[s].net
           Bad == {T \in D : Net(P[T]) # Sum[T]}
<1>1. x \in [1..n -> Int] /\ IsFiniteSet(1..n) /\ \A i \in 1..n : x[i] = Bought(q[i], s)
  BY FS_Interval, SignedIs DEF Purchases, Bought
<1>2. \A T \in D : P[T] \in Books /\ P[T] = ReplayStep(q, P, T)
  BY PartialReplaysExist
<1> HIDE DEF x, P
<1>3. \A T \in D : Sum[T] \in Int /\ \A a \in T : Sum[T] = x[a] + Sum[T \ {a}]
  <2> DEFINE S == 1..n
  <2>1. x \in [S -> Int] /\ IsFiniteSet(S)
    BY <1>1
  <2> HIDE DEF S
  <2>2. \A T \in SUBSET S :
          /\ PartialSums(x, S)[T] \in Int
          /\ \A a \in T : PartialSums(x, S)[T] = x[a] + PartialSums(x, S)[T \ {a}]
    <3>1. \A T \in SUBSET S : PartialSums(x, S)[T] \in Int
      BY <2>1, PartialSumsInt
    <3>2. \A T \in SUBSET S : \A a \in T :
              PartialSums(x, S)[T] = x[a] + PartialSums(x, S)[T \ {a}]
      BY <2>1, PartialSumsRemove
    <3> QED
      BY <3>1, <3>2
  <2> QED
    BY <2>2 DEF S
<1>4. Sum[{}] = 0
  BY <1>1, PartialSumsUnfold DEF SumStep
<1> HIDE DEF Sum
<1>5. ASSUME Bad # {} PROVE FALSE
  <2>1. PICK T \in Bad : \A t \in SUBSET T : t # T => t \notin Bad
    <3>1. Bad \in SUBSET SUBSET (1..n)
      OBVIOUS
    <3> HIDE DEF Bad
    <3> QED
      BY <1>1, <1>5, <3>1, MinimalSubset, Zenon
  <2>2. T \in D /\ Net(P[T]) # Sum[T]
    BY <2>1
  <2>3. T # {}
    <3>1. ReplayStep(q, P, {}) = EmptyBook
      BY DEF ReplayStep
    <3>2. Net(EmptyBook) = 0
      BY EmptyBookIs DEF Closed
    <3> QED
      BY <1>2, <1>4, <2>2, <3>1, <3>2
  <2> DEFINE a == Latest(T)
             t == T \ {a}
  <2>4. a \in T /\ a \in 1..n /\ t \in D /\ t \in SUBSET T /\ t # T
    BY <2>2, <2>3, LatestIs
  <2>5. Net(P[t]) = Sum[t]
    BY <2>1, <2>2, <2>4
  <2>6. P[T] = ApplyFill(P[t], q[a])
    BY <1>2, <2>2, <2>3 DEF ReplayStep
  <2> HIDE DEF a, t
  <2>7. Net(P[T]) = Net(P[t]) + Bought(q[a], s)
    <3>1. P[t] \in Books /\ q[a] \in FillTypes
      BY <1>2, <2>4
    <3>2. PICK gain \in Rational : BookMoves(P[t], P[T], q[a], gain)
      BY <2>6, <3>1, FillMoves
    <3> DEFINE b == P[t]
               c == P[T]
               f == q[a]
    <3>4. b \in Books /\ f \in FillTypes /\ BookMoves(b, c, f, gain)
      BY <3>1, <3>2
    <3> HIDE DEF b, c, f
    <3>5. c.positions[s].net = b.positions[s].net + (IF s = f.symbol THEN Signed(f) ELSE 0)
      BY <3>4, NetsMove
    <3>3. Net(P[T]) = Net(P[t]) + (IF s = q[a].symbol THEN Signed(q[a]) ELSE 0)
      BY <3>5 DEF b, c, f
    <3> QED
      BY <3>3 DEF Bought
  <2>8. Sum[T] = x[a] + Sum[t] /\ x[a] \in Int /\ Sum[t] \in Int
    BY <1>1, <1>3, <2>2, <2>4 DEF t
  <2>9. x[a] = Bought(q[a], s)
    BY <1>1, <2>4
  <2> HIDE DEF Net
  <2> QED
    BY <2>2, <2>5, <2>7, <2>8, <2>9
<1>6. SumFunction(x) = Sum[1..n]
  BY <1>1, SumIsPartialSum DEF SumFunction, Sum
<1>7. Replay(q) = P[1..n]
  BY ReplayIsPartial DEF P
<1>8. Net(P[1..n]) = Sum[1..n]
  BY <1>5
<1> QED
  BY <1>6, <1>7, <1>8 DEF x

\* Whatever order the ledger comes back in, it buys and sells the same.
LEMMA ReplayOrderIsFree ==
    ASSUME LedgerTypes, NEW fills \in ReplayOrders
    PROVE  /\ fills \in [1..Len(ledger) -> FillTypes]
           /\ \A s \in Symbols :
                 SumFunction(Purchases(fills, s)) = SumFunction(Purchases(ledger, s))
<1> DEFINE n == Len(ledger)
           R == 1..n
<1>1. n \in Nat /\ DOMAIN ledger = R /\ IsFiniteSet(R) /\ \A i \in R : ledger[i] \in FillTypes
  BY LedgerIs, FS_Interval
<1>2. PICK p \in [R -> R] :
        /\ \A i, j \in R : i < j => p[i] # p[j]
        /\ fills = [i \in R |-> ledger[p[i]]]
  <2> DEFINE Kept(rows) == { q \in [rows -> rows] : \A i, j \in rows :
                  i < j => q[i] # q[j] /\ ledger[q[i]].time <= ledger[q[j]].time }
             Maps(rows) == { [i \in rows |-> ledger[p[i]]] : p \in Kept(rows) }
  <2>1. ReplayOrders = Maps(R)
    <3>1. ReplayOrders = Maps(DOMAIN ledger)
      BY Zenon DEF ReplayOrders
    <3> HIDE DEF Maps
    <3> QED
      BY <1>1, <3>1
  <2>2. PICK p \in Kept(R) : fills = [i \in R |-> ledger[p[i]]]
    BY <2>1, Zenon
  <2>3. p \in [R -> R] /\ \A i, j \in R : i < j => p[i] # p[j]
    BY <2>2, Zenon
  <2> QED
    BY <2>2, <2>3
<1>3. \A i, j \in R : i # j => p[i] # p[j]
  <2>1. \A i, j \in R : i # j => i < j \/ j < i
    BY <1>1
  <2> QED
    BY <1>2, <2>1
<1>4. fills \in [R -> FillTypes]
  BY <1>1, <1>2
<1>5. ASSUME NEW s \in Symbols
      PROVE  SumFunction(Purchases(fills, s)) = SumFunction(Purchases(ledger, s))
  <2> DEFINE f == Purchases(ledger, s)
             g == Purchases(fills, s)
  <2>1. f \in [R -> Int]
    BY <1>1, SignedIs DEF Purchases, Bought
  <2>2. g \in [R -> Int] /\ \A i \in R : g[i] = f[p[i]]
    <3>1. DOMAIN fills = R /\ \A i \in R : fills[i] = ledger[p[i]] /\ p[i] \in R
      BY <1>2
    <3>2. g = [i \in R |-> Bought(fills[i], s)] /\ f = [i \in R |-> Bought(ledger[i], s)]
      BY <1>1, <3>1 DEF Purchases
    <3> HIDE DEF f, g
    <3>3. \A i \in R : g[i] = f[p[i]] /\ f[p[i]] \in Int
      BY <2>1, <3>1, <3>2
    <3> QED
      BY <3>2, <3>3
  <2> HIDE DEF f, g, R
  <2>3. IsFiniteSet(R) /\ p \in [R -> R] /\ \A x, y \in R : x # y => p[x] # p[y]
    BY <1>1, <1>2, <1>3
  <2>4. SumFunction(g) = SumFunction(f)
    BY ONLY <2>1, <2>2, <2>3, SumPermuted
  <2> QED
    BY <2>4 DEF f, g
<1> QED
  BY <1>4, <1>5

\* Fills that are all delivered once weigh what they are; one that was not
\* changes the weight of its own symbol, and of no other.
LEMMA FaultWeighs ==
    ASSUME NEW n \in Nat, NEW d \in [1..n -> 0..2], NEW x \in [1..n -> Int]
    PROVE  /\ (\A i \in 1..n : d[i] = 1) => Weighted(d, x) = SumFunction(x)
           /\ \A a \in 1..n :
                 d[a] # 1 /\ (\A i \in 1..n \ {a} : d[i] = 1)
                     => (Weighted(d, x) # SumFunction(x) <=> x[a] # 0)
<1> DEFINE v == [i \in 1..n |-> d[i] * x[i]]
           S == 1..n
<1>1. IsFiniteSet(S) /\ DOMAIN d = S /\ DOMAIN x = S
  BY FS_Interval
<1>2. v \in [S -> Int] /\ x \in [S -> Int] /\ \A i \in S : v[i] = d[i] * x[i]
  OBVIOUS
<1>3. \A i \in S : d[i] = 1 => v[i] = x[i]
  BY <1>2
<1>4. Weighted(d, x) = SumFunction(v)
  BY <1>1 DEF Weighted
<1> HIDE DEF v
<1>5. ASSUME \A i \in S : d[i] = 1
      PROVE  Weighted(d, x) = SumFunction(x)
  <2>1. v = x
    BY <1>2, <1>3, <1>5
  <2> QED
    BY <1>4, <2>1
<1>6. ASSUME NEW a \in S, d[a] # 1, \A i \in S \ {a} : d[i] = 1
      PROVE  Weighted(d, x) # SumFunction(x) <=> x[a] # 0
  <2>1. \A i \in S \ {a} : v[i] = x[i]
    BY <1>3, <1>6
  <2>2. SumFunction(v) = SumFunction(x) + (v[a] - x[a])
    <3> HIDE DEF S
    <3> QED
      BY <1>1, <1>2, <2>1, SumUpdate
  <2>3. d[a] = 0 \/ d[a] = 2
    BY <1>6
  <2>4. v[a] - x[a] = -x[a] \/ v[a] - x[a] = x[a]
    BY <1>2, <2>3
  <2>5. SumFunction(x) \in Int /\ x[a] \in Int
    <3> HIDE DEF S
    <3> QED
      BY <1>1, <1>2, SumInt
  <2> QED
    BY <1>4, <2>2, <2>4, <2>5
<1> QED
  BY <1>5, <1>6

LEMMA FaultIsFound ==
    ASSUME Exact, BookInv
    PROVE  ReconcileFindsTheFault
<1> SUFFICES ASSUME Cardinality(Faults) <= 1, NEW fills \in ReplayOrders
             PROVE  Reconcile(live, fills) = {ledger[i].symbol : i \in Faults}
  BY DEF ReconcileFindsTheFault
<1> DEFINE n == Len(ledger)
<1>1. LedgerTypes /\ NetIsDelivered
  BY DEF BookInv, BookTypes
<1>2. /\ n \in Nat /\ DOMAIN ledger = 1..n /\ DOMAIN deliveries = 1..n
      /\ deliveries \in [1..n -> 0..2] /\ \A i \in 1..n : ledger[i] \in FillTypes
  BY <1>1, LedgerIs
<1> HIDE DEF n
<1>3. /\ fills \in [1..n -> FillTypes]
      /\ \A s \in Symbols :
            SumFunction(Purchases(fills, s)) = SumFunction(Purchases(ledger, s))
  BY <1>1, ReplayOrderIsFree DEF n
<1>4. \A s \in Symbols : s \in Reconcile(live, fills) <=>
          Weighted(deliveries, Purchases(ledger, s)) # SumFunction(Purchases(ledger, s))
  <2>1. \A s \in Symbols :
          Replay(fills).positions[s].net = SumFunction(Purchases(ledger, s))
    BY <1>2, <1>3, ReplayNets
  <2>2. \A s \in Symbols :
          live.positions[s].net = Weighted(deliveries, Purchases(ledger, s))
    BY <1>1 DEF NetIsDelivered
  <2>3. Reconcile(live, fills) =
          {s \in Symbols : live.positions[s].net # Replay(fills).positions[s].net}
    BY DEF Reconcile
  <2> QED
    BY <2>1, <2>2, <2>3
<1>5. \A s \in Symbols :
        /\ Purchases(ledger, s) \in [1..n -> Int]
        /\ \A i \in 1..n : Purchases(ledger, s)[i] # 0 <=> ledger[i].symbol = s
  BY <1>2, SignedIs DEF Purchases, Bought
<1>6. Reconcile(live, fills) \subseteq Symbols
  BY DEF Reconcile
<1>7. IsFiniteSet(Faults) /\ Faults = {i \in 1..n : deliveries[i] # 1}
  <2>1. Faults = {i \in 1..n : deliveries[i] # 1}
    BY <1>2 DEF Faults
  <2>2. Faults \in SUBSET (1..n)
    BY <2>1
  <2> QED
    BY <1>2, <2>1, <2>2, FS_Interval, FS_Subset
<1>8. Faults = {} \/ \E i \in Faults : Faults = {i}
  <2>1. Cardinality(Faults) \in Nat
    BY <1>7, FS_CardinalityType
  <2>2. Cardinality(Faults) = 0 \/ Cardinality(Faults) = 1
    BY <2>1
  <2> QED
    BY <1>7, <2>2, FS_EmptySet, FS_Singleton
<1>9. CASE Faults = {}
  <2>1. \A i \in 1..n : deliveries[i] = 1
    BY <1>7, <1>9
  <2>2. \A s \in Symbols :
          Weighted(deliveries, Purchases(ledger, s)) = SumFunction(Purchases(ledger, s))
    BY <1>2, <1>5, <2>1, FaultWeighs
  <2>3. Reconcile(live, fills) = {}
    BY <1>4, <1>6, <2>2
  <2> QED
    BY <1>9, <2>3
<1>10. CASE \E a \in Faults : Faults = {a}
  <2>1. PICK a \in 1..n : Faults = {a}
    BY <1>7, <1>10
  <2>2. deliveries[a] # 1 /\ \A i \in 1..n \ {a} : deliveries[i] = 1
    BY <1>7, <2>1
  <2>3. \A s \in Symbols : s \in Reconcile(live, fills) <=> Purchases(ledger, s)[a] # 0
    <3>1. ASSUME NEW s \in Symbols
          PROVE  Weighted(deliveries, Purchases(ledger, s)) # SumFunction(Purchases(ledger, s))
                    <=> Purchases(ledger, s)[a] # 0
      <4> DEFINE x == Purchases(ledger, s)
      <4>1. x \in [1..n -> Int]
        BY <1>5
      <4> HIDE DEF x
      <4>2. \A f \in 1..n : deliveries[f] # 1 /\ (\A i \in 1..n \ {f} : deliveries[i] = 1)
                               => (Weighted(deliveries, x) # SumFunction(x) <=> x[f] # 0)
        BY <1>2, <4>1, FaultWeighs
      <4>3. Weighted(deliveries, x) # SumFunction(x) <=> x[a] # 0
        BY <2>1, <2>2, <4>2, Zenon
      <4> QED
        BY <4>3 DEF x
    <3> QED
      BY <1>4, <3>1
  <2>4. ledger[a].symbol \in Symbols
    BY <1>2, SignedIs
  <2>5. Reconcile(live, fills) = {ledger[a].symbol}
    BY <1>5, <1>6, <2>3, <2>4
  <2> QED
    BY <2>1, <2>5
<1> QED
  BY <1>8, <1>9, <1>10

\* ReconcileFindsTheFault, for any symbols, orders, prices and costs, ledgers
\* of any length and any bound on the faults: the two positions a drift
\* leaves differ in the faulty fill's symbol alone, in whatever order the
\* ledger comes back.
THEOREM FaultsAreFound ==
    ASSUME Exact
    PROVE  Spec => []ReconcileFindsTheFault
<1>1. BookInv => ReconcileFindsTheFault
  BY FaultIsFound
<1> QED
  BY <1>1, BookInvHolds, PTL

=============================================================================
