-------------------------- MODULE Fractions_proofs --------------------------
(****************************************************************************)
(* Arithmetic of Fractions: cancelling to lowest terms keeps the value, and *)
(* fractions of the same value have the same lowest terms; the operations  *)
(* are those on quotients, and keep the order; sums over finite sets keep  *)
(* it too, and come out the same whichever element is taken first.         *)
(****************************************************************************)
EXTENDS Fractions, FiniteSetTheorems, WellFoundedInduction, TLAPS

(* A set of numbers that is not empty has a least one.                     *)
LEMMA LeastNumber ==
  ASSUME NEW T \in SUBSET Nat, T # {}
  PROVE  \E m \in T : \A k \in T : m <= k
<1> DEFINE R == OpToRel(<, Nat)
<1>1. IsWellFoundedOn(R, Nat)
  BY NatLessThanWellFounded
<1>2. \A x, y \in Nat : x < y => <<x, y>> \in R
  BY DEF OpToRel
<1> HIDE DEF R
<1>3. PICK m \in T : \A y \in T : ~ (<<y, m>> \in R)
  BY <1>1, WFMin
<1>4. \A k \in T : k \in Nat /\ m \in Nat /\ ~ (k < m)
  BY <1>2, <1>3
<1> QED BY <1>4

(* A set with 0 and, with each number, the next one holds them all.        *)
LEMMA ByInduction ==
  ASSUME NEW T, 0 \in T, \A n \in Nat : n \in T => n + 1 \in T
  PROVE  \A n \in Nat : n \in T
<1> SUFFICES ASSUME NEW n \in Nat, n \notin T PROVE FALSE
  OBVIOUS
<1>1. PICK m \in Nat \ T : \A k \in Nat \ T : m <= k
  <2>1. Nat \ T \in SUBSET Nat /\ Nat \ T # {}
    OBVIOUS
  <2> QED BY <2>1, LeastNumber
<1>2. m # 0 /\ m - 1 \in Nat /\ m - 1 \notin Nat \ T
  BY <1>1
<1> QED BY <1>1, <1>2

(* A factor that is not negative keeps an order, a positive one can be     *)
(* taken away again.                                                       *)
LEMMA Factor ==
  ASSUME NEW a \in Int, NEW b \in Int, NEW c \in Nat
  PROVE  /\ a <= b => a * c <= b * c
         /\ c # 0 => (a * c <= b * c <=> a <= b)
         /\ c # 0 => (a * c < b * c <=> a < b)
  OBVIOUS

(* A number that divides is a factor.                                      *)
LEMMA Divides ==
  ASSUME NEW a \in Int, NEW g \in Nat \ {0}, a % g = 0
  PROVE  a \div g \in Int /\ a = g * (a \div g)
  OBVIOUS

(* A multiple leaves no remainder.                                         *)
LEMMA Multiples ==
  ASSUME NEW h \in Nat \ {0}, NEW c \in Int
  PROVE  (h * c) % h = 0
<1> DEFINE a == h * c
           q == a \div h
           r == a % h
<1>1. a \in Int
  OBVIOUS
<1> HIDE DEF a
<1>2. q \in Int /\ r \in 0 .. (h - 1) /\ a = h * q + r
  BY <1>1
<1> HIDE DEF q, r
<1>3. h * (c - q) = r
  <2>1. h * (c - q) = h * c - h * q
    BY <1>2
  <2>2. h * q \in Int
    BY <1>2
  <2> QED BY <1>1, <1>2, <2>1, <2>2 DEF a
<1>4. c - q \in Int /\ h * (c - q) < h /\ -h < h * (c - q)
  BY <1>2, <1>3
<1>5. c - q = 0
  <2> DEFINE d == c - q
  <2>1. d \in Int /\ h * d < h /\ -h < h * d
    BY <1>4
  <2> HIDE DEF d
  <2>2. d >= 1 => h * d >= h
    BY <2>1
  <2>3. d <= -1 => h * d <= -h
    BY <2>1
  <2>4. d = 0
    BY <2>1, <2>2, <2>3
  <2> QED BY <2>4 DEF d
<1>6. r = 0
  BY <1>3, <1>5
<1> QED BY <1>6 DEF a, r

(* The greatest of finitely many numbers above zero.                       *)
LEMMA LargestFactor ==
  ASSUME NEW b \in Nat, NEW D \in SUBSET (1 .. b), D # {}
  PROVE  Max(D) \in D /\ \A i \in D : Max(D) >= i
<1>1. PICK m \in {b - i : i \in D} : \A i \in {b - j : j \in D} : m <= i
  <2>1. \A i \in D : b - i \in Nat
    <3> TAKE i \in D
    <3>1. i \in 1 .. b
      OBVIOUS
    <3> QED BY <3>1
  <2>2. PICK j \in D : TRUE
    OBVIOUS
  <2>3. b - j \in {b - i : i \in D}
    BY <2>2
  <2>4. {b - i : i \in D} \in SUBSET Nat
    BY <2>1
  <2>5. {b - i : i \in D} # {}
    BY <2>3
  <2> QED BY <2>4, <2>5, LeastNumber
<1>2. PICK x \in D : m = b - x
  BY <1>1
<1>3. ASSUME NEW i \in D PROVE x >= i
  <2>1. b - i \in {b - j : j \in D}
    OBVIOUS
  <2>2. b - x <= b - i
    BY <1>1, <1>2, <2>1
  <2> QED BY <2>2
<1> QED BY <1>2, <1>3 DEF Max

-----------------------------------------------------------------------------
(* Lowest terms. *)

(* A fraction in lowest terms is the fraction, cancelled by a factor.      *)
LEMMA Cancelled ==
  ASSUME NEW q \in Fraction
  PROVE  /\ Lowest[q] \in Fraction
         /\ \E g \in Nat \ {0} : q[1] = g * Lowest[q][1] /\ q[2] = g * Lowest[q][2]
<1> DEFINE a == q[1]
           b == q[2]
           D == {k \in 1 .. b : a % k = 0 /\ b % k = 0}
           g == Max(D)
<1>1. a \in Int /\ b \in Nat \ {0}
  BY DEF Fraction
<1>2. Lowest[q] = <<a \div g, b \div g>>
  BY DEF Lowest
<1> HIDE DEF a, b
<1>3. 1 \in D
  BY <1>1
<1>4. g \in D
  <2>1. D \in SUBSET (1 .. b) /\ D # {} /\ b \in Nat
    BY <1>1, <1>3
  <2> HIDE DEF D
  <2> QED BY <2>1, LargestFactor
<1> HIDE DEF g
<1>5. g \in Nat \ {0} /\ a % g = 0 /\ b % g = 0
  BY <1>1, <1>4
<1>6. a \div g \in Int /\ a = g * (a \div g) /\ b \div g \in Int /\ b = g * (b \div g)
  BY <1>1, <1>5, Divides
<1>7. b \div g \in Nat \ {0}
  <2> DEFINE d == b \div g
  <2>1. d \in Int /\ b = g * d
    BY <1>6
  <2> HIDE DEF d
  <2>2. d > 0
    BY <1>1, <1>5, <2>1
  <2> QED BY <2>1, <2>2 DEF d
<1> QED BY <1>2, <1>5, <1>6, <1>7 DEF Fraction, a, b

(* Nothing is left to cancel in lowest terms. *)
LEMMA NoFactorLeft ==
  ASSUME NEW q \in Fraction, NEW k \in Nat \ {0}, NEW x \in Int, NEW y \in Nat \ {0},
         Lowest[q] = <<k * x, k * y>>
  PROVE  k = 1
<1> DEFINE a == q[1]
           b == q[2]
           D == {i \in 1 .. b : a % i = 0 /\ b % i = 0}
           g == Max(D)
<1>1. a \in Int /\ b \in Nat \ {0}
  BY DEF Fraction
<1>2. Lowest[q] = <<a \div g, b \div g>>
  BY DEF Lowest
<1> HIDE DEF a, b
<1>3. 1 \in D
  BY <1>1
<1>4. g \in D /\ \A i \in D : g >= i
  <2>1. D \in SUBSET (1 .. b) /\ D # {} /\ b \in Nat
    BY <1>1, <1>3
  <2> HIDE DEF D
  <2> QED BY <2>1, LargestFactor
<1> HIDE DEF g
<1>5. g \in Nat \ {0} /\ a % g = 0 /\ b % g = 0
  BY <1>1, <1>4
<1>6. a = g * (a \div g) /\ b = g * (b \div g)
  BY <1>1, <1>5, Divides
<1>7. a \div g = k * x /\ b \div g = k * y
  BY <1>2
<1>8. a = (g * k) * x /\ b = (g * k) * y
  <2>1. g * (k * x) = (g * k) * x /\ g * (k * y) = (g * k) * y
    BY <1>5
  <2> QED BY <1>6, <1>7, <2>1
<1> DEFINE h == g * k
<1>9. h \in Nat \ {0} /\ h >= g /\ (h <= g => k = 1)
  BY <1>5
<1> HIDE DEF h
<1>10. a % h = 0 /\ b % h = 0
  BY <1>8, <1>9, Multiples DEF h
<1>11. h <= b
  <2>1. b = h * y
    BY <1>8 DEF h
  <2> QED BY <1>9, <2>1
<1>12. h \in D
  BY <1>1, <1>9, <1>10, <1>11
<1> QED BY <1>4, <1>5, <1>9, <1>12

-----------------------------------------------------------------------------
(* The order of fractions. *)

(* What a fraction is made of, and what it is to be at most another.      *)
LEMMA AtMostIs ==
  ASSUME NEW x \in Fraction, NEW y \in Fraction
  PROVE  /\ x[1] \in Int /\ x[2] \in Nat \ {0} /\ y[1] \in Int /\ y[2] \in Nat \ {0}
         /\ AtMost(x, y) <=> x[1] * y[2] <= y[1] * x[2]
         /\ AtMost(x, y) <=> ~ Below(y, x)
<1>1. x[1] \in Int /\ x[2] \in Nat \ {0} /\ y[1] \in Int /\ y[2] \in Nat \ {0}
  BY DEF Fraction
<1>2. y[1] * x[2] \in Int /\ x[1] * y[2] \in Int
  BY <1>1
<1>3. AtMost(x, y) <=> ~ (y[1] * x[2] < x[1] * y[2])
  BY DEF AtMost, Below
<1>4. AtMost(x, y) <=> ~ Below(y, x)
  BY DEF AtMost
<1> QED BY <1>1, <1>2, <1>3, <1>4

(* Cross products of what is cancelled. *)
LEMMA CrossProducts ==
  ASSUME NEW a \in Int, NEW b \in Nat \ {0}, NEW c \in Int, NEW d \in Nat \ {0},
         NEW g \in Nat \ {0}, NEW h \in Nat \ {0}
  PROVE  (g * a) * (h * d) <= (h * c) * (g * b) <=> a * d <= c * b
<1>1. (g * a) * (h * d) = (a * d) * (g * h) /\ (h * c) * (g * b) = (c * b) * (g * h)
  OBVIOUS
<1>2. g * h \in Nat /\ g * h # 0 /\ a * d \in Int /\ c * b \in Int
  OBVIOUS
<1> QED BY <1>1, <1>2, Factor

(* Cancelling changes neither order nor sign. *)
LEMMA LowestOrders ==
  ASSUME NEW q \in Fraction, NEW r \in Fraction
  PROVE  /\ Lowest[q] \in Fraction
         /\ AtMost(Lowest[q], Lowest[r]) <=> AtMost(q, r)
         /\ AtMost(Lowest[q], r) <=> AtMost(q, r)
         /\ AtMost(q, Lowest[r]) <=> AtMost(q, r)
<1>1. PICK g \in Nat \ {0} : q[1] = g * Lowest[q][1] /\ q[2] = g * Lowest[q][2]
  BY Cancelled
<1>2. PICK h \in Nat \ {0} : r[1] = h * Lowest[r][1] /\ r[2] = h * Lowest[r][2]
  BY Cancelled
<1>3. Lowest[q] \in Fraction /\ Lowest[r] \in Fraction
  BY Cancelled
<1> DEFINE x == Lowest[q]
           y == Lowest[r]
<1>4. /\ x[1] \in Int /\ x[2] \in Nat \ {0} /\ y[1] \in Int /\ y[2] \in Nat \ {0}
      /\ r[1] \in Int /\ r[2] \in Nat \ {0} /\ q[1] \in Int /\ q[2] \in Nat \ {0}
  BY <1>3, AtMostIs
<1>5. AtMost(x, y) <=> x[1] * y[2] <= y[1] * x[2]
  BY <1>3, AtMostIs
<1>6. AtMost(x, r) <=> x[1] * r[2] <= r[1] * x[2]
  BY <1>3, AtMostIs
<1>7. AtMost(q, y) <=> q[1] * y[2] <= y[1] * q[2]
  BY <1>3, AtMostIs
<1>8. AtMost(q, r) <=> q[1] * r[2] <= r[1] * q[2]
  BY AtMostIs
<1> HIDE DEF x, y
<1>9. q[1] * r[2] <= r[1] * q[2] <=> x[1] * y[2] <= y[1] * x[2]
  <2>1. (g * x[1]) * (h * y[2]) <= (h * y[1]) * (g * x[2]) <=> x[1] * y[2] <= y[1] * x[2]
    BY <1>4, CrossProducts
  <2> QED BY <1>1, <1>2, <2>1 DEF x, y
<1>10. q[1] * r[2] <= r[1] * q[2] <=> x[1] * r[2] <= r[1] * x[2]
  <2>1. (g * x[1]) * (1 * r[2]) <= (1 * r[1]) * (g * x[2]) <=> x[1] * r[2] <= r[1] * x[2]
    BY <1>4, CrossProducts
  <2> QED BY <1>1, <1>4, <2>1 DEF x
<1>11. q[1] * r[2] <= r[1] * q[2] <=> q[1] * y[2] <= y[1] * q[2]
  <2>1. (1 * q[1]) * (h * y[2]) <= (h * y[1]) * (1 * q[2]) <=> q[1] * y[2] <= y[1] * q[2]
    BY <1>4, CrossProducts
  <2> QED BY <1>2, <1>4, <2>1 DEF y
<1> QED BY <1>3, <1>5, <1>6, <1>7, <1>8, <1>9, <1>10, <1>11 DEF x, y

(* The order is transitive. *)
LEMMA AtMostTransitive ==
  ASSUME NEW x \in Fraction, NEW y \in Fraction, NEW z \in Fraction, AtMost(x, y), AtMost(y, z)
  PROVE  AtMost(x, z)
<1>1. ASSUME NEW a \in Int, NEW b \in Nat \ {0}, NEW c \in Int, NEW d \in Nat \ {0},
             NEW e \in Int, NEW f \in Nat \ {0}, a * d <= c * b, c * f <= e * d
      PROVE  a * f <= e * b
  <2>1. (a * d) * f <= (c * b) * f /\ (c * f) * b <= (e * d) * b
    BY <1>1, Factor
  <2>2. (a * d) * f = (a * f) * d /\ (e * d) * b = (e * b) * d /\ (c * b) * f = (c * f) * b
    OBVIOUS
  <2>3. (a * f) * d <= (e * b) * d
    BY <2>1, <2>2
  <2>4. a * f \in Int /\ e * b \in Int
    OBVIOUS
  <2> QED BY <2>3, <2>4, Factor
<1>2. x[1] * y[2] <= y[1] * x[2] /\ y[1] * z[2] <= z[1] * y[2]
  BY AtMostIs
<1>3. x[1] * z[2] <= z[1] * x[2]
  BY <1>1, <1>2, AtMostIs
<1> QED BY <1>3, AtMostIs

-----------------------------------------------------------------------------
(* The operations keep the order. *)

(* Of four numbers and their denominators. *)
LEMMA SumsOrdered ==
  ASSUME NEW a \in Int, NEW b \in Nat \ {0}, NEW c \in Int, NEW d \in Nat \ {0},
         NEW e \in Int, NEW f \in Nat \ {0}, NEW g \in Int, NEW h \in Nat \ {0},
         a * f <= e * b, c * h <= g * d
  PROVE  (a * d + c * b) * (f * h) <= (e * h + g * f) * (b * d)
<1>1. (a * f) * (d * h) <= (e * b) * (d * h) /\ (c * h) * (b * f) <= (g * d) * (b * f)
  <2>1. d * h \in Nat /\ b * f \in Nat
    OBVIOUS
  <2> QED BY <2>1, Factor
<1>2. /\ (a * d + c * b) * (f * h) = (a * f) * (d * h) + (c * h) * (b * f)
      /\ (e * h + g * f) * (b * d) = (e * b) * (d * h) + (g * d) * (b * f)
  OBVIOUS
<1> DEFINE p == (a * f) * (d * h)
           q == (e * b) * (d * h)
           r == (c * h) * (b * f)
           s == (g * d) * (b * f)
<1>3. p \in Int /\ q \in Int /\ r \in Int /\ s \in Int
  OBVIOUS
<1>4. p <= q /\ r <= s
  BY <1>1
<1>5. (a * d + c * b) * (f * h) = p + r /\ (e * h + g * f) * (b * d) = q + s
  BY <1>2
<1> HIDE DEF p, q, r, s
<1> QED BY <1>3, <1>4, <1>5

(* A sum does not grow when neither part does.                             *)
LEMMA PlusOrders ==
  ASSUME NEW x \in Fraction, NEW y \in Fraction, NEW u \in Fraction, NEW v \in Fraction,
         AtMost(x, u), AtMost(y, v)
  PROVE  Plus(x, y) \in Fraction /\ AtMost(Plus(x, y), Plus(u, v))
<1>1. ASSUME NEW s \in Fraction, NEW t \in Fraction
      PROVE  /\ Plus(s, t) = Lowest[<<s[1] * t[2] + t[1] * s[2], s[2] * t[2]>>]
             /\ <<s[1] * t[2] + t[1] * s[2], s[2] * t[2]>> \in Fraction
  <2>1. Plus(s, t) = Lowest[<<s[1] * t[2] + t[1] * s[2], s[2] * t[2]>>]
    BY DEF Plus
  <2>2. s[1] \in Int /\ s[2] \in Nat \ {0} /\ t[1] \in Int /\ t[2] \in Nat \ {0}
    BY AtMostIs
  <2>3. s[1] * t[2] + t[1] * s[2] \in Int /\ s[2] * t[2] \in Nat \ {0}
    BY <2>2
  <2> QED BY <2>1, <2>3 DEF Fraction
<1> DEFINE q == <<x[1] * y[2] + y[1] * x[2], x[2] * y[2]>>
           r == <<u[1] * v[2] + v[1] * u[2], u[2] * v[2]>>
<1>2. (x[1] * y[2] + y[1] * x[2]) * (u[2] * v[2]) <= (u[1] * v[2] + v[1] * u[2]) * (x[2] * y[2])
  <2>1. /\ x[1] \in Int /\ x[2] \in Nat \ {0} /\ y[1] \in Int /\ y[2] \in Nat \ {0}
        /\ u[1] \in Int /\ u[2] \in Nat \ {0} /\ v[1] \in Int /\ v[2] \in Nat \ {0}
        /\ x[1] * u[2] <= u[1] * x[2] /\ y[1] * v[2] <= v[1] * y[2]
    BY AtMostIs
  <2> QED BY <2>1, SumsOrdered
<1>3. q[1] * r[2] <= r[1] * q[2]
  BY <1>2
<1>4. q \in Fraction /\ r \in Fraction /\ Plus(x, y) = Lowest[q] /\ Plus(u, v) = Lowest[r]
  BY <1>1
<1> HIDE DEF q, r
<1>5. AtMost(q, r)
  BY <1>3, <1>4, AtMostIs
<1> QED BY <1>4, <1>5, LowestOrders

(* Nor a difference when what is subtracted from does not.                 *)
LEMMA MinusOrders ==
  ASSUME NEW x \in Fraction, NEW u \in Fraction, NEW m \in Fraction, AtMost(x, u)
  PROVE  Minus(x, m) \in Fraction /\ AtMost(Minus(x, m), Minus(u, m))
<1>1. ASSUME NEW s \in Fraction
      PROVE  /\ Minus(s, m) = Lowest[<<s[1] * m[2] - m[1] * s[2], s[2] * m[2]>>]
             /\ <<s[1] * m[2] - m[1] * s[2], s[2] * m[2]>> \in Fraction
  <2>1. Minus(s, m) = Lowest[<<s[1] * m[2] - m[1] * s[2], s[2] * m[2]>>]
    BY DEF Minus
  <2>2. s[1] \in Int /\ s[2] \in Nat \ {0} /\ m[1] \in Int /\ m[2] \in Nat \ {0}
    BY AtMostIs
  <2>3. s[1] * m[2] - m[1] * s[2] \in Int /\ s[2] * m[2] \in Nat \ {0}
    BY <2>2
  <2> QED BY <2>1, <2>3 DEF Fraction
<1> DEFINE q == <<x[1] * m[2] - m[1] * x[2], x[2] * m[2]>>
           r == <<u[1] * m[2] - m[1] * u[2], u[2] * m[2]>>
<1>2. (x[1] * m[2] - m[1] * x[2]) * (u[2] * m[2]) <= (u[1] * m[2] - m[1] * u[2]) * (x[2] * m[2])
  <2>1. /\ x[1] \in Int /\ x[2] \in Nat \ {0} /\ m[1] \in Int /\ m[2] \in Nat \ {0}
        /\ u[1] \in Int /\ u[2] \in Nat \ {0}
        /\ x[1] * u[2] <= u[1] * x[2]
    BY AtMostIs
  <2>2. - m[1] \in Int /\ (- m[1]) * m[2] <= (- m[1]) * m[2]
    BY <2>1
  <2>3. (x[1] * m[2] + (- m[1]) * x[2]) * (u[2] * m[2])
          <= (u[1] * m[2] + (- m[1]) * u[2]) * (x[2] * m[2])
    BY <2>1, <2>2, SumsOrdered
  <2>4. /\ x[1] * m[2] + (- m[1]) * x[2] = x[1] * m[2] - m[1] * x[2]
        /\ u[1] * m[2] + (- m[1]) * u[2] = u[1] * m[2] - m[1] * u[2]
    BY <2>1
  <2> QED BY <2>3, <2>4
<1>3. q[1] * r[2] <= r[1] * q[2]
  BY <1>2
<1>4. q \in Fraction /\ r \in Fraction /\ Minus(x, m) = Lowest[q] /\ Minus(u, m) = Lowest[r]
  BY <1>1
<1> HIDE DEF q, r
<1>5. AtMost(q, r)
  BY <1>3, <1>4, AtMostIs
<1> QED BY <1>4, <1>5, LowestOrders

(* Products, and products with a number.                                   *)
LEMMA TimesMade ==
  ASSUME NEW x \in Fraction, NEW y \in Fraction
  PROVE  /\ Times(x, y) = Lowest[<<x[1] * y[1], x[2] * y[2]>>]
         /\ <<x[1] * y[1], x[2] * y[2]>> \in Fraction
         /\ Times(x, y) \in Fraction
<1>1. Times(x, y) = Lowest[<<x[1] * y[1], x[2] * y[2]>>]
  BY DEF Times
<1>2. x[1] \in Int /\ x[2] \in Nat \ {0} /\ y[1] \in Int /\ y[2] \in Nat \ {0}
  BY AtMostIs
<1>3. x[1] * y[1] \in Int /\ x[2] * y[2] \in Nat \ {0}
  BY <1>2
<1>4. <<x[1] * y[1], x[2] * y[2]>> \in Fraction
  BY <1>3 DEF Fraction
<1> QED BY <1>1, <1>4, LowestOrders

(* Of pairs that are fractions, by their cross products. *)
LEMMA PairsOrdered ==
  ASSUME NEW a \in Int, NEW b \in Nat \ {0}, NEW c \in Int, NEW d \in Nat \ {0},
         a * d <= c * b
  PROVE  AtMost(Lowest[<<a, b>>], Lowest[<<c, d>>])
<1> DEFINE q == <<a, b>>
           r == <<c, d>>
<1>1. q \in Fraction /\ r \in Fraction /\ q[1] * r[2] <= r[1] * q[2]
  BY DEF Fraction
<1> HIDE DEF q, r
<1>2. AtMost(q, r)
  BY <1>1, AtMostIs
<1>3. AtMost(Lowest[q], Lowest[r])
  BY <1>1, <1>2, LowestOrders
<1> QED BY <1>3 DEF q, r

(* Squares grow with the distance from zero. *)
LEMMA SquareOrders ==
  ASSUME NEW x \in Fraction, NEW u \in Fraction, AtMost(x, u)
  PROVE  /\ x[1] >= 0 => AtMost(Times(x, x), Times(u, u))
         /\ u[1] <= 0 => AtMost(Times(u, u), Times(x, x))
<1>1. ASSUME NEW p \in Nat, NEW q \in Nat, p <= q PROVE p * p <= q * q
  <2>1. p * p <= q * p /\ p * q <= q * q
    BY <1>1, Factor
  <2>2. p * q = q * p
    OBVIOUS
  <2>3. p * p \in Int /\ q * p \in Int /\ q * q \in Int
    OBVIOUS
  <2> QED BY <2>1, <2>2, <2>3
<1>2. ASSUME NEW a \in Int, NEW b \in Nat \ {0}, NEW c \in Int, NEW d \in Nat \ {0},
             a * d <= c * b
      PROVE  /\ a >= 0 => (a * a) * (d * d) <= (c * c) * (b * b)
             /\ c <= 0 => (c * c) * (b * b) <= (a * a) * (d * d)
  <2> DEFINE p == a * d
             q == c * b
  <2>1. p \in Int /\ q \in Int /\ p <= q /\ (a >= 0 => p >= 0) /\ (c <= 0 => q <= 0)
    BY <1>2
  <2>2. (a * a) * (d * d) = p * p /\ (c * c) * (b * b) = q * q
    OBVIOUS
  <2> HIDE DEF p, q
  <2>3. p >= 0 => p * p <= q * q
    BY <1>1, <2>1
  <2>4. q <= 0 => q * q <= p * p
    <3> SUFFICES ASSUME q <= 0 PROVE q * q <= p * p
      OBVIOUS
    <3>1. - q \in Nat /\ - p \in Nat /\ - q <= - p
      BY <2>1
    <3>2. (- q) * (- q) <= (- p) * (- p)
      BY <1>1, <3>1
    <3>3. (- q) * (- q) = q * q /\ (- p) * (- p) = p * p
      BY <2>1
    <3> QED BY <3>2, <3>3
  <2> QED BY <2>1, <2>2, <2>3, <2>4
<1>3. /\ x[1] \in Int /\ x[2] \in Nat \ {0} /\ u[1] \in Int /\ u[2] \in Nat \ {0}
      /\ x[1] * u[2] <= u[1] * x[2]
  BY AtMostIs
<1>4. /\ x[1] * x[1] \in Int /\ x[2] * x[2] \in Nat \ {0}
      /\ u[1] * u[1] \in Int /\ u[2] * u[2] \in Nat \ {0}
  BY <1>3
<1>5. /\ Times(x, x) = Lowest[<<x[1] * x[1], x[2] * x[2]>>]
      /\ Times(u, u) = Lowest[<<u[1] * u[1], u[2] * u[2]>>]
  BY TimesMade
<1>6. /\ x[1] >= 0 => (x[1] * x[1]) * (u[2] * u[2]) <= (u[1] * u[1]) * (x[2] * x[2])
      /\ u[1] <= 0 => (u[1] * u[1]) * (x[2] * x[2]) <= (x[1] * x[1]) * (u[2] * u[2])
  BY <1>2, <1>3
<1> QED BY <1>4, <1>5, <1>6, PairsOrdered

(* Scaled by a number that is not negative. *)
LEMMA ScaleOrders ==
  ASSUME NEW x \in Fraction, NEW u \in Fraction, NEW w \in Nat, AtMost(x, u)
  PROVE  /\ Whole(w) \in Fraction
         /\ AtMost(Times(Whole(w), x), Times(Whole(w), u))
         /\ AtMost(Times(x, Whole(w)), Times(u, Whole(w)))
<1>1. Whole(w) \in Fraction /\ Whole(w)[1] = w /\ Whole(w)[2] = 1
  BY DEF Whole, Fraction
<1>2. /\ x[1] \in Int /\ x[2] \in Nat \ {0} /\ u[1] \in Int /\ u[2] \in Nat \ {0}
      /\ x[1] * u[2] <= u[1] * x[2]
  BY AtMostIs
<1>3. /\ Times(Whole(w), x) = Lowest[<<w * x[1], 1 * x[2]>>]
      /\ Times(Whole(w), u) = Lowest[<<w * u[1], 1 * u[2]>>]
      /\ Times(x, Whole(w)) = Lowest[<<x[1] * w, x[2] * 1>>]
      /\ Times(u, Whole(w)) = Lowest[<<u[1] * w, u[2] * 1>>]
  BY <1>1, TimesMade
<1>4. (x[1] * u[2]) * w <= (u[1] * x[2]) * w
  <2>1. x[1] * u[2] \in Int /\ u[1] * x[2] \in Int
    BY <1>2
  <2> QED BY <1>2, <2>1, Factor
<1>5. /\ (x[1] * u[2]) * w = (w * x[1]) * (1 * u[2]) /\ (u[1] * x[2]) * w = (w * u[1]) * (1 * x[2])
      /\ (x[1] * u[2]) * w = (x[1] * w) * (u[2] * 1) /\ (u[1] * x[2]) * w = (u[1] * w) * (x[2] * 1)
  BY <1>2
<1>6. /\ (w * x[1]) * (1 * u[2]) <= (w * u[1]) * (1 * x[2])
      /\ (x[1] * w) * (u[2] * 1) <= (u[1] * w) * (x[2] * 1)
  BY <1>4, <1>5
<1>7. /\ w * x[1] \in Int /\ 1 * x[2] \in Nat \ {0} /\ w * u[1] \in Int /\ 1 * u[2] \in Nat \ {0}
      /\ x[1] * w \in Int /\ x[2] * 1 \in Nat \ {0} /\ u[1] * w \in Int /\ u[2] * 1 \in Nat \ {0}
  BY <1>2
<1> QED BY <1>1, <1>3, <1>6, <1>7, PairsOrdered

(* Divided by a number above zero.                                         *)
LEMMA DividedOrders ==
  ASSUME NEW x \in Fraction, NEW u \in Fraction, NEW n \in Nat \ {0}, AtMost(x, u)
  PROVE  DividedBy(x, n) \in Fraction /\ AtMost(DividedBy(x, n), DividedBy(u, n))
<1>1. /\ x[1] \in Int /\ x[2] \in Nat \ {0} /\ u[1] \in Int /\ u[2] \in Nat \ {0}
      /\ x[1] * u[2] <= u[1] * x[2]
  BY AtMostIs
<1>2. (x[1] * u[2]) * n <= (u[1] * x[2]) * n
  <2>1. x[1] * u[2] \in Int /\ u[1] * x[2] \in Int
    BY <1>1
  <2> QED BY <1>1, <2>1, Factor
<1>3. (x[1] * u[2]) * n = x[1] * (u[2] * n) /\ (u[1] * x[2]) * n = u[1] * (x[2] * n)
  BY <1>1
<1>4. x[1] * (u[2] * n) <= u[1] * (x[2] * n)
  BY <1>2, <1>3
<1>5. x[2] * n \in Nat \ {0} /\ u[2] * n \in Nat \ {0}
  BY <1>1
<1>6. DividedBy(x, n) = Lowest[<<x[1], x[2] * n>>] /\ DividedBy(u, n) = Lowest[<<u[1], u[2] * n>>]
  BY DEF DividedBy
<1>7. <<x[1], x[2] * n>> \in Fraction
  BY <1>1, <1>5 DEF Fraction
<1>8. DividedBy(x, n) \in Fraction
  BY <1>6, <1>7, LowestOrders
<1> QED BY <1>1, <1>4, <1>5, <1>6, <1>8, PairsOrdered

(* The operations stay among the fractions, on which the order is total.   *)
LEMMA FractionsClosed ==
  ASSUME NEW x \in Fraction, NEW y \in Fraction
  PROVE  /\ AtMost(x, x) /\ (AtMost(x, y) \/ AtMost(y, x))
         /\ Plus(x, y) \in Fraction /\ Minus(x, y) \in Fraction /\ Times(x, y) \in Fraction
         /\ \A n \in Nat \ {0} : DividedBy(x, n) \in Fraction
<1>1. \A z \in Fraction : AtMost(z, z)
  BY DEF Fraction, AtMost, Below
<1>2. AtMost(x, y) \/ AtMost(y, x)
  <2>1. x[1] * y[2] \in Int /\ y[1] * x[2] \in Int
    <3>1. x[1] \in Int /\ x[2] \in Nat \ {0} /\ y[1] \in Int /\ y[2] \in Nat \ {0}
      BY AtMostIs
    <3> QED BY <3>1
  <2>2. AtMost(x, y) <=> x[1] * y[2] <= y[1] * x[2]
    BY AtMostIs
  <2>3. AtMost(y, x) <=> y[1] * x[2] <= x[1] * y[2]
    BY AtMostIs
  <2> QED BY <2>1, <2>2, <2>3
<1>3. AtMost(x, x) /\ AtMost(y, y)
  BY <1>1
<1>4. Plus(x, y) \in Fraction
  BY <1>3, PlusOrders
<1>5. Minus(x, y) \in Fraction
  BY <1>3, MinusOrders
<1>6. Times(x, y) \in Fraction
  BY TimesMade
<1>7. \A n \in Nat \ {0} : DividedBy(x, n) \in Fraction
  BY <1>3, DividedOrders
<1> QED BY <1>2, <1>3, <1>4, <1>5, <1>6, <1>7

-----------------------------------------------------------------------------
(* Exact values. *)

(* A factor other than 0 can be taken away from both sides.                *)
LEMMA SameCancels ==
  ASSUME NEW a \in Int, NEW b \in Int, NEW c \in Int, c # 0, a * c = b * c
  PROVE  a = b
<1>1. (a - b) * c = 0
  OBVIOUS
<1>2. \A d \in Int : d * c = 0 => d = 0
  OBVIOUS
<1> QED BY <1>1, <1>2

(* In lowest terms a fraction has the least denominator it can have.       *)
LEMMA LowestIsLeast ==
  ASSUME NEW q \in Fraction, NEW m \in Nat \ {0}, NEW e \in Int, e * q[2] = q[1] * m,
         \A d \in Nat \ {0}, f \in Int : f * q[2] = q[1] * d => m <= d
  PROVE  Lowest[q] = <<e, m>>
<1>1. PICK g \in Nat \ {0} : q[1] = g * Lowest[q][1] /\ q[2] = g * Lowest[q][2]
  BY Cancelled
<1> DEFINE a == Lowest[q][1]
           b == Lowest[q][2]
<1>2. Lowest[q] = <<a, b>> /\ a \in Int /\ b \in Nat \ {0}
  <2>1. Lowest[q] \in Fraction
    BY Cancelled
  <2> QED BY <2>1 DEF Fraction
<1>3. q[1] = g * a /\ q[2] = g * b
  BY <1>1
<1> HIDE DEF a, b
<1>4. e * b = a * m
  <2>1. (e * b) * g = (a * m) * g
    <3>1. e * (g * b) = (e * b) * g /\ (g * a) * m = (a * m) * g
      BY <1>2
    <3> QED BY <1>3, <3>1
  <2>2. e * b \in Int /\ a * m \in Int /\ g \in Int /\ g # 0
    BY <1>2
  <2> QED BY <2>1, <2>2, SameCancels
<1> DEFINE k == b \div m
           r == b % m
<1>5. k \in Int /\ r \in 0 .. (m - 1) /\ b = m * k + r
  BY <1>2
<1> HIDE DEF k, r
<1>6. r = 0
  <2> SUFFICES ASSUME r # 0 PROVE FALSE
    OBVIOUS
  <2> DEFINE f == a - k * e
  <2>1. f \in Int /\ r \in Nat \ {0} /\ r < m
    BY <1>2, <1>5
  <2>2. f * m = e * r
    <3>1. f * m = a * m - (k * e) * m
      BY <1>2, <1>5
    <3>2. e * b = e * (m * k) + e * r
      BY <1>5
    <3>3. e * (m * k) = (k * e) * m
      BY <1>5
    <3>4. e * r \in Int /\ (k * e) * m \in Int /\ a * m \in Int
      BY <1>2, <1>5
    <3> HIDE DEF f
    <3> QED BY <1>4, <3>1, <3>2, <3>3, <3>4
  <2> HIDE DEF f
  <2>3. (f * b) * m = (a * r) * m
    <3>1. (f * b) * m = (f * m) * b
      BY <1>2, <2>1
    <3>2. (e * r) * b = (e * b) * r
      BY <1>2, <2>1
    <3>3. (a * m) * r = (a * r) * m
      BY <1>2, <2>1
    <3> QED BY <1>4, <2>2, <3>1, <3>2, <3>3
  <2>4. f * b = a * r
    <3>1. f * b \in Int /\ a * r \in Int /\ m \in Int /\ m # 0
      BY <1>2, <2>1
    <3> QED BY <2>3, <3>1, SameCancels
  <2>5. f * q[2] = q[1] * r
    <3>1. f * (g * b) = g * (f * b) /\ (g * a) * r = g * (a * r)
      BY <1>2, <2>1
    <3> QED BY <1>3, <2>4, <3>1
  <2> QED BY <2>1, <2>5
<1>7. b = m * k /\ k \in Nat \ {0}
  <2>1. b = m * k
    BY <1>5, <1>6
  <2>2. k > 0
    BY <1>2, <1>5, <2>1
  <2> QED BY <1>5, <2>1, <2>2
<1>8. a = k * e
  <2>1. (k * e) * m = a * m
    <3>1. e * (m * k) = (k * e) * m
      BY <1>7
    <3> QED BY <1>4, <1>7, <3>1
  <2>2. k * e \in Int /\ m \in Int /\ m # 0
    BY <1>7
  <2> QED BY <1>2, <2>1, <2>2, SameCancels
<1>9. k = 1
  <2>1. Lowest[q] = <<k * e, k * m>>
    BY <1>2, <1>7, <1>8
  <2> QED BY <1>7, <2>1, NoFactorLeft
<1>10. k * e = e /\ m * k = m
  BY <1>9
<1> QED BY <1>2, <1>7, <1>8, <1>10

(* Fractions of the same value have the same lowest terms.                 *)
LEMMA SameLowest ==
  ASSUME NEW q \in Fraction, NEW r \in Fraction, q[1] * r[2] = r[1] * q[2]
  PROVE  Lowest[q] = Lowest[r]
<1>1. q[1] \in Int /\ q[2] \in Nat \ {0} /\ r[1] \in Int /\ r[2] \in Nat \ {0}
  BY AtMostIs
<1> DEFINE T == {d \in Nat \ {0} : \E f \in Int : f * q[2] = q[1] * d}
<1>2. T \in SUBSET Nat /\ T # {}
  <2>1. q[2] \in T
    BY <1>1
  <2> QED BY <2>1
<1>3. PICK m \in T : \A d \in T : m <= d
  BY <1>2, LeastNumber
<1>4. PICK e \in Int : e * q[2] = q[1] * m
  BY <1>3
<1>5. m \in Nat \ {0}
  BY <1>3
<1>6. \A d \in Nat \ {0}, f \in Int : f * q[2] = q[1] * d => m <= d
  BY <1>3
<1> HIDE DEF T
<1>7. Lowest[q] = <<e, m>>
  BY <1>4, <1>5, <1>6, LowestIsLeast
<1>8. ASSUME NEW d \in Nat \ {0}, NEW f \in Int
      PROVE  f * q[2] = q[1] * d <=> f * r[2] = r[1] * d
  <2> DEFINE a == q[1]
             b == q[2]
             c == r[1]
             h == r[2]
  <2>1. a \in Int /\ b \in Nat \ {0} /\ c \in Int /\ h \in Nat \ {0} /\ a * h = c * b
    BY <1>1
  <2> HIDE DEF a, b, c, h
  <2>2. (f * b) * h = (f * h) * b /\ (a * d) * h = (a * h) * d /\ (c * b) * d = (c * d) * b
    BY <2>1
  <2>3. f * b \in Int /\ a * d \in Int /\ f * h \in Int /\ c * d \in Int /\ h # 0 /\ b # 0
    BY <2>1
  <2>4. f * b = a * d => f * h = c * d
    <3>1. f * b = a * d => (f * h) * b = (c * d) * b
      BY <2>1, <2>2
    <3> QED BY <2>1, <2>3, <3>1, SameCancels
  <2>5. f * h = c * d => f * b = a * d
    <3>1. f * h = c * d => (f * b) * h = (a * d) * h
      BY <2>1, <2>2
    <3> QED BY <2>1, <2>3, <3>1, SameCancels
  <2>6. f * b = a * d <=> f * h = c * d
    BY <2>4, <2>5
  <2> QED BY <2>6 DEF a, b, c, h
<1>9. Lowest[r] = <<e, m>>
  <2>1. e * r[2] = r[1] * m
    BY <1>4, <1>5, <1>8
  <2>2. \A d \in Nat \ {0}, f \in Int : f * r[2] = r[1] * d => m <= d
    BY <1>6, <1>8
  <2> QED BY <1>5, <2>1, <2>2, LowestIsLeast
<1> QED BY <1>7, <1>9

(* A fraction as a quotient. *)
Quotient(a, b) == Lowest[<<a, b>>]

(* A quotient is a fraction, cancelled by a factor. *)
LEMMA Quotients ==
  ASSUME NEW a \in Int, NEW b \in Nat \ {0}
  PROVE  /\ Quotient(a, b) \in Fraction
         /\ \E g \in Nat \ {0} : a = g * Quotient(a, b)[1] /\ b = g * Quotient(a, b)[2]
         /\ Quotient(a, b)[1] \in Int /\ Quotient(a, b)[2] \in Nat \ {0}
<1> DEFINE q == <<a, b>>
<1>1. q \in Fraction /\ q[1] = a /\ q[2] = b
  BY DEF Fraction
<1> HIDE DEF q
<1>2. /\ Lowest[q] \in Fraction
      /\ \E g \in Nat \ {0} : q[1] = g * Lowest[q][1] /\ q[2] = g * Lowest[q][2]
  BY <1>1, Cancelled
<1>3. Quotient(a, b) = Lowest[q]
  BY DEF Quotient, q
<1>4. Lowest[q][1] \in Int /\ Lowest[q][2] \in Nat \ {0}
  BY <1>2 DEF Fraction
<1> QED BY <1>1, <1>2, <1>3, <1>4

(* Equal cross products, equal quotients. *)
LEMMA QuotientsEqual ==
  ASSUME NEW a \in Int, NEW b \in Nat \ {0}, NEW c \in Int, NEW d \in Nat \ {0}, a * d = c * b
  PROVE  Quotient(a, b) = Quotient(c, d)
<1> DEFINE q == <<a, b>>
           r == <<c, d>>
<1>1. q \in Fraction /\ r \in Fraction /\ q[1] * r[2] = r[1] * q[2]
  BY DEF Fraction
<1>2. Quotient(a, b) = Lowest[q] /\ Quotient(c, d) = Lowest[r]
  BY DEF Quotient
<1> HIDE DEF q, r
<1> QED BY <1>1, <1>2, SameLowest

(* Numbers are quotients. *)
LEMMA WholeQuotient ==
  ASSUME NEW a \in Int
  PROVE  Whole(a) = Quotient(a, 1)
<1>0. 1 \in Nat \ {0}
  OBVIOUS
<1>1. PICK g \in Nat \ {0} : a = g * Quotient(a, 1)[1] /\ 1 = g * Quotient(a, 1)[2]
  BY <1>0, Quotients
<1>2. Quotient(a, 1)[1] \in Int /\ Quotient(a, 1)[2] \in Nat \ {0} /\ Quotient(a, 1) \in Fraction
  BY Quotients
<1> DEFINE x == Quotient(a, 1)[1]
           y == Quotient(a, 1)[2]
<1>3. Quotient(a, 1) = <<x, y>>
  BY <1>2 DEF Fraction
<1>4. x \in Int /\ y \in Nat \ {0} /\ a = g * x /\ 1 = g * y
  BY <1>1, <1>2
<1> HIDE DEF x, y
<1>5. g = 1 /\ y = 1
  <2>1. g >= 2 => g * y >= 2
    BY <1>4
  <2>2. g = 1
    BY <1>4, <2>1
  <2> QED BY <1>4, <2>2
<1>6. x = a
  BY <1>4, <1>5
<1> QED BY <1>3, <1>5, <1>6 DEF Whole

(* The operations on quotients. *)
LEMMA QuotientOperations ==
  ASSUME NEW a \in Int, NEW b \in Nat \ {0}, NEW c \in Int, NEW d \in Nat \ {0}, NEW n \in Nat \ {0}
  PROVE  /\ Plus(Quotient(a, b), Quotient(c, d)) = Quotient(a * d + c * b, b * d)
         /\ Minus(Quotient(a, b), Quotient(c, d)) = Quotient(a * d - c * b, b * d)
         /\ Times(Quotient(a, b), Quotient(c, d)) = Quotient(a * c, b * d)
         /\ DividedBy(Quotient(a, b), n) = Quotient(a, b * n)
<1>1. PICK g \in Nat \ {0} : a = g * Quotient(a, b)[1] /\ b = g * Quotient(a, b)[2]
  BY Quotients
<1>2. PICK h \in Nat \ {0} : c = h * Quotient(c, d)[1] /\ d = h * Quotient(c, d)[2]
  BY Quotients
<1>3. /\ Quotient(a, b)[1] \in Int /\ Quotient(a, b)[2] \in Nat \ {0}
      /\ Quotient(c, d)[1] \in Int /\ Quotient(c, d)[2] \in Nat \ {0}
  BY Quotients
<1> DEFINE u == Quotient(a, b)[1]
           v == Quotient(a, b)[2]
           s == Quotient(c, d)[1]
           t == Quotient(c, d)[2]
<1>4. /\ Plus(Quotient(a, b), Quotient(c, d)) = Quotient(u * t + s * v, v * t)
      /\ Minus(Quotient(a, b), Quotient(c, d)) = Quotient(u * t - s * v, v * t)
      /\ Times(Quotient(a, b), Quotient(c, d)) = Quotient(u * s, v * t)
      /\ DividedBy(Quotient(a, b), n) = Quotient(u, v * n)
  BY DEF Plus, Minus, Times, DividedBy, Quotient
<1>5. /\ u \in Int /\ v \in Nat \ {0} /\ s \in Int /\ t \in Nat \ {0}
      /\ a = g * u /\ b = g * v /\ c = h * s /\ d = h * t
  BY <1>1, <1>2, <1>3
<1> HIDE DEF u, v, s, t
<1>6. v * t \in Nat \ {0} /\ b * d \in Nat \ {0} /\ v * n \in Nat \ {0} /\ b * n \in Nat \ {0}
  BY <1>5
<1>7. b * d = (g * h) * (v * t) /\ a * d = (g * h) * (u * t) /\ c * b = (g * h) * (s * v)
      /\ a * c = (g * h) * (u * s)
  <2>1. /\ (g * v) * (h * t) = (g * h) * (v * t) /\ (g * u) * (h * t) = (g * h) * (u * t)
        /\ (h * s) * (g * v) = (g * h) * (s * v) /\ (g * u) * (h * s) = (g * h) * (u * s)
    BY <1>5
  <2> QED BY <1>5, <2>1
<1> DEFINE k == g * h
           m == v * t
           x == u * t
           y == s * v
           z == u * s
<1>8. k \in Int /\ m \in Int /\ x \in Int /\ y \in Int /\ z \in Int
  BY <1>5
<1>9. /\ (x + y) * (k * m) = (k * x + k * y) * m
      /\ (x - y) * (k * m) = (k * x - k * y) * m
      /\ z * (k * m) = (k * z) * m
  <2> HIDE DEF k, m, x, y, z
  <2> QED BY <1>8
<1>10. /\ (u * t + s * v) * (b * d) = (a * d + c * b) * (v * t)
       /\ (u * t - s * v) * (b * d) = (a * d - c * b) * (v * t)
       /\ (u * s) * (b * d) = (a * c) * (v * t)
  BY <1>7, <1>9
<1>11. u * (b * n) = a * (v * n)
  <2>1. u * ((g * v) * n) = (g * u) * (v * n)
    BY <1>5
  <2> QED BY <1>5, <2>1
<1>12. /\ u * t + s * v \in Int /\ u * t - s * v \in Int /\ u * s \in Int
       /\ a * d + c * b \in Int /\ a * d - c * b \in Int /\ a * c \in Int
  BY <1>5
<1> HIDE DEF k, m, x, y, z
<1>13. Quotient(u * t + s * v, v * t) = Quotient(a * d + c * b, b * d)
  BY <1>6, <1>10, <1>12, QuotientsEqual
<1>14. Quotient(u * t - s * v, v * t) = Quotient(a * d - c * b, b * d)
  BY <1>6, <1>10, <1>12, QuotientsEqual
<1>15. Quotient(u * s, v * t) = Quotient(a * c, b * d)
  <2> DEFINE p == u * s
             q == a * c
             r == v * t
             o == b * d
  <2>1. p \in Int /\ q \in Int /\ r \in Nat \ {0} /\ o \in Nat \ {0} /\ p * o = q * r
    BY <1>6, <1>10, <1>12
  <2> HIDE DEF p, q, r, o
  <2>2. Quotient(p, r) = Quotient(q, o)
    BY <2>1, QuotientsEqual
  <2> QED BY <2>2 DEF p, q, r, o
<1>16. Quotient(u, v * n) = Quotient(a, b * n)
  BY <1>5, <1>6, <1>11, QuotientsEqual
<1> QED BY <1>4, <1>13, <1>14, <1>15, <1>16

-----------------------------------------------------------------------------
(* Sums over finite sets. *)

(* The element the library's folds take next. *)
Pick(s) == CHOOSE t \in s : TRUE

(* There is one fewer without it.                                          *)
LEMMA Picked ==
  ASSUME NEW s, IsFiniteSet(s), s # {}
  PROVE  /\ Pick(s) \in s /\ IsFiniteSet(s \ {Pick(s)})
         /\ Cardinality(s) \in Nat /\ Cardinality(s \ {Pick(s)}) = Cardinality(s) - 1
         /\ Cardinality(s) # 0
<1>1. Pick(s) \in s
  BY DEF Pick
<1> QED BY <1>1, FS_RemoveElement, FS_CardinalityType, FS_EmptySet

(* What is true of a finite set when it is of the set without one element  *)
(* is true of all its subsets.                                             *)
LEMMA SubsetsByInduction ==
  ASSUME NEW S, IsFiniteSet(S), NEW T,
         \A s \in SUBSET S : (s = {} \/ s \ {Pick(s)} \in T) => s \in T
  PROVE  SUBSET S \subseteq T
<1> DEFINE P == {n \in Nat : \A s \in SUBSET S : Cardinality(s) <= n => s \in T}
<1>0. \A s \in SUBSET S : IsFiniteSet(s) /\ Cardinality(s) \in Nat
  BY FS_Subset, FS_CardinalityType
<1>1. 0 \in P
  <2>1. \A s \in SUBSET S : Cardinality(s) <= 0 => s = {}
    BY <1>0, FS_EmptySet
  <2> QED BY <2>1
<1>2. ASSUME NEW n \in Nat, n \in P PROVE n + 1 \in P
  <2> SUFFICES ASSUME NEW s \in SUBSET S, Cardinality(s) <= n + 1 PROVE s \in T
    OBVIOUS
  <2>1. CASE s = {}
    BY <2>1
  <2>2. CASE s # {}
    <3>1. Cardinality(s \ {Pick(s)}) <= n /\ s \ {Pick(s)} \in SUBSET S
      BY <1>0, <2>2, Picked
    <3> QED BY <1>2, <3>1
  <2> QED BY <2>1, <2>2
<1> HIDE DEF P
<1>3. \A n \in Nat : n \in P
  BY <1>1, <1>2, ByInduction
<1> QED BY <1>0, <1>3 DEF P

(* What a recursion over the subsets of S gives.                           *)
Steps(it, base, step, S) ==
  \A s \in SUBSET S : it[s] = IF s = {} THEN base ELSE step[Pick(s)][it[s \ {Pick(s)}]]

(* A function on the subsets of a finite set can be given by recursion on  *)
(* the element that is taken next.                                         *)
LEMMA Folded ==
  ASSUME NEW S, IsFiniteSet(S), NEW V, NEW base \in V, NEW step \in [S -> [V -> V]]
  PROVE  \E it \in [SUBSET S -> V] : Steps(it, base, step, S)
<1> DEFINE After(it, s) == IF s = {} THEN base ELSE step[Pick(s)][it[s \ {Pick(s)}]]
           P == {n \in Nat : \E it \in [SUBSET S -> V] :
                               \A s \in SUBSET S : Cardinality(s) <= n => it[s] = After(it, s)}
<1>1. \A s \in SUBSET S : IsFiniteSet(s) /\ Cardinality(s) \in Nat
  BY FS_Subset, FS_CardinalityType
<1>2. ASSUME NEW it \in [SUBSET S -> V], NEW s \in SUBSET S PROVE After(it, s) \in V
  <2>1. s # {} => Pick(s) \in S /\ s \ {Pick(s)} \in SUBSET S
    BY DEF Pick
  <2> QED BY <2>1
<1>3. 0 \in P
  <2> DEFINE it == [s \in SUBSET S |-> base]
  <2>1. it \in [SUBSET S -> V] /\ it[{}] = base
    OBVIOUS
  <2>2. \A s \in SUBSET S : Cardinality(s) <= 0 => s = {}
    BY <1>1, FS_EmptySet
  <2> HIDE DEF it
  <2> QED BY <2>1, <2>2
<1>4. ASSUME NEW n \in Nat, n \in P PROVE n + 1 \in P
  <2>1. PICK it \in [SUBSET S -> V] :
          \A s \in SUBSET S : Cardinality(s) <= n => it[s] = After(it, s)
    BY <1>4
  <2> DEFINE g == [s \in SUBSET S |-> After(it, s)]
  <2> HIDE DEF After
  <2>2. g \in [SUBSET S -> V] /\ \A s \in SUBSET S : g[s] = After(it, s)
    BY <1>2
  <2> HIDE DEF g
  <2>3. ASSUME NEW s \in SUBSET S, Cardinality(s) <= n + 1 PROVE g[s] = After(g, s)
    <3>1. CASE s = {}
      BY <2>2, <3>1 DEF After
    <3>2. CASE s # {}
      <4> DEFINE r == s \ {Pick(s)}
      <4>1. r \in SUBSET S /\ Cardinality(r) <= n
        BY <1>1, <2>3, <3>2, Picked
      <4> HIDE DEF r
      <4>2. g[r] = it[r]
        BY <2>1, <2>2, <4>1
      <4> QED BY <2>2, <3>2, <4>2 DEF After, r
    <3> QED BY <3>1, <3>2
  <2> QED BY <2>2, <2>3
<1> HIDE DEF P
<1>5. Cardinality(S) \in P
  BY <1>1, <1>3, <1>4, ByInduction
<1>6. PICK it \in [SUBSET S -> V] :
        \A s \in SUBSET S : Cardinality(s) <= Cardinality(S) => it[s] = After(it, s)
  BY <1>5 DEF P
<1> QED BY <1>6, FS_Subset DEF Steps

(* The recursive function behind Total exists.                             *)
Sums(it, f, S) ==
  it = [s \in SUBSET S |-> IF s = {} THEN Whole(0) ELSE Plus(f[Pick(s)], it[s \ {Pick(s)}])]

(* The sums of fractions over the subsets of a set.                        *)
LEMMA TotalSolved ==
  ASSUME NEW S, IsFiniteSet(S), NEW f \in [S -> Fraction]
  PROVE  \E it : Sums(it, f, S)
<1> DEFINE step == [p \in S |-> [v \in Fraction |-> Plus(f[p], v)]]
<1>1. ASSUME NEW p \in S, NEW v \in Fraction PROVE Plus(f[p], v) \in Fraction
  <2>1. \A z \in Fraction : AtMost(z, z)
    BY DEF Fraction, AtMost, Below
  <2> QED BY <2>1, PlusOrders
<1>2. /\ step \in [S -> [Fraction -> Fraction]]
      /\ \A p \in S, v \in Fraction : step[p][v] = Plus(f[p], v)
  BY <1>1
<1>3. Whole(0) \in Fraction
  BY DEF Whole, Fraction
<1> HIDE DEF step
<1>4. PICK it \in [SUBSET S -> Fraction] : Steps(it, Whole(0), step, S)
  BY <1>2, <1>3, Folded
<1>5. ASSUME NEW s \in SUBSET S
      PROVE  it[s] = IF s = {} THEN Whole(0) ELSE Plus(f[Pick(s)], it[s \ {Pick(s)}])
  <2>1. s # {} => Pick(s) \in S /\ it[s \ {Pick(s)}] \in Fraction
    BY DEF Pick
  <2> QED BY <1>2, <1>4, <2>1 DEF Steps
<1>6. it = [s \in SUBSET S |-> it[s]]
  OBVIOUS
<1> QED BY <1>5, <1>6 DEF Sums

(* The sums of fractions, and of numbers, one element at a time.           *)
Summed(it, f, S) ==
  /\ Total(f, S) = it[S] /\ it[{}] = Whole(0)
  /\ \A s \in SUBSET S : s # {} => it[s] = Plus(f[Pick(s)], it[s \ {Pick(s)}])

(* The sum of a set is that of one part less, and the part.                *)
LEMMA TotalSteps ==
  ASSUME NEW S, IsFiniteSet(S), NEW f \in [S -> Fraction]
  PROVE  \E it : Summed(it, f, S)
<1> DEFINE sum == CHOOSE it : Sums(it, f, S)
<1>2. Sums(sum, f, S)
  BY TotalSolved
<1>3. Total(f, S) = sum[S]
  BY DEF Total, FoldFunctionOnSet, MapThenFoldSet, Pick, Sums
<1> HIDE DEF sum
<1>4. /\ sum[{}] = Whole(0)
      /\ \A s \in SUBSET S : s # {} => sum[s] = Plus(f[Pick(s)], sum[s \ {Pick(s)}])
  BY <1>2 DEF Sums
<1> HIDE <1>2
<1> QED BY <1>3, <1>4 DEF Summed

(* A sum does not grow when none of its parts does.                        *)
LEMMA TotalsOrdered ==
  ASSUME NEW S, IsFiniteSet(S), NEW f \in [S -> Fraction], NEW g \in [S -> Fraction],
         \A s \in S : AtMost(f[s], g[s])
  PROVE  Total(f, S) \in Fraction /\ AtMost(Total(f, S), Total(g, S))
<1>1. PICK x : Summed(x, f, S)
  BY TotalSteps
<1>2. PICK y : Summed(y, g, S)
  BY TotalSteps
<1> DEFINE T == {s \in SUBSET S : x[s] \in Fraction /\ y[s] \in Fraction /\ AtMost(x[s], y[s])}
<1>3. ASSUME NEW s \in SUBSET S, s = {} \/ s \ {Pick(s)} \in T PROVE s \in T
  <2>1. CASE s = {}
    <3>1. Whole(0) \in Fraction /\ AtMost(Whole(0), Whole(0))
      BY DEF Whole, Fraction, AtMost, Below
    <3> QED BY <1>1, <1>2, <2>1, <3>1 DEF Summed
  <2>2. CASE s # {}
    <3> DEFINE p == Pick(s)
               r == s \ {p}
    <3>1. p \in S
      BY <2>2 DEF Pick
    <3>2. x[s] = Plus(f[p], x[r]) /\ y[s] = Plus(g[p], y[r])
      BY <1>1, <1>2, <2>2 DEF Summed
    <3>3. r \in T
      BY <1>3, <2>2
    <3> HIDE DEF p, r
    <3>4. x[r] \in Fraction /\ y[r] \in Fraction /\ AtMost(x[r], y[r])
      BY <3>3
    <3>5. /\ f[p] \in Fraction /\ g[p] \in Fraction /\ AtMost(f[p], g[p])
          /\ AtMost(g[p], g[p]) /\ AtMost(y[r], y[r])
      <4>1. f[p] \in Fraction /\ g[p] \in Fraction /\ AtMost(f[p], g[p])
        BY <3>1
      <4>2. \A z \in Fraction : AtMost(z, z)
        BY DEF Fraction, AtMost, Below
      <4> QED BY <3>4, <4>1, <4>2
    <3>6. /\ Plus(f[p], x[r]) \in Fraction /\ Plus(g[p], y[r]) \in Fraction
          /\ AtMost(Plus(f[p], x[r]), Plus(g[p], y[r]))
      BY <3>4, <3>5, PlusOrders
    <3> QED BY <3>2, <3>6
  <2> QED BY <2>1, <2>2
<1> HIDE DEF T
<1>4. S \in T
  BY <1>3, SubsetsByInduction
<1> QED BY <1>1, <1>2, <1>4 DEF T, Summed

NumberSums(it, w, S) ==
  it = [s \in SUBSET S |-> IF s = {} THEN 0 ELSE w[Pick(s)] + it[s \ {Pick(s)}]]

(* The sums of numbers over the subsets of a set.                          *)
LEMMA NumberSolved ==
  ASSUME NEW D, NEW w \in [D -> Int], NEW S \in SUBSET D, IsFiniteSet(S)
  PROVE  \E it : NumberSums(it, w, S)
<1> DEFINE step == [p \in S |-> [v \in Int |-> w[p] + v]]
<1>1. step \in [S -> [Int -> Int]] /\ \A p \in S, v \in Int : step[p][v] = w[p] + v
  OBVIOUS
<1> HIDE DEF step
<1>2. PICK it \in [SUBSET S -> Int] : Steps(it, 0, step, S)
  <2>1. 0 \in Int
    OBVIOUS
  <2> QED BY <1>1, <2>1, Folded
<1>3. ASSUME NEW s \in SUBSET S
      PROVE  it[s] = IF s = {} THEN 0 ELSE w[Pick(s)] + it[s \ {Pick(s)}]
  <2>1. s # {} => Pick(s) \in S /\ it[s \ {Pick(s)}] \in Int
    BY DEF Pick
  <2> QED BY <1>1, <1>2, <2>1 DEF Steps
<1>4. it = [s \in SUBSET S |-> it[s]]
  OBVIOUS
<1> QED BY <1>3, <1>4 DEF NumberSums

Added(it, w, S) ==
  /\ SumFunctionOnSet(w, S) = it[S] /\ it[{}] = 0
  /\ \A s \in SUBSET S : s # {} => it[s] = w[Pick(s)] + it[s \ {Pick(s)}]

(* The sum of a set of numbers, likewise.                                  *)
LEMMA NumberSteps ==
  ASSUME NEW D, NEW w \in [D -> Int], NEW S \in SUBSET D, IsFiniteSet(S)
  PROVE  \E it : Added(it, w, S)
<1> DEFINE sum == CHOOSE it : NumberSums(it, w, S)
<1>2. NumberSums(sum, w, S)
  BY NumberSolved
<1>3. SumFunctionOnSet(w, S) = sum[S]
  BY DEF SumFunctionOnSet, FoldFunctionOnSet, MapThenFoldSet, Pick, NumberSums
<1> HIDE DEF sum
<1>4. /\ sum[{}] = 0
      /\ \A s \in SUBSET S : s # {} => sum[s] = w[Pick(s)] + sum[s \ {Pick(s)}]
  BY <1>2 DEF NumberSums
<1> HIDE <1>2
<1> QED BY <1>3, <1>4 DEF Added

(* A sum of weights that are above zero is a number above zero. *)
LEMMA WeightsAboveZero ==
  ASSUME NEW D, NEW w \in [D -> Nat], NEW S \in SUBSET D, IsFiniteSet(S),
         \A s \in S : w[s] # 0
  PROVE  /\ SumFunctionOnSet(w, S) \in Nat
         /\ S # {} => SumFunctionOnSet(w, S) # 0
<1>1. PICK y : Added(y, w, S)
  <2>1. w \in [D -> Int]
    OBVIOUS
  <2> QED BY <2>1, NumberSteps
<1> DEFINE T == {s \in SUBSET S : y[s] \in Nat /\ (s # {} => y[s] # 0)}
<1>2. ASSUME NEW s \in SUBSET S, s = {} \/ s \ {Pick(s)} \in T PROVE s \in T
  <2>1. CASE s = {}
    BY <1>1, <2>1 DEF Added
  <2>2. CASE s # {}
    <3> DEFINE p == Pick(s)
               r == s \ {p}
    <3>1. p \in S
      BY <2>2 DEF Pick
    <3>2. y[s] = w[p] + y[r]
      BY <1>1, <2>2 DEF Added
    <3>3. y[r] \in Nat /\ w[p] \in Nat /\ w[p] # 0
      BY <1>2, <2>2, <3>1
    <3> HIDE DEF p, r
    <3> QED BY <3>2, <3>3
  <2> QED BY <2>1, <2>2
<1> HIDE DEF T
<1>3. S \in T
  BY <1>2, SubsetsByInduction
<1> QED BY <1>1, <1>3 DEF T, Added

(* The sum of a subset is the one the sum of the set has taken on its way.  *)
LEMMA SumOfSubset ==
  ASSUME NEW D, NEW w \in [D -> Int], NEW S \in SUBSET D, IsFiniteSet(S), NEW it, Added(it, w, S),
         NEW U \in SUBSET S
  PROVE  SumFunctionOnSet(w, U) = it[U]
<1>1. U \in SUBSET D /\ IsFiniteSet(U)
  BY FS_Subset
<1>2. PICK jt : Added(jt, w, U)
  BY <1>1, NumberSteps
<1> DEFINE T == {s \in SUBSET U : jt[s] = it[s]}
<1>3. ASSUME NEW s \in SUBSET U, s = {} \/ s \ {Pick(s)} \in T PROVE s \in T
  <2>1. s \in SUBSET S
    OBVIOUS
  <2>2. CASE s = {}
    BY <1>2, <2>2 DEF Added
  <2>3. CASE s # {}
    <3>1. jt[s] = w[Pick(s)] + jt[s \ {Pick(s)}] /\ it[s] = w[Pick(s)] + it[s \ {Pick(s)}]
      BY <1>2, <2>1, <2>3 DEF Added
    <3> QED BY <1>3, <2>3, <3>1
  <2> QED BY <2>2, <2>3
<1> HIDE DEF T
<1>4. U \in T
  BY <1>1, <1>3, SubsetsByInduction
<1> QED BY <1>2, <1>4 DEF Added, T

(* Whichever element is taken first.                                       *)
Takes(it, w, t) == it[t] \in Int /\ \A e \in t : it[t] = w[e] + it[t \ {e}]

(* A sum of numbers is the sum of the others, plus any one of them. *)
LEMMA SumTakes ==
  ASSUME NEW D, NEW w \in [D -> Int], NEW S \in SUBSET D, IsFiniteSet(S), NEW it, Added(it, w, S),
         NEW s \in SUBSET S
  PROVE  Takes(it, w, s)
<1> DEFINE T == {n \in Nat : \A t \in SUBSET S : Cardinality(t) <= n => Takes(it, w, t)}
<1>1. \A t \in SUBSET S : IsFiniteSet(t) /\ Cardinality(t) \in Nat
  BY FS_Subset, FS_CardinalityType
<1>2. it[{}] = 0 /\ \A t \in SUBSET S : t # {} => it[t] = w[Pick(t)] + it[t \ {Pick(t)}]
  BY DEF Added
<1>3. 0 \in T
  <2>1. \A t \in SUBSET S : Cardinality(t) <= 0 => t = {}
    BY <1>1, FS_EmptySet
  <2>2. Takes(it, w, {})
    BY <1>2 DEF Takes
  <2> QED BY <2>1, <2>2
<1>4. ASSUME NEW n \in Nat, n \in T PROVE n + 1 \in T
  <2> SUFFICES ASSUME NEW t \in SUBSET S, Cardinality(t) <= n + 1 PROVE Takes(it, w, t)
    OBVIOUS
  <2>1. \A u \in SUBSET S : Cardinality(u) <= n => Takes(it, w, u)
    BY <1>4
  <2>2. CASE t = {}
    BY <1>2, <2>2 DEF Takes
  <2>3. CASE t # {}
    <3> DEFINE p == Pick(t)
    <3>1. p \in t
      BY <2>3 DEF Pick
    <3>2. it[t] = w[p] + it[t \ {p}]
      BY <1>2, <2>3
    <3> HIDE DEF p
    <3>3. ASSUME NEW e \in t PROVE Takes(it, w, t \ {e})
      <4>1. Cardinality(t \ {e}) <= n
        <5>1. IsFiniteSet(t) /\ Cardinality(t) \in Nat
          BY <1>1
        <5>2. Cardinality(t \ {e}) = Cardinality(t) - 1
          BY <5>1, FS_RemoveElement
        <5> QED BY <5>1, <5>2
      <4>2. t \ {e} \in SUBSET S
        OBVIOUS
      <4> QED BY <2>1, <4>1, <4>2
    <3>4. it[t] \in Int
      <4>1. it[t \ {p}] \in Int /\ w[p] \in Int
        BY <3>1, <3>3 DEF Takes
      <4> QED BY <3>2, <4>1
    <3>5. ASSUME NEW e \in t PROVE it[t] = w[e] + it[t \ {e}]
      <4>1. CASE e = p
        BY <3>2, <4>1
      <4>2. CASE e # p
        <5>1. it[t \ {p}] = w[e] + it[(t \ {p}) \ {e}] /\ it[t \ {p}] \in Int
          BY <3>1, <3>3, <4>2 DEF Takes
        <5>2. it[t \ {e}] = w[p] + it[(t \ {e}) \ {p}] /\ it[t \ {e}] \in Int
          BY <3>1, <3>3, <4>2 DEF Takes
        <5> DEFINE u == (t \ {p}) \ {e}
        <5>3. (t \ {e}) \ {p} = u
          OBVIOUS
        <5>4. it[t \ {p}] = w[e] + it[u] /\ it[t \ {e}] = w[p] + it[u]
          BY <5>1, <5>2, <5>3
        <5>5. w[e] \in Int /\ w[p] \in Int
          BY <3>1
        <5>6. it[u] \in Int
          <6>1. \A f \in t : f \in S
            OBVIOUS
          <6>2. /\ u \in SUBSET S /\ IsFiniteSet(t) /\ IsFiniteSet(t \ {p})
                /\ Cardinality(t \ {p}) = Cardinality(t) - 1
            BY <1>1, <3>1, FS_RemoveElement
          <6>3. Cardinality(u) = Cardinality(t \ {p}) - 1 /\ Cardinality(t) \in Nat
            BY <1>1, <3>1, <4>2, <6>2, FS_RemoveElement
          <6>4. Cardinality(u) <= n
            BY <6>2, <6>3
          <6> HIDE DEF u
          <6> QED BY <2>1, <6>2, <6>4 DEF Takes
        <5> HIDE DEF u
        <5> QED BY <3>2, <5>4, <5>5, <5>6
      <4> QED BY <4>1, <4>2
    <3> QED BY <3>4, <3>5 DEF Takes
  <2> QED BY <2>2, <2>3
<1> HIDE DEF T
<1>5. Cardinality(s) \in T
  BY <1>1, <1>3, <1>4, ByInduction
<1> QED BY <1>1, <1>5 DEF T

(* One element more adds its number.                                       *)
LEMMA SumAdds ==
  ASSUME NEW D, NEW w \in [D -> Int], NEW S \in SUBSET D, IsFiniteSet(S), NEW e \in D, e \notin S
  PROVE  /\ SumFunctionOnSet(w, S) \in Int
         /\ SumFunctionOnSet(w, S \cup {e}) = SumFunctionOnSet(w, S) + w[e]
<1> DEFINE U == S \cup {e}
<1>1. U \in SUBSET D /\ IsFiniteSet(U)
  BY FS_AddElement
<1>2. PICK it : Added(it, w, U)
  BY <1>1, NumberSteps
<1>3. S \in SUBSET U /\ U \in SUBSET U /\ e \in U /\ U \ {e} = S
  OBVIOUS
<1> HIDE DEF U
<1>4. SumFunctionOnSet(w, S) = it[S] /\ SumFunctionOnSet(w, U) = it[U]
  BY <1>1, <1>2, <1>3, SumOfSubset
<1>5. it[S] \in Int /\ it[U] = w[e] + it[S]
  <2>1. Takes(it, w, S) /\ Takes(it, w, U)
    BY <1>1, <1>2, <1>3, SumTakes
  <2>2. it[U] = w[e] + it[U \ {e}]
    BY <1>3, <2>1 DEF Takes
  <2>3. it[U \ {e}] = it[S]
    BY <1>3, Zenon
  <2> QED BY <2>1, <2>2, <2>3 DEF Takes
<1>6. w[e] \in Int
  OBVIOUS
<1>7. SumFunctionOnSet(w, U) = SumFunctionOnSet(w, S) + w[e]
  BY <1>3, <1>4, <1>5, <1>6
<1> QED BY <1>4, <1>5, <1>7 DEF U

(* Nothing adds up to 0.                                                   *)
LEMMA SumOfNone ==
  ASSUME NEW D, NEW w \in [D -> Int]
  PROVE  SumFunctionOnSet(w, {}) = 0
<1>1. PICK it : Added(it, w, {})
  BY FS_EmptySet, NumberSteps
<1> QED BY <1>1 DEF Added

-----------------------------------------------------------------------------
(* Means. *)

(* A difference does not grow when what is subtracted does not fall.       *)
LEMMA MinusTurns ==
  ASSUME NEW x \in Fraction, NEW u \in Fraction, NEW m \in Fraction, AtMost(x, u)
  PROVE  Minus(m, x) \in Fraction /\ AtMost(Minus(m, u), Minus(m, x))
<1> DEFINE a == m[1] * u[2] - u[1] * m[2]
           b == m[2] * u[2]
           c == m[1] * x[2] - x[1] * m[2]
           d == m[2] * x[2]
<1>1. Minus(m, u) = Lowest[<<a, b>>] /\ Minus(m, x) = Lowest[<<c, d>>]
  BY DEF Minus
<1>2. /\ x[1] \in Int /\ x[2] \in Nat \ {0} /\ m[1] \in Int /\ m[2] \in Nat \ {0}
      /\ u[1] \in Int /\ u[2] \in Nat \ {0}
      /\ x[1] * u[2] <= u[1] * x[2]
  BY AtMostIs
<1>3. a \in Int /\ b \in Nat \ {0} /\ c \in Int /\ d \in Nat \ {0}
  BY <1>2
<1>4. a * d <= c * b
  <2>1. - u[1] \in Int /\ - x[1] \in Int /\ m[1] * m[2] <= m[1] * m[2]
    BY <1>2
  <2>2. (- u[1]) * x[2] <= (- x[1]) * u[2]
    BY <1>2
  <2>3. (m[1] * u[2] + (- u[1]) * m[2]) * (m[2] * x[2])
          <= (m[1] * x[2] + (- x[1]) * m[2]) * (m[2] * u[2])
    BY <1>2, <2>1, <2>2, SumsOrdered
  <2>4. /\ m[1] * u[2] + (- u[1]) * m[2] = a
        /\ m[1] * x[2] + (- x[1]) * m[2] = c
    BY <1>2
  <2> QED BY <2>3, <2>4
<1>5. Minus(m, x) \in Fraction
  BY FractionsClosed
<1> HIDE DEF a, b, c, d
<1> QED BY <1>1, <1>3, <1>4, <1>5, PairsOrdered

(* The same quotient added up.                                             *)
LEMMA TotalOfEqual ==
  ASSUME NEW S, IsFiniteSet(S), NEW a \in Int, NEW b \in Nat \ {0}
  PROVE  /\ Cardinality(S) \in Nat
         /\ Total([s \in S |-> Quotient(a, b)], S) = Quotient(Cardinality(S) * a, b)
<1> DEFINE q == Quotient(a, b)
           f == [s \in S |-> q]
<1>1. q \in Fraction /\ f \in [S -> Fraction] /\ \A s \in S : f[s] = q
  BY Quotients
<1> HIDE DEF f
<1>2. PICK it : Summed(it, f, S)
  BY <1>1, TotalSteps
<1> DEFINE T == {s \in SUBSET S : it[s] = Quotient(Cardinality(s) * a, b)}
<1>3. ASSUME NEW s \in SUBSET S, s = {} \/ s \ {Pick(s)} \in T PROVE s \in T
  <2>1. CASE s = {}
    <3>1. Quotient(0, 1) = Quotient(0 * a, b)
      <4>1. 0 \in Int /\ 1 \in Nat \ {0} /\ 0 * a \in Int /\ 0 * b = (0 * a) * 1
        OBVIOUS
      <4> QED BY ONLY <4>1, QuotientsEqual, b \in Nat \ {0}
    <3>2. Whole(0) = Quotient(0, 1)
      <4>1. 0 \in Int
        OBVIOUS
      <4> QED BY <4>1, WholeQuotient
    <3>3. it[s] = Whole(0) /\ Cardinality(s) = 0
      BY <1>2, <2>1, FS_EmptySet DEF Summed
    <3> QED BY <3>1, <3>2, <3>3
  <2>2. CASE s # {}
    <3> DEFINE p == Pick(s)
               r == s \ {p}
               n == Cardinality(r)
    <3>1. IsFiniteSet(s)
      BY FS_Subset
    <3>2. p \in S /\ n \in Nat /\ Cardinality(s) = n + 1
      <4>1. p \in s /\ IsFiniteSet(r) /\ Cardinality(s) \in Nat /\ n = Cardinality(s) - 1
        BY <2>2, <3>1, Picked
      <4>2. n \in Nat
        BY <4>1, FS_CardinalityType
      <4> HIDE DEF n
      <4> QED BY <4>1, <4>2
    <3>3. it[s] = Plus(f[p], it[r])
      BY <1>2, <2>2 DEF Summed
    <3>4. it[r] = Quotient(n * a, b)
      BY <1>3, <2>2
    <3> HIDE DEF p, r, n, q
    <3>5. f[p] = Quotient(a, b)
      BY <1>1, <3>2 DEF q
    <3>6. Plus(Quotient(a, b), Quotient(n * a, b)) = Quotient(a * b + (n * a) * b, b * b)
      <4>1. n * a \in Int /\ 1 \in Nat \ {0}
        BY <3>2
      <4> QED BY <4>1, QuotientOperations
    <3>7. Quotient(a * b + (n * a) * b, b * b) = Quotient((n + 1) * a, b)
      <4>1. /\ a * b + (n * a) * b \in Int /\ b * b \in Nat \ {0} /\ (n + 1) * a \in Int
            /\ (a * b + (n * a) * b) * b = ((n + 1) * a) * (b * b)
        BY <3>2
      <4> QED BY ONLY <4>1, QuotientsEqual, b \in Nat \ {0}
    <3> QED BY <3>2, <3>3, <3>4, <3>5, <3>6, <3>7
  <2> QED BY <2>1, <2>2
<1> HIDE DEF T
<1>4. S \in T
  BY <1>3, SubsetsByInduction
<1>5. Total(f, S) = Quotient(Cardinality(S) * a, b)
  BY <1>2, <1>4 DEF T, Summed
<1> QED BY <1>5, FS_CardinalityType DEF f

(* A mean is no less than a bound from below of what it is of, and no more *)
(* than one from above.                                                    *)
LEMMA MeanBounded ==
  ASSUME NEW S, IsFiniteSet(S), S # {}, NEW f \in [S -> Fraction], NEW q \in Fraction
  PROVE  /\ Mean(f, S) \in Fraction
         /\ (\A s \in S : AtMost(q, f[s])) => AtMost(q, Mean(f, S))
         /\ (\A s \in S : AtMost(f[s], q)) => AtMost(Mean(f, S), q)
<1> DEFINE n == Cardinality(S)
           lowest == Quotient(q[1], q[2])
           g == [s \in S |-> lowest]
<1>1. n \in Nat \ {0}
  BY FS_CardinalityType, FS_EmptySet
<1>2. q[1] \in Int /\ q[2] \in Nat \ {0} /\ q = <<q[1], q[2]>>
  BY DEF Fraction
<1>3. lowest = Lowest[q] /\ lowest \in Fraction /\ AtMost(lowest, q) /\ AtMost(q, lowest)
  <2>1. lowest = Lowest[q]
    BY <1>2 DEF Quotient
  <2> QED BY <2>1, LowestOrders, FractionsClosed
<1>4. Total(f, S) \in Fraction /\ Total(g, S) \in Fraction /\ g \in [S -> Fraction]
  <2>1. g \in [S -> Fraction]
    BY <1>3
  <2>2. \A s \in S : AtMost(f[s], f[s]) /\ AtMost(g[s], g[s])
    BY <2>1, FractionsClosed
  <2> HIDE DEF g
  <2> QED BY <2>1, <2>2, TotalsOrdered
<1>5. Mean(g, S) = lowest
  <2>1. Total(g, S) = Quotient(n * q[1], q[2]) /\ n * q[1] \in Int
    <3> DEFINE a == q[1]
               b == q[2]
    <3>1. a \in Int /\ b \in Nat \ {0} /\ g = [s \in S |-> Quotient(a, b)]
      BY <1>2
    <3> HIDE DEF a, b, g
    <3>2. Total([s \in S |-> Quotient(a, b)], S) = Quotient(n * a, b)
      BY <3>1, TotalOfEqual
    <3>3. Total(g, S) = Quotient(n * a, b) /\ n * a \in Int
      BY <1>1, <3>1, <3>2
    <3> QED BY <3>3 DEF a, b
  <2>2. DividedBy(Quotient(n * q[1], q[2]), n) = Quotient(n * q[1], q[2] * n)
    <3>1. 1 \in Nat \ {0}
      OBVIOUS
    <3> QED BY <1>1, <1>2, <2>1, <3>1, QuotientOperations
  <2>3. Quotient(n * q[1], q[2] * n) = Quotient(q[1], q[2])
    <3>1. q[2] * n \in Nat \ {0} /\ (n * q[1]) * q[2] = q[1] * (q[2] * n)
      BY <1>1, <1>2
    <3> QED BY <1>2, <2>1, <3>1, QuotientsEqual
  <2> QED BY <2>1, <2>2, <2>3 DEF Mean
<1> HIDE DEF g, lowest, n
<1>6. Mean(f, S) \in Fraction /\ \A s \in S : g[s] = lowest
  BY <1>1, <1>4, FractionsClosed DEF Mean, n, g
<1>7. ASSUME \A s \in S : AtMost(q, f[s]) PROVE AtMost(q, Mean(f, S))
  <2>1. \A s \in S : AtMost(g[s], f[s])
    BY <1>3, <1>6, <1>7, AtMostTransitive
  <2>2. AtMost(Total(g, S), Total(f, S))
    BY <1>4, <2>1, TotalsOrdered
  <2>3. AtMost(Mean(g, S), Mean(f, S))
    BY <1>1, <1>4, <2>2, DividedOrders DEF Mean, n
  <2> QED BY <1>3, <1>5, <1>6, <2>3, AtMostTransitive
<1>8. ASSUME \A s \in S : AtMost(f[s], q) PROVE AtMost(Mean(f, S), q)
  <2>1. \A s \in S : AtMost(f[s], g[s])
    BY <1>3, <1>6, <1>8, AtMostTransitive
  <2>2. AtMost(Total(f, S), Total(g, S))
    BY <1>4, <2>1, TotalsOrdered
  <2>3. AtMost(Mean(f, S), Mean(g, S))
    BY <1>1, <1>4, <2>2, DividedOrders DEF Mean, n
  <2> QED BY <1>3, <1>5, <1>6, <2>3, AtMostTransitive
<1> QED BY <1>6, <1>7, <1>8

(* Of finitely many fractions there is a least and a greatest one.         *)
LEMMA LeastAndGreatest ==
  ASSUME NEW S, IsFiniteSet(S), S # {}, NEW f \in [S -> Fraction]
  PROVE  \E l, r \in S : \A s \in S : AtMost(f[l], f[s]) /\ AtMost(f[s], f[r])
<1> DEFINE Ends(u) == \E l, r \in u : \A s \in u : AtMost(f[l], f[s]) /\ AtMost(f[s], f[r])
           T == {u \in SUBSET S : u = {} \/ Ends(u)}
<1>1. ASSUME NEW u \in SUBSET S, u = {} \/ u \ {Pick(u)} \in T PROVE u \in T
  <2> SUFFICES ASSUME u # {} PROVE Ends(u)
    OBVIOUS
  <2> DEFINE p == Pick(u)
             v == u \ {p}
  <2>1. p \in u /\ p \in S /\ \A s \in u : s = p \/ s \in v
    BY DEF Pick
  <2>2. v = {} \/ Ends(v)
    BY <1>1
  <2>3. v \subseteq u /\ \A s \in u : f[s] \in Fraction
    OBVIOUS
  <2> HIDE DEF p, v
  <2>4. CASE v = {}
    <3>1. \A s \in u : s = p
      BY <2>1, <2>4
    <3>2. AtMost(f[p], f[p])
      BY <2>1, <2>3, FractionsClosed
    <3> QED BY <2>1, <3>1, <3>2
  <2>5. CASE Ends(v)
    <3>1. PICK l \in v, r \in v : \A s \in v : AtMost(f[l], f[s]) /\ AtMost(f[s], f[r])
      BY <2>5
    <3>2. \E m \in u : \A s \in u : AtMost(f[m], f[s])
      <4>1. CASE AtMost(f[l], f[p])
        BY <2>1, <2>3, <3>1, <4>1
      <4>2. CASE AtMost(f[p], f[l])
        <5>1. ASSUME NEW s \in u PROVE AtMost(f[p], f[s])
          <6>1. CASE s = p
            BY <2>1, <2>3, <6>1, FractionsClosed
          <6>2. CASE s \in v
            <7>1. AtMost(f[l], f[s])
              BY <3>1, <6>2
            <7> QED BY <2>1, <2>3, <3>1, <4>2, <7>1, AtMostTransitive
          <6> QED BY <2>1, <6>1, <6>2
        <5> QED BY <2>1, <5>1
      <4> QED BY <2>1, <2>3, <3>1, <4>1, <4>2, FractionsClosed
    <3>3. \E m \in u : \A s \in u : AtMost(f[s], f[m])
      <4>1. CASE AtMost(f[p], f[r])
        BY <2>1, <2>3, <3>1, <4>1
      <4>2. CASE AtMost(f[r], f[p])
        <5>1. ASSUME NEW s \in u PROVE AtMost(f[s], f[p])
          <6>1. CASE s = p
            BY <2>1, <2>3, <6>1, FractionsClosed
          <6>2. CASE s \in v
            <7>1. AtMost(f[s], f[r])
              BY <3>1, <6>2
            <7> QED BY <2>1, <2>3, <3>1, <4>2, <7>1, AtMostTransitive
          <6> QED BY <2>1, <6>1, <6>2
        <5> QED BY <2>1, <5>1
      <4> QED BY <2>1, <2>3, <3>1, <4>1, <4>2, FractionsClosed
    <3> QED BY <3>2, <3>3
  <2> QED BY <2>2, <2>4, <2>5
<1> HIDE DEF T
<1>2. S \in T
  BY <1>1, SubsetsByInduction
<1> QED BY <1>2 DEF T
=============================================================================
