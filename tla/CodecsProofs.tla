---------------------------- MODULE CodecsProofs ----------------------------
(***************************************************************************)
(* Theorems about the positions of Codecs, for frames of any accuracy and  *)
(* for all positions, moves and references.  A decoder has the remainder   *)
(* of a number of steps and looks for the index that the remainder leaves  *)
(* out.  With one frame the index comes from a reference, by rounding;     *)
(* with two it comes from both remainders: the numbers of steps m and k of *)
(* a pair, c + 1 to the circle and c, are so close that m * c and          *)
(* k * (c + 1) differ by less than half of Bins, and of the index then     *)
(* follows what each frame leaves out, but for whole circles.              *)
(***************************************************************************)
EXTENDS Codecs, FiniteSetTheorems, TLAPS

-----------------------------------------------------------------------------
(* Arithmetic. *)


\* Multiplication by a number that is not negative keeps an order.
LEMMA Grows == ASSUME NEW a \in Int, NEW b \in Int, NEW y \in Nat, a <= b PROVE a * y <= b * y
OBVIOUS

\* The laws of products that the provers do not find among other facts.
LEMMA Products ==
    ASSUME NEW a \in Int, NEW b \in Int, NEW y \in Int
    PROVE  /\ (a + b) * y = a * y + b * y
           /\ (a - b) * y = a * y - b * y
           /\ a * y \in Int
           /\ a * y = y * a
OBVIOUS

\* And of products of three.
LEMMA Threefold ==
    ASSUME NEW a \in Int, NEW b \in Int, NEW c \in Int
    PROVE  (a * b) * c = a * (b * c) /\ (a * b) * c = (a * c) * b
OBVIOUS

\* A number is its quotient times the divisor, and its remainder.
LEMMA DivMod ==
    ASSUME NEW x \in Int, NEW y \in Nat \ {0}
    PROVE  /\ x \div y \in Int /\ x % y \in Int
           /\ 0 <= x % y /\ x % y < y
           /\ x = (x \div y) * y + (x % y)
<1>1. x \div y \in Int /\ x % y \in Int
  OBVIOUS
<1>2. 0 <= x % y /\ x % y < y
  OBVIOUS
<1>3. x = y * (x \div y) + (x % y)
  OBVIOUS
<1> QED
  BY <1>1, <1>2, <1>3, Products

\* The multiple of y that is nearest from below has the quotient.
LEMMA QuotientIs ==
    ASSUME NEW x \in Int, NEW y \in Nat \ {0}, NEW q \in Int, q * y <= x, x < q * y + y
    PROVE  x \div y = q
OBVIOUS

\* A rounded quotient is off by half at most, and takes the upper of two neighbours.
LEMMA Rounds ==
    ASSUME NEW a \in Int, NEW b \in Nat \ {0}
    PROVE  /\ Rounded(a, b) \in Int
           /\ -b <= 2 * (a - Rounded(a, b) * b)
           /\ 2 * (a - Rounded(a, b) * b) < b
<1> DEFINE r == (2 * a + b) \div (2 * b)
<1>1. r \in Int /\ 2 * b \in Nat \ {0} /\ 2 * a + b \in Int
  OBVIOUS
<1>2. 2 * a + b = r * (2 * b) + ((2 * a + b) % (2 * b)) /\ 0 <= (2 * a + b) % (2 * b) /\ (2 * a + b) % (2 * b) < 2 * b
  BY <1>1, DivMod
<1>3. r * (2 * b) = 2 * (r * b) /\ r * b \in Int
  BY <1>1
<1> QED
  BY <1>1, <1>2, <1>3 DEF Rounded

\* Nothing else is.
LEMMA RoundedIs ==
    ASSUME NEW a \in Int, NEW b \in Nat \ {0}, NEW q \in Int,
           -b <= 2 * (a - q * b), 2 * (a - q * b) < b
    PROVE  Rounded(a, b) = q
<1>1. q * (2 * b) = 2 * (q * b) /\ q * b \in Int
  OBVIOUS
<1>2. q * (2 * b) <= 2 * a + b /\ 2 * a + b < q * (2 * b) + 2 * b
  BY <1>1
<1> QED
  BY <1>2, QuotientIs DEF Rounded

\* Whole numbers pass through rounding.
LEMMA RoundedShift ==
    ASSUME NEW a \in Int, NEW b \in Nat \ {0}, NEW w \in Int
    PROVE  Rounded(a + w * b, b) = Rounded(a, b) + w
<1> DEFINE r == Rounded(a, b)
<1>1. r \in Int /\ -b <= 2 * (a - r * b) /\ 2 * (a - r * b) < b
  BY Rounds
<1>2. (r + w) * b = r * b + w * b /\ r * b \in Int /\ w * b \in Int
  BY <1>1, Products
<1> HIDE DEF r
<1>3. a + w * b - (r + w) * b = a - r * b
  BY <1>1, <1>2
<1>4. Rounded(a + w * b, b) = r + w
  BY <1>1, <1>2, <1>3, RoundedIs
<1> QED
  BY <1>4 DEF r

\* Whole multiples pass through remainder and quotient.
LEMMA ModShift ==
    ASSUME NEW a \in Int, NEW b \in Nat \ {0}, NEW w \in Int
    PROVE  (a + w * b) % b = a % b /\ (a + w * b) \div b = a \div b + w
<1> DEFINE q == a \div b
           r == a % b
<1>1. a = q * b + r /\ 0 <= r /\ r < b /\ q \in Int /\ r \in Int
  BY DivMod
<1> HIDE DEF q, r
<1>2. (q + w) * b = q * b + w * b /\ w * b \in Int /\ q * b \in Int
  BY <1>1, Products
<1>3. (a + w * b) \div b = q + w
  BY <1>1, <1>2, QuotientIs
<1>4. a + w * b = ((a + w * b) \div b) * b + ((a + w * b) % b) /\ (a + w * b) % b \in Int
  BY <1>2, DivMod
<1>5. (a + w * b) % b = r
  BY <1>1, <1>2, <1>3, <1>4
<1> QED
  BY <1>3, <1>5 DEF q, r

\* The assumption on the constants, for lemmas on whole numbers.
LEMMA BinsFacts == Bins \in Nat \ {0} /\ Turn \in Nat \ {0} /\ Bins % 4 = 0 /\ Turn % 4 = 0 /\ Quarter \in Nat \ {0}
BY CPRAssumption DEF Quarter

\* The zone nearest to a reference, found in two steps, is a rounded quotient.
LEMMA ZoneIs ==
    ASSUME NEW a \in Int, NEW b \in Nat \ {0}, NEW y \in Int
    PROVE  Zone(a, b, y) = Rounded(a * Bins - y * b, b * Bins)
<1> DEFINE q == a \div b
           m == a % b
           x == m * Bins - y * b
<1>1. Bins \in Nat \ {0}
  BY BinsFacts
<1>2. q \in Int /\ m \in Int /\ a = q * b + m
  BY DivMod
<1> HIDE DEF q, m
<1>3. x \in Int /\ b * Bins \in Nat \ {0}
  BY <1>1, <1>2
<1>4. a * Bins = (q * b) * Bins + m * Bins
  BY <1>1, <1>2, Products
<1>5. (q * b) * Bins = q * (b * Bins)
  BY <1>1, <1>2, Threefold
<1>6. x + q * (b * Bins) = a * Bins - y * b
  BY <1>1, <1>2, <1>4, <1>5
<1>7. Rounded(x + q * (b * Bins), b * Bins) = Rounded(x, b * Bins) + q
  <2> DEFINE t == b * Bins
  <2>1. t \in Nat \ {0}
    BY <1>3
  <2> HIDE DEF x, t
  <2>2. Rounded(x + q * t, t) = Rounded(x, t) + q
    BY <1>2, <1>3, <2>1, RoundedShift
  <2> QED
    BY <2>2 DEF t
<1>8. Zone(a, b, y) = q + Rounded(x, b * Bins)
  BY DEF Zone, q, m
<1>9. Rounded(x, b * Bins) \in Int
  BY <1>3, Rounds
<1> QED
  BY <1>2, <1>6, <1>7, <1>8, <1>9

\* The poles are a whole number of steps from the equator, for frames of either kind.
LEMMA QuarterIs ==
    ASSUME NEW f \in BOOLEAN, NEW surface \in BOOLEAN
    PROVE  /\ Step(f, surface) \in 59 .. 240
           /\ \E q \in Nat : Quarter = q * Step(f, surface)
<1>1. PICK b \in Nat : Bins = 4 * b
  <2>1. Bins \div 4 \in Nat /\ Bins = 4 * (Bins \div 4)
    BY BinsFacts
  <2> QED
    BY <2>1
<1>2. Quarter = 14160 * b
  BY <1>1 DEF Quarter
<1>3. /\ 14160 * b = (240 * b) * 59 /\ 14160 * b = (236 * b) * 60
      /\ 14160 * b = (60 * b) * 236 /\ 14160 * b = (59 * b) * 240
  OBVIOUS
<1>4. Step(f, surface) \in {59, 60, 236, 240}
  BY DEF Step
<1>5. 240 * b \in Nat /\ 236 * b \in Nat /\ 60 * b \in Nat /\ 59 * b \in Nat
  OBVIOUS
<1>6. CASE Step(f, surface) = 59
  BY <1>2, <1>3, <1>5, <1>6
<1>7. CASE Step(f, surface) = 60
  BY <1>2, <1>3, <1>5, <1>7
<1>8. CASE Step(f, surface) = 236
  BY <1>2, <1>3, <1>5, <1>8
<1>9. CASE Step(f, surface) = 240
  BY <1>2, <1>3, <1>5, <1>9
<1> QED
  BY <1>4, <1>6, <1>7, <1>8, <1>9

\* The latitude that a frame expresses is half a step away at most, and no more than 90 degrees.
LEMMA Latitude ==
    ASSUME NEW lat \in Int, Magnitude(lat) <= Quarter, NEW f \in BOOLEAN, NEW surface \in BOOLEAN,
           NEW step, step = Step(f, surface), NEW n, n = Rounded(lat, step)
    PROVE  /\ step \in 59 .. 240
           /\ n \in Int /\ n * step \in Int
           /\ -Quarter <= n * step /\ n * step <= Quarter
           /\ -step <= 2 * (lat - n * step) /\ 2 * (lat - n * step) < step
           /\ (n * step) \div step = n
<1>1. step \in 59 .. 240
  BY QuarterIs
<1>2. n \in Int /\ -step <= 2 * (lat - n * step) /\ 2 * (lat - n * step) < step
  <2>1. step \in Nat \ {0}
    BY <1>1
  <2> QED
    BY <2>1, Rounds
<1>3. PICK q \in Nat : Quarter = q * step
  BY QuarterIs
<1>4. n * step \in Int /\ q * step \in Int /\ -Quarter <= lat /\ lat <= Quarter
  BY <1>1, <1>2, <1>3 DEF Magnitude
<1>5. n <= q
  <2> SUFFICES ASSUME q + 1 <= n PROVE FALSE
    BY <1>2
  <2>1. (q + 1) * step <= n * step /\ (q + 1) * step = q * step + step
    BY <1>1, <1>2, Grows, Products
  <2> QED
    BY <2>1, <1>1, <1>2, <1>3, <1>4
<1>6. -q <= n
  <2> SUFFICES ASSUME n <= -q - 1 PROVE FALSE
    BY <1>2
  <2>1. n * step <= (-q - 1) * step /\ (-q - 1) * step = -(q * step) - step
    BY <1>1, <1>2, Grows, Products
  <2> QED
    BY <2>1, <1>1, <1>2, <1>3, <1>4
<1>7. n * step <= q * step /\ (-q) * step <= n * step /\ (-q) * step = -(q * step)
  BY <1>1, <1>2, <1>5, <1>6, Grows, Products
<1>8. (n * step) \div step = n
  <2> DEFINE x == n * step
  <2>1. x \in Int /\ n * step <= x /\ x < n * step + step /\ step \in Nat \ {0}
    BY <1>1, <1>4
  <2> HIDE DEF x
  <2>2. x \div step = n
    BY <2>1, <1>2, QuotientIs
  <2> QED
    BY <2>2 DEF x
<1> QED
  BY <1>1, <1>2, <1>3, <1>4, <1>7, <1>8

\* There are 1 to 59 zones around a parallel.
LEMMA Zones ==
    ASSUME NEW lat \in Int
    PROVE  /\ cprNLFunction(lat) \in 1 .. 59
           /\ \A f \in BOOLEAN : /\ cprNFunction(lat, f) \in 1 .. 59
                                 /\ \A surface \in BOOLEAN : ZonesAround(lat, f, surface) \in Nat \ {0}
<1> DEFINE passed == {i \in 1 .. 58 : Magnitude(lat) * 1500 >= Transitions[i] * 59 * Bins}
<1>1. IsFiniteSet(1 .. 58) /\ Cardinality(1 .. 58) = 58
  <2>1. 1 \in Int /\ 58 \in Int /\ 58 - 1 + 1 = 58 /\ ~(1 > 58)
    OBVIOUS
  <2> QED
    BY <2>1, FS_Interval
<1>2. IsFiniteSet(passed) /\ Cardinality(passed) <= 58
  BY <1>1, FS_Subset
<1>3. Cardinality(passed) \in Nat
  BY <1>2, FS_CardinalityType
<1>4. cprNLFunction(lat) = 59 - Cardinality(passed)
  BY DEF cprNLFunction
<1>5. cprNLFunction(lat) \in 1 .. 59
  BY <1>2, <1>3, <1>4
<1> QED
  BY <1>5 DEF cprNFunction, ZonesAround

\* Whatever part of an index a frame carries, a reference less than half a period away gives back
\* the rest.
LEMMA ZoneFound ==
    ASSUME NEW m \in Int, NEW a \in Int, NEW b \in Nat \ {0},
           -(b * Bins) <= 2 * (a * Bins - m * b), 2 * (a * Bins - m * b) < b * Bins
    PROVE  Zone(a, b, m % Bins) * Bins + (m % Bins) = m
<1> DEFINE k == m \div Bins
           y == m % Bins
<1>1. Bins \in Nat \ {0}
  BY BinsFacts
<1>2. k \in Int /\ y \in Int /\ m = k * Bins + y
  BY <1>1, DivMod
<1> HIDE DEF k, y
<1>3. k * (b * Bins) = (k * Bins) * b
  BY <1>1, <1>2, Threefold, Products
<1>4. m * b = (k * Bins) * b + y * b
  BY <1>1, <1>2, Products
<1>5. a * Bins - y * b \in Int /\ b * Bins \in Nat \ {0} /\ a * Bins \in Int /\ y * b \in Int /\ (k * Bins) * b \in Int
  BY <1>1, <1>2
<1>6. Rounded(a * Bins - y * b, b * Bins) = k
  BY <1>2, <1>3, <1>4, <1>5, RoundedIs
<1>7. Zone(a, b, y) = k
  BY <1>2, <1>6, ZoneIs
<1> QED
  BY <1>2, <1>7 DEF y

\* Renormalizing loses whole circles and nothing else.
LEMMA Renormal ==
    ASSUME NEW m \in Int, NEW z \in Nat \ {0}
    PROVE  /\ Renormalized(m, z) \in Int
           /\ Renormalized(m, z) % Bins = m % Bins
           /\ \A w \in Int : Renormalized(m + w * (z * Bins), z) = Renormalized(m, z)
<1> DEFINE r == Rounded(m, z * Bins)
<1>1. Bins \in Nat \ {0} /\ z * Bins \in Nat \ {0}
  BY BinsFacts
<1>2. r \in Int
  BY <1>1, Rounds
<1>3. Renormalized(m, z) = m - r * z * Bins
  BY DEF Renormalized
<1> HIDE DEF r
<1>4. /\ r * z \in Int /\ r * z * Bins \in Int /\ r * z * Bins = r * (z * Bins)
      /\ -(r * z) \in Int /\ (-(r * z)) * Bins = -(r * z * Bins)
  BY <1>1, <1>2
<1>5. Renormalized(m, z) = m + (-(r * z)) * Bins
  BY <1>3, <1>4
<1>6. Renormalized(m, z) % Bins = m % Bins
  <2>1. \A k \in Int : (m + k * Bins) % Bins = m % Bins
    BY <1>1, ModShift
  <2> QED
    BY <2>1, <1>4, <1>5
<1>7. ASSUME NEW w \in Int PROVE Renormalized(m + w * (z * Bins), z) = Renormalized(m, z)
  <2>1. Rounded(m + w * (z * Bins), z * Bins) = r + w
    BY <1>1, RoundedShift DEF r
  <2>2. (r + w) * z * Bins = r * z * Bins + w * (z * Bins)
    <3>1. (r + w) * z = r * z + w * z /\ w * z \in Int
      BY <1>2, Products
    <3>2. (r * z + w * z) * Bins = r * z * Bins + w * z * Bins
      BY <3>1, <1>1, <1>4, Products
    <3>3. w * z * Bins = w * (z * Bins)
      BY <1>1, Threefold
    <3> QED
      BY <3>1, <3>2, <3>3
  <2>3. w * (z * Bins) \in Int
    BY <1>1
  <2>4. Renormalized(m + w * (z * Bins), z) = (m + w * (z * Bins)) - (r + w) * z * Bins
    BY <2>1 DEF Renormalized
  <2> QED
    BY <2>2, <2>3, <2>4, <1>3, <1>4
<1> QED
  BY <1>3, <1>4, <1>6, <1>7

\* A latitude is found from its remainder and a reference less than half a zone away.
LEMMA LocalLatitude ==
    ASSUME NEW lat \in Int, Magnitude(lat) <= Quarter, NEW ref \in Int,
           NEW f \in BOOLEAN, NEW surface \in BOOLEAN,
           NEW step, step = Step(f, surface), NEW n, n = Rounded(lat, step),
           2 * Magnitude(lat - ref) < step * (Bins - 2)
    PROVE  /\ AirborneLat(step * (Zone(ref, step * Bins, n % Bins) * Bins + (n % Bins))) = n * step
           /\ 2 * Magnitude(n * step - ref) <= step * Bins
<1>1. /\ step \in 59 .. 240 /\ n \in Int /\ n * step \in Int
      /\ -Quarter <= n * step /\ n * step <= Quarter
      /\ -step <= 2 * (lat - n * step) /\ 2 * (lat - n * step) < step
  BY Latitude
<1>2. Bins \in Nat \ {0} /\ Quarter \in Nat \ {0}
  BY BinsFacts
<1>3. step * (Bins - 2) = step * Bins - 2 * step /\ step * Bins \in Nat \ {0}
  <2>1. step \in Nat \ {0}
    BY <1>1
  <2> QED
    BY <2>1, <1>2
<1> DEFINE e == ref - n * step
<1>4. e \in Int /\ -(step * Bins) <= 2 * e /\ 2 * e <= step * Bins - 1
  BY <1>1, <1>2, <1>3 DEF Magnitude
<1>5. ref * Bins - n * (step * Bins) = e * Bins
  BY <1>1, <1>2, Products, Threefold
<1> HIDE DEF e
<1>6. /\ (-(step * Bins)) * Bins <= (2 * e) * Bins
      /\ (2 * e) * Bins <= (step * Bins - 1) * Bins
  BY <1>2, <1>3, <1>4, Grows
<1>7. /\ (2 * e) * Bins = 2 * (e * Bins) /\ e * Bins \in Int
      /\ (-(step * Bins)) * Bins = -((step * Bins) * Bins)
      /\ (step * Bins - 1) * Bins = (step * Bins) * Bins - Bins
      /\ (step * Bins) * Bins \in Int
  BY <1>2, <1>3, <1>4, Products
<1>8. /\ -((step * Bins) * Bins) <= 2 * (ref * Bins - n * (step * Bins))
      /\ 2 * (ref * Bins - n * (step * Bins)) < (step * Bins) * Bins
  BY <1>2, <1>5, <1>6, <1>7
<1>9. Zone(ref, step * Bins, n % Bins) * Bins + (n % Bins) = n
  BY <1>1, <1>3, <1>8, ZoneFound
<1>10. AirborneLat(step * n) = n * step
  BY <1>1, <1>2 DEF AirborneLat
<1>11. 2 * Magnitude(n * step - ref) <= step * Bins
  BY <1>1, <1>3, <1>4 DEF Magnitude, e
<1> QED
  BY <1>9, <1>10, <1>11

\* So is a longitude, though the reference may be seen the other way round the circle.
LEMMA LocalLongitude ==
    ASSUME NEW lon \in Int, NEW ref \in Int, NEW z \in Nat \ {0}, NEW w \in Int,
           2 * Magnitude(lon + w * Turn - ref) * z * Bins < Turn * (Bins - 2),
           NEW m, m = Rounded(lon * z * Bins, Turn) + w * (z * Bins)
    PROVE  /\ m \in Int
           /\ Zone(ref * z, Turn, m % Bins) * Bins + (m % Bins) = m
           /\ 2 * Magnitude(m * Turn - ref * z * Bins) <= Turn * Bins
<1> DEFINE x == lon * z * Bins
           r == Rounded(x, Turn)
           u == lon + w * Turn - ref
           v == u * (z * Bins)
<1>1. Bins \in Nat \ {0} /\ Turn \in Nat \ {0} /\ z * Bins \in Nat \ {0} /\ x \in Int /\ u \in Int
  BY BinsFacts
<1>2. r \in Int /\ -Turn <= 2 * (x - r * Turn) /\ 2 * (x - r * Turn) < Turn
  BY <1>1, Rounds
<1>3. /\ m = r + w * (z * Bins) /\ w * (z * Bins) \in Int
      /\ (w * (z * Bins)) * Turn = (w * Turn) * (z * Bins)
      /\ (r + w * (z * Bins)) * Turn = r * Turn + (w * (z * Bins)) * Turn
      /\ r * Turn \in Int
  BY <1>1, <1>2, Products, Threefold
<1>4. x = lon * (z * Bins) /\ ref * z * Bins = ref * (z * Bins) /\ ref * (z * Bins) \in Int
  BY <1>1, Threefold
<1>5. /\ v = (lon + w * Turn) * (z * Bins) - ref * (z * Bins)
      /\ (lon + w * Turn) * (z * Bins) = lon * (z * Bins) + (w * Turn) * (z * Bins)
  BY <1>1, Products
<1>6. v \in Int /\ 2 * v < Turn * Bins - 2 * Turn /\ -(Turn * Bins - 2 * Turn) < 2 * v
  <2>1. 2 * Magnitude(u) * z * Bins = 2 * (Magnitude(u) * (z * Bins))
    <3>1. Magnitude(u) \in Int
      BY <1>1 DEF Magnitude
    <3> QED
      BY <3>1, <1>1, Threefold
  <2>2. Turn * (Bins - 2) = Turn * Bins - 2 * Turn
    BY <1>1
  <2>3. CASE u < 0
    <3>1. Magnitude(u) = -u /\ (-u) * (z * Bins) = -v /\ v \in Int
      BY <2>3, <1>1 DEF Magnitude
    <3>2. v <= 0
      BY <2>3, <1>1, Grows, <3>1
    <3> QED
      BY <3>1, <3>2, <2>1, <2>2, <1>1
  <2>4. CASE u >= 0
    <3>1. Magnitude(u) = u /\ v \in Int
      BY <2>4, <1>1 DEF Magnitude
    <3>2. v >= 0
      BY <2>4, <1>1, Grows, <3>1
    <3> QED
      BY <3>1, <3>2, <2>1, <2>2, <1>1
  <2> QED
    BY <2>3, <2>4, <1>1
<1> HIDE DEF x, r, u, v
<1>7. m \in Int /\ m * Turn - ref * z * Bins = v - (x - r * Turn)
  <2>1. m \in Int
    BY <1>2, <1>3
  <2>2. m * Turn = r * Turn + (w * Turn) * (z * Bins)
    BY <1>3
  <2>3. v = (x + (w * Turn) * (z * Bins)) - ref * (z * Bins)
    BY <1>4, <1>5
  <2>4. (w * Turn) * (z * Bins) \in Int
    BY <1>1
  <2> QED
    BY <2>1, <2>2, <2>3, <2>4, <1>1, <1>3, <1>4
<1>8. Turn * Bins \in Nat
  BY <1>1
<1>9. -(Turn * Bins) <= 2 * (ref * z * Bins - m * Turn) /\ 2 * (ref * z * Bins - m * Turn) < Turn * Bins
  BY <1>1, <1>2, <1>3, <1>4, <1>6, <1>7, <1>8
<1>10. Zone(ref * z, Turn, m % Bins) * Bins + (m % Bins) = m
  <2>1. ref * z \in Int
    BY <1>1
  <2> QED
    BY <2>1, <1>1, <1>7, <1>9, ZoneFound
<1>11. m * Turn \in Int
  BY <1>1, <1>7
<1>12. 2 * Magnitude(m * Turn - ref * z * Bins) <= Turn * Bins
  BY <1>4, <1>8, <1>9, <1>11 DEF Magnitude
<1> QED
  BY <1>7, <1>10, <1>12

-----------------------------------------------------------------------------
(* Local decoding. *)

\* The coordinates of a position.
LEMMA Place ==
    ASSUME NEW p \in Positions
    PROVE  /\ p.lat \in Int /\ p.lon \in Int
           /\ Magnitude(p.lat) <= Quarter /\ 2 * Magnitude(p.lon) <= Turn
BY DEF Positions

\* What a transponder sends of a position.
LEMMA SentAs ==
    ASSUME NEW p \in Positions, NEW f \in BOOLEAN, NEW surface \in BOOLEAN,
           NEW n, n = Rounded(p.lat, Step(f, surface)),
           NEW lat, lat = n * Step(f, surface),
           NEW z, z = ZonesAround(lat, f, surface),
           NEW m, m = Rounded(p.lon * z * Bins, Turn)
    PROVE  /\ n \in Int /\ lat \in Int /\ z \in Nat \ {0} /\ m \in Int
           /\ Expressible(p, f, surface) = [lat |-> lat, lon |-> Renormalized(m, z)]
           /\ Encoded(p, f, surface) = [lat |-> n % Bins, lon |-> m % Bins]
<1>1. p.lat \in Int /\ p.lon \in Int /\ Magnitude(p.lat) <= Quarter
  BY Place
<1>2. n \in Int /\ lat \in Int /\ lat \div Step(f, surface) = n
  BY <1>1, Latitude
<1>3. z \in Nat \ {0}
  BY <1>2, Zones
<1>4. Bins \in Nat \ {0} /\ Turn \in Nat \ {0}
  BY BinsFacts
<1>5. m \in Int
  <2>1. p.lon * z * Bins \in Int
    BY <1>1, <1>3, <1>4
  <2> QED
    BY <2>1, <1>4, Rounds
<1>6. Expressible(p, f, surface) = [lat |-> lat, lon |-> Renormalized(m, z)]
  BY DEF Expressible
<1>7. Renormalized(m, z) % Bins = m % Bins
  BY <1>3, <1>5, Renormal
<1>8. Encoded(p, f, surface) = [lat |-> n % Bins, lon |-> m % Bins]
  BY <1>2, <1>6, <1>7 DEF Encoded
<1> QED
  BY <1>2, <1>3, <1>5, <1>6, <1>8

\* A longitude lies around the zero meridian when it is that of a position.
LEMMA Central ==
    ASSUME NEW lon \in Int, 2 * Magnitude(lon) <= Turn, NEW z \in Nat \ {0},
           NEW m, m = Rounded(lon * z * Bins, Turn)
    PROVE  m \in Int /\ 2 * m <= z * Bins /\ -(z * Bins) <= 2 * m
<1> DEFINE y == z * Bins
<1>1. Bins \in Nat \ {0} /\ Turn \in Nat \ {0} /\ Bins % 4 = 0
  BY BinsFacts
<1>2. y \in Nat \ {0} /\ lon * z * Bins = lon * y /\ lon * y \in Int
  BY <1>1, Threefold
<1>3. PICK h \in Nat : y = 2 * h
  <2>1. Bins \div 4 \in Nat /\ Bins = 4 * (Bins \div 4)
    BY <1>1
  <2>2. z * (4 * (Bins \div 4)) = 2 * (2 * (z * (Bins \div 4))) /\ 2 * (z * (Bins \div 4)) \in Nat
    BY <2>1
  <2> QED
    BY <2>1, <2>2
<1> HIDE DEF y
<1>4. m \in Int /\ -Turn <= 2 * (lon * y - m * Turn) /\ 2 * (lon * y - m * Turn) < Turn
  BY <1>1, <1>2, Rounds
<1>5. -Turn <= 2 * lon /\ 2 * lon <= Turn
  BY <1>1 DEF Magnitude
<1>6. (2 * lon) * y <= Turn * y /\ (-Turn) * y <= (2 * lon) * y
  BY <1>1, <1>2, <1>5, Grows
<1>7. /\ Turn * y = 2 * (h * Turn) /\ (-Turn) * y = -(2 * (h * Turn)) /\ (2 * lon) * y = 2 * (lon * y)
      /\ h * Turn \in Int /\ m * Turn \in Int
  BY <1>1, <1>2, <1>3, <1>4
<1>8. m <= h
  <2> SUFFICES ASSUME h + 1 <= m PROVE FALSE
    BY <1>4
  <2>1. (h + 1) * Turn <= m * Turn /\ (h + 1) * Turn = h * Turn + Turn
    BY <1>1, <1>4, Grows, Products
  <2> QED
    BY <2>1, <1>1, <1>2, <1>4, <1>6, <1>7
<1>9. -h <= m
  <2> SUFFICES ASSUME m <= -h - 1 PROVE FALSE
    BY <1>4
  <2>1. m * Turn <= (-h - 1) * Turn /\ (-h - 1) * Turn = -(h * Turn) - Turn
    BY <1>1, <1>4, Grows, Products
  <2> QED
    BY <2>1, <1>1, <1>2, <1>4, <1>6, <1>7
<1> QED
  BY <1>3, <1>4, <1>8, <1>9 DEF y

\* The shorter way round from one longitude to another, by which the second is passed in whole turns.
LEMMA Way ==
    ASSUME NEW a \in Int, NEW b \in Int, 2 * Magnitude(a) <= Turn, 2 * Magnitude(b) <= Turn
    PROVE  \E w \in Int : /\ Magnitude(a + w * Turn - b) = Apart(a, b)
                          /\ 2 * Magnitude(a - b) <= Turn => w = 0
<1>1. Turn \in Nat \ {0}
  BY BinsFacts
<1>2. CASE 2 * Magnitude(a - b) <= Turn
  <2>1. a + 0 * Turn - b = a - b
    BY <1>1
  <2>2. Magnitude(a - b) \in Int /\ ~(2 * Magnitude(a - b) > Turn)
    BY <1>1, <1>2 DEF Magnitude
  <2>3. Magnitude(a + 0 * Turn - b) = Apart(a, b)
    BY <2>1, <2>2 DEF Apart
  <2> QED
    BY <2>3
<1>3. CASE ~(2 * Magnitude(a - b) <= Turn) /\ a < b
  <2>1. a + 1 * Turn - b = Turn - (b - a)
    BY <1>1
  <2> QED
    BY <2>1, <1>1, <1>3 DEF Apart, Magnitude
<1>4. CASE ~(2 * Magnitude(a - b) <= Turn) /\ a >= b
  <2>1. a + (-1) * Turn - b = -(Turn - (a - b))
    BY <1>1
  <2> QED
    BY <2>1, <1>1, <1>4 DEF Apart, Magnitude
<1> QED
  BY <1>2, <1>3, <1>4

\* What local decoding finds of one frame.
LEMMA LocalFinds ==
    ASSUME NEW p \in Positions, NEW ref \in Positions, NEW f \in BOOLEAN, NEW surface \in BOOLEAN,
           NEW at, at = Expressible(p, f, surface),
           NEW zones, zones = ZonesAround(at.lat, f, surface),
           NEW r, r = DecodeCPRRelative(ref, Encoded(p, f, surface), f, surface),
           2 * Magnitude(p.lat - ref.lat) < Step(f, surface) * (Bins - 2),
           2 * Apart(p.lon, ref.lon) * zones * Bins < Turn * (Bins - 2)
    PROVE  \/ /\ r.err = 0 /\ r.lat = at.lat /\ Renormalized(r.lon, zones) = at.lon
              /\ 2 * Magnitude(p.lon - ref.lon) < Turn => 2 * Magnitude(r.lon) <= zones * Bins
           \/ r.err = -1 /\ ~(2 * Magnitude(p.lon - ref.lon) < Turn)
<1> DEFINE step == Step(f, surface)
           n == Rounded(p.lat, step)
           lat == n * step
           m == Rounded(p.lon * zones * Bins, Turn)
           frame == Encoded(p, f, surface)
<1>1. /\ p.lat \in Int /\ p.lon \in Int /\ Magnitude(p.lat) <= Quarter /\ 2 * Magnitude(p.lon) <= Turn
      /\ ref.lat \in Int /\ ref.lon \in Int /\ Magnitude(ref.lat) <= Quarter /\ 2 * Magnitude(ref.lon) <= Turn
      /\ Bins \in Nat \ {0} /\ Turn \in Nat \ {0} /\ Quarter \in Nat \ {0}
  BY Place, BinsFacts
<1>2. at.lat = lat
  BY SentAs
<1>3. /\ n \in Int /\ lat \in Int /\ zones \in Nat \ {0} /\ m \in Int
      /\ at = [lat |-> lat, lon |-> Renormalized(m, zones)]
      /\ frame = [lat |-> n % Bins, lon |-> m % Bins]
  BY <1>2, SentAs
<1>4. /\ AirborneLat(step * (Zone(ref.lat, step * Bins, n % Bins) * Bins + (n % Bins))) = lat
      /\ 2 * Magnitude(lat - ref.lat) <= step * Bins
  BY <1>1, LocalLatitude
<1>5. ~(Magnitude(lat) > Quarter)
  <2>1. -Quarter <= lat /\ lat <= Quarter
    BY <1>1, Latitude
  <2> QED
    BY <2>1, <1>1, <1>3 DEF Magnitude
<1>6. PICK w \in Int : /\ Magnitude(p.lon + w * Turn - ref.lon) = Apart(p.lon, ref.lon)
                       /\ 2 * Magnitude(p.lon - ref.lon) <= Turn => w = 0
  BY <1>1, Way
<1> DEFINE mw == m + w * (zones * Bins)
<1>7. /\ mw \in Int
      /\ Zone(ref.lon * zones, Turn, mw % Bins) * Bins + (mw % Bins) = mw
      /\ 2 * Magnitude(mw * Turn - ref.lon * zones * Bins) <= Turn * Bins
  <2>1. 2 * Magnitude(p.lon + w * Turn - ref.lon) * zones * Bins < Turn * (Bins - 2)
    BY <1>6
  <2>2. p.lon \in Int /\ ref.lon \in Int /\ zones \in Nat \ {0}
    BY <1>1, <1>3
  <2>3. m = Rounded(p.lon * zones * Bins, Turn)
    OBVIOUS
  <2> HIDE DEF m
  <2> QED
    BY <2>1, <2>2, <2>3, LocalLongitude
<1>8. mw % Bins = m % Bins
  <2>1. w * (zones * Bins) = (w * zones) * Bins /\ w * zones \in Int
    <3>1. w \in Int /\ zones \in Int /\ Bins \in Int
      BY <1>1, <1>3
    <3> QED
      BY <3>1, Threefold
  <2>2. \A k \in Int : (m + k * Bins) % Bins = m % Bins
    <3>1. m \in Int /\ Bins \in Nat \ {0}
      BY <1>1, <1>3
    <3> HIDE DEF m
    <3> QED
      BY <3>1, ModShift
  <2> QED
    BY <2>1, <2>2
<1>9. m \in Int /\ 2 * m <= zones * Bins /\ -(zones * Bins) <= 2 * m
  BY <1>1, <1>3, Central
<1>10. frame.lat = n % Bins /\ frame.lon = m % Bins
  <2>1. frame = [lat |-> n % Bins, lon |-> m % Bins]
    BY <1>3
  <2> HIDE DEF frame, n, m
  <2> QED
    BY <2>1
<1> DEFINE rlon == IF 2 * mw > zones * Bins THEN mw - zones * Bins ELSE mw
           far == \/ 2 * Magnitude(lat - ref.lat) > step * Bins
                  \/ 2 * Magnitude(rlon * Turn - ref.lon * zones * Bins) > Turn * Bins
<1> HIDE DEF n, m, frame, step, mw, lat, rlon
<1>11. r = IF Magnitude(lat) > Quarter \/ far THEN Failure(-1) ELSE Success(lat, rlon)
  <2>1. Zone(ref.lon * zones, Turn, frame.lon) * Bins + frame.lon = mw
    BY <1>7, <1>8, <1>10
  <2>2. AirborneLat(step * (Zone(ref.lat, step * Bins, frame.lat) * Bins + frame.lat)) = lat
    BY <1>4, <1>10
  <2>3. zones = ZonesAround(lat, f, surface)
    BY <1>2
  <2> QED
    BY <2>1, <2>2, <2>3 DEF DecodeCPRRelative, step, frame, rlon
<1>12. zones * Bins \in Nat /\ w * (zones * Bins) \in Int
  BY <1>1, <1>3, <1>6
<1>13. Renormalized(rlon, zones) = Renormalized(m, zones)
  <2>1. CASE 2 * mw > zones * Bins
    <3>1. (w - 1) * (zones * Bins) = w * (zones * Bins) - zones * Bins
      BY <1>6, <1>12
    <3>2. rlon = m + (w - 1) * (zones * Bins)
      BY <2>1, <3>1, <1>9, <1>12 DEF rlon, mw
    <3> QED
      BY <3>2, <1>3, <1>6, Renormal
  <2>2. CASE ~(2 * mw > zones * Bins)
    BY <2>2, <1>3, <1>6, Renormal DEF rlon, mw
  <2> QED
    BY <2>1, <2>2
<1>14. CASE w = 0
  <2>1. mw = m
    BY <1>14, <1>9, <1>12 DEF mw
  <2>2. rlon = m /\ 2 * Magnitude(m) <= zones * Bins
    BY <2>1, <1>9, <1>12 DEF rlon, Magnitude
  <2>3. ~(2 * Magnitude(lat - ref.lat) > step * Bins) /\ ~(2 * Magnitude(m * Turn - ref.lon * zones * Bins) > Turn * Bins)
    <3>1. /\ Magnitude(lat - ref.lat) \in Int /\ step * Bins \in Int
          /\ Magnitude(m * Turn - ref.lon * zones * Bins) \in Int /\ Turn * Bins \in Int
      <4>1. lat - ref.lat \in Int /\ m * Turn - ref.lon * zones * Bins \in Int /\ Turn * Bins \in Int
        BY <1>1, <1>3, <1>9
      <4>2. step \in Int
        BY QuarterIs DEF step
      <4> QED
        BY <4>1, <4>2, <1>1 DEF Magnitude
    <3> QED
      BY <3>1, <2>1, <1>4, <1>7
  <2>4. r = Success(lat, m)
    BY <2>2, <2>3, <1>5, <1>11
  <2>5. r.err = 0 /\ r.lat = lat /\ r.lon = m
    BY <2>4 DEF Success
  <2> QED
    BY <2>2, <2>5, <1>2, <1>3, <1>13
<1>15. CASE w # 0
  <2>1. ~(2 * Magnitude(p.lon - ref.lon) < Turn)
    <3>1. Magnitude(p.lon - ref.lon) \in Int
      BY <1>1 DEF Magnitude
    <3> QED
      BY <3>1, <1>1, <1>6, <1>15
  <2>2. CASE far
    BY <2>1, <2>2, <1>11 DEF Failure
  <2>3. CASE ~far
    <3>1. r = Success(lat, rlon)
      BY <2>3, <1>5, <1>11
    <3>2. r.err = 0 /\ r.lat = lat /\ r.lon = rlon
      BY <3>1 DEF Success
    <3> QED
      BY <3>2, <2>1, <1>2, <1>3, <1>13
  <2> QED
    BY <2>2, <2>3
<1> QED
  BY <1>14, <1>15

-----------------------------------------------------------------------------
(* The invariant, and local decoding of every frame that is under way. *)

\* Where frames were sent, and whether since the last move or before.
Sendings == [from : Positions, age : {0, 1}]

SentSets == UNION {[which -> Sendings] : which \in SUBSET BOOLEAN}

TypeOK ==
    signal \in
        [kind : {"flight"}, surface : BOOLEAN, at : Positions, moves : Nat, sent : SentSets, fflag : BOOLEAN]
        \cup [kind : {"frame"}, bits : Lengths, fixBits : 0 .. 2, error : SUBSET Nat]
        \cup [kind : {"climb"}, code : SUBSET Pulses]

\* A frame was sent where the aircraft is, or one move before; and two that are equally old, from
\* one place.
Followed ==
    signal.kind = "flight" =>
        /\ \A f \in DOMAIN signal.sent :
              IF signal.sent[f].age = 0 THEN signal.sent[f].from = signal.at
              ELSE \E d \in Moves[signal.surface] : signal.at = Moved(signal.sent[f].from, d)
        /\ \A f, g \in DOMAIN signal.sent :
              signal.sent[f].age = signal.sent[g].age => signal.sent[f].from = signal.sent[g].from

FlightInv == TypeOK /\ Followed

\* A move leads to a position, and around the circle when it passes the antimeridian.
LEMMA MovedPlace ==
    ASSUME NEW p \in Positions, NEW surface \in BOOLEAN, NEW d \in Moves[surface],
           Magnitude(p.lat + d.lat) <= Quarter
    PROVE  /\ Moved(p, d) \in Positions
           /\ Moved(p, d).lat = p.lat + d.lat
           /\ \E w \in Int : Moved(p, d).lon = p.lon + d.lon + w * Turn
<1>1. /\ p.lat \in Int /\ p.lon \in Int /\ 2 * Magnitude(p.lon) <= Turn
      /\ Bins \in Nat \ {0} /\ Turn \in Nat \ {0}
  BY Place, BinsFacts
<1>2. d \in [lat : Int, lon : Int] /\ Pairable(d, surface)
  BY CodecsAssumption
<1>3. d.lat \in Int /\ d.lon \in Int
  BY <1>2
<1>4. 2 * Magnitude(d.lon) < Turn
  <2> DEFINE c == (IF surface THEN 4 ELSE 1) * 59 * 58
             m == Magnitude(d.lon)
  <2>1. 2 * m * (IF surface THEN 4 ELSE 1) * 59 * 58 * Bins + (59 + 58) * Turn < Turn * Bins
    BY <1>2 DEF Pairable
  <2>2. m \in Nat
    BY <1>3 DEF Magnitude
  <2> HIDE DEF m
  <2>3. 2 * m * (IF surface THEN 4 ELSE 1) * 59 * 58 * Bins = (2 * m * c) * Bins /\ c \in Nat /\ c >= 1
    BY <2>2, <1>1
  <2> HIDE DEF c
  <2>4. SUFFICES ASSUME Turn <= 2 * m PROVE FALSE
    BY <2>2, <1>1 DEF m
  <2>5. 2 * m <= 2 * m * c
    <3>1. 1 * (2 * m) <= c * (2 * m) /\ c * (2 * m) = 2 * m * c
      BY <2>2, <2>3, Grows, Products
    <3> QED
      BY <3>1, <2>2
  <2>6. Turn * Bins <= (2 * m * c) * Bins
    BY <2>2, <2>3, <2>4, <2>5, <1>1, Grows
  <2>7. Turn * Bins \in Nat /\ (2 * m * c) * Bins \in Nat
    BY <2>2, <2>3, <1>1
  <2> QED
    BY <2>1, <2>3, <2>6, <2>7, <1>1
<1> DEFINE lon == p.lon + d.lon
           q == [lat |-> p.lat + d.lat,
                 lon |-> IF 2 * lon > Turn THEN lon - Turn ELSE IF 2 * lon < -Turn THEN lon + Turn ELSE lon]
<1>5. Moved(p, d) = q
  BY DEF Moved
<1>6. lon \in Int /\ lon <= Turn /\ -Turn <= lon
  BY <1>1, <1>3, <1>4 DEF Magnitude
<1>7. q.lat = p.lat + d.lat /\ q.lat \in Int
  BY <1>1, <1>3
<1>8. q.lon \in Int /\ -Turn <= 2 * q.lon /\ 2 * q.lon <= Turn
  BY <1>1, <1>6
<1>9. \E w \in Int : q.lon = lon + w * Turn
  <2>1. lon - Turn = lon + (-1) * Turn /\ lon + Turn = lon + 1 * Turn /\ lon = lon + 0 * Turn
    BY <1>1, <1>6
  <2>2. q.lon = lon - Turn \/ q.lon = lon + Turn \/ q.lon = lon
    OBVIOUS
  <2> HIDE DEF lon, q
  <2> QED
    BY <2>1, <2>2
<1>10. q \in Positions
  <2>1. q \in [lat : Int, lon : Int]
    BY <1>7, <1>8
  <2>2. 2 * Magnitude(q.lon) <= Turn
    BY <1>1, <1>8 DEF Magnitude
  <2> QED
    BY <2>1, <2>2, <1>7 DEF Positions
<1> QED
  BY <1>5, <1>7, <1>9, <1>10

\* The invariant holds of the first signals.
LEMMA InitFlies == Init => FlightInv
<1> SUFFICES ASSUME Init PROVE FlightInv
  OBVIOUS
<1>1. CASE signal \in Flights
  <2>1. /\ signal.kind = "flight" /\ signal.sent = <<>> /\ signal.at \in Starts
        /\ signal \in [kind : {"flight"}, surface : BOOLEAN, at : Starts, moves : {0},
                       sent : {<<>>}, fflag : {FALSE}]
    BY <1>1 DEF Flights
  <2>2. DOMAIN <<>> = {}
    OBVIOUS
  <2>3. <<>> \in [{} -> Sendings]
    OBVIOUS
  <2>4. <<>> \in SentSets
    BY <2>3 DEF SentSets
  <2>5. Starts \subseteq Positions
    BY CodecsAssumption
  <2>6. TypeOK
    <3>1. /\ signal.kind \in {"flight"} /\ signal.surface \in BOOLEAN /\ signal.at \in Positions
          /\ signal.moves \in Nat /\ signal.sent \in SentSets /\ signal.fflag \in BOOLEAN
      <4>1. signal.surface \in BOOLEAN /\ signal.moves \in Nat
        BY <2>1
      <4>2. signal.fflag \in BOOLEAN
        BY <2>1
      <4>3. signal.sent \in SentSets
        BY <2>1, <2>4, Zenon
      <4> QED
        BY <4>1, <4>2, <4>3, <2>1, <2>5
    <3>2. signal = [kind |-> signal.kind, surface |-> signal.surface, at |-> signal.at,
                    moves |-> signal.moves, sent |-> signal.sent, fflag |-> signal.fflag]
      BY <2>1
    <3>3. signal \in [kind : {"flight"}, surface : BOOLEAN, at : Positions, moves : Nat,
                      sent : SentSets, fflag : BOOLEAN]
      BY <3>1, <3>2
    <3> QED
      BY <3>3 DEF TypeOK
  <2> QED
    BY <2>1, <2>2, <2>6 DEF FlightInv, Followed
<1>2. CASE signal \in Frames
  BY <1>2 DEF Frames, FlightInv, TypeOK, Followed
<1>3. CASE signal \in Climbs
  BY <1>3 DEF Climbs, FlightInv, TypeOK, Followed
<1> QED
  BY <1>1, <1>2, <1>3 DEF Init

\* And every step keeps it.
LEMMA StepFlies == FlightInv /\ [Next]_signal => FlightInv'
<1> SUFFICES ASSUME FlightInv, [Next]_signal PROVE FlightInv'
  OBVIOUS
<1>1. CASE UNCHANGED signal
  BY <1>1 DEF FlightInv, TypeOK, Followed
<1>2. ASSUME Move PROVE FlightInv'
  <2>1. PICK d \in Moves[signal.surface] :
          /\ Magnitude(signal.at.lat + d.lat) <= Quarter
          /\ signal' = [signal EXCEPT !.at = Moved(@, d), !.moves = @ + 1,
                           !.sent = [f \in {g \in DOMAIN @ : @[g].age = 0} |-> [@[f] EXCEPT !.age = 1]]]
    BY <1>2 DEF Move
  <2>2. /\ signal.kind = "flight"
        /\ signal \in [kind : {"flight"}, surface : BOOLEAN, at : Positions, moves : Nat,
                       sent : SentSets, fflag : BOOLEAN]
    BY <1>2 DEF Move, FlightInv, TypeOK
  <2>3. PICK which \in SUBSET BOOLEAN : signal.sent \in [which -> Sendings]
    BY <2>2 DEF SentSets
  <2> DEFINE young == {g \in DOMAIN signal.sent : signal.sent[g].age = 0}
             sent == [f \in young |-> [signal.sent[f] EXCEPT !.age = 1]]
             at == Moved(signal.at, d)
  <2>4. signal' = [signal EXCEPT !.at = at, !.moves = @ + 1, !.sent = sent]
    BY <2>1
  <2>5. at \in Positions
    BY <2>1, <2>2, MovedPlace
  <2>6. young \in SUBSET BOOLEAN /\ young \subseteq which
    BY <2>3
  <2>7. \A f \in young : sent[f] \in Sendings /\ sent[f].age = 1 /\ sent[f].from = signal.sent[f].from
    BY <2>3, <2>6 DEF Sendings
  <2>8. sent \in [young -> Sendings]
    BY <2>7
  <2> HIDE DEF young, at
  <2>9. sent \in SentSets
    BY <2>6, <2>8 DEF SentSets
  <2> HIDE DEF sent
  <2>10. /\ signal'.kind = "flight" /\ signal'.surface = signal.surface /\ signal'.at = at
         /\ signal'.sent = sent /\ TypeOK'
    <3>1. signal.moves \in Nat /\ signal.moves + 1 \in Nat
      BY <2>2
    <3> DEFINE moves == signal.moves + 1
    <3>2. signal' = [signal EXCEPT !.at = at, !.moves = moves, !.sent = sent]
      BY <2>2, <2>4
    <3> HIDE DEF moves
    <3>3. /\ signal' \in [kind : {"flight"}, surface : BOOLEAN, at : Positions, moves : Nat,
                          sent : SentSets, fflag : BOOLEAN]
          /\ signal'.surface = signal.surface /\ signal'.at = at /\ signal'.sent = sent
      BY <2>2, <2>5, <2>9, <3>1, <3>2 DEF moves
    <3> QED
      BY <3>3 DEF TypeOK
  <2>11. \A f \in young : signal.sent[f].from = signal.at
    BY <2>2 DEF FlightInv, Followed, young
  <2>12. DOMAIN sent = young
    BY <2>8
  <2>13. \A f \in young : signal'.sent[f].age = 1 /\ signal'.sent[f].from = signal.at
    BY <2>7, <2>10, <2>11
  <2>14. signal'.at = Moved(signal.at, d) /\ d \in Moves[signal'.surface] /\ DOMAIN signal'.sent = young
    BY <2>1, <2>10, <2>12 DEF at
  <2>15. Followed'
    BY <2>13, <2>14 DEF Followed
  <2> QED
    BY <2>10, <2>15 DEF FlightInv
<1>3. ASSUME Send PROVE FlightInv'
  <2>1. PICK f \in BOOLEAN :
         signal' = [signal EXCEPT !.fflag = f,
             !.sent = [g \in DOMAIN @ \cup {f} |-> IF g = f THEN [from |-> signal.at, age |-> 0] ELSE @[g]]]
    BY <1>3 DEF Send
  <2>2. /\ signal.kind = "flight"
        /\ signal \in [kind : {"flight"}, surface : BOOLEAN, at : Positions, moves : Nat,
                       sent : SentSets, fflag : BOOLEAN]
    BY <1>3 DEF Send, FlightInv, TypeOK
  <2>3. PICK which \in SUBSET BOOLEAN : signal.sent \in [which -> Sendings]
    BY <2>2 DEF SentSets
  <2> DEFINE new == [from |-> signal.at, age |-> 0]
             sent == [g \in which \cup {f} |-> IF g = f THEN new ELSE signal.sent[g]]
  <2>4. signal' = [signal EXCEPT !.fflag = f, !.sent = sent]
    BY <2>1, <2>3
  <2>5. new \in Sendings /\ new.from = signal.at /\ new.age = 0
    BY <2>2 DEF Sendings
  <2> HIDE DEF new
  <2>6. sent \in [which \cup {f} -> Sendings] /\ DOMAIN sent = which \cup {f}
    BY <2>3, <2>5
  <2>7. sent \in SentSets
    <3>1. which \cup {f} \in SUBSET BOOLEAN
      OBVIOUS
    <3> QED
      BY <3>1, <2>6 DEF SentSets
  <2>8. /\ sent[f].from = signal.at /\ sent[f].age = 0
        /\ \A g \in which \ {f} : sent[g] = signal.sent[g]
    BY <2>5
  <2> HIDE DEF sent
  <2>9. /\ signal'.kind = "flight" /\ signal'.surface = signal.surface /\ signal'.at = signal.at
        /\ signal'.sent = sent /\ TypeOK'
    BY <2>2, <2>4, <2>7 DEF TypeOK
  <2>10. \A g \in which : /\ g \in DOMAIN signal.sent
                          /\ signal.sent[g].age = 0 => signal.sent[g].from = signal.at
    BY <2>2, <2>3 DEF FlightInv, Followed
  <2>11. Followed'
    <3>1. ASSUME NEW g \in which \cup {f}
          PROVE  IF sent[g].age = 0 THEN sent[g].from = signal.at
                 ELSE \E d \in Moves[signal.surface] : signal.at = Moved(sent[g].from, d)
      <4>1. CASE g = f
        BY <4>1, <2>8
      <4>2. CASE g # f
        BY <4>2, <2>2, <2>8, <2>10 DEF FlightInv, Followed
      <4> QED
        BY <4>1, <4>2
    <3>2. ASSUME NEW g \in which \cup {f}, NEW h \in which \cup {f}, sent[g].age = sent[h].age
          PROVE  sent[g].from = sent[h].from
      <4>1. CASE sent[g].age = 0
        BY <4>1, <3>1, <3>2
      <4>2. CASE sent[g].age # 0
        <5>1. g \in which \ {f} /\ h \in which \ {f}
          BY <4>2, <3>2, <2>8
        <5> QED
          BY <5>1, <3>2, <2>2, <2>8, <2>10 DEF FlightInv, Followed
      <4> QED
        BY <4>1, <4>2
    <3> QED
      BY <3>1, <3>2, <2>6, <2>9 DEF Followed
  <2> QED
    BY <2>9, <2>11 DEF FlightInv
<1>4. ASSUME Invert PROVE FlightInv'
  <2>1. PICK i \in Exposed[signal.bits] \ signal.error : signal' = [signal EXCEPT !.error = @ \cup {i}]
    BY <1>4 DEF Invert
  <2>2. signal.kind = "frame" /\ signal \in [kind : {"frame"}, bits : Lengths, fixBits : 0 .. 2, error : SUBSET Nat]
    BY <1>4 DEF Invert, FlightInv, TypeOK
  <2>3. i \in 5 .. signal.bits - 1
    BY <2>2, CodecsAssumption
  <2>4. i \in Nat
    <3>1. signal.bits \in Int
      BY <2>2 DEF Lengths, ShortBits, LongBits
    <3> QED
      BY <2>3, <3>1
  <2>5. signal.error \cup {i} \in SUBSET Nat
    BY <2>2, <2>4
  <2>6. signal' \in [kind : {"frame"}, bits : Lengths, fixBits : 0 .. 2, error : SUBSET Nat]
    BY <2>1, <2>2, <2>5
  <2> QED
    BY <2>6 DEF FlightInv, TypeOK, Followed
<1>5. ASSUME Climb PROVE FlightInv'
  <2>1. PICK p \in Climbing(signal.code) : signal' = [signal EXCEPT !.code = Xor(@, {p})]
    BY <1>5 DEF Climb
  <2>2. signal.kind = "climb" /\ signal \in [kind : {"climb"}, code : SUBSET Pulses]
    BY <1>5 DEF Climb, FlightInv, TypeOK
  <2>3. p \in Pulses
    BY <2>1 DEF Climbing
  <2>4. Xor(signal.code, {p}) \in SUBSET Pulses
    BY <2>2, <2>3 DEF Xor
  <2>5. signal' \in [kind : {"climb"}, code : SUBSET Pulses]
    BY <2>1, <2>2, <2>4
  <2> QED
    BY <2>5 DEF FlightInv, TypeOK, Followed
<1> QED
  BY <1>1, <1>2, <1>3, <1>4, <1>5 DEF Next

\* For every accuracy, start, move and reference: local decoding finds the position from one frame
\* and a reference less than half a zone away, unless the antimeridian lies between them (cpr.go,
\* decodeCPRRelative).
THEOREM LocalInvertsAlways == Spec => []LocalInverts
<1>1. FlightInv => LocalInverts
  <2> SUFFICES ASSUME FlightInv, signal.kind = "flight",
                      NEW f \in DOMAIN signal.sent, NEW ref \in Receivers,
                      Within(signal.sent[f].from, ref, f)
               PROVE  LET p == signal.sent[f].from
                          r == DecodeCPRRelative(ref, Frame(f), f, signal.surface)
                          zones == ZonesAround(Sent(f).lat, f, signal.surface)
                          sameSide == 2 * Magnitude(p.lon - ref.lon) < Turn
                      IN \/ /\ r.err = 0 /\ r.lat = Sent(f).lat /\ Renormalized(r.lon, zones) = Sent(f).lon
                            /\ sameSide => 2 * Magnitude(r.lon) <= zones * Bins
                         \/ r.err = -1 /\ ~sameSide
    BY DEF LocalInverts
  <2>1. /\ signal.surface \in BOOLEAN
        /\ f \in BOOLEAN /\ signal.sent[f].from \in Positions
    <3>1. /\ signal \in [kind : {"flight"}, surface : BOOLEAN, at : Positions, moves : Nat,
                       sent : SentSets, fflag : BOOLEAN]
      BY DEF FlightInv, TypeOK
    <3>2. PICK which \in SUBSET BOOLEAN : signal.sent \in [which -> Sendings]
      BY <3>1 DEF SentSets
    <3> QED
      BY <3>1, <3>2 DEF Sendings
  <2>2. ref \in Positions
    BY CodecsAssumption
  <2> DEFINE p == signal.sent[f].from
             zones == ZonesAround(Sent(f).lat, f, signal.surface)
  <2>3. /\ 2 * Magnitude(p.lat - ref.lat) < Step(f, signal.surface) * (Bins - 2)
        /\ 2 * Apart(p.lon, ref.lon) * zones * Bins < Turn * (Bins - 2)
    BY DEF Within
  <2> QED
    BY <2>1, <2>2, <2>3, LocalFinds DEF Sent, Frame
<1> QED
  BY <1>1, InitFlies, StepFlies, PTL DEF Spec

-----------------------------------------------------------------------------
(* Global decoding. *)

\* The longitude in steps of so many zones.
InSteps(lon, zones) == Rounded(lon * zones * Bins, Turn)

\* The steps of a pair, m of c + 1 zones and k of c, are less than half an index apart.
Neighbours(m, k, c) == -Bins < 2 * (m * c - k * (c + 1)) /\ 2 * (m * c - k * (c + 1)) < Bins

\* The longitudes of a pair are less than half the difference of two zones apart.
NearAround(a, b, w, quarters) ==
    2 * Magnitude(a - (b + w * Turn)) * quarters * 59 * 58 * Bins + (59 + 58) * Turn < Turn * Bins

\* The index i, with what a frame carries of m, gives back m but for whole circles of z zones.
Restores(i, z, m) == \E q \in Int : (i % z) * Bins + (m % Bins) = m - q * (z * Bins)

\* The index of a pair of frames of neighbouring counts of zones, m in one of them and k in the other.
LEMMA IndexOf ==
    ASSUME NEW c \in Nat \ {0}, NEW m \in Int, NEW k \in Int,
           -Bins < 2 * (m * c - k * (c + 1)), 2 * (m * c - k * (c + 1)) < Bins,
           NEW i, i = Rounded((m % Bins) * c - (k % Bins) * (c + 1), Bins)
    PROVE  i % (c + 1) = (m \div Bins) % (c + 1) /\ i % c = (k \div Bins) % c
<1> DEFINE a == m \div Bins
           x == m % Bins
           b == k \div Bins
           y == k % Bins
           j == b * (c + 1) - a * c
<1>1. Bins \in Nat \ {0}
  BY BinsFacts
<1>2. a \in Int /\ x \in Int /\ m = a * Bins + x /\ b \in Int /\ y \in Int /\ k = b * Bins + y
  BY <1>1, DivMod
<1>3. i = Rounded(x * c - y * (c + 1), Bins)
  OBVIOUS
<1> HIDE DEF a, x, b, y
<1>4. /\ m * c = (a * Bins) * c + x * c /\ (a * Bins) * c = (a * c) * Bins
      /\ k * (c + 1) = (b * Bins) * (c + 1) + y * (c + 1) /\ (b * Bins) * (c + 1) = (b * (c + 1)) * Bins
      /\ a * c \in Int /\ b * (c + 1) \in Int /\ x * c \in Int /\ y * (c + 1) \in Int
      /\ (a * c) * Bins \in Int /\ (b * (c + 1)) * Bins \in Int
  <2>1. c + 1 \in Int /\ a * Bins \in Int /\ b * Bins \in Int
    BY <1>1, <1>2
  <2> QED
    BY <2>1, <1>1, <1>2, Products, Threefold
<1>5. j \in Int /\ j * Bins = (b * (c + 1)) * Bins - (a * c) * Bins
  BY <1>1, <1>4, Products
<1> HIDE DEF j
<1>6. /\ -Bins <= 2 * ((x * c - y * (c + 1)) - j * Bins)
      /\ 2 * ((x * c - y * (c + 1)) - j * Bins) < Bins
      /\ x * c - y * (c + 1) \in Int
  BY <1>1, <1>4, <1>5
<1>7. i = j
  BY <1>1, <1>3, <1>5, <1>6, RoundedIs
<1>8. j = a + (b - a) * (c + 1) /\ j = b + (b - a) * c
  BY <1>2 DEF j
<1>9. b - a \in Int /\ c + 1 \in Nat \ {0}
  BY <1>2
<1>10. j % (c + 1) = a % (c + 1) /\ j % c = b % c
  <2>1. (a + (b - a) * (c + 1)) % (c + 1) = a % (c + 1)
    <3> DEFINE w == b - a
               z == c + 1
    <3>1. w \in Int /\ z \in Nat \ {0}
      BY <1>9
    <3> HIDE DEF w, z
    <3>2. (a + w * z) % z = a % z
      BY <3>1, <1>2, ModShift
    <3> QED
      BY <3>2 DEF w, z
  <2>2. (b + (b - a) * c) % c = b % c
    <3> DEFINE w == b - a
    <3>1. w \in Int
      BY <1>9
    <3> HIDE DEF w
    <3>2. (b + w * c) % c = b % c
      BY <3>1, <1>2, ModShift
    <3> QED
      BY <3>2 DEF w
  <2> QED
    BY <2>1, <2>2, <1>8
<1> QED
  BY <1>7, <1>10 DEF a, b

\* What is left of a value when its index is reduced to the zones there are.
LEMMA Reduced ==
    ASSUME NEW m \in Int, NEW z \in Nat \ {0}
    PROVE  \E q \in Int : /\ ((m \div Bins) % z) * Bins + (m % Bins) = m - q * (z * Bins)
                          /\ 0 <= m - q * (z * Bins) /\ m - q * (z * Bins) < z * Bins
<1> DEFINE k == m \div Bins
           x == m % Bins
           q == k \div z
           r == k % z
<1>1. Bins \in Nat \ {0}
  BY BinsFacts
<1>2. k \in Int /\ x \in Int /\ m = k * Bins + x /\ 0 <= x /\ x < Bins
  BY <1>1, DivMod
<1> HIDE DEF k, x
<1>3. q \in Int /\ r \in Int /\ k = q * z + r /\ 0 <= r /\ r <= z - 1
  BY <1>2, DivMod
<1> HIDE DEF q, r
<1>4. /\ k * Bins = (q * z) * Bins + r * Bins /\ (q * z) * Bins = q * (z * Bins)
      /\ r * Bins \in Int /\ q * (z * Bins) \in Int /\ z * Bins \in Int
  BY <1>1, <1>3, Products, Threefold
<1>5. r * Bins + x = m - q * (z * Bins)
  BY <1>2, <1>4
<1>6. 0 <= r * Bins /\ r * Bins <= z * Bins - Bins
  <2>1. 0 * Bins <= r * Bins /\ r * Bins <= (z - 1) * Bins
    BY <1>1, <1>3, Grows
  <2>2. 0 * Bins = 0 /\ (z - 1) * Bins = z * Bins - Bins
    BY <1>1
  <2> QED
    BY <2>1, <2>2
<1>7. 0 <= r * Bins + x /\ r * Bins + x < z * Bins
  BY <1>1, <1>2, <1>4, <1>6
<1> QED
  BY <1>3, <1>5, <1>7 DEF r, k, x

\* Latitudes come back after 360 degrees in the air, after 90 on the ground.
Circle(surface) == (IF surface THEN 1 ELSE 4) * Quarter

\* x is y but for whole circles, and within the first.
Wound(x, y, circle) == \E q \in Int : x = y - q * circle /\ 0 <= x /\ x < circle

\* The latitude that the index gives, but for whole circles.
LEMMA IndexedAt ==
    ASSUME NEW f \in BOOLEAN, NEW surface \in BOOLEAN, NEW n0 \in Int, NEW n1 \in Int, Neighbours(n0, n1, 59),
           NEW even, even.lat = n0 % Bins, NEW odd, odd.lat = n1 % Bins
    PROVE  Wound(Indexed(IF f THEN odd ELSE even, Index(even, odd), f, surface),
                 (IF f THEN n1 ELSE n0) * Step(f, surface), Circle(surface))
<1> DEFINE z == IF f THEN 59 ELSE 60
           m == IF f THEN n1 ELSE n0
           step == Step(f, surface)
           lat == Indexed(IF f THEN odd ELSE even, Index(even, odd), f, surface)
           j == Index(even, odd)
<1>1. Bins \in Nat \ {0}
  BY BinsFacts
<1>2. m \in Int /\ z \in Nat \ {0}
  OBVIOUS
<1>3. step \in Nat \ {0}
  <2>1. step \in 59 .. 240
    BY QuarterIs
  <2> QED
    BY <2>1
<1>4. step * (z * Bins) = Circle(surface)
  <2>1. CASE f
    BY <2>1, <1>1 DEF Circle, Quarter, Step
  <2>2. CASE ~f
    BY <2>2, <1>1 DEF Circle, Quarter, Step
  <2> QED
    BY <2>1, <2>2
<1>5. j % z = (m \div Bins) % z
  <2> DEFINE x == n0 % Bins
             y == n1 % Bins
             i == Rounded(x * 59 - y * (59 + 1), Bins)
  <2>1. x \in Int /\ y \in Int
    BY <1>1, DivMod
  <2>2. i % (59 + 1) = (n0 \div Bins) % (59 + 1) /\ i % 59 = (n1 \div Bins) % 59
    <3>1. 59 \in Nat \ {0} /\ 59 + 1 = 60
      OBVIOUS
    <3>2. -Bins < 2 * (n0 * 59 - n1 * (59 + 1)) /\ 2 * (n0 * 59 - n1 * (59 + 1)) < Bins
      BY DEF Neighbours
    <3>3. i = Rounded(x * 59 - y * (59 + 1), Bins)
      OBVIOUS
    <3> HIDE DEF i
    <3> QED
      BY <3>1, <3>2, <3>3, IndexOf
  <2> HIDE DEF x, y
  <2>3. 59 * x - 60 * y = x * 59 - y * (59 + 1)
    BY <2>1
  <2>4. j = i
    BY <2>3 DEF Index, x, y
  <2> HIDE DEF i, j
  <2>5. CASE f
    BY <2>2, <2>4, <2>5
  <2>6. CASE ~f
    BY <2>2, <2>4, <2>6
  <2> QED
    BY <2>5, <2>6
<1>6. lat = step * ((j % z) * Bins + (m % Bins))
  <2>1. CASE f
    BY <2>1 DEF Indexed
  <2>2. CASE ~f
    BY <2>2 DEF Indexed
  <2> QED
    BY <2>1, <2>2
<1> HIDE DEF z, j, m, step, lat
<1>7. PICK q \in Int : /\ ((m \div Bins) % z) * Bins + (m % Bins) = m - q * (z * Bins)
                       /\ 0 <= m - q * (z * Bins) /\ m - q * (z * Bins) < z * Bins
  BY <1>2, Reduced
<1> DEFINE x == m - q * (z * Bins)
<1>8. lat = step * x
  BY <1>5, <1>6, <1>7
<1>9. /\ x \in Int /\ step * x = x * step /\ x * step = m * step - (q * (z * Bins)) * step
      /\ (q * (z * Bins)) * step = q * (step * (z * Bins))
  <2>1. z * Bins \in Int /\ q * (z * Bins) \in Int
    BY <1>1, <1>2
  <2> QED
    BY <2>1, <1>2, <1>3, Products, Threefold
<1>10. lat = m * step - q * Circle(surface)
  BY <1>4, <1>8, <1>9
<1>11. 0 <= x /\ x <= z * Bins - 1
  BY <1>1, <1>2, <1>7, <1>9
<1> HIDE DEF x
<1>12. 0 * step <= x * step /\ x * step <= (z * Bins - 1) * step
  BY <1>1, <1>2, <1>3, <1>9, <1>11, Grows
<1>13. 0 * step = 0 /\ (z * Bins - 1) * step = step * (z * Bins) - step /\ step * (z * Bins) \in Int
  BY <1>1, <1>2, <1>3
<1>14. 0 <= lat /\ lat < Circle(surface)
  <2>1. x * step \in Int /\ lat = x * step
    BY <1>3, <1>8, <1>9
  <2> QED
    BY <2>1, <1>3, <1>4, <1>12, <1>13
<1> QED
  BY <1>10, <1>14 DEF Wound, lat, m, step

\* In the air the circle of latitudes is cut so that -90 to 90 degrees are found.
LEMMA AirborneLatIs ==
    ASSUME NEW lat \in Int, -Quarter <= lat, lat <= Quarter, NEW q \in Int, NEW circle, circle = 4 * Quarter,
           0 <= lat - q * circle, lat - q * circle < circle
    PROVE  AirborneLat(lat - q * circle) = lat
<1>1. Quarter \in Nat \ {0}
  BY BinsFacts
<1>2. q * circle = 4 * (q * Quarter) /\ q * Quarter \in Int
  BY <1>1
<1>3. q <= 0
  <2> SUFFICES ASSUME 1 <= q PROVE FALSE
    OBVIOUS
  <2>1. 1 * Quarter <= q * Quarter
    BY <1>1, Grows
  <2> QED
    BY <2>1, <1>1, <1>2
<1>4. -1 <= q
  <2> SUFFICES ASSUME q <= -2 PROVE FALSE
    OBVIOUS
  <2>1. q * Quarter <= (-2) * Quarter
    BY <1>1, Grows
  <2> QED
    BY <2>1, <1>1, <1>2
<1>5. q = 0 \/ q = -1
  BY <1>3, <1>4
<1> QED
  BY <1>1, <1>2, <1>5 DEF AirborneLat

\* On the ground the reference tells which quadrant it is.
LEMMA SurfaceLatIs ==
    ASSUME NEW lat \in Int, -Quarter <= lat, lat <= Quarter, NEW q \in Int,
           0 <= lat - q * Quarter, lat - q * Quarter < Quarter,
           NEW ref \in Int, 2 * Magnitude(lat - ref) < Quarter
    PROVE  SurfaceLat(lat - q * Quarter, ref) = lat
<1>1. Quarter \in Nat \ {0} /\ q * Quarter \in Int
  BY BinsFacts
<1>2. -Quarter < 2 * (lat - ref) /\ 2 * (lat - ref) < Quarter
  <2>1. lat - ref \in Int
    OBVIOUS
  <2> QED
    BY <2>1, <1>1 DEF Magnitude
<1>3. q <= 1
  <2> SUFFICES ASSUME 2 <= q PROVE FALSE
    OBVIOUS
  <2>1. 2 * Quarter <= q * Quarter
    BY <1>1, Grows
  <2> QED
    BY <2>1, <1>1
<1>4. -1 <= q
  <2> SUFFICES ASSUME q <= -2 PROVE FALSE
    OBVIOUS
  <2>1. q * Quarter <= (-2) * Quarter
    BY <1>1, Grows
  <2> QED
    BY <2>1, <1>1
<1>5. CASE q = 0
  <2>1. lat - q * Quarter = lat
    BY <1>1, <1>5
  <2> QED
    BY <2>1, <1>1, <1>2, <1>5 DEF SurfaceLat
<1>6. CASE q = 1
  <2>1. lat = Quarter /\ lat - q * Quarter = 0
    BY <1>1, <1>6
  <2> QED
    BY <2>1, <1>1, <1>2 DEF SurfaceLat
<1>7. CASE q = -1
  <2>1. lat - q * Quarter = lat + Quarter
    BY <1>1, <1>7
  <2>2. CASE lat = -Quarter
    BY <2>1, <2>2, <1>1, <1>2 DEF SurfaceLat
  <2>3. CASE lat # -Quarter
    BY <2>1, <2>3, <1>1, <1>2 DEF SurfaceLat
  <2> QED
    BY <2>2, <2>3
<1> QED
  BY <1>3, <1>4, <1>5, <1>6, <1>7

\* The latitudes of a pair are less than half the difference of two zones apart.
Beside(a, b, s) == 2 * Magnitude(a - b) + 119 * s < s * Bins

NearSteps(n0, n1) == n0 \in Int /\ n1 \in Int /\ Neighbours(n0, n1, 59)

\* The latitudes of a pair are so close that their steps are neighbours.
LEMMA NearLatitudes ==
    ASSUME NEW a \in Int, NEW b \in Int, NEW s \in {1, 4}, Beside(a, b, s)
    PROVE  NearSteps(Rounded(a, 59 * s), Rounded(b, 60 * s))
<1> DEFINE n0 == Rounded(a, 59 * s)
           n1 == Rounded(b, 60 * s)
           d == Magnitude(a - b)
<1>1. Bins \in Nat \ {0} /\ d \in Int /\ a - b <= d /\ b - a <= d
  BY BinsFacts DEF Magnitude
<1>2. 2 * d + 119 * s < s * Bins
  BY DEF Beside
<1> SUFFICES NearSteps(n0, n1)
  OBVIOUS
<1> HIDE DEF d, n0, n1
<1>3. CASE s = 1
  <2>1. /\ n0 \in Int /\ -59 <= 2 * (a - n0 * 59) /\ 2 * (a - n0 * 59) < 59
        /\ n1 \in Int /\ -60 <= 2 * (b - n1 * 60) /\ 2 * (b - n1 * 60) < 60
    <3>1. n0 = Rounded(a, 59) /\ n1 = Rounded(b, 60) /\ 59 \in Nat \ {0} /\ 60 \in Nat \ {0}
      BY <1>3 DEF n0, n1
    <3> QED
      BY <3>1, Rounds
  <2> QED
    BY <2>1, <1>1, <1>3, <1>2 DEF Neighbours, NearSteps
<1>4. CASE s = 4
  <2>1. /\ n0 \in Int /\ -236 <= 2 * (a - n0 * 236) /\ 2 * (a - n0 * 236) < 236
        /\ n1 \in Int /\ -240 <= 2 * (b - n1 * 240) /\ 2 * (b - n1 * 240) < 240
    <3>1. n0 = Rounded(a, 236) /\ n1 = Rounded(b, 240) /\ 236 \in Nat \ {0} /\ 240 \in Nat \ {0}
      BY <1>4 DEF n0, n1
    <3> QED
      BY <3>1, Rounds
  <2> QED
    BY <2>1, <1>1, <1>4, <1>2 DEF Neighbours, NearSteps
<1> QED
  BY <1>3, <1>4

\* With the most zones there are, the longitudes are furthest apart in steps.
LEMMA FewerZones ==
    ASSUME NEW x \in Nat, NEW c \in 1 .. 58, NEW t \in Nat,
           x * (59 * 58) + (59 + 58) * t < t * Bins
    PROVE  x * ((c + 1) * c) + ((c + 1) + c) * t < t * Bins
<1>1. Bins \in Nat \ {0}
  BY BinsFacts
<1>2. c \in Nat /\ c + 1 \in Nat /\ (c + 1) * c \in Nat /\ c <= 58 /\ c + 1 <= 59
  OBVIOUS
<1>3. (c + 1) * c <= 59 * 58
  <2>1. (c + 1) * c <= 59 * c
    BY <1>2, Grows
  <2> QED
    BY <2>1, <1>2
<1>4. ((c + 1) * c) * x <= (59 * 58) * x /\ ((c + 1) + c) * t <= (59 + 58) * t
  <2>1. (c + 1) + c \in Int /\ (c + 1) + c <= 59 + 58 /\ 59 * 58 \in Int /\ 59 + 58 \in Int
    BY <1>2
  <2> QED
    BY <2>1, <1>2, <1>3, Grows
<1>5. /\ ((c + 1) * c) * x = x * ((c + 1) * c) /\ x * ((c + 1) * c) \in Int
      /\ ((c + 1) + c) * t \in Int /\ t * Bins \in Int
  BY <1>1, <1>2, Products
<1> QED
  BY <1>4, <1>5

\* And so are the longitudes, whatever the number of zones.
LEMMA NearLongitudes ==
    ASSUME NEW a \in Int, NEW b \in Int, NEW w \in Int, NEW quarters \in Nat \ {0}, NEW c \in 1 .. 58,
           NearAround(a, b, w, quarters),
           NEW m, m = InSteps(a, (c + 1) * quarters),
           NEW k, k = InSteps(b, c * quarters) + w * ((c * quarters) * Bins)
    PROVE  m \in Int /\ k \in Int /\ Neighbours(m, k, c)
<1> DEFINE e == c + 1
           u == a - (b + w * Turn)
           qb == quarters * Bins
           x == a * (e * quarters) * Bins
           y == b * (c * quarters) * Bins
           r == Rounded(y, Turn)
<1>1. /\ Bins \in Nat \ {0} /\ Turn \in Nat \ {0} /\ c \in Nat \ {0} /\ e \in Nat \ {0}
      /\ u \in Int /\ qb \in Nat \ {0} /\ w * Turn \in Int
  BY BinsFacts
<1>2. x = a * (e * qb) /\ x \in Int /\ y = b * (c * qb) /\ y \in Int /\ (c * quarters) * Bins = c * qb
  <2>1. /\ (e * quarters) * Bins = e * qb /\ (c * quarters) * Bins = c * qb
        /\ e * quarters \in Int /\ c * quarters \in Int
    BY <1>1, Threefold
  <2>2. /\ x = a * ((e * quarters) * Bins) /\ y = b * ((c * quarters) * Bins)
        /\ x \in Int /\ y \in Int
    BY <2>1, <1>1, Threefold
  <2> QED
    BY <2>1, <2>2
<1>3. /\ m \in Int /\ -Turn <= 2 * (x - m * Turn) /\ 2 * (x - m * Turn) < Turn
      /\ r \in Int /\ -Turn <= 2 * (y - r * Turn) /\ 2 * (y - r * Turn) < Turn
  BY <1>1, <1>2, Rounds DEF InSteps
<1>4. k = r + w * (c * qb) /\ k \in Int /\ w * (c * qb) \in Int
  <2>1. w * (c * qb) \in Int
    BY <1>1
  <2> QED
    BY <2>1, <1>2, <1>3 DEF InSteps
<1> DEFINE d0 == x - m * Turn
           d1 == y - r * Turn
           g == m * c - k * e
           v == u * (e * (c * qb))
<1>5. 2 * Magnitude(u) * quarters * 59 * 58 * Bins = (2 * (Magnitude(u) * qb)) * (59 * 58) /\ Magnitude(u) \in Nat
  <2> DEFINE h == Magnitude(u)
  <2>1. h \in Nat
    BY <1>1 DEF Magnitude
  <2> HIDE DEF h
  <2>2. 2 * h * quarters * 59 * 58 * Bins = (2 * (h * (quarters * Bins))) * (59 * 58)
    BY <2>1, <1>1
  <2> QED
    BY <2>1, <2>2 DEF h
<1>6. 2 * (Magnitude(u) * qb) \in Nat
  BY <1>1, <1>5
<1>7. (2 * (Magnitude(u) * qb)) * ((c + 1) * c) + ((c + 1) + c) * Turn < Turn * Bins
  BY <1>1, <1>5, <1>6, FewerZones DEF NearAround
<1> HIDE DEF e, u, qb, x, y, r
<1>8. (2 * (Magnitude(u) * qb)) * ((c + 1) * c) = 2 * (Magnitude(u) * (e * (c * qb)))
  <2> DEFINE h == Magnitude(u)
  <2>1. h \in Int /\ e \in Int /\ e = c + 1
    BY <1>1, <1>5 DEF e
  <2> HIDE DEF h
  <2>2. (2 * (h * qb)) * (e * c) = 2 * (h * (e * (c * qb)))
    BY <2>1, <1>1
  <2> QED
    BY <2>1, <2>2 DEF h
<1>9. v \in Int /\ e * (c * qb) \in Nat
  BY <1>1
<1>10. /\ 2 * v + (e + c) * Turn < Turn * Bins
       /\ -(2 * v) + (e + c) * Turn < Turn * Bins
  <2> DEFINE f == e * (c * qb)
             h == Magnitude(u)
  <2>1. u <= h /\ -u <= h /\ h \in Int
    BY <1>1 DEF Magnitude
  <2>2. f \in Nat
    BY <1>9
  <2> HIDE DEF f, h
  <2>3. u * f <= h * f /\ (-u) * f <= h * f /\ (-u) * f = -(u * f) /\ u * f \in Int /\ h * f \in Int
    BY <2>1, <2>2, <1>1, Grows, Products
  <2>4. 2 * (h * f) + (e + c) * Turn < Turn * Bins
    BY <1>7, <1>8 DEF f, h, e
  <2>5. (e + c) * Turn \in Int /\ Turn * Bins \in Int /\ v = u * f
    BY <1>1 DEF f
  <2> QED
    BY <2>3, <2>4, <2>5
<1>11. g \in Int /\ g * Turn = (v - d0 * c) + d1 * e
  <2>1. /\ g \in Int /\ m * c \in Int /\ k * e \in Int
        /\ g * Turn = (m * c) * Turn - (k * e) * Turn
        /\ (m * c) * Turn = (m * Turn) * c /\ (k * e) * Turn = (k * Turn) * e
    BY <1>1, <1>3, <1>4, Products, Threefold
  <2>2. /\ d0 \in Int /\ d1 \in Int /\ m * Turn \in Int /\ r * Turn \in Int
        /\ m * Turn = x - d0 /\ r * Turn = y - d1
    BY <1>1, <1>2, <1>3
  <2>3. k * Turn = (y - d1) + (w * Turn) * (c * qb) /\ (w * Turn) * (c * qb) \in Int
    <3>1. k * Turn = r * Turn + (w * (c * qb)) * Turn /\ (w * (c * qb)) * Turn = (w * Turn) * (c * qb)
      <4>1. c * qb \in Int /\ Turn \in Int /\ r \in Int /\ w * (c * qb) \in Int
        BY <1>1, <1>3, <1>4
      <4>2. (r + w * (c * qb)) * Turn = r * Turn + (w * (c * qb)) * Turn
        BY <4>1, Products
      <4>3. (w * (c * qb)) * Turn = (w * Turn) * (c * qb)
        BY <4>1, Threefold
      <4> QED
        BY <4>2, <4>3, <1>4
    <3>2. (w * Turn) * (c * qb) \in Int
      BY <1>1
    <3> QED
      BY <3>1, <3>2, <2>2
  <2> HIDE DEF d0, d1
  <2>4. (m * Turn) * c = x * c - d0 * c /\ x * c \in Int /\ d0 * c \in Int
    BY <2>2, <1>1, <1>2, Products
  <2>5. /\ (k * Turn) * e = ((y * e) - d1 * e) + ((w * Turn) * (c * qb)) * e
        /\ y * e \in Int /\ d1 * e \in Int /\ ((w * Turn) * (c * qb)) * e \in Int
    <3>1. /\ ((y - d1) + (w * Turn) * (c * qb)) * e = (y - d1) * e + ((w * Turn) * (c * qb)) * e
          /\ (y - d1) * e = y * e - d1 * e
      BY <2>2, <2>3, <1>1, <1>2, Products
    <3>2. y * e \in Int /\ d1 * e \in Int /\ ((w * Turn) * (c * qb)) * e \in Int
      BY <2>2, <2>3, <1>1, <1>2, Products
    <3> QED
      BY <3>1, <3>2, <2>3
  <2>6. v = x * c - (y * e + ((w * Turn) * (c * qb)) * e)
    <3> DEFINE f == e * (c * qb)
    <3>1. f \in Int
      BY <1>9
    <3>2. /\ x * c = a * f /\ y * e = b * f /\ ((w * Turn) * (c * qb)) * e = (w * Turn) * f
      <4>1. (a * (e * qb)) * c = a * (e * (c * qb))
        BY <1>1
      <4>2. (b * (c * qb)) * e = b * (e * (c * qb)) /\ ((w * Turn) * (c * qb)) * e = (w * Turn) * (e * (c * qb))
        BY <1>1
      <4> QED
        BY <4>1, <4>2, <1>2
    <3> HIDE DEF f
    <3>3. (a - (b + w * Turn)) * f = a * f - (b + w * Turn) * f /\ (b + w * Turn) * f = b * f + (w * Turn) * f
      BY <3>1, <1>1, Products
    <3> QED
      BY <3>2, <3>3 DEF u, f
  <2> QED
    BY <2>1, <2>4, <2>5, <2>6, <1>9
<1>12. /\ -(Turn * c) <= 2 * (d0 * c) /\ 2 * (d0 * c) <= Turn * c
       /\ -(Turn * e) <= 2 * (d1 * e) /\ 2 * (d1 * e) <= Turn * e
       /\ d0 * c \in Int /\ d1 * e \in Int
  <2>1. d0 \in Int /\ d1 \in Int /\ -Turn <= 2 * d0 /\ 2 * d0 <= Turn /\ -Turn <= 2 * d1 /\ 2 * d1 <= Turn
    BY <1>1, <1>2, <1>3
  <2> HIDE DEF d0, d1
  <2>2. /\ (-Turn) * c <= (2 * d0) * c /\ (2 * d0) * c <= Turn * c
        /\ (-Turn) * e <= (2 * d1) * e /\ (2 * d1) * e <= Turn * e
    BY <2>1, <1>1, Grows
  <2>3. /\ (-Turn) * c = -(Turn * c) /\ (-Turn) * e = -(Turn * e)
        /\ (2 * d0) * c = 2 * (d0 * c) /\ (2 * d1) * e = 2 * (d1 * e)
        /\ d0 * c \in Int /\ d1 * e \in Int
    BY <2>1, <1>1
  <2> QED
    BY <2>2, <2>3
<1> HIDE DEF d0, d1, g, v
<1>13. -(Turn * Bins) < 2 * (g * Turn) /\ 2 * (g * Turn) < Turn * Bins
  <2>1. (e + c) * Turn = Turn * e + Turn * c /\ Turn * e \in Int /\ Turn * c \in Int /\ Turn * Bins \in Int
    BY <1>1
  <2> QED
    BY <2>1, <1>9, <1>10, <1>11, <1>12
<1>14. 2 * g < Bins
  <2> SUFFICES ASSUME Bins <= 2 * g PROVE FALSE
    BY <1>1, <1>11
  <2>1. Bins * Turn <= (2 * g) * Turn /\ (2 * g) * Turn = 2 * (g * Turn) /\ Bins * Turn = Turn * Bins
    BY <1>1, <1>11, Grows, Products
  <2>2. g * Turn \in Int /\ Turn * Bins \in Int
    BY <1>1, <1>11
  <2> QED
    BY <2>1, <2>2, <1>13
<1>15. -Bins < 2 * g
  <2> SUFFICES ASSUME 2 * g <= -Bins PROVE FALSE
    BY <1>1, <1>11
  <2>1. (2 * g) * Turn <= (-Bins) * Turn /\ (2 * g) * Turn = 2 * (g * Turn) /\ (-Bins) * Turn = -(Turn * Bins)
    BY <1>1, <1>11, Grows, Products
  <2>2. g * Turn \in Int /\ Turn * Bins \in Int
    BY <1>1, <1>11
  <2> QED
    BY <2>1, <2>2, <1>13
<1> QED
  BY <1>3, <1>4, <1>14, <1>15 DEF g, e, Neighbours

\* Steps are whole numbers.
LEMMA StepsWhole == ASSUME NEW lon \in Int, NEW zones \in Int PROVE InSteps(lon, zones) \in Int
<1>1. Turn \in Nat \ {0} /\ lon * zones * Bins \in Int
  BY BinsFacts
<1> QED
  BY <1>1, Rounds DEF InSteps

\* The index restores either longitude though they may be circles apart.
LEMMA PairIndex ==
    ASSUME NEW m \in Int, NEW l \in Int, NEW v \in Int, NEW c \in Nat \ {0},
           NEW k \in Int, k = l + v * (c * Bins), Neighbours(m, k, c),
           NEW i, i = Rounded((m % Bins) * c - (l % Bins) * (c + 1), Bins)
    PROVE  Restores(i, c + 1, m) /\ Restores(i, c, l)
<1>1. Bins \in Nat \ {0} /\ c + 1 \in Nat \ {0} /\ c * Bins \in Int /\ v * c \in Int
  BY BinsFacts
<1>2. k % Bins = l % Bins
  <2>1. v * (c * Bins) = (v * c) * Bins
    BY <1>1
  <2>2. \A t \in Int : (l + t * Bins) % Bins = l % Bins
    BY <1>1, ModShift
  <2> QED
    BY <2>1, <2>2, <1>1
<1>3. i % (c + 1) = (m \div Bins) % (c + 1) /\ i % c = (k \div Bins) % c
  BY <1>2, IndexOf DEF Neighbours
<1>4. PICK q \in Int : ((k \div Bins) % c) * Bins + (k % Bins) = k - q * (c * Bins)
  BY Reduced
<1>5. k - q * (c * Bins) = l - (q - v) * (c * Bins)
  <2>1. (q - v) * (c * Bins) = q * (c * Bins) - v * (c * Bins) /\ q * (c * Bins) \in Int /\ v * (c * Bins) \in Int
    BY <1>1, Products
  <2> QED
    BY <2>1
<1>6. (i % c) * Bins + (l % Bins) = l - (q - v) * (c * Bins) /\ q - v \in Int
  BY <1>2, <1>3, <1>4, <1>5
<1>7. \E r \in Int : (i % (c + 1)) * Bins + (m % Bins) = m - r * ((c + 1) * Bins)
  <2>1. PICK r \in Int : ((m \div Bins) % (c + 1)) * Bins + (m % Bins) = m - r * ((c + 1) * Bins)
    BY <1>1, Reduced
  <2> QED
    BY <2>1, <1>3
<1> QED
  BY <1>6, <1>7 DEF Restores

\* The longitude in steps of the zones that frames of either kind have at a latitude.
EvenSteps(lon, lat, quarters) == InSteps(lon, cprNFunction(lat, FALSE) * quarters)
OddSteps(lon, lat, quarters) == InSteps(lon, cprNFunction(lat, TRUE) * quarters)

\* x is m but for circles of so many zones.
Turned(x, m, zones) == \E q \in Int : x = m - q * (zones * Bins)

\* The longitude that the index gives, at a latitude where both frames have the same zones.
LEMMA LongitudeAt ==
    ASSUME NEW f \in BOOLEAN, NEW lat \in Int, NEW quarters \in Nat \ {0},
           NEW a \in Int, NEW b \in Int, NEW w \in Int,
           NearAround(a, b, w, quarters),
           NEW m0, m0 = EvenSteps(a, lat, quarters), NEW m1, m1 = OddSteps(b, lat, quarters),
           NEW even, even.lon = m0 % Bins, NEW odd, odd.lon = m1 % Bins
    PROVE  /\ m0 \in Int /\ m1 \in Int
           /\ Turned(Longitude(even, odd, lat, f), IF f THEN m1 ELSE m0, cprNFunction(lat, f))
<1> DEFINE nl == cprNLFunction(lat)
           z0 == cprNFunction(lat, FALSE)
           z1 == cprNFunction(lat, TRUE)
           x == m0 % Bins
           y == m1 % Bins
           i == Rounded(x * (nl - 1) - y * nl, Bins)
           z == IF f THEN z1 ELSE z0
           m == IF f THEN m1 ELSE m0
<1>1. /\ Bins \in Nat \ {0} /\ Turn \in Nat \ {0}
      /\ nl \in 1 .. 59 /\ z0 \in 1 .. 59 /\ z1 \in 1 .. 59
  BY BinsFacts, Zones
<1>2. z0 = nl /\ z1 = IF nl = 1 THEN 1 ELSE nl - 1
  BY <1>1 DEF cprNFunction
<1>3. m0 = InSteps(a, z0 * quarters) /\ m1 = InSteps(b, z1 * quarters)
  BY DEF EvenSteps, OddSteps
<1>4. z = cprNFunction(lat, f)
  <2>1. CASE f
    BY <2>1
  <2>2. CASE ~f
    BY <2>2
  <2> QED
    BY <2>1, <2>2
<1> HIDE DEF nl, z0, z1
<1>5. m0 \in Int /\ m1 \in Int /\ m \in Int
  <2>1. z0 * quarters \in Int /\ z1 * quarters \in Int
    <3>1. z0 \in Int /\ z1 \in Int
      BY <1>1
    <3> QED
      BY <3>1
  <2> QED
    BY <2>1, <1>3, StepsWhole
<1>6. x \in Int /\ y \in Int
  BY <1>1, <1>5, DivMod
<1> DEFINE own == IF f THEN y ELSE x
<1>7. Longitude(even, odd, lat, f) = (i % z) * Bins + own
  <2>1. Longitude(even, odd, lat, f) = (i % cprNFunction(lat, f)) * Bins + (IF f THEN odd.lon ELSE even.lon)
    BY DEF Longitude, nl
  <2>2. (IF f THEN odd.lon ELSE even.lon) = own
    OBVIOUS
  <2> HIDE DEF i, own, z
  <2> QED
    BY <2>1, <2>2, <1>4
<1>8. own = m % Bins
  OBVIOUS
<1> HIDE DEF own, x, y
<1>9. CASE nl = 1
  <2>1. z = 1
    BY <1>2, <1>9
  <2>2. x * (nl - 1) - y * nl \in Int
    BY <1>1, <1>6
  <2>3. i \in Int
    BY <2>2, <1>1, Rounds
  <2> HIDE DEF i
  <2>4. i % 1 = 0 /\ (m \div Bins) % 1 = 0
    <3>1. m \div Bins \in Int
      BY <1>1, <1>5, DivMod
    <3>2. \A t \in Int : t % 1 = 0
      OBVIOUS
    <3> QED
      BY <3>1, <3>2, <2>3
  <2>5. PICK q \in Int : ((m \div Bins) % 1) * Bins + (m % Bins) = m - q * (1 * Bins)
    <3>1. 1 \in Nat \ {0}
      OBVIOUS
    <3> QED
      BY <3>1, <1>5, Reduced
  <2>6. (i % z) * Bins + own = m - q * (z * Bins)
    BY <2>1, <2>4, <2>5, <1>8
  <2> QED
    BY <2>6, <1>5, <1>4, <1>7 DEF Turned
<1>10. CASE nl # 1
  <2> DEFINE c == nl - 1
             k == m1 + w * ((c * quarters) * Bins)
  <2>1. c \in 1 .. 58 /\ c \in Nat \ {0} /\ c + 1 = nl /\ z0 = c + 1 /\ z1 = c
    BY <1>1, <1>2, <1>10
  <2>2. m0 = InSteps(a, (c + 1) * quarters) /\ m1 = InSteps(b, c * quarters)
    BY <2>1, <1>3
  <2> HIDE DEF c
  <2>3. k \in Int /\ Neighbours(m0, k, c)
    BY <2>1, <2>2, NearLongitudes
  <2>4. w * ((c * quarters) * Bins) = (w * quarters) * (c * Bins) /\ w * quarters \in Int
    <3>1. \A t \in Int : w * ((t * quarters) * Bins) = (w * quarters) * (t * Bins)
      BY BinsFacts
    <3> QED
      BY <3>1, <2>1
  <2>5. i = Rounded((m0 % Bins) * c - (m1 % Bins) * (c + 1), Bins)
    BY <2>1 DEF x, y, c
  <2> HIDE DEF i
  <2> DEFINE v == w * quarters
  <2>6. k = m1 + v * (c * Bins) /\ v \in Int
    BY <2>4
  <2> HIDE DEF k, v
  <2>7. Restores(i, c + 1, m0) /\ Restores(i, c, m1)
    <3>1. m0 \in Int /\ m1 \in Int /\ c \in Nat \ {0}
      BY <2>1, <1>5
    <3> QED
      BY <3>1, <2>3, <2>5, <2>6, PairIndex
  <2>8. CASE ~f
    BY <2>1, <2>7, <2>8, <1>5, <1>4, <1>7, <1>8 DEF Restores, Turned
  <2>9. CASE f
    BY <2>1, <2>7, <2>9, <1>5, <1>4, <1>7, <1>8 DEF Restores, Turned
  <2> QED
    BY <2>8, <2>9
<1> QED
  BY <1>9, <1>10

\* A pair of frames, for decoding at a latitude, of longitudes that are close together.
Fits(a, b, w, quarters, lat, even, odd) ==
    /\ a \in Int /\ b \in Int /\ w \in Int /\ NearAround(a, b, w, quarters)
    /\ even.lon = EvenSteps(a, lat, quarters) % Bins
    /\ odd.lon = OddSteps(b, lat, quarters) % Bins

\* The same of frames that fit.
LEMMA FitsAt ==
    ASSUME NEW f \in BOOLEAN, NEW lat \in Int, NEW quarters \in Nat \ {0},
           NEW a, NEW b, NEW w, NEW even, NEW odd, Fits(a, b, w, quarters, lat, even, odd)
    PROVE  /\ EvenSteps(a, lat, quarters) \in Int /\ OddSteps(b, lat, quarters) \in Int
           /\ Turned(Longitude(even, odd, lat, f), IF f THEN OddSteps(b, lat, quarters) ELSE EvenSteps(a, lat, quarters),
                     cprNFunction(lat, f))
<1>1. /\ a \in Int /\ b \in Int /\ w \in Int /\ NearAround(a, b, w, quarters)
      /\ even.lon = EvenSteps(a, lat, quarters) % Bins
      /\ odd.lon = OddSteps(b, lat, quarters) % Bins
  BY DEF Fits
<1> QED
  BY <1>1, LongitudeAt

\* On the ground the reference tells which quarter of the circle it is.
LEMMA SurfaceLonIs ==
    ASSUME NEW lon \in Int, NEW ref \in Int, NEW n \in Nat \ {0}, NEW v \in Int, NEW q \in Int,
           8 * Magnitude(lon + v * Turn - ref) * (n * Bins) < Turn * (n * Bins - 1),
           NEW m, m = Rounded(lon * (n * 4) * Bins, Turn)
    PROVE  Renormalized(SurfaceLon(m - q * (n * Bins), ref, n), n * 4) = Renormalized(m, n * 4)
<1> DEFINE y == n * Bins
           u == lon + v * Turn - ref
           x == lon * (n * 4) * Bins
<1>1. Bins \in Nat \ {0} /\ Turn \in Nat \ {0} /\ y \in Nat \ {0} /\ v * Turn \in Int /\ u \in Int
  BY BinsFacts
<1>2. x = 4 * (lon * y) /\ lon * y \in Int /\ 4 * ref * n * Bins = 4 * (ref * y) /\ Turn * n * Bins = Turn * y
  BY <1>1
<1>3. m \in Int /\ -Turn <= 2 * (x - m * Turn) /\ 2 * (x - m * Turn) < Turn /\ m * Turn \in Int
  <2>1. m \in Int /\ -Turn <= 2 * (x - m * Turn) /\ 2 * (x - m * Turn) < Turn
    BY <1>1, <1>2, Rounds
  <2> QED
    BY <2>1, <1>1
<1>4. Turn * (n * Bins - 1) = Turn * y - Turn /\ Turn * y \in Nat \ {0} /\ ref * y \in Int /\ q * y \in Int
  BY <1>1
<1>5. u * y \in Int /\ 8 * (u * y) < Turn * y - Turn /\ -(Turn * y - Turn) < 8 * (u * y)
  <2> DEFINE h == Magnitude(u)
  <2>1. h \in Int /\ u <= h /\ -u <= h
    BY <1>1 DEF Magnitude
  <2>2. 8 * h * y < Turn * y - Turn
    BY <1>4
  <2> HIDE DEF u, h, y
  <2>3. u * y <= h * y /\ (-u) * y <= h * y /\ (-u) * y = -(u * y) /\ 8 * h * y = 8 * (h * y)
        /\ u * y \in Int /\ h * y \in Int
    BY <2>1, <1>1, Grows, Products
  <2> QED
    BY <2>2, <2>3, <1>1, <1>4
<1>6. u * y = (lon * y + (v * Turn) * y) - ref * y /\ (v * Turn) * y \in Int
  <2>1. u = (lon + v * Turn) - ref
    BY <1>1
  <2> HIDE DEF u, y
  <2>2. /\ ((lon + v * Turn) - ref) * y = (lon + v * Turn) * y - ref * y
        /\ (lon + v * Turn) * y = lon * y + (v * Turn) * y
        /\ (v * Turn) * y \in Int
    BY <1>1, Products
  <2> QED
    BY <2>1, <2>2
<1> DEFINE num == 4 * (ref * y) - Turn * (m - q * y)
           w == q + 4 * v
<1>7. /\ Turn * (m - q * y) = m * Turn - q * (Turn * y)
      /\ w * (Turn * y) = q * (Turn * y) + 4 * ((v * Turn) * y)
      /\ q * (Turn * y) \in Int /\ w * (Turn * y) \in Int
  <2> HIDE DEF y
  <2>1. Turn * (m - q * y) = m * Turn - q * (Turn * y) /\ q * (Turn * y) \in Int
    BY <1>1, <1>3
  <2>2. (q + 4 * v) * (Turn * y) = q * (Turn * y) + 4 * ((v * Turn) * y)
    BY <1>1
  <2>3. w * (Turn * y) \in Int
    BY <1>1
  <2> QED
    BY <2>1, <2>2, <2>3
<1> HIDE DEF y, u, x
<1>8. num \in Int /\ num - w * (Turn * y) = (x - m * Turn) - 4 * (u * y)
  BY <1>2, <1>3, <1>4, <1>5, <1>6, <1>7
<1>9. -(Turn * y) <= 2 * (num - w * (Turn * y)) /\ 2 * (num - w * (Turn * y)) < Turn * y
  BY <1>1, <1>2, <1>3, <1>4, <1>5, <1>8
<1>10. w \in Int
  OBVIOUS
<1> HIDE DEF num, w
<1>11. Rounded(num, Turn * y) = w
  BY <1>4, <1>8, <1>9, <1>10, RoundedIs
<1>12. SurfaceLon(m - q * (n * Bins), ref, n) = (m - q * y) + w * n * Bins
  BY <1>2, <1>11 DEF SurfaceLon, num, y
<1>13. w * n * Bins = q * y + v * ((n * 4) * Bins) /\ v * ((n * 4) * Bins) \in Int
  <2>1. (q + 4 * v) * n * Bins = q * (n * Bins) + v * ((n * 4) * Bins) /\ v * ((n * 4) * Bins) \in Int
    BY <1>1
  <2> QED
    BY <2>1 DEF w, y
<1>14. SurfaceLon(m - q * (n * Bins), ref, n) = m + v * ((n * 4) * Bins)
  BY <1>3, <1>4, <1>12, <1>13
<1>15. n * 4 \in Nat \ {0}
  OBVIOUS
<1> QED
  BY <1>3, <1>14, <1>15, Renormal

\* Two positions from which a pair of frames may come.
Close(p0, p1, surface) ==
    \E d \in [lat : Int, lon : Int], w \in Int :
        /\ Pairable(d, surface)
        /\ Magnitude(p0.lat - p1.lat) = Magnitude(d.lat)
        /\ Magnitude(p0.lon - (p1.lon + w * Turn)) = Magnitude(d.lon)

\* The latitude that a frame expresses.
LatOf(p, f, surface) == Rounded(p.lat, Step(f, surface)) * Step(f, surface)

\* It is the one that Expressible has.
LEMMA LatOfIs ==
    ASSUME NEW p \in Positions, NEW f \in BOOLEAN, NEW surface \in BOOLEAN
    PROVE  /\ LatOf(p, f, surface) \in Int
           /\ -Quarter <= LatOf(p, f, surface) /\ LatOf(p, f, surface) <= Quarter
           /\ Expressible(p, f, surface).lat = LatOf(p, f, surface)
<1>1. p.lat \in Int /\ Magnitude(p.lat) <= Quarter
  BY Place
<1> QED
  BY <1>1, Latitude DEF LatOf, Expressible

\* The zones for steps of longitude: four times as many around a parallel when a quarter is covered.
LEMMA EncodedAs ==
    ASSUME NEW p \in Positions, NEW f \in BOOLEAN, NEW surface \in BOOLEAN
    PROVE  /\ Encoded(p, f, surface).lat = Rounded(p.lat, Step(f, surface)) % Bins
           /\ Encoded(p, f, surface).lon = InSteps(p.lon, ZonesAround(LatOf(p, f, surface), f, surface)) % Bins
BY SentAs DEF LatOf, InSteps

\* The latitudes of two positions that are close together, in steps.
LEMMA PairNear ==
    ASSUME NEW surface \in BOOLEAN, NEW p0 \in Positions, NEW p1 \in Positions, Close(p0, p1, surface),
           NEW n0, n0 = Rounded(p0.lat, Step(FALSE, surface)),
           NEW n1, n1 = Rounded(p1.lat, Step(TRUE, surface))
    PROVE  n0 \in Int /\ n1 \in Int /\ Neighbours(n0, n1, 59)
<1> DEFINE s == IF surface THEN 1 ELSE 4
<1>1. PICK d \in [lat : Int, lon : Int] : Pairable(d, surface) /\ Magnitude(p0.lat - p1.lat) = Magnitude(d.lat)
  BY DEF Close
<1>2. p0.lat \in Int /\ p1.lat \in Int /\ Bins \in Nat \ {0}
  BY Place, BinsFacts
<1>3. s \in {1, 4} /\ Step(FALSE, surface) = 59 * s /\ Step(TRUE, surface) = 60 * s
  BY DEF Step
<1>4. 2 * Magnitude(d.lat) + 59 * s + 60 * s < (60 * s - 59 * s) * Bins
  BY <1>1, <1>3 DEF Pairable
<1>5. n0 = Rounded(p0.lat, 59 * s) /\ n1 = Rounded(p1.lat, 60 * s)
  BY <1>3
<1> HIDE DEF s
<1>6. 2 * Magnitude(p0.lat - p1.lat) + 119 * s < s * Bins
  <2> DEFINE e == Magnitude(d.lat)
  <2>1. e \in Int /\ e = Magnitude(p0.lat - p1.lat)
    <3>1. d.lat \in Int
      OBVIOUS
    <3> QED
      BY <3>1, <1>1 DEF Magnitude
  <2>2. 2 * e + 59 * s + 60 * s < (60 * s - 59 * s) * Bins
    BY <1>4
  <2> HIDE DEF e
  <2>3. 60 * s - 59 * s = s
    BY <1>3
  <2> QED
    BY <2>1, <2>2, <2>3, <1>2, <1>3
<1> DEFINE a == p0.lat
           b == p1.lat
<1>7. /\ a \in Int /\ b \in Int /\ Beside(a, b, s)
      /\ n0 = Rounded(a, 59 * s) /\ n1 = Rounded(b, 60 * s)
  BY <1>2, <1>5, <1>6 DEF Beside
<1> HIDE DEF a, b
<1>8. NearSteps(Rounded(a, 59 * s), Rounded(b, 60 * s))
  BY <1>3, <1>7, NearLatitudes
<1> QED
  BY <1>7, <1>8 DEF NearSteps

\* The latitude of a pair, but for whole circles.
LEMMA PairLatitude ==
    ASSUME NEW surface \in BOOLEAN, NEW f \in BOOLEAN, NEW p0 \in Positions, NEW p1 \in Positions,
           Close(p0, p1, surface),
           NEW even, even = Encoded(p0, FALSE, surface), NEW odd, odd = Encoded(p1, TRUE, surface)
    PROVE  Wound(Indexed(IF f THEN odd ELSE even, Index(even, odd), f, surface),
                 LatOf(IF f THEN p1 ELSE p0, f, surface), Circle(surface))
<1> DEFINE n0 == Rounded(p0.lat, Step(FALSE, surface))
           n1 == Rounded(p1.lat, Step(TRUE, surface))
<1>1. n0 \in Int /\ n1 \in Int /\ Neighbours(n0, n1, 59)
  BY PairNear
<1>2. even.lat = n0 % Bins /\ odd.lat = n1 % Bins
  <2>1. FALSE \in BOOLEAN /\ TRUE \in BOOLEAN
    OBVIOUS
  <2> QED
    BY <2>1, EncodedAs, Zenon
<1>3. (IF f THEN n1 ELSE n0) * Step(f, surface) = LatOf(IF f THEN p1 ELSE p0, f, surface)
  <2>1. CASE f
    BY <2>1 DEF LatOf
  <2>2. CASE ~f
    BY <2>2 DEF LatOf
  <2> QED
    BY <2>1, <2>2
<1> HIDE DEF n0, n1
<1>4. Wound(Indexed(IF f THEN odd ELSE even, Index(even, odd), f, surface),
            (IF f THEN n1 ELSE n0) * Step(f, surface), Circle(surface))
  BY <1>1, <1>2, IndexedAt
<1> QED
  BY <1>3, <1>4

\* The longitude of a pair, where both frames have the same zones.
LEMMA PairLongitude ==
    ASSUME NEW surface \in BOOLEAN, NEW f \in BOOLEAN, NEW p0 \in Positions, NEW p1 \in Positions,
           Close(p0, p1, surface),
           NEW even, even = Encoded(p0, FALSE, surface), NEW odd, odd = Encoded(p1, TRUE, surface),
           NEW lat \in Int,
           cprNLFunction(lat) = cprNLFunction(LatOf(p0, FALSE, surface)),
           cprNLFunction(lat) = cprNLFunction(LatOf(p1, TRUE, surface)),
           NEW p \in Positions, f => p = p1, ~f => p = p0
    PROVE  /\ InSteps(p.lon, ZonesAround(lat, f, surface)) \in Int
           /\ Turned(Longitude(even, odd, lat, f), InSteps(p.lon, ZonesAround(lat, f, surface)), cprNFunction(lat, f))
<1> DEFINE quarters == IF surface THEN 4 ELSE 1
           lat0 == LatOf(p0, FALSE, surface)
           lat1 == LatOf(p1, TRUE, surface)
           m0 == EvenSteps(p0.lon, lat, quarters)
           m1 == OddSteps(p1.lon, lat, quarters)
<1>1. PICK d \in [lat : Int, lon : Int], w \in Int :
        Pairable(d, surface) /\ Magnitude(p0.lon - (p1.lon + w * Turn)) = Magnitude(d.lon)
  BY DEF Close
<1>2. p0.lon \in Int /\ p1.lon \in Int /\ quarters \in Nat \ {0}
  BY Place
<1>3. NearAround(p0.lon, p1.lon, w, quarters)
  BY <1>1 DEF Pairable, NearAround
<1>4. /\ cprNFunction(lat, FALSE) = cprNFunction(lat0, FALSE)
      /\ cprNFunction(lat, TRUE) = cprNFunction(lat1, TRUE)
  BY DEF cprNFunction
<1>5. even.lon = m0 % Bins /\ odd.lon = m1 % Bins
  <2>1. even.lon = InSteps(p0.lon, ZonesAround(lat0, FALSE, surface)) % Bins
    <3>1. FALSE \in BOOLEAN
      OBVIOUS
    <3> QED
      BY <3>1, EncodedAs, Zenon
  <2>2. odd.lon = InSteps(p1.lon, ZonesAround(lat1, TRUE, surface)) % Bins
    <3>1. TRUE \in BOOLEAN
      OBVIOUS
    <3> QED
      BY <3>1, EncodedAs, Zenon
  <2>3. /\ ZonesAround(lat0, FALSE, surface) = cprNFunction(lat, FALSE) * quarters
        /\ ZonesAround(lat1, TRUE, surface) = cprNFunction(lat, TRUE) * quarters
    BY <1>4 DEF ZonesAround
  <2> QED
    BY <2>1, <2>2, <2>3 DEF EvenSteps, OddSteps
<1>6. InSteps(p.lon, ZonesAround(lat, f, surface)) = IF f THEN m1 ELSE m0
  <2>1. CASE f
    BY <2>1 DEF ZonesAround, OddSteps
  <2>2. CASE ~f
    BY <2>2 DEF ZonesAround, EvenSteps
  <2> QED
    BY <2>1, <2>2
<1> HIDE DEF quarters
<1>7. m0 = EvenSteps(p0.lon, lat, quarters) /\ m1 = OddSteps(p1.lon, lat, quarters)
  OBVIOUS
<1> HIDE DEF m0, m1, lat0, lat1
<1>8. Fits(p0.lon, p1.lon, w, quarters, lat, even, odd)
  BY <1>2, <1>3, <1>5, <1>7 DEF Fits
<1>9. /\ m0 \in Int /\ m1 \in Int
      /\ Turned(Longitude(even, odd, lat, f), IF f THEN m1 ELSE m0, cprNFunction(lat, f))
  BY <1>2, <1>7, <1>8, FitsAt
<1> QED
  BY <1>6, <1>9

\* The longitude that a frame expresses.
LonOf(p, f, surface) ==
    LET zones == ZonesAround(LatOf(p, f, surface), f, surface) IN Renormalized(InSteps(p.lon, zones), zones)

\* What a frame expresses of a position.
LEMMA ExpressedAs ==
    ASSUME NEW p \in Positions, NEW f \in BOOLEAN, NEW surface \in BOOLEAN
    PROVE  /\ Expressible(p, f, surface).lat = LatOf(p, f, surface)
           /\ Expressible(p, f, surface).lon = LonOf(p, f, surface)
BY SentAs DEF LatOf, LonOf, InSteps

\* The latitudes that decoding finds in an airborne pair, and in one on the ground.
FoundAirborne(even, odd, lat0, lat1) ==
    /\ AirborneLat(Indexed(even, Index(even, odd), FALSE, FALSE)) = lat0
    /\ AirborneLat(Indexed(odd, Index(even, odd), TRUE, FALSE)) = lat1
FoundOnGround(even, odd, ref, lat0, lat1) ==
    /\ SurfaceLat(Indexed(even, Index(even, odd), FALSE, TRUE), ref) = lat0
    /\ SurfaceLat(Indexed(odd, Index(even, odd), TRUE, TRUE), ref) = lat1

\* The latitudes of an airborne pair.
LEMMA AirborneLatitudes ==
    ASSUME NEW p0 \in Positions, NEW p1 \in Positions, Close(p0, p1, FALSE)
    PROVE  FoundAirborne(Encoded(p0, FALSE, FALSE), Encoded(p1, TRUE, FALSE),
                         LatOf(p0, FALSE, FALSE), LatOf(p1, TRUE, FALSE))
<1> DEFINE even == Encoded(p0, FALSE, FALSE)
           odd == Encoded(p1, TRUE, FALSE)
<1> HIDE DEF even, odd
<1>1. Circle(FALSE) = 4 * Quarter
  BY DEF Circle
<1>2. \A f \in BOOLEAN :
        AirborneLat(Indexed(IF f THEN odd ELSE even, Index(even, odd), f, FALSE)) = LatOf(IF f THEN p1 ELSE p0, f, FALSE)
  <2> TAKE f \in BOOLEAN
  <2> DEFINE x == Indexed(IF f THEN odd ELSE even, Index(even, odd), f, FALSE)
             p == IF f THEN p1 ELSE p0
             lat == LatOf(p, f, FALSE)
  <2>1. FALSE \in BOOLEAN /\ p \in Positions
    OBVIOUS
  <2>2. Wound(x, lat, Circle(FALSE))
    BY <2>1, PairLatitude DEF even, odd
  <2>3. lat \in Int /\ -Quarter <= lat /\ lat <= Quarter
    <3> HIDE DEF p
    <3> QED
      BY <2>1, LatOfIs
  <2> HIDE DEF x, p, lat
  <2>4. PICK q \in Int : x = lat - q * Circle(FALSE) /\ 0 <= x /\ x < Circle(FALSE)
    BY <2>2 DEF Wound
  <2>5. AirborneLat(lat - q * Circle(FALSE)) = lat
    BY <1>1, <2>3, <2>4, AirborneLatIs
  <2> QED
    BY <2>4, <2>5 DEF x, p, lat
<1>3. TRUE \in BOOLEAN /\ FALSE \in BOOLEAN
  OBVIOUS
<1> QED
  <2>1. /\ AirborneLat(Indexed(even, Index(even, odd), FALSE, FALSE)) = LatOf(p0, FALSE, FALSE)
        /\ AirborneLat(Indexed(odd, Index(even, odd), TRUE, FALSE)) = LatOf(p1, TRUE, FALSE)
    BY <1>2, <1>3, Zenon
  <2> QED
    BY <2>1 DEF FoundAirborne, even, odd

\* The latitudes of a pair on the ground, seen from a reference less than 45 degrees away.
LEMMA SurfaceLatitudes ==
    ASSUME NEW p0 \in Positions, NEW p1 \in Positions, Close(p0, p1, TRUE),
           NEW ref \in Int,
           2 * Magnitude(LatOf(p0, FALSE, TRUE) - ref) < Quarter, 2 * Magnitude(LatOf(p1, TRUE, TRUE) - ref) < Quarter
    PROVE  FoundOnGround(Encoded(p0, FALSE, TRUE), Encoded(p1, TRUE, TRUE), ref,
                         LatOf(p0, FALSE, TRUE), LatOf(p1, TRUE, TRUE))
<1> DEFINE even == Encoded(p0, FALSE, TRUE)
           odd == Encoded(p1, TRUE, TRUE)
<1> HIDE DEF even, odd
<1>1. Circle(TRUE) = Quarter
  BY BinsFacts DEF Circle
<1>2. \A f \in BOOLEAN :
        SurfaceLat(Indexed(IF f THEN odd ELSE even, Index(even, odd), f, TRUE), ref)
            = LatOf(IF f THEN p1 ELSE p0, f, TRUE)
  <2> TAKE f \in BOOLEAN
  <2> DEFINE x == Indexed(IF f THEN odd ELSE even, Index(even, odd), f, TRUE)
             p == IF f THEN p1 ELSE p0
             lat == LatOf(p, f, TRUE)
  <2>1. TRUE \in BOOLEAN /\ p \in Positions
    OBVIOUS
  <2>2. Wound(x, lat, Circle(TRUE))
    BY <2>1, PairLatitude DEF even, odd
  <2>3. lat \in Int /\ -Quarter <= lat /\ lat <= Quarter
    <3> HIDE DEF p
    <3> QED
      BY <2>1, LatOfIs
  <2>4. 2 * Magnitude(lat - ref) < Quarter
    <3>1. CASE f
      BY <3>1
    <3>2. CASE ~f
      BY <3>2
    <3> QED
      BY <3>1, <3>2
  <2> HIDE DEF x, p, lat
  <2>5. PICK q \in Int : x = lat - q * Circle(TRUE) /\ 0 <= x /\ x < Circle(TRUE)
    BY <2>2 DEF Wound
  <2>6. SurfaceLat(lat - q * Quarter, ref) = lat
    BY <1>1, <2>3, <2>4, <2>5, SurfaceLatIs
  <2> QED
    BY <1>1, <2>5, <2>6 DEF x, p, lat
<1>3. TRUE \in BOOLEAN /\ FALSE \in BOOLEAN
  OBVIOUS
<1> QED
  <2>1. /\ SurfaceLat(Indexed(even, Index(even, odd), FALSE, TRUE), ref) = LatOf(p0, FALSE, TRUE)
        /\ SurfaceLat(Indexed(odd, Index(even, odd), TRUE, TRUE), ref) = LatOf(p1, TRUE, TRUE)
    BY <1>2, <1>3, Zenon
  <2> QED
    BY <2>1 DEF FoundOnGround, even, odd

\* The latitudes of positions lead to success, or to a failure for their zones.
LEMMA VerdictIs ==
    ASSUME NEW lat0 \in Int, -Quarter <= lat0, lat0 <= Quarter, NEW lat1 \in Int, -Quarter <= lat1, lat1 <= Quarter
    PROVE  Verdict(lat0, lat1) = IF cprNLFunction(lat0) = cprNLFunction(lat1) THEN 0 ELSE -1
<1>1. Quarter \in Nat \ {0}
  BY BinsFacts
<1>2. ~(Magnitude(lat0) > Quarter) /\ ~(Magnitude(lat1) > Quarter)
  BY <1>1 DEF Magnitude
<1> QED
  BY <1>2 DEF Verdict

\* What global decoding has to find of a pair of frames, the newer one sent from p.
Finds(r, p, f, surface, lat0, lat1) ==
    \/ /\ r.err = 0 /\ r.lat = Expressible(p, f, surface).lat /\ r.lon = Expressible(p, f, surface).lon
    \/ r.err = -1 /\ cprNLFunction(lat1) # cprNLFunction(lat0)

\* What global decoding finds in the air.
LEMMA AirborneFinds ==
    ASSUME NEW f \in BOOLEAN, NEW p0 \in Positions, NEW p1 \in Positions, Close(p0, p1, FALSE),
           NEW even, even = Encoded(p0, FALSE, FALSE), NEW odd, odd = Encoded(p1, TRUE, FALSE),
           NEW p \in Positions, f => p = p1, ~f => p = p0
    PROVE  Finds(DecodeCPRAirborne(even, odd, f), p, f, FALSE, LatOf(p0, FALSE, FALSE), LatOf(p1, TRUE, FALSE))
<1> DEFINE lat0 == LatOf(p0, FALSE, FALSE)
           lat1 == LatOf(p1, TRUE, FALSE)
           lat == LatOf(p, f, FALSE)
           x == Longitude(even, odd, lat, f)
           zones == ZonesAround(lat, f, FALSE)
           r == DecodeCPRAirborne(even, odd, f)
<1>1. FoundAirborne(even, odd, lat0, lat1)
  BY AirborneLatitudes
<1>2. /\ lat0 \in Int /\ -Quarter <= lat0 /\ lat0 <= Quarter
      /\ lat1 \in Int /\ -Quarter <= lat1 /\ lat1 <= Quarter
      /\ lat \in Int
  BY LatOfIs
<1>3. lat = IF f THEN lat1 ELSE lat0
  OBVIOUS
<1>4. Verdict(lat0, lat1) = IF cprNLFunction(lat0) = cprNLFunction(lat1) THEN 0 ELSE -1
  BY <1>2, VerdictIs
<1>5. r = IF Verdict(lat0, lat1) # 0 THEN Failure(Verdict(lat0, lat1)) ELSE Success(lat, Renormalized(x, zones))
  <2> HIDE DEF lat0, lat1, lat
  <2> QED
    BY <1>1, <1>3 DEF DecodeCPRAirborne, FoundAirborne
<1> HIDE DEF r
<1>6. CASE cprNLFunction(lat0) # cprNLFunction(lat1)
  <2>1. Verdict(lat0, lat1) = -1
    BY <1>4, <1>6
  <2>2. -1 # 0
    OBVIOUS
  <2>3. r = Failure(-1)
    BY <2>1, <2>2, <1>5, Zenon
  <2>4. r.err = -1
    BY <2>3 DEF Failure
  <2> QED
    BY <2>4, <1>6 DEF Finds, r
<1>7. CASE cprNLFunction(lat0) = cprNLFunction(lat1)
  <2>1. cprNLFunction(lat) = cprNLFunction(lat0) /\ cprNLFunction(lat) = cprNLFunction(lat1)
    BY <1>3, <1>7
  <2>2. InSteps(p.lon, zones) \in Int /\ Turned(x, InSteps(p.lon, zones), cprNFunction(lat, f))
    <3>1. FALSE \in BOOLEAN
      OBVIOUS
    <3> HIDE DEF lat
    <3> QED
      BY <3>1, <1>2, <2>1, PairLongitude
  <2>3. zones = cprNFunction(lat, f) /\ zones \in Nat \ {0}
    <3> HIDE DEF lat
    <3>1. zones = cprNFunction(lat, f) * 1 /\ cprNFunction(lat, f) \in 1 .. 59
      BY <1>2, Zones DEF ZonesAround
    <3> HIDE DEF zones
    <3> QED
      BY <3>1
  <2>4. Expressible(p, f, FALSE).lat = lat /\ Expressible(p, f, FALSE).lon = Renormalized(InSteps(p.lon, zones), zones)
    <3>1. FALSE \in BOOLEAN
      OBVIOUS
    <3> QED
      BY <3>1, ExpressedAs DEF LonOf
  <2> HIDE DEF zones, x, lat
  <2>5. Renormalized(x, zones) = Renormalized(InSteps(p.lon, zones), zones)
    <3>1. PICK q \in Int : x = InSteps(p.lon, zones) - q * (zones * Bins)
      BY <2>2, <2>3 DEF Turned
    <3>2. x = InSteps(p.lon, zones) + (-q) * (zones * Bins) /\ -q \in Int
      BY <3>1, <2>2, <2>3, BinsFacts
    <3> QED
      BY <3>2, <2>2, <2>3, Renormal
  <2>6. r.err = 0 /\ r.lat = lat /\ r.lon = Renormalized(x, zones)
    BY <1>4, <1>5, <1>7 DEF Success
  <2> QED
    BY <2>4, <2>5, <2>6 DEF Finds, r
<1> QED
  BY <1>6, <1>7

\* The reference is so near that it tells the quarters of the circle apart.
Discerns(lon, ref, n) == 8 * Apart(lon, ref) * (n * Bins) < Turn * (n * Bins - 1)

\* The longitude on the ground.
LEMMA SurfaceLongitude ==
    ASSUME NEW lon \in Int, 2 * Magnitude(lon) <= Turn, NEW ref \in Int, 2 * Magnitude(ref) <= Turn,
           NEW n \in Nat \ {0}, Discerns(lon, ref, n), NEW x, Turned(x, InSteps(lon, n * 4), n)
    PROVE  Renormalized(SurfaceLon(x, ref, n), n * 4) = Renormalized(InSteps(lon, n * 4), n * 4)
<1> DEFINE m == InSteps(lon, n * 4)
<1>1. PICK v \in Int : Magnitude(lon + v * Turn - ref) = Apart(lon, ref)
  BY Way
<1>2. PICK q \in Int : x = m - q * (n * Bins)
  BY DEF Turned
<1>3. 8 * Magnitude(lon + v * Turn - ref) * (n * Bins) < Turn * (n * Bins - 1)
  BY <1>1 DEF Discerns
<1>4. m = Rounded(lon * (n * 4) * Bins, Turn)
  BY DEF InSteps
<1> HIDE DEF m
<1>5. Renormalized(SurfaceLon(m - q * (n * Bins), ref, n), n * 4) = Renormalized(m, n * 4)
  BY <1>3, <1>4, SurfaceLonIs
<1> QED
  BY <1>2, <1>5 DEF m

\* What global decoding finds on the ground.
LEMMA SurfaceFinds ==
    ASSUME NEW f \in BOOLEAN, NEW p0 \in Positions, NEW p1 \in Positions, Close(p0, p1, TRUE),
           NEW even, even = Encoded(p0, FALSE, TRUE), NEW odd, odd = Encoded(p1, TRUE, TRUE),
           NEW p \in Positions, f => p = p1, ~f => p = p0, NEW ref \in Positions,
           2 * Magnitude(LatOf(p0, FALSE, TRUE) - ref.lat) < Quarter,
           2 * Magnitude(LatOf(p1, TRUE, TRUE) - ref.lat) < Quarter,
           Discerns(p.lon, ref.lon, cprNFunction(LatOf(p, f, TRUE), f))
    PROVE  Finds(DecodeCPRSurface(ref, even, odd, f), p, f, TRUE, LatOf(p0, FALSE, TRUE), LatOf(p1, TRUE, TRUE))
<1> DEFINE lat0 == LatOf(p0, FALSE, TRUE)
           lat1 == LatOf(p1, TRUE, TRUE)
           lat == LatOf(p, f, TRUE)
           n == cprNFunction(lat, f)
           x == SurfaceLon(Longitude(even, odd, lat, f), ref.lon, n)
           zones == ZonesAround(lat, f, TRUE)
           r == DecodeCPRSurface(ref, even, odd, f)
<1>1. FoundOnGround(even, odd, ref.lat, lat0, lat1)
  <2>1. ref.lat \in Int
    BY Place
  <2> QED
    BY <2>1, SurfaceLatitudes
<1>2. /\ lat0 \in Int /\ -Quarter <= lat0 /\ lat0 <= Quarter
      /\ lat1 \in Int /\ -Quarter <= lat1 /\ lat1 <= Quarter
      /\ lat \in Int
  BY LatOfIs
<1>3. lat = IF f THEN lat1 ELSE lat0
  OBVIOUS
<1>4. Verdict(lat0, lat1) = IF cprNLFunction(lat0) = cprNLFunction(lat1) THEN 0 ELSE -1
  BY <1>2, VerdictIs
<1>5. r = IF Verdict(lat0, lat1) # 0 THEN Failure(Verdict(lat0, lat1)) ELSE Success(lat, Renormalized(x, zones))
  <2> HIDE DEF lat0, lat1, lat
  <2> QED
    BY <1>1, <1>3 DEF DecodeCPRSurface, FoundOnGround
<1> HIDE DEF r
<1>6. CASE cprNLFunction(lat0) # cprNLFunction(lat1)
  <2>1. Verdict(lat0, lat1) = -1
    BY <1>4, <1>6
  <2>2. -1 # 0
    OBVIOUS
  <2>3. r = Failure(-1)
    BY <2>1, <2>2, <1>5, Zenon
  <2>4. r.err = -1
    BY <2>3 DEF Failure
  <2> QED
    BY <2>4, <1>6 DEF Finds, r
<1>7. CASE cprNLFunction(lat0) = cprNLFunction(lat1)
  <2>1. cprNLFunction(lat) = cprNLFunction(lat0) /\ cprNLFunction(lat) = cprNLFunction(lat1)
    BY <1>3, <1>7
  <2>2. Turned(Longitude(even, odd, lat, f), InSteps(p.lon, zones), n)
    <3>1. TRUE \in BOOLEAN
      OBVIOUS
    <3> HIDE DEF lat
    <3> QED
      BY <3>1, <1>2, <2>1, PairLongitude
  <2>3. zones = n * 4 /\ n \in Nat \ {0}
    <3>1. Discerns(p.lon, ref.lon, cprNFunction(lat, f))
      OBVIOUS
    <3> HIDE DEF lat
    <3>2. zones = n * 4 /\ n \in 1 .. 59
      BY <1>2, Zones DEF ZonesAround
    <3> HIDE DEF n, zones
    <3> QED
      BY <3>2
  <2>4. Expressible(p, f, TRUE).lat = lat /\ Expressible(p, f, TRUE).lon = Renormalized(InSteps(p.lon, zones), zones)
    <3>1. TRUE \in BOOLEAN
      OBVIOUS
    <3> QED
      BY <3>1, ExpressedAs DEF LonOf
  <2>5. Renormalized(x, zones) = Renormalized(InSteps(p.lon, zones), zones)
    <3>1. /\ p.lon \in Int /\ 2 * Magnitude(p.lon) <= Turn /\ ref.lon \in Int /\ 2 * Magnitude(ref.lon) <= Turn
      BY Place
    <3>2. Discerns(p.lon, ref.lon, n)
      OBVIOUS
    <3> DEFINE y == Longitude(even, odd, lat, f)
    <3>3. Turned(y, InSteps(p.lon, n * 4), n)
      BY <2>2, <2>3
    <3> HIDE DEF y, n, zones
    <3>4. Renormalized(SurfaceLon(y, ref.lon, n), n * 4) = Renormalized(InSteps(p.lon, n * 4), n * 4)
      BY <2>3, <3>1, <3>2, <3>3, SurfaceLongitude
    <3> QED
      BY <2>3, <3>4 DEF y
  <2> HIDE DEF zones, x, lat
  <2>6. r.err = 0 /\ r.lat = lat /\ r.lon = Renormalized(x, zones)
    BY <1>4, <1>5, <1>7 DEF Success
  <2> QED
    BY <2>4, <2>5, <2>6 DEF Finds, r
<1> QED
  BY <1>6, <1>7

\* A move keeps positions so close that their frames make a pair, in either order.
LEMMA MovedClose ==
    ASSUME NEW p \in Positions, NEW q \in Positions, NEW surface \in BOOLEAN, NEW d \in Moves[surface], q = Moved(p, d)
    PROVE  Close(p, q, surface) /\ Close(q, p, surface)
<1>1. /\ p.lat \in Int /\ p.lon \in Int /\ q.lat \in Int /\ q.lon \in Int
      /\ Magnitude(q.lat) <= Quarter /\ Turn \in Nat \ {0}
  BY Place, BinsFacts
<1>2. d \in [lat : Int, lon : Int] /\ Pairable(d, surface)
  BY CodecsAssumption
<1>3. d.lat \in Int /\ d.lon \in Int
  BY <1>2
<1>4. q.lat = p.lat + d.lat
  BY DEF Moved
<1>5. PICK w \in Int : q.lon = p.lon + d.lon + w * Turn
  <2>1. Magnitude(p.lat + d.lat) <= Quarter
    BY <1>1, <1>4
  <2> QED
    BY <2>1, MovedPlace
<1>6. /\ w * Turn \in Int /\ -w \in Int /\ (-w) * Turn = -(w * Turn)
  BY <1>1
<1>7. /\ q.lon - (p.lon + w * Turn) = d.lon
      /\ p.lon - (q.lon + (-w) * Turn) = -d.lon
      /\ q.lat - p.lat = d.lat /\ p.lat - q.lat = -d.lat
  BY <1>1, <1>3, <1>4, <1>5, <1>6
<1>8. Magnitude(-d.lat) = Magnitude(d.lat) /\ Magnitude(-d.lon) = Magnitude(d.lon)
  BY <1>3 DEF Magnitude
<1>9. Close(q, p, surface)
  BY <1>2, <1>7 DEF Close
<1>10. Close(p, q, surface)
  BY <1>2, <1>6, <1>7, <1>8 DEF Close
<1> QED
  BY <1>9, <1>10

\* So does staying in place.
LEMMA SamePlaceClose ==
    ASSUME NEW p \in Positions, NEW surface \in BOOLEAN
    PROVE  Close(p, p, surface)
<1> DEFINE none == [lat |-> 0, lon |-> 0]
<1>1. none \in [lat : Int, lon : Int] /\ none.lat = 0 /\ none.lon = 0
  OBVIOUS
<1>2. Pairable(none, surface)
  BY CodecsAssumption
<1> HIDE DEF none
<1>3. p.lat - p.lat = 0 /\ p.lon - (p.lon + 0 * Turn) = 0 /\ 0 \in Int
  BY Place, BinsFacts
<1> QED
  BY <1>1, <1>2, <1>3 DEF Close

\* The frames of a pair were sent from positions that are close together.
LEMMA PairClose ==
    ASSUME FlightInv, Paired
    PROVE  /\ signal.surface \in BOOLEAN /\ signal.fflag \in BOOLEAN
           /\ signal.sent[FALSE].from \in Positions /\ signal.sent[TRUE].from \in Positions
           /\ Close(signal.sent[FALSE].from, signal.sent[TRUE].from, signal.surface)
<1> DEFINE p0 == signal.sent[FALSE].from
           p1 == signal.sent[TRUE].from
<1>1. /\ signal \in [kind : {"flight"}, surface : BOOLEAN, at : Positions, moves : Nat,
                     sent : SentSets, fflag : BOOLEAN]
  BY DEF FlightInv, TypeOK, Paired
<1>2. PICK which \in SUBSET BOOLEAN : signal.sent \in [which -> Sendings]
  BY <1>1 DEF SentSets
<1>3. signal.sent \in [BOOLEAN -> Sendings]
  BY <1>2 DEF Paired
<1>4. \A f \in BOOLEAN : signal.sent[f].from \in Positions /\ signal.sent[f].age \in {0, 1}
  BY <1>3 DEF Sendings
<1>5. FALSE \in BOOLEAN /\ TRUE \in BOOLEAN
  OBVIOUS
<1>6. /\ p0 \in Positions /\ signal.sent[FALSE].age \in {0, 1}
      /\ p1 \in Positions /\ signal.sent[TRUE].age \in {0, 1}
  BY <1>4, <1>5, Zenon
<1>7. /\ \A f \in BOOLEAN :
            IF signal.sent[f].age = 0 THEN signal.sent[f].from = signal.at
            ELSE \E d \in Moves[signal.surface] : signal.at = Moved(signal.sent[f].from, d)
      /\ \A f, g \in BOOLEAN : signal.sent[f].age = signal.sent[g].age => signal.sent[f].from = signal.sent[g].from
  BY DEF FlightInv, Followed, Paired
<1>8. /\ IF signal.sent[FALSE].age = 0 THEN p0 = signal.at
         ELSE \E d \in Moves[signal.surface] : signal.at = Moved(p0, d)
      /\ IF signal.sent[TRUE].age = 0 THEN p1 = signal.at
         ELSE \E d \in Moves[signal.surface] : signal.at = Moved(p1, d)
      /\ signal.sent[FALSE].age = signal.sent[TRUE].age => p0 = p1
  BY <1>5, <1>7, Zenon
<1>9. signal.surface \in BOOLEAN /\ signal.fflag \in BOOLEAN
  BY <1>1
<1> HIDE DEF p0, p1
<1>10. Close(p0, p1, signal.surface)
  <2>1. CASE signal.sent[FALSE].age = signal.sent[TRUE].age
    BY <2>1, <1>6, <1>8, <1>9, SamePlaceClose
  <2>2. CASE signal.sent[FALSE].age = 0 /\ signal.sent[TRUE].age = 1
    <3>1. PICK d \in Moves[signal.surface] : p0 = Moved(p1, d)
      BY <2>2, <1>8
    <3> QED
      BY <3>1, <1>6, <1>9, MovedClose
  <2>3. CASE signal.sent[FALSE].age = 1 /\ signal.sent[TRUE].age = 0
    <3>1. PICK d \in Moves[signal.surface] : p1 = Moved(p0, d)
      BY <2>3, <1>8
    <3> QED
      BY <3>1, <1>6, <1>9, MovedClose
  <2> QED
    BY <2>1, <2>2, <2>3, <1>6
<1> QED
  BY <1>6, <1>9, <1>10 DEF p0, p1

\* For every accuracy, start, move and reference: global decoding finds the position of an aircraft
\* that moved between its frames, wherever it is, unless the frames were sent on either side of a
\* change of zones; and on the ground with a reference less than 45 degrees away (cpr.go,
\* decodeCPRAirborne and decodeCPRSurface).
THEOREM GlobalInvertsAlways == Spec => []GlobalInverts
<1>1. FlightInv => GlobalInverts
  <2> SUFFICES ASSUME FlightInv, Paired
               PROVE  IF signal.surface
                      THEN \A ref \in Receivers :
                              /\ \A f \in BOOLEAN : 2 * Magnitude(Sent(f).lat - ref.lat) < Quarter
                              /\ LET steps == cprNFunction(Sent(signal.fflag).lat, signal.fflag) * Bins
                                 IN 8 * Apart(signal.sent[signal.fflag].from.lon, ref.lon) * steps < Turn * (steps - 1)
                              => Right(DecodeCPRSurface(ref, Frame(FALSE), Frame(TRUE), signal.fflag))
                      ELSE Right(DecodeCPRAirborne(Frame(FALSE), Frame(TRUE), signal.fflag))
    BY DEF GlobalInverts
  <2> DEFINE p0 == signal.sent[FALSE].from
             p1 == signal.sent[TRUE].from
             f == signal.fflag
             p == signal.sent[f].from
             even == Encoded(p0, FALSE, signal.surface)
             odd == Encoded(p1, TRUE, signal.surface)
             lat0 == LatOf(p0, FALSE, signal.surface)
             lat1 == LatOf(p1, TRUE, signal.surface)
  <2>1. /\ signal.surface \in BOOLEAN /\ f \in BOOLEAN /\ p0 \in Positions /\ p1 \in Positions
        /\ Close(p0, p1, signal.surface)
    BY PairClose
  <2>2. p \in Positions /\ (f => p = p1) /\ (~f => p = p0)
    <3>1. CASE f
      BY <2>1, <3>1
    <3>2. CASE ~f
      BY <2>1, <3>2
    <3> QED
      BY <3>1, <3>2
  <2>3. Frame(FALSE) = even /\ Frame(TRUE) = odd
    BY DEF Frame
  <2>4. /\ Sent(FALSE).lat = lat0 /\ Sent(TRUE).lat = lat1
        /\ Sent(f).lat = LatOf(p, f, signal.surface) /\ Sent(f) = Expressible(p, f, signal.surface)
    <3>1. FALSE \in BOOLEAN /\ TRUE \in BOOLEAN
      OBVIOUS
    <3> HIDE DEF p0, p1, p, f
    <3>2. /\ Expressible(p0, FALSE, signal.surface).lat = lat0 /\ Expressible(p1, TRUE, signal.surface).lat = lat1
          /\ Expressible(p, f, signal.surface).lat = LatOf(p, f, signal.surface)
      BY <3>1, <2>1, <2>2, ExpressedAs
    <3> QED
      BY <3>2 DEF Sent, p0, p1, p, f
  <2>5. \A r : Finds(r, p, f, signal.surface, lat0, lat1) => Right(r)
    BY <2>4 DEF Finds, Right
  <2> HIDE DEF p0, p1, p, f, even, odd, lat0, lat1
  <2>6. CASE ~signal.surface
    <3>1. Finds(DecodeCPRAirborne(even, odd, f), p, f, signal.surface, lat0, lat1)
      <4>1. signal.surface = FALSE
        BY <2>1, <2>6
      <4> QED
        BY <4>1, <2>1, <2>2, AirborneFinds DEF even, odd, lat0, lat1
    <3>2. Right(DecodeCPRAirborne(even, odd, f))
      BY <3>1, <2>5
    <3> QED
      BY <3>2, <2>3, <2>6 DEF f
  <2>7. CASE signal.surface
    <3> SUFFICES ASSUME NEW ref \in Receivers,
                        \A g \in BOOLEAN : 2 * Magnitude(Sent(g).lat - ref.lat) < Quarter,
                        LET steps == cprNFunction(Sent(f).lat, f) * Bins
                        IN 8 * Apart(p.lon, ref.lon) * steps < Turn * (steps - 1)
                 PROVE  Right(DecodeCPRSurface(ref, even, odd, f))
      BY <2>3, <2>7 DEF f, p
    <3>1. ref \in Positions
      BY CodecsAssumption
    <3>2. 2 * Magnitude(lat0 - ref.lat) < Quarter /\ 2 * Magnitude(lat1 - ref.lat) < Quarter
      <4>1. FALSE \in BOOLEAN /\ TRUE \in BOOLEAN
        OBVIOUS
      <4>2. 2 * Magnitude(Sent(FALSE).lat - ref.lat) < Quarter /\ 2 * Magnitude(Sent(TRUE).lat - ref.lat) < Quarter
        BY <4>1, Zenon
      <4> QED
        BY <4>2, <2>4
    <3>3. Discerns(p.lon, ref.lon, cprNFunction(LatOf(p, f, signal.surface), f))
      BY <2>4 DEF Discerns
    <3>4. Finds(DecodeCPRSurface(ref, even, odd, f), p, f, signal.surface, lat0, lat1)
      <4>1. signal.surface = TRUE
        BY <2>1, <2>7
      <4>2. /\ Close(p0, p1, TRUE) /\ even = Encoded(p0, FALSE, TRUE) /\ odd = Encoded(p1, TRUE, TRUE)
            /\ lat0 = LatOf(p0, FALSE, TRUE) /\ lat1 = LatOf(p1, TRUE, TRUE)
            /\ Discerns(p.lon, ref.lon, cprNFunction(LatOf(p, f, TRUE), f))
        BY <4>1, <2>1, <3>3 DEF even, odd, lat0, lat1
      <4>3. /\ 2 * Magnitude(LatOf(p0, FALSE, TRUE) - ref.lat) < Quarter
            /\ 2 * Magnitude(LatOf(p1, TRUE, TRUE) - ref.lat) < Quarter
        BY <4>2, <3>2
      <4>4. Finds(DecodeCPRSurface(ref, even, odd, f), p, f, TRUE, LatOf(p0, FALSE, TRUE), LatOf(p1, TRUE, TRUE))
        BY <4>2, <4>3, <2>1, <2>2, <3>1, SurfaceFinds
      <4> QED
        BY <4>1, <4>2, <4>4
    <3> QED
      BY <3>4, <2>5
  <2> QED
    BY <2>6, <2>7
<1> QED
  BY <1>1, InitFlies, StepFlies, PTL DEF Spec

=============================================================================
