---------------------------- MODULE BeastProofs ----------------------------
(***************************************************************************)
(* Theorems about Beast: the parsing loop ends; a stream in which no frame *)
(* does damage is handled as it was sent; and after damage the decoder is  *)
(* in step again after a limited number of bytes without escape bytes,     *)
(* whatever it takes for messages until then.  They are for all frames,    *)
(* lengths of bodies, sizes of buffers and places where reads cut.         *)
(***************************************************************************)
EXTENDS Beast, WellFoundedInduction, TLAPS

-----------------------------------------------------------------------------
(***************************************************************************)
(* Numbers.                                                                *)
(***************************************************************************)

\* A set of natural numbers has a least element.
LEMMA Least ==
    ASSUME NEW T, T \subseteq Nat, T # {}
    PROVE  \E x \in T : \A y \in T : x <= y
<1> DEFINE R == OpToRel(<, Nat)
<1>1. IsWellFoundedOn(R, Nat)
  BY NatLessThanWellFounded
<1>2. ASSUME NEW x \in Nat, NEW y \in Nat, y < x
      PROVE  <<y, x>> \in R
  BY <1>2 DEF OpToRel
<1> HIDE DEF R
<1>3. PICK x \in T : \A y \in T : ~(<<y, x>> \in R)
  BY <1>1, WFMin
<1>4. \A y \in T : ~(y < x)
  BY <1>2, <1>3
<1> QED BY <1>4

\* What holds of 0 and goes up to the next number holds of all.
LEMMA Climbs ==
    ASSUME NEW S, 0 \in S, \A n \in Nat : n \in S => n + 1 \in S
    PROVE  \A n \in Nat : n \in S
<1> DEFINE T == {n \in Nat : n \notin S}
<1>1. SUFFICES ASSUME T # {} PROVE FALSE
  OBVIOUS
<1>2. PICK x \in T : \A y \in T : x <= y
  <2>1. T \subseteq Nat
    OBVIOUS
  <2> HIDE DEF T
  <2> QED BY <1>1, <2>1, Least
<1>3. x \in Nat /\ x # 0 /\ x - 1 \in Nat /\ (x - 1) + 1 = x
  OBVIOUS
<1>4. x - 1 \in S
  BY <1>2, <1>3
<1> QED BY <1>3, <1>4

\* The least element is the one Min chooses.
LEMMA MinIsLeast ==
    ASSUME NEW T, T \subseteq Nat, T # {}
    PROVE  Min(T) \in T /\ \A y \in T : Min(T) <= y
BY Least DEF Min

\* A bounded set of numbers has a greatest element, and Max chooses it.
LEMMA MaxIsGreatest ==
    ASSUME NEW T, NEW n \in Nat, T \subseteq 0 .. n, T # {}
    PROVE  Max(T) \in T /\ \A y \in T : y <= Max(T)
<1> DEFINE U == {n - y : y \in T}
<1>0. \A y \in T : y \in Int /\ n - y \in Nat
  OBVIOUS
<1>1. U \subseteq Nat /\ U # {}
  BY <1>0
<1>2. PICK x \in U : \A y \in U : x <= y
  <2> HIDE DEF U
  <2> QED BY <1>1, Least
<1>3. PICK m \in T : x = n - m
  OBVIOUS
<1>4. \A y \in T : m >= y
  <2> SUFFICES ASSUME NEW y \in T PROVE m >= y
    OBVIOUS
  <2>1. n - m <= n - y
    BY <1>2, <1>3
  <2> QED BY <2>1
<1> HIDE DEF U
<1>5. Max(T) \in T /\ \A y \in T : Max(T) >= y
  BY <1>4 DEF Max
<1>6. \A y \in T : y \in Int
  OBVIOUS
<1> QED BY <1>5, <1>6

-----------------------------------------------------------------------------
(***************************************************************************)
(* Sequences of sequences, one after the other.                            *)
(***************************************************************************)

LEMMA Joined ==
    ASSUME NEW S, NEW s \in Seq(S), NEW t \in Seq(S)
    PROVE  /\ s \o t \in Seq(S)
           /\ Len(s \o t) = Len(s) + Len(t)
           /\ \A i \in 1 .. Len(s) : (s \o t)[i] = s[i]
           /\ \A i \in 1 .. Len(t) : (s \o t)[Len(s) + i] = t[i]
OBVIOUS

LEMMA Lengths ==
    ASSUME NEW S, NEW s \in Seq(S)
    PROVE  Len(s) \in Nat /\ DOMAIN s = 1 .. Len(s) /\ \A i \in 1 .. Len(s) : s[i] \in S
OBVIOUS

LEMMA EmptyJoined ==
    ASSUME NEW S, NEW s \in Seq(S)
    PROVE  <<>> \o s = s /\ <<>> \in Seq(S)
OBVIOUS

\* The recursion of FlattenSeq is well-founded.
LEMMA FlattenUnfold ==
    ASSUME NEW S, NEW ss \in Seq(Seq(S)), Len(ss) # 0
    PROVE  \E f : /\ f[1] = ss[1]
                  /\ \A i \in 1 .. Len(ss) : i # 1 => f[i] = f[i - 1] \o ss[i]
                  /\ FlattenSeq(ss) = f[Len(ss)]
<1> DEFINE Is(N, f) == f = [i \in 1 .. N |-> IF i = 1 THEN ss[i] ELSE f[i - 1] \o ss[i]]
           T == {N \in Nat : \E f : Is(N, f)}
<1>1. 0 \in T
  <2>1. Is(0, [i \in 1 .. 0 |-> ss[i]])
    OBVIOUS
  <2> QED BY <2>1
<1>2. ASSUME NEW N \in Nat, N \in T PROVE N + 1 \in T
  <2>1. PICK f : Is(N, f)
    BY <1>2
  <2> DEFINE g == [i \in 1 .. N + 1 |-> IF i = 1 THEN ss[i]
                                        ELSE IF i = N + 1 THEN f[N] \o ss[i] ELSE f[i]]
  <2>2. ASSUME NEW i \in 1 .. N + 1
        PROVE  g[i] = IF i = 1 THEN ss[i] ELSE g[i - 1] \o ss[i]
    <3>1. CASE i = 1
      BY <3>1
    <3>2. CASE i # 1
      <4>1. i - 1 \in 1 .. N /\ i - 1 \in 1 .. N + 1 /\ i - 1 # N + 1
        BY <3>2
      <4>2. g[i - 1] = f[i - 1]
        <5>1. CASE i - 1 = 1
          <6>1. 1 \in 1 .. N
            BY <4>1, <5>1
          <6>2. f[1] = ss[1]
            BY <2>1, <6>1
          <6> QED BY <4>1, <5>1, <6>2
        <5>2. CASE i - 1 # 1
          BY <4>1, <5>2
        <5> QED BY <5>1, <5>2
      <4>3. CASE i = N + 1
        <5>0. i - 1 = N
          BY <4>3
        <5>1. g[i] = f[N] \o ss[i]
          BY <3>2, <4>3
        <5>2. g[i - 1] = f[N]
          BY <4>2, <5>0
        <5> HIDE DEF g
        <5> QED BY <3>2, <5>1, <5>2
      <4>4. CASE i # N + 1
        <5>1. i \in 1 .. N
          BY <4>4
        <5>2. f[i] = f[i - 1] \o ss[i]
          BY <2>1, <3>2, <5>1
        <5> QED BY <3>2, <4>2, <4>4, <5>2
      <4> QED BY <4>3, <4>4
    <3> QED BY <3>1, <3>2
  <2>3. g = [i \in 1 .. N + 1 |-> g[i]]
    OBVIOUS
  <2> HIDE DEF g
  <2>4. Is(N + 1, g)
    BY <2>2, <2>3
  <2> HIDE DEF Is
  <2> QED BY <2>4
<1>3. Len(ss) \in T
  <2> HIDE DEF T
  <2> QED BY <1>1, <1>2, Climbs, SMTT(20)
<1>4. PICK f : Is(Len(ss), f)
  BY <1>3
<1> DEFINE c == CHOOSE g : Is(Len(ss), g)
<1>5. FlattenSeq(ss) = c[Len(ss)]
  BY DEF FlattenSeq
<1>6. Is(Len(ss), c)
  <2> HIDE DEF Is
  <2> QED BY <1>4
<1> HIDE DEF c
<1>7. c[1] = ss[1]
  BY <1>6
<1>8. \A i \in 1 .. Len(ss) : i # 1 => c[i] = c[i - 1] \o ss[i]
  BY <1>6
<1> HIDE DEF Is
<1> QED BY <1>5, <1>7, <1>8

\* The first n sequences of e, one after the other.
Cat(e, n) == FlattenSeq([i \in 1 .. n |-> e[i]])

LEMMA CatStep ==
    ASSUME NEW S, NEW n \in Nat, NEW e, \A i \in 1 .. n + 1 : e[i] \in Seq(S)
    PROVE  Cat(e, n + 1) = IF n = 0 THEN e[1] ELSE Cat(e, n) \o e[n + 1]
<1> DEFINE ss == [i \in 1 .. n + 1 |-> e[i]]
           tt == [i \in 1 .. n |-> e[i]]
<1>1. /\ ss \in Seq(Seq(S)) /\ Len(ss) = n + 1 /\ Len(ss) # 0
      /\ \A i \in 1 .. n + 1 : ss[i] = e[i]
  OBVIOUS
<1>2. tt \in Seq(Seq(S)) /\ Len(tt) = n /\ \A i \in 1 .. n : tt[i] = e[i]
  OBVIOUS
<1>3. Cat(e, n + 1) = FlattenSeq(ss) /\ Cat(e, n) = FlattenSeq(tt)
  BY DEF Cat
<1> HIDE DEF ss, tt
<1>4. PICK f : /\ f[1] = ss[1]
               /\ \A i \in 1 .. Len(ss) : i # 1 => f[i] = f[i - 1] \o ss[i]
               /\ FlattenSeq(ss) = f[Len(ss)]
  BY <1>1, FlattenUnfold
<1>5. CASE n = 0
  BY <1>1, <1>3, <1>4, <1>5
<1>6. CASE n # 0
  <2>1. PICK g : /\ g[1] = tt[1]
                 /\ \A i \in 1 .. Len(tt) : i # 1 => g[i] = g[i - 1] \o tt[i]
                 /\ FlattenSeq(tt) = g[Len(tt)]
    BY <1>2, <1>6, FlattenUnfold
  <2> DEFINE T == {i \in Nat : i + 1 <= n => f[i + 1] = g[i + 1]}
  <2>2. 0 \in T
    BY <1>1, <1>2, <1>4, <1>6, <2>1, SMTT(20)
  <2>3. ASSUME NEW i \in Nat, i \in T PROVE i + 1 \in T
    <3> SUFFICES ASSUME (i + 1) + 1 <= n PROVE f[(i + 1) + 1] = g[(i + 1) + 1]
      OBVIOUS
    <3> DEFINE j == (i + 1) + 1
    <3>1. /\ j \in 1 .. n /\ j \in 1 .. n + 1 /\ j # 1 /\ j - 1 = i + 1 /\ i + 1 <= n
      OBVIOUS
    <3>2. f[i + 1] = g[i + 1]
      BY <2>3, <3>1
    <3> HIDE DEF j
    <3>3. f[j] = f[j - 1] \o ss[j]
      BY <1>1, <1>4, <3>1
    <3>4. g[j] = g[j - 1] \o tt[j]
      BY <1>2, <2>1, <3>1
    <3>5. ss[j] = tt[j]
      BY <1>1, <1>2, <3>1
    <3>6. f[j] = g[j]
      BY <3>1, <3>2, <3>3, <3>4, <3>5
    <3> QED BY <3>6 DEF j
  <2>4. \A i \in Nat : i \in T
    <3> HIDE DEF T
    <3> QED BY <2>2, <2>3, Climbs
  <2>5. n - 1 \in Nat /\ (n - 1) + 1 = n
    BY <1>6
  <2>6. f[n] = g[n]
    BY <2>4, <2>5
  <2>7. n + 1 \in 1 .. Len(ss) /\ n + 1 # 1 /\ (n + 1) - 1 = n
    BY <1>1, <1>6
  <2>8. f[n + 1] = f[n] \o ss[n + 1]
    BY <1>4, <2>7
  <2>9. ss[n + 1] = e[n + 1]
    BY <1>1
  <2> QED BY <1>1, <1>2, <1>3, <1>4, <1>6, <2>1, <2>6, <2>8, <2>9
<1> QED BY <1>5, <1>6

Listed(S, e, n) == n \in Nat /\ \A i \in 1 .. n : e[i] \in Seq(S)

LEMMA CatLaws ==
    ASSUME NEW S, NEW n \in Nat, NEW e, Listed(S, e, n)
    PROVE  /\ Cat(e, 0) = <<>>
           /\ \A i \in 0 .. n : Cat(e, i) \in Seq(S)
           /\ \A i \in 1 .. n : Cat(e, i) = Cat(e, i - 1) \o e[i]
<1>0. n \in Nat /\ \A i \in 1 .. n : e[i] \in Seq(S)
  BY DEF Listed
<1>1. Cat(e, 0) = <<>>
  BY DEF Cat, FlattenSeq
<1> DEFINE T == {i \in Nat : i <= n => Cat(e, i) \in Seq(S)}
<1>2. ASSUME NEW i \in Nat, i + 1 <= n, Cat(e, i) \in Seq(S)
      PROVE  Cat(e, i + 1) = Cat(e, i) \o e[i + 1]
  <2>1. \A k \in 1 .. i + 1 : e[k] \in Seq(S)
    BY <1>0, <1>2
  <2>2. Cat(e, i + 1) = IF i = 0 THEN e[1] ELSE Cat(e, i) \o e[i + 1]
    BY <2>1, CatStep
  <2>3. CASE i = 0
    <3>1. e[1] \in Seq(S)
      BY <2>1, <2>3
    <3>2. <<>> \o e[1] = e[1]
      BY <3>1, EmptyJoined
    <3>3. i + 1 = 1 /\ Cat(e, i) = <<>>
      BY <1>1, <2>3
    <3> QED BY <2>2, <2>3, <3>2, <3>3
  <2> QED BY <2>2, <2>3
<1>3. 0 \in T
  <2>1. <<>> \in Seq(S)
    OBVIOUS
  <2> QED BY <1>1, <2>1
<1>4. ASSUME NEW i \in Nat, i \in T PROVE i + 1 \in T
  <2> SUFFICES ASSUME i + 1 <= n PROVE Cat(e, i + 1) \in Seq(S)
    OBVIOUS
  <2>1. Cat(e, i) \in Seq(S) /\ i + 1 \in 1 .. n
    BY <1>0, <1>4
  <2>2. Cat(e, i + 1) = Cat(e, i) \o e[i + 1]
    BY <1>2, <2>1
  <2>3. e[i + 1] \in Seq(S)
    BY <1>0, <2>1
  <2> QED BY <2>1, <2>2, <2>3, Joined
<1>5. \A i \in Nat : i \in T
  <2> HIDE DEF T
  <2> QED BY <1>3, <1>4, Climbs
<1>6. \A i \in 0 .. n : Cat(e, i) \in Seq(S)
  BY <1>0, <1>5
<1>7. ASSUME NEW i \in 1 .. n PROVE Cat(e, i) = Cat(e, i - 1) \o e[i]
  <2>1. i - 1 \in Nat /\ (i - 1) + 1 = i /\ i - 1 \in 0 .. n /\ (i - 1) + 1 <= n
    BY <1>0
  <2>2. Cat(e, (i - 1) + 1) = Cat(e, i - 1) \o e[(i - 1) + 1]
    BY <1>2, <1>6, <2>1
  <2> QED BY <2>1, <2>2
<1> QED BY <1>1, <1>6, <1>7

\* Where the i-th sequence is in all of them; and the first are where they are if more
\* come after them.
LEMMA CatParts ==
    ASSUME NEW S, NEW n \in Nat, NEW e, Listed(S, e, n), NEW i \in 1 .. n
    PROVE  /\ Cat(e, i) = Cat(e, i - 1) \o e[i]
           /\ Cat(e, i) \in Seq(S) /\ Cat(e, i - 1) \in Seq(S) /\ e[i] \in Seq(S)
<1>1. i \in 0 .. n /\ i - 1 \in 0 .. n /\ e[i] \in Seq(S)
  BY DEF Listed
<1> QED BY <1>1, CatLaws

LEMMA CatLength ==
    ASSUME NEW S, NEW n \in Nat, NEW e, Listed(S, e, n), NEW i \in 1 .. n
    PROVE  /\ Len(Cat(e, i)) = Len(Cat(e, i - 1)) + Len(e[i])
           /\ Len(Cat(e, i)) \in Nat /\ Len(Cat(e, i - 1)) \in Nat /\ Len(e[i]) \in Nat
<1>1. /\ Cat(e, i) = Cat(e, i - 1) \o e[i]
      /\ Cat(e, i) \in Seq(S) /\ Cat(e, i - 1) \in Seq(S) /\ e[i] \in Seq(S)
  BY CatParts
<1>2. Len(Cat(e, i)) \in Nat /\ Len(Cat(e, i - 1)) \in Nat /\ Len(e[i]) \in Nat
  BY <1>1, Lengths
<1>3. Len(Cat(e, i)) = Len(Cat(e, i - 1)) + Len(e[i])
  BY <1>1, Joined
<1> QED BY <1>2, <1>3

LEMMA CatNew ==
    ASSUME NEW S, NEW n \in Nat, NEW e, Listed(S, e, n), NEW i \in 1 .. n
    PROVE  \A p \in 1 .. Len(e[i]) : Cat(e, i)[Len(Cat(e, i - 1)) + p] = e[i][p]
<1>1. /\ Cat(e, i) = Cat(e, i - 1) \o e[i]
      /\ Cat(e, i) \in Seq(S) /\ Cat(e, i - 1) \in Seq(S) /\ e[i] \in Seq(S)
  BY CatParts
<1> QED BY <1>1, Joined

LEMMA CatPrefix ==
    ASSUME NEW S, NEW n \in Nat, NEW e, Listed(S, e, n), NEW i \in 0 .. n, NEW k \in 0 .. n, i <= k
    PROVE  /\ Len(Cat(e, i)) \in Nat /\ Len(Cat(e, k)) \in Nat
           /\ Len(Cat(e, i)) <= Len(Cat(e, k))
           /\ \A p \in 1 .. Len(Cat(e, i)) : Cat(e, k)[p] = Cat(e, i)[p]
<1> DEFINE Holds(m) == /\ Len(Cat(e, i)) <= Len(Cat(e, m))
                       /\ \A p \in 1 .. Len(Cat(e, i)) : Cat(e, m)[p] = Cat(e, i)[p]
           T == {d \in Nat : i + d <= n => Holds(i + d)}
<1>0. n \in Nat
  BY DEF Listed
<1>1. Len(Cat(e, i)) \in Nat /\ Len(Cat(e, k)) \in Nat
  BY CatLaws, Lengths
<1>2. 0 \in T
  BY <1>0, <1>1
<1>3. ASSUME NEW d \in Nat, d \in T PROVE d + 1 \in T
  <2> SUFFICES ASSUME i + (d + 1) <= n PROVE Holds(i + (d + 1))
    OBVIOUS
  <2>1. Holds(i + d)
    BY <1>0, <1>3
  <2>0. PICK m \in 1 .. n : m = i + (d + 1)
    BY <1>0
  <2>2. m - 1 = i + d
    BY <2>0
  <2>3. /\ Len(Cat(e, i)) <= Len(Cat(e, m - 1))
        /\ \A p \in 1 .. Len(Cat(e, i)) : Cat(e, m - 1)[p] = Cat(e, i)[p]
    BY <2>1, <2>2
  <2>4. /\ Len(Cat(e, m)) = Len(Cat(e, m - 1)) + Len(e[m])
        /\ Len(e[m]) \in Nat /\ Len(Cat(e, m - 1)) \in Nat
    BY <2>2, CatLength
  <2>5. ASSUME NEW p \in 1 .. Len(Cat(e, m - 1)) PROVE Cat(e, m)[p] = Cat(e, m - 1)[p]
    <3>1. /\ Cat(e, m) = Cat(e, m - 1) \o e[m]
          /\ Cat(e, m - 1) \in Seq(S) /\ e[m] \in Seq(S)
      BY ONLY Listed(S, e, n), n \in Nat, m \in 1 .. n, CatParts, ZenonT(30)
    <3> QED BY <3>1, Joined
  <2>6. Len(Cat(e, i)) <= Len(Cat(e, m))
    <3>1. ASSUME NEW a \in Nat, NEW b \in Nat, NEW c \in Nat, a <= b PROVE a <= b + c
      BY <3>1
    <3> QED BY <1>1, <2>3, <2>4, <3>1
  <2>7. ASSUME NEW p \in 1 .. Len(Cat(e, i)) PROVE Cat(e, m)[p] = Cat(e, i)[p]
    <3>1. p \in 1 .. Len(Cat(e, m - 1))
      BY <1>1, <2>3, <2>4
    <3> QED BY <2>3, <2>5, <3>1
  <2>8. Holds(m)
    BY <2>6, <2>7
  <2> HIDE DEF Holds
  <2> QED BY <2>0, <2>8
<1>4. \A d \in Nat : d \in T
  <2> HIDE DEF T
  <2> QED BY <1>2, <1>3, Climbs
<1>5. k - i \in Nat /\ i + (k - i) = k /\ k <= n
  BY <1>0
<1>6. Holds(i + (k - i))
  <2> HIDE DEF Holds
  <2> QED BY <1>4, <1>5
<1> QED BY <1>1, <1>5, <1>6

LEMMA CatSame ==
    ASSUME NEW S, NEW n \in Nat, NEW e, Listed(S, e, n), NEW i \in 0 .. n, NEW k \in 0 .. n, i <= k
    PROVE  \A p \in 1 .. Len(Cat(e, i)) : Cat(e, k)[p] = Cat(e, i)[p]
BY CatPrefix

LEMMA CatPlace ==
    ASSUME NEW S, NEW n \in Nat, NEW e, Listed(S, e, n), NEW i \in 1 .. n
    PROVE  \A p \in 1 .. Len(e[i]) : Cat(e, n)[Len(Cat(e, i - 1)) + p] = e[i][p]
<1> TAKE p \in 1 .. Len(e[i])
<1>1. n \in Nat /\ i \in 0 .. n /\ n \in 0 .. n /\ i <= n
  BY DEF Listed
<1>2. /\ Len(Cat(e, i)) = Len(Cat(e, i - 1)) + Len(e[i])
      /\ Len(Cat(e, i - 1)) \in Nat /\ Len(e[i]) \in Nat
  BY CatLength
<1>3. Len(Cat(e, i - 1)) + p \in 1 .. Len(Cat(e, i))
  BY <1>2
<1>4. Cat(e, i)[Len(Cat(e, i - 1)) + p] = e[i][p]
  BY CatNew
<1>5. \A q \in 1 .. Len(Cat(e, i)) : Cat(e, n)[q] = Cat(e, i)[q]
  BY <1>1, CatPrefix
<1> QED BY <1>3, <1>4, <1>5

-----------------------------------------------------------------------------
(***************************************************************************)
(* The operators of Beast.                                                 *)
(***************************************************************************)

LEMMA SubSeqLaws ==
    ASSUME NEW S, NEW s \in Seq(S), NEW i \in Nat \ {0}, NEW k \in 0 .. Len(s)
    PROVE  /\ SubSeq(s, i, k) \in Seq(S)
           /\ Len(SubSeq(s, i, k)) = IF i <= k THEN (k - i) + 1 ELSE 0
           /\ \A p \in 1 .. Len(SubSeq(s, i, k)) : SubSeq(s, i, k)[p] = s[(i - 1) + p]
OBVIOUS

LEMMA FromLaws ==
    ASSUME NEW S, NEW s \in Seq(S), NEW i \in Nat \ {0}
    PROVE  /\ From(s, i) \in Seq(S) /\ Len(From(s, i)) \in Nat
           /\ Len(From(s, i)) = IF i <= Len(s) THEN (Len(s) - i) + 1 ELSE 0
           /\ \A p \in 1 .. Len(From(s, i)) : From(s, i)[p] = s[(i - 1) + p]
<1>1. Len(s) \in Nat /\ Len(s) \in 0 .. Len(s)
  BY Lengths
<1>2. From(s, i) \in Seq(S)
  BY <1>1, SubSeqLaws DEF From
<1> QED BY <1>1, <1>2, SubSeqLaws, Lengths DEF From

\* The next escape byte is the first after the first byte.
LEMMA NextEscapeIs ==
    ASSUME NEW data \in Seq(Byte)
    PROVE  \/ /\ NextEscape(data) = 0
              /\ \A p \in 2 .. Len(data) : data[p] # Escape
           \/ /\ NextEscape(data) \in 2 .. Len(data) /\ data[NextEscape(data)] = Escape
              /\ \A p \in 2 .. Len(data) : data[p] = Escape => NextEscape(data) <= p
<1> DEFINE I == {p \in 2 .. Len(data) : data[p] = Escape}
<1>1. Len(data) \in Nat
  BY Lengths
<1>2. NextEscape(data) = IF I # {} THEN Min(I) ELSE 0
  BY DEF NextEscape, SelectInSubSeq
<1>3. CASE I = {}
  BY <1>2, <1>3
<1>4. CASE I # {}
  <2>1. I \subseteq Nat
    BY <1>1
  <2>2. Min(I) \in I /\ \A y \in I : Min(I) <= y
    <3> HIDE DEF I
    <3> QED BY <1>4, <2>1, MinIsLeast
  <2>3. NextEscape(data) = Min(I)
    BY <1>2, <1>4
  <2> QED BY <2>2, <2>3
<1> QED BY <1>3, <1>4

\* The aligned data begin at the first escape byte.
LEMMA AlignedIs ==
    ASSUME NEW data \in Seq(Byte)
    PROVE  \/ /\ Aligned(data) = <<>>
              /\ \A p \in 1 .. Len(data) : data[p] # Escape
           \/ \E n \in 1 .. Len(data) :
              /\ Aligned(data) = From(data, n)
              /\ data[n] = Escape
              /\ \A p \in 1 .. Len(data) : data[p] = Escape => n <= p
<1> DEFINE I == {p \in 1 .. Len(data) : data[p] = Escape}
           i == SelectInSeq(data, LAMBDA b : b = Escape)
<1>1. Len(data) \in Nat
  BY Lengths
<1>2. i = IF I # {} THEN Min(I) ELSE 0
  BY DEF SelectInSeq
<1>3. Aligned(data) = IF i = 0 THEN <<>> ELSE From(data, i)
  BY DEF Aligned
<1> HIDE DEF i
<1>4. CASE I = {}
  BY <1>2, <1>3, <1>4
<1>5. CASE I # {}
  <2>1. I \subseteq Nat
    BY <1>1
  <2>2. Min(I) \in I /\ \A y \in I : Min(I) <= y
    <3> HIDE DEF I
    <3> QED BY <1>5, <2>1, MinIsLeast
  <2>3. i = Min(I)
    BY <1>2, <1>5
  <2>4. i \in I /\ \A y \in I : i <= y
    BY <2>2, <2>3
  <2>5. i \in 1 .. Len(data) /\ i # 0
    BY <1>1, <2>4
  <2> QED BY <1>3, <2>4, <2>5
<1> QED BY <1>4, <1>5

LEMMA AlignedType ==
    ASSUME NEW data \in Seq(Byte)
    PROVE  Aligned(data) \in Seq(Byte) /\ Len(Aligned(data)) <= Len(data)
<1>1. Len(data) \in Nat /\ <<>> \in Seq(Byte) /\ Len(<<>>) = 0
  BY Lengths, EmptyJoined
<1>2. CASE Aligned(data) = <<>>
  BY <1>1, <1>2
<1>3. ASSUME NEW n \in 1 .. Len(data), Aligned(data) = From(data, n)
      PROVE  Aligned(data) \in Seq(Byte) /\ Len(Aligned(data)) <= Len(data)
  <2>1. n \in Nat \ {0} /\ n <= Len(data)
    BY <1>1
  <2> QED BY <1>1, <1>3, <2>1, FromLaws
<1> QED BY <1>2, <1>3, AlignedIs

(* The recursion of unescapeBeastPayload is well-founded. *)

TakenNone == [raw |-> <<>>, pos |-> 0, pair |-> FALSE]

\* One more byte, b, which is number i.
TakenByte(s, b, i, want) ==
    IF s.pair /\ b = Escape THEN [s EXCEPT !.pos = i, !.pair = FALSE]
    ELSE IF Len(s.raw) = want THEN [s EXCEPT !.pair = FALSE]
    ELSE [raw |-> Append(s.raw, b), pos |-> i, pair |-> b = Escape]

LEMMA UnescapeUnfold ==
    ASSUME NEW data \in Seq(Byte), NEW want
    PROVE  \E f : /\ f[0] = TakenNone
                  /\ \A i \in 1 .. Len(data) : f[i] = TakenByte(f[i - 1], data[i], i, want)
                  /\ unescapeBeastPayload(data, want) = f[Len(data)]
<1> DEFINE Is(N, f) == f = [i \in 0 .. N |-> IF i = 0 THEN TakenNone
                                             ELSE TakenByte(f[i - 1], data[i], i, want)]
           T == {N \in Nat : \E f : Is(N, f)}
<1>1. 0 \in T
  <2>1. Is(0, [i \in 0 .. 0 |-> TakenNone])
    OBVIOUS
  <2> HIDE DEF Is
  <2> QED BY <2>1
<1>2. ASSUME NEW N \in Nat, N \in T PROVE N + 1 \in T
  <2>1. PICK f : Is(N, f)
    BY <1>2
  <2> DEFINE g == [i \in 0 .. N + 1 |-> IF i = N + 1 THEN TakenByte(f[N], data[i], i, want)
                                        ELSE f[i]]
  <2>2. ASSUME NEW i \in 0 .. N + 1
        PROVE  g[i] = IF i = 0 THEN TakenNone ELSE TakenByte(g[i - 1], data[i], i, want)
    <3>1. CASE i = 0
      BY <2>1, <3>1
    <3>2. CASE i # 0 /\ i # N + 1
      <4>1. i \in 0 .. N /\ i - 1 \in 0 .. N + 1 /\ i - 1 # N + 1
        BY <3>2
      <4>2. g[i] = f[i] /\ g[i - 1] = f[i - 1]
        BY <4>1, <3>2
      <4>3. f[i] = TakenByte(f[i - 1], data[i], i, want)
        BY <2>1, <4>1, <3>2
      <4> QED BY <3>2, <4>2, <4>3
    <3>3. CASE i = N + 1
      <4>1. i # 0 /\ i - 1 = N /\ N \in 0 .. N + 1 /\ N # N + 1
        BY <3>3
      <4>2. g[i] = TakenByte(f[N], data[i], i, want) /\ g[N] = f[N]
        BY <4>1, <3>3
      <4> QED BY <4>1, <4>2
    <3> QED BY <3>1, <3>2, <3>3
  <2>3. g = [i \in 0 .. N + 1 |-> g[i]]
    OBVIOUS
  <2> HIDE DEF g
  <2>4. Is(N + 1, g)
    BY <2>2, <2>3
  <2> HIDE DEF Is
  <2> QED BY <2>4
<1>3. Len(data) \in T
  <2>1. Len(data) \in Nat
    BY Lengths
  <2> HIDE DEF T
  <2> QED BY <1>1, <1>2, <2>1, Climbs
<1>4. PICK f : Is(Len(data), f)
  BY <1>3
<1> DEFINE c == CHOOSE g : Is(Len(data), g)
<1>5. unescapeBeastPayload(data, want) = c[Len(data)]
  BY DEF unescapeBeastPayload, TakenByte, TakenNone
<1>6. Is(Len(data), c)
  <2> HIDE DEF Is
  <2> QED BY <1>4
<1> HIDE DEF c
<1>7. Len(data) \in Nat
  BY Lengths
<1>8. c[0] = TakenNone
  BY <1>6, <1>7
<1>9. \A i \in 1 .. Len(data) : c[i] = TakenByte(c[i - 1], data[i], i, want)
  BY <1>6, <1>7
<1> HIDE DEF Is
<1> QED BY <1>5, <1>8, <1>9

TakenType == [raw : Seq(Byte), pos : Nat, pair : BOOLEAN]

LEMMA TakenByteType ==
    ASSUME NEW s \in TakenType, NEW b \in Byte, NEW i \in Nat, NEW want
    PROVE  TakenByte(s, b, i, want) \in TakenType
<1>1. /\ s.raw \in Seq(Byte) /\ s.pos \in Nat /\ s.pair \in BOOLEAN
      /\ s = [raw |-> s.raw, pos |-> s.pos, pair |-> s.pair]
  BY DEF TakenType
<1>2. CASE s.pair /\ b = Escape
  <2>1. TakenByte(s, b, i, want) = [raw |-> s.raw, pos |-> i, pair |-> FALSE]
    BY <1>1, <1>2 DEF TakenByte
  <2> QED BY <1>1, <2>1 DEF TakenType
<1>3. CASE ~(s.pair /\ b = Escape) /\ Len(s.raw) = want
  <2>1. TakenByte(s, b, i, want) = [raw |-> s.raw, pos |-> s.pos, pair |-> FALSE]
    BY <1>1, <1>3 DEF TakenByte
  <2> QED BY <1>1, <2>1 DEF TakenType
<1>4. CASE ~(s.pair /\ b = Escape) /\ Len(s.raw) # want
  <2>1. TakenByte(s, b, i, want) = [raw |-> Append(s.raw, b), pos |-> i, pair |-> b = Escape]
    BY <1>4 DEF TakenByte
  <2>2. Append(s.raw, b) \in Seq(Byte) /\ (b = Escape) \in BOOLEAN
    BY <1>1
  <2> QED BY <2>1, <2>2 DEF TakenType
<1> QED BY <1>2, <1>3, <1>4

LEMMA UnescapeType ==
    ASSUME NEW data \in Seq(Byte), NEW want
    PROVE  unescapeBeastPayload(data, want) \in TakenType
<1>1. PICK f : /\ f[0] = TakenNone
               /\ \A i \in 1 .. Len(data) : f[i] = TakenByte(f[i - 1], data[i], i, want)
               /\ unescapeBeastPayload(data, want) = f[Len(data)]
  BY UnescapeUnfold
<1> DEFINE T == {i \in Nat : i <= Len(data) => f[i] \in TakenType}
<1>2. Len(data) \in Nat /\ \A i \in 1 .. Len(data) : data[i] \in Byte
  BY Lengths
<1>3. 0 \in T
  <2>1. TakenNone \in TakenType
    BY EmptyJoined DEF TakenNone, TakenType
  <2> QED BY <1>1, <2>1
<1>4. ASSUME NEW i \in Nat, i \in T PROVE i + 1 \in T
  <2> SUFFICES ASSUME i + 1 <= Len(data) PROVE f[i + 1] \in TakenType
    OBVIOUS
  <2>1. i + 1 \in 1 .. Len(data) /\ (i + 1) - 1 = i /\ i + 1 \in Nat
    BY <1>2
  <2>2. f[i] \in TakenType
    BY <1>2, <1>4
  <2>3. f[i + 1] = TakenByte(f[i], data[i + 1], i + 1, want)
    BY <1>1, <2>1
  <2>4. data[i + 1] \in Byte
    BY <1>2, <2>1
  <2> QED BY <2>1, <2>2, <2>3, <2>4, TakenByteType
<1>5. Len(data) \in T
  <2> HIDE DEF T
  <2> QED BY <1>2, <1>3, <1>4, Climbs
<1> QED BY <1>1, <1>2, <1>5

\* The decoder takes the escape byte and the type at least.
LEMMA RemainingShorter ==
    ASSUME NEW d \in Seq(Byte), Readable(d)
    PROVE  Remaining(d) \in Seq(Byte) /\ Len(Remaining(d)) < Len(d)
<1>1. MinLen \in Nat /\ MinLen >= 3
  BY BeastAssumption
<1>2. Len(d) \in Nat /\ Len(d) >= 3
  BY <1>1, Lengths DEF Readable
<1>3. Payload(d).pos \in Nat
  <2>1. From(d, 3) \in Seq(Byte)
    BY FromLaws
  <2> QED BY <2>1, UnescapeType DEF Payload, TakenType
<1>4. PICK k \in Nat : Remaining(d) = From(d, 3 + k)
  <2>1. CASE Heartbeat(d)
    <3>1. Remaining(d) = From(d, 3 + (MinLen - 2)) /\ MinLen - 2 \in Nat
      BY <1>1, <2>1 DEF Remaining
    <3> QED BY <3>1
  <2>2. CASE ~Heartbeat(d)
    <3>1. Remaining(d) = From(d, 3 + Payload(d).pos)
      BY <2>2 DEF Remaining
    <3> QED BY <1>3, <3>1
  <2> QED BY <2>1, <2>2
<1>5. 3 + k \in Nat \ {0}
  OBVIOUS
<1>6. /\ From(d, 3 + k) \in Seq(Byte)
      /\ Len(From(d, 3 + k)) = IF 3 + k <= Len(d) THEN (Len(d) - (3 + k)) + 1 ELSE 0
  BY <1>5, FromLaws
<1> QED BY <1>2, <1>4, <1>6

-----------------------------------------------------------------------------
(***************************************************************************)
(* Types, and the end of the parsing loop.                                 *)
(***************************************************************************)

TypeInv ==
    /\ modeAC \in BOOLEAN
    /\ wire \in Seq(Byte)
    /\ buffer \in Seq(Byte)
    /\ sent \in Seq(Frame)

LEMMA EncodeType ==
    ASSUME NEW f \in Frame
    PROVE  /\ f.type \in {TypeModeAC, TypeShort, TypeLong, TypeStatus} /\ f.body \in Seq(Byte)
           /\ EncodeBeast(f) \in Seq(Byte)
<1>1. /\ f.type \in {TypeModeAC, TypeShort, TypeLong, TypeStatus} /\ f.body \in Seq(Byte)
      /\ f.type \in Byte
  BY BeastAssumption DEF TypeModeAC, TypeShort, TypeLong, TypeStatus, Byte
<1> DEFINE e == [i \in DOMAIN f.body |-> appendBeastByte(f.body[i])]
           n == Len(f.body)
<1>2. n \in Nat /\ DOMAIN f.body = 1 .. n /\ \A i \in 1 .. n : f.body[i] \in Byte
  BY <1>1, Lengths
<1>3. \A i \in 1 .. n : e[i] \in Seq(Byte)
  BY <1>2 DEF appendBeastByte
<1>4. FlattenSeq(e) = Cat(e, n)
  <2>1. e = [i \in 1 .. n |-> e[i]]
    BY <1>2
  <2> HIDE DEF e, n
  <2> QED BY <2>1 DEF Cat
<1>5. Cat(e, n) \in Seq(Byte)
  <2>1. n \in 0 .. n
    BY <1>2
  <2>2. Listed(Byte, e, n)
    BY <1>2, <1>3 DEF Listed
  <2> HIDE DEF e, n
  <2> QED BY <1>2, <2>1, <2>2, CatLaws
<1>6. <<Escape, f.type>> \in Seq(Byte)
  BY <1>1 DEF Escape, Byte
<1>7. EncodeBeast(f) = <<Escape, f.type>> \o FlattenSeq(e)
  BY DEF EncodeBeast
<1> HIDE DEF e, n
<1>8. EncodeBeast(f) \in Seq(Byte)
  BY <1>4, <1>5, <1>6, <1>7, Joined
<1> QED BY <1>1, <1>8

LEMMA InitTypeInv == Init => TypeInv
BY EmptyJoined DEF Init, TypeInv

LEMMA NextTypeInv == TypeInv /\ [Next]_vars => TypeInv'
<1> SUFFICES ASSUME TypeInv, [Next]_vars PROVE TypeInv'
  OBVIOUS
<1> USE DEF TypeInv
<1>0. Len(wire) \in Nat /\ Len(buffer) \in Nat /\ Aligned(buffer) \in Seq(Byte)
  BY Lengths, AlignedType
<1>1. ASSUME NEW f \in Frame, Send(f) PROVE TypeInv'
  <2>1. wire' \in Seq(Byte)
    BY <1>1, EncodeType, Joined DEF Send
  <2>2. sent' \in Seq(Frame)
    BY <1>1 DEF Send
  <2> QED BY <1>1, <2>1, <2>2 DEF Send
<1>2. ASSUME NEW n \in 1 .. Len(wire), Read(n) PROVE TypeInv'
  <2>1. n \in 0 .. Len(wire) /\ n + 1 \in Nat \ {0}
    BY <1>0
  <2>2. SubSeq(wire, 1, n) \in Seq(Byte) /\ From(wire, n + 1) \in Seq(Byte)
    BY <2>1, SubSeqLaws, FromLaws
  <2>3. buffer \o SubSeq(wire, 1, n) \in Seq(Byte)
    BY <2>2, Joined
  <2> QED BY <1>2, <2>2, <2>3 DEF Read
<1>3. CASE Deliver
  BY <1>0, <1>3, RemainingShorter DEF Deliver, Decoded
<1>4. CASE Skip
  BY <1>0, <1>4, RemainingShorter DEF Skip, Skipped
<1>5. CASE Resync
  <2>1. NextEscape(buffer) \in Nat \ {0}
    BY <1>0, <1>5, NextEscapeIs DEF Resync
  <2> QED BY <1>5, <2>1, FromLaws DEF Resync
<1>6. CASE Wait
  <2>1. CASE Len(buffer) > BufferLimit
    <3>1. (Len(buffer) - BufferKept) + 1 \in Nat \ {0}
      BY <1>0, <2>1, BeastAssumption
    <3> QED BY <1>6, <2>1, <3>1, FromLaws DEF Wait
  <2>2. CASE ~(Len(buffer) > BufferLimit)
    BY <1>6, <2>2 DEF Wait
  <2> QED BY <2>1, <2>2
<1>7. CASE Reconnect
  BY <1>7, EmptyJoined DEF Reconnect, NewBuffer
<1>8. CASE Panic
  BY <1>8 DEF Panic
<1>9. CASE UNCHANGED vars
  BY <1>9 DEF vars
<1> QED BY <1>1, <1>2, <1>3, <1>4, <1>5, <1>6, <1>7, <1>8, <1>9 DEF Next, Parse

LEMMA AlwaysTypeInv == Spec => []TypeInv
BY InitTypeInv, NextTypeInv, PTL DEF Spec

\* Each iteration of the parsing loop that goes on takes bytes from the buffer, whatever it
\* finds there.
THEOREM LoopAlwaysEnds == Spec => LoopEnds
<1> DEFINE Shrinks == stage = "parse" /\ stage' = "parse" /\ UNCHANGED <<wire, sent>>
                        => Len(buffer') < Len(buffer)
<1>1. TypeInv /\ [Next]_vars => [Shrinks]_vars
  <2> SUFFICES ASSUME TypeInv, Next, stage = "parse", stage' = "parse", UNCHANGED <<wire, sent>>
               PROVE  Len(buffer') < Len(buffer)
    OBVIOUS
  <2>0. /\ buffer \in Seq(Byte) /\ Len(buffer) \in Nat
        /\ Aligned(buffer) \in Seq(Byte) /\ Len(Aligned(buffer)) <= Len(buffer)
        /\ Len(Aligned(buffer)) \in Nat
    BY Lengths, AlignedType DEF TypeInv
  <2>1. ASSUME NEW f \in Frame, Send(f) PROVE FALSE
    <3>1. Len(sent) \in Nat /\ Len(Append(sent, f)) = Len(sent) + 1
      BY DEF TypeInv
    <3> QED BY <2>1, <3>1 DEF Send
  <2>2. ASSUME Readable(Aligned(buffer)), buffer' = Remaining(Aligned(buffer))
        PROVE  Len(buffer') < Len(buffer)
    <3>1. /\ Remaining(Aligned(buffer)) \in Seq(Byte)
          /\ Len(Remaining(Aligned(buffer))) < Len(Aligned(buffer))
      BY <2>0, <2>2, RemainingShorter
    <3>2. Len(Remaining(Aligned(buffer))) \in Nat
      BY <3>1, Lengths
    <3> QED BY <2>0, <2>2, <3>1, <3>2
  <2>3. CASE Deliver
    BY <2>2, <2>3 DEF Deliver, Decoded
  <2>4. CASE Skip
    BY <2>2, <2>4 DEF Skip, Skipped
  <2>5. CASE Resync
    <3>1. NextEscape(buffer) \in Nat \ {0} /\ NextEscape(buffer) >= 2
      BY <2>0, <2>5, NextEscapeIs DEF Resync
    <3>2. NextEscape(buffer) <= Len(buffer)
      BY <2>0, <2>5, NextEscapeIs DEF Resync
    <3>3. Len(buffer') = (Len(buffer) - NextEscape(buffer)) + 1
      BY <2>0, <2>5, <3>1, <3>2, FromLaws DEF Resync
    <3> QED BY <2>0, <3>1, <3>3
  <2> QED BY <2>1, <2>3, <2>4, <2>5 DEF Next, Parse, Wait, Read, Panic, Reconnect
<1> QED BY <1>1, AlwaysTypeInv, PTL DEF Spec, LoopEnds

-----------------------------------------------------------------------------
(***************************************************************************)
(* What an encoded frame looks like, and what the decoder finds in it.     *)
(***************************************************************************)

LEMMA CatAgree ==
    ASSUME NEW n, NEW e, NEW g, \A i \in 1 .. n : e[i] = g[i]
    PROVE  Cat(e, n) = Cat(g, n)
BY DEF Cat

Escaped(f) == [i \in DOMAIN f.body |-> appendBeastByte(f.body[i])]

\* How many bytes the first m bytes of the body are with their escapes.
BodyEnd(f, m) == Len(Cat(Escaped(f), m))

LEMMA EncodeIs ==
    ASSUME NEW f \in Frame
    PROVE  LET n == Len(f.body)
               code == EncodeBeast(f)
           IN  /\ n \in Nat /\ \A m \in 1 .. n : f.body[m] \in Byte
               /\ code \in Seq(Byte) /\ Len(code) \in Nat /\ Len(code) = 2 + BodyEnd(f, n)
               /\ code[1] = Escape /\ code[2] = f.type
               /\ BodyEnd(f, 0) = 0
               /\ \A m \in 0 .. n : BodyEnd(f, m) \in Nat /\ BodyEnd(f, m) <= BodyEnd(f, n)
               /\ \A m \in 1 .. n :
                      IF f.body[m] = Escape
                      THEN /\ BodyEnd(f, m) = BodyEnd(f, m - 1) + 2
                           /\ code[2 + (BodyEnd(f, m - 1) + 1)] = Escape
                           /\ code[2 + (BodyEnd(f, m - 1) + 2)] = Escape
                      ELSE /\ BodyEnd(f, m) = BodyEnd(f, m - 1) + 1
                           /\ code[2 + (BodyEnd(f, m - 1) + 1)] = f.body[m]
<1> DEFINE n == Len(f.body)
           code == EncodeBeast(f)
           e == Escaped(f)
           head == <<Escape, f.type>>
<1>1. f.body \in Seq(Byte) /\ f.type \in Byte /\ code \in Seq(Byte)
  BY EncodeType DEF TypeModeAC, TypeShort, TypeLong, TypeStatus, Byte
<1>2. n \in Nat /\ DOMAIN f.body = 1 .. n /\ \A m \in 1 .. n : f.body[m] \in Byte
  BY <1>1, Lengths
<1>3. \A m \in 1 .. n : e[m] = appendBeastByte(f.body[m]) /\ e[m] \in Seq(Byte)
  BY <1>2 DEF appendBeastByte, Escaped
<1>4. code = head \o Cat(e, n)
  <2>1. e = [i \in 1 .. n |-> e[i]]
    BY <1>2 DEF Escaped
  <2>2. code = head \o FlattenSeq(e)
    BY DEF EncodeBeast, Escaped
  <2> HIDE DEF e, n, code, head
  <2> QED BY <2>1, <2>2 DEF Cat
<1>5. head \in Seq(Byte) /\ Len(head) = 2 /\ head[1] = Escape /\ head[2] = f.type
  BY <1>1 DEF Escape, Byte
<1>6. ASSUME NEW m \in 1 .. n, f.body[m] = Escape
      PROVE  Len(e[m]) = 2 /\ e[m][1] = Escape /\ e[m][2] = Escape
  <2>1. e[m] = <<Escape, Escape>>
    BY <1>3, <1>6 DEF appendBeastByte
  <2> QED BY <2>1
<1>7. ASSUME NEW m \in 1 .. n, f.body[m] # Escape
      PROVE  Len(e[m]) = 1 /\ e[m][1] = f.body[m]
  <2>1. e[m] = <<f.body[m]>>
    BY <1>3, <1>7 DEF appendBeastByte
  <2> QED BY <2>1
<1>8. \A m \in 0 .. n : BodyEnd(f, m) = Len(Cat(e, m))
  BY DEF BodyEnd
<1> HIDE DEF n, code, e, head
<1>9. /\ Cat(e, 0) = <<>> /\ Cat(e, n) \in Seq(Byte)
      /\ \A m \in 0 .. n : Len(Cat(e, m)) \in Nat /\ Len(Cat(e, m)) <= Len(Cat(e, n))
      /\ \A m \in 1 .. n : Len(Cat(e, m)) = Len(Cat(e, m - 1)) + Len(e[m])
      /\ \A m \in 1 .. n : \A p \in 1 .. Len(e[m]) :
             Cat(e, n)[Len(Cat(e, m - 1)) + p] = e[m][p]
  <2>1. n \in 0 .. n
    BY <1>2
  <2>2. Listed(Byte, e, n)
    BY <1>2, <1>3 DEF Listed
  <2>3. Cat(e, 0) = <<>> /\ Cat(e, n) \in Seq(Byte)
    BY <1>2, <2>1, <2>2, CatLaws
  <2>4. ASSUME NEW m \in 0 .. n
        PROVE  Len(Cat(e, m)) \in Nat /\ Len(Cat(e, m)) <= Len(Cat(e, n))
    <3>1. m <= n
      BY <1>2
    <3> QED BY <1>2, <2>1, <2>2, <3>1, CatPrefix
  <2>5. ASSUME NEW m \in 1 .. n PROVE Len(Cat(e, m)) = Len(Cat(e, m - 1)) + Len(e[m])
    BY <1>2, <2>2, CatLength
  <2>6. ASSUME NEW m \in 1 .. n, NEW p \in 1 .. Len(e[m])
        PROVE  Cat(e, n)[Len(Cat(e, m - 1)) + p] = e[m][p]
    BY <1>2, <2>2, CatPlace
  <2> QED BY <2>3, <2>4, <2>5, <2>6
<1>10. /\ Len(code) = 2 + Len(Cat(e, n)) /\ code[1] = Escape /\ code[2] = f.type
       /\ \A p \in 1 .. Len(Cat(e, n)) : code[2 + p] = Cat(e, n)[p]
  <2>1. /\ Len(code) = Len(head) + Len(Cat(e, n))
        /\ \A p \in 1 .. Len(head) : code[p] = head[p]
        /\ \A p \in 1 .. Len(Cat(e, n)) : code[Len(head) + p] = Cat(e, n)[p]
    <3>1. Cat(e, n) \in Seq(Byte) /\ head \in Seq(Byte)
      BY <1>5, <1>9
    <3> QED BY <1>4, <3>1, Joined
  <2>2. 1 \in 1 .. Len(head) /\ 2 \in 1 .. Len(head)
    BY <1>5
  <2> QED BY <1>5, <2>1, <2>2
<1>11. ASSUME NEW m \in 1 .. n, NEW p \in 1 .. Len(e[m])
       PROVE  code[2 + (Len(Cat(e, m - 1)) + p)] = e[m][p]
  <2>1. /\ m \in 0 .. n /\ m - 1 \in 0 .. n /\ Len(e[m]) \in Nat
    BY <1>2, <1>3, Lengths
  <2> DEFINE a == Len(Cat(e, m - 1))
             b == Len(e[m])
             c == Len(Cat(e, n))
  <2>2. /\ a \in Nat /\ b \in Nat /\ c \in Nat /\ p \in 1 .. b
        /\ Len(Cat(e, m)) = a + b /\ Len(Cat(e, m)) <= c
    <3>1. n \in 0 .. n
      BY <1>2
    <3> QED BY <1>9, <2>1, <3>1
  <2>3. a + p \in 1 .. c
    <3>1. a + b <= c
      BY <2>2
    <3> HIDE DEF a, b, c
    <3> QED BY <2>2, <3>1
  <2> QED BY <1>9, <1>10, <2>3
<1>12. ASSUME NEW m \in 1 .. n
       PROVE  IF f.body[m] = Escape
              THEN /\ BodyEnd(f, m) = BodyEnd(f, m - 1) + 2
                   /\ code[2 + (BodyEnd(f, m - 1) + 1)] = Escape
                   /\ code[2 + (BodyEnd(f, m - 1) + 2)] = Escape
              ELSE /\ BodyEnd(f, m) = BodyEnd(f, m - 1) + 1
                   /\ code[2 + (BodyEnd(f, m - 1) + 1)] = f.body[m]
  <2>1. m \in 0 .. n /\ m - 1 \in 0 .. n
    BY <1>2
  <2>2. BodyEnd(f, m) = BodyEnd(f, m - 1) + Len(e[m])
    BY <1>8, <1>9, <2>1
  <2>3. CASE f.body[m] = Escape
    <3>1. 1 \in 1 .. Len(e[m]) /\ 2 \in 1 .. Len(e[m])
      BY <1>6, <2>3
    <3>2. /\ code[2 + (BodyEnd(f, m - 1) + 1)] = Escape
          /\ code[2 + (BodyEnd(f, m - 1) + 2)] = Escape
      BY <1>6, <1>8, <1>11, <2>1, <2>3, <3>1
    <3>3. BodyEnd(f, m) = BodyEnd(f, m - 1) + 2
      BY <1>6, <2>2, <2>3
    <3> QED BY <2>3, <3>2, <3>3
  <2>4. CASE f.body[m] # Escape
    <3>1. 1 \in 1 .. Len(e[m])
      BY <1>7, <2>4
    <3>2. code[2 + (BodyEnd(f, m - 1) + 1)] = f.body[m]
      BY <1>7, <1>8, <1>11, <2>1, <2>4, <3>1
    <3>3. BodyEnd(f, m) = BodyEnd(f, m - 1) + 1
      BY <1>7, <2>2, <2>4
    <3> QED BY <2>4, <3>2, <3>3
  <2> QED BY <2>3, <2>4
<1>13. BodyEnd(f, 0) = 0
  <2>1. 0 \in 0 .. n
    BY <1>2
  <2> QED BY <1>8, <1>9, <2>1, EmptyJoined
<1>14. \A m \in 0 .. n : BodyEnd(f, m) \in Nat /\ BodyEnd(f, m) <= BodyEnd(f, n)
  <2>1. n \in 0 .. n
    BY <1>2
  <2> QED BY <1>8, <1>9, <2>1
<1>15. Len(code) = 2 + BodyEnd(f, n) /\ Len(code) \in Nat
  <2>1. n \in 0 .. n
    BY <1>2
  <2> QED BY <1>8, <1>9, <1>10, <2>1
<1> QED BY <1>1, <1>2, <1>10, <1>12, <1>13, <1>14, <1>15 DEF n, code

\* Up to its first escape byte a body is sent as it is.
LEMMA PlainBody ==
    ASSUME NEW f \in Frame, NEW k \in 0 .. Len(f.body), \A m \in 1 .. k : f.body[m] # Escape
    PROVE  /\ \A m \in 0 .. k : BodyEnd(f, m) = m
           /\ \A m \in 1 .. k : EncodeBeast(f)[2 + m] = f.body[m]
<1> DEFINE T == {m \in Nat : m <= k => BodyEnd(f, m) = m}
<1>1. k \in Nat /\ Len(f.body) \in Nat
  BY EncodeIs
<1>2. 0 \in T
  BY EncodeIs
<1>3. ASSUME NEW m \in Nat, m \in T PROVE m + 1 \in T
  <2> SUFFICES ASSUME m + 1 <= k PROVE BodyEnd(f, m + 1) = m + 1
    OBVIOUS
  <2>1. m + 1 \in 1 .. Len(f.body) /\ (m + 1) - 1 = m /\ m + 1 \in 1 .. k
    BY <1>1
  <2>2. BodyEnd(f, m + 1) = BodyEnd(f, (m + 1) - 1) + 1
    BY <2>1, EncodeIs
  <2> QED BY <1>1, <1>3, <2>1, <2>2
<1>4. \A m \in Nat : m \in T
  <2> HIDE DEF T
  <2> QED BY <1>2, <1>3, Climbs
<1>5. \A m \in 0 .. k : BodyEnd(f, m) = m
  BY <1>4
<1>6. ASSUME NEW m \in 1 .. k PROVE EncodeBeast(f)[2 + m] = f.body[m]
  <2>1. m \in 1 .. Len(f.body) /\ m - 1 \in 0 .. k /\ (m - 1) + 1 = m
    BY <1>1
  <2>2. BodyEnd(f, m - 1) = m - 1
    BY <1>5, <2>1
  <2>3. EncodeBeast(f)[2 + (BodyEnd(f, m - 1) + 1)] = f.body[m]
    BY <2>1, EncodeIs
  <2> QED BY <2>1, <2>2, <2>3
<1> QED BY <1>5, <1>6

\* Without escape bytes in the body only the first byte is one.
LEMMA PlainFrame ==
    ASSUME NEW f \in Frame, ~HasEscape(f)
    PROVE  /\ Len(EncodeBeast(f)) = 2 + Len(f.body)
           /\ \A p \in 2 .. Len(EncodeBeast(f)) : EncodeBeast(f)[p] # Escape
<1>1. /\ f.body \in Seq(Byte) /\ Len(f.body) \in Nat /\ DOMAIN f.body = 1 .. Len(f.body)
      /\ Len(f.body) \in 0 .. Len(f.body)
  BY EncodeType, Lengths
<1>2. \A m \in 1 .. Len(f.body) : f.body[m] # Escape
  BY <1>1 DEF HasEscape, ToSet
<1>3. /\ \A m \in 0 .. Len(f.body) : BodyEnd(f, m) = m
      /\ \A m \in 1 .. Len(f.body) : EncodeBeast(f)[2 + m] = f.body[m]
  BY <1>1, <1>2, PlainBody
<1>4. Len(EncodeBeast(f)) = 2 + Len(f.body)
  BY <1>1, <1>3, EncodeIs
<1>5. ASSUME NEW p \in 2 .. Len(EncodeBeast(f)) PROVE EncodeBeast(f)[p] # Escape
  <2>1. CASE p = 2
    BY <2>1, EncodeIs, EncodeType DEF TypeModeAC, TypeShort, TypeLong, TypeStatus, Escape
  <2>2. CASE p # 2
    <3>1. p - 2 \in 1 .. Len(f.body) /\ 2 + (p - 2) = p
      BY <1>1, <1>4, <2>2
    <3>2. EncodeBeast(f)[2 + (p - 2)] = f.body[p - 2]
      BY <1>3, <3>1
    <3> QED BY <1>2, <3>1, <3>2
  <2> QED BY <2>1, <2>2
<1> QED BY <1>4, <1>5

\* No more bytes are unescaped than there are.
LEMMA UnescapeBound ==
    ASSUME NEW data \in Seq(Byte), NEW want
    PROVE  Len(unescapeBeastPayload(data, want).raw) <= Len(data)
<1>1. PICK f : /\ f[0] = TakenNone
               /\ \A i \in 1 .. Len(data) : f[i] = TakenByte(f[i - 1], data[i], i, want)
               /\ unescapeBeastPayload(data, want) = f[Len(data)]
  BY UnescapeUnfold
<1> DEFINE T == {i \in Nat : i <= Len(data) => f[i] \in TakenType /\ Len(f[i].raw) <= i}
<1>2. Len(data) \in Nat /\ \A i \in 1 .. Len(data) : data[i] \in Byte
  BY Lengths
<1>3. 0 \in T
  <2>1. TakenNone \in TakenType /\ Len(TakenNone.raw) = 0
    BY EmptyJoined DEF TakenNone, TakenType
  <2> QED BY <1>1, <2>1
<1>4. ASSUME NEW i \in Nat, i \in T PROVE i + 1 \in T
  <2> SUFFICES ASSUME i + 1 <= Len(data)
               PROVE  f[i + 1] \in TakenType /\ Len(f[i + 1].raw) <= i + 1
    OBVIOUS
  <2>1. i + 1 \in 1 .. Len(data) /\ (i + 1) - 1 = i /\ i + 1 \in Nat
    BY <1>2
  <2> DEFINE s == f[i]
             b == data[i + 1]
             t == f[i + 1]
  <2>2. s \in TakenType /\ Len(s.raw) <= i
    BY <1>2, <1>4
  <2>3. t = TakenByte(s, b, i + 1, want)
    BY <1>1, <2>1
  <2>4. b \in Byte
    BY <1>2, <2>1
  <2> HIDE DEF s, b, t
  <2>5. t \in TakenType
    BY <2>1, <2>2, <2>3, <2>4, TakenByteType
  <2>6. s.raw \in Seq(Byte) /\ Len(s.raw) \in Nat
    BY <2>2 DEF TakenType
  <2>7. t.raw = s.raw \/ t.raw = Append(s.raw, b)
    <3>1. CASE s.pair /\ b = Escape
      BY <2>2, <2>3, <3>1 DEF TakenByte, TakenType
    <3>2. CASE ~(s.pair /\ b = Escape) /\ Len(s.raw) = want
      BY <2>2, <2>3, <3>2 DEF TakenByte, TakenType
    <3>3. CASE ~(s.pair /\ b = Escape) /\ Len(s.raw) # want
      BY <2>3, <3>3 DEF TakenByte
    <3> QED BY <3>1, <3>2, <3>3
  <2>8. Len(Append(s.raw, b)) = Len(s.raw) + 1
    BY <2>4, <2>6
  <2>9. Len(t.raw) <= i + 1
    BY <2>2, <2>6, <2>7, <2>8
  <2> QED BY <2>5, <2>9 DEF t
<1>5. Len(data) \in T
  <2> HIDE DEF T
  <2> QED BY <1>2, <1>3, <1>4, Climbs
<1> QED BY <1>1, <1>2, <1>5

LEMMA SubSeqNext ==
    ASSUME NEW S, NEW s \in Seq(S), NEW m \in 1 .. Len(s)
    PROVE  /\ Append(SubSeq(s, 1, m - 1), s[m]) = SubSeq(s, 1, m)
           /\ Len(SubSeq(s, 1, m - 1)) = m - 1
OBVIOUS

Taken(raw, pos) == [raw |-> raw, pos |-> pos, pair |-> FALSE]
HalfTaken(raw, pos) == [raw |-> raw, pos |-> pos, pair |-> TRUE]

\* The second of two escape bytes, a byte too many, and one more.
LEMMA TakenSecond ==
    ASSUME NEW raw, NEW pos, NEW i, NEW want
    PROVE  TakenByte(HalfTaken(raw, pos), Escape, i, want) = Taken(raw, i)
BY DEF TakenByte, Taken, HalfTaken

LEMMA TakenEnough ==
    ASSUME NEW raw, NEW pos, NEW b, NEW i
    PROVE  TakenByte(Taken(raw, pos), b, i, Len(raw)) = Taken(raw, pos)
BY DEF TakenByte, Taken, HalfTaken

LEMMA TakenFirst ==
    ASSUME NEW raw, NEW pos, NEW i, NEW want, Len(raw) # want
    PROVE  TakenByte(Taken(raw, pos), Escape, i, want) = HalfTaken(Append(raw, Escape), i)
BY DEF TakenByte, Taken, HalfTaken

LEMMA BodyEndType ==
    ASSUME NEW f \in Frame, NEW m \in 0 .. Len(f.body)
    PROVE  /\ BodyEnd(f, m) \in Nat /\ BodyEnd(f, Len(f.body)) \in Nat
           /\ BodyEnd(f, m) <= BodyEnd(f, Len(f.body))
<1>1. Len(f.body) \in 0 .. Len(f.body)
  BY EncodeIs
<1> QED BY <1>1, EncodeIs

\* From a frame that is there as a whole the body is unescaped, and no byte too many is
\* taken.
LEMMA UnescapeFrame ==
    ASSUME NEW f \in Frame, NEW b \in Seq(Byte),
           BodyEnd(f, Len(f.body)) <= Len(b),
           \A p \in 1 .. BodyEnd(f, Len(f.body)) : b[p] = EncodeBeast(f)[2 + p]
    PROVE  LET u == unescapeBeastPayload(b, Len(f.body))
           IN  u.raw = f.body /\ u.pos = BodyEnd(f, Len(f.body))
<1> DEFINE n == Len(f.body)
           State(m) == Taken(SubSeq(f.body, 1, m), BodyEnd(f, m))
<1>1. PICK g : /\ g[0] = TakenNone
               /\ \A i \in 1 .. Len(b) : g[i] = TakenByte(g[i - 1], b[i], i, n)
               /\ unescapeBeastPayload(b, n) = g[Len(b)]
  BY UnescapeUnfold
<1>2. /\ n \in Nat /\ f.body \in Seq(Byte) /\ Len(b) \in Nat
      /\ BodyEnd(f, 0) = 0
  BY EncodeIs, EncodeType, Lengths
<1> DEFINE T == {m \in Nat : m <= n => g[BodyEnd(f, m)] = State(m)}
<1>3. 0 \in T
  <2>1. SubSeq(f.body, 1, 0) = <<>>
    BY <1>2
  <2> QED BY <1>1, <1>2, <2>1 DEF TakenNone, Taken
<1>4. ASSUME NEW k \in Nat, k \in T PROVE k + 1 \in T
  <2> SUFFICES ASSUME k + 1 <= n PROVE g[BodyEnd(f, k + 1)] = State(k + 1)
    OBVIOUS
  <2>0. PICK m \in 1 .. n : m = k + 1
    BY <1>2
  <2> DEFINE a == BodyEnd(f, m - 1)
             s == g[a]
             c == f.body[m]
  <2>1. m - 1 = k /\ m \in 0 .. n /\ m - 1 \in 0 .. n
    BY <1>2, <2>0
  <2>2. s = State(m - 1)
    <3>1. g[BodyEnd(f, k)] = State(k)
      BY <1>2, <1>4
    <3> HIDE DEF State
    <3> QED BY <2>1, <3>1
  <2>3. /\ a \in Nat /\ BodyEnd(f, m) \in Nat /\ BodyEnd(f, n) \in Nat
        /\ BodyEnd(f, m) <= BodyEnd(f, n) /\ BodyEnd(f, n) <= Len(b)
    BY <2>1, BodyEndType
  <2>4. /\ Append(SubSeq(f.body, 1, m - 1), c) = SubSeq(f.body, 1, m)
        /\ Len(SubSeq(f.body, 1, m - 1)) = m - 1 /\ m - 1 # n
    BY <1>2, <2>0, SubSeqNext
  <2>5. s = Taken(SubSeq(f.body, 1, m - 1), a)
    BY <2>2
  <2>6. CASE c = Escape
    <3>1. /\ BodyEnd(f, m) = a + 2
          /\ EncodeBeast(f)[2 + (a + 1)] = Escape /\ EncodeBeast(f)[2 + (a + 2)] = Escape
      BY <2>6, EncodeIs
    <3>2. /\ a + 1 \in 1 .. BodyEnd(f, n) /\ a + 2 \in 1 .. BodyEnd(f, n)
          /\ a + 1 \in 1 .. Len(b) /\ a + 2 \in 1 .. Len(b)
          /\ (a + 1) - 1 = a /\ (a + 2) - 1 = a + 1
      <4> HIDE DEF a, n
      <4> QED BY <1>2, <2>3, <3>1
    <3>3. b[a + 1] = Escape /\ b[a + 2] = Escape
      BY <3>1, <3>2
    <3> HIDE DEF a
    <3>4. g[a + 1] = TakenByte(s, Escape, a + 1, n)
      BY <1>1, <3>2, <3>3
    <3>5. g[a + 2] = TakenByte(g[a + 1], Escape, a + 2, n)
      BY <1>1, <3>2, <3>3
    <3> HIDE DEF s, n, c
    <3>6. g[a + 1] = HalfTaken(SubSeq(f.body, 1, m), a + 1)
      <4> DEFINE raw == SubSeq(f.body, 1, m - 1)
      <4>1. Len(raw) # n /\ Append(raw, c) = SubSeq(f.body, 1, m)
        BY <2>4
      <4>2. g[a + 1] = TakenByte(Taken(raw, a), c, a + 1, n)
        BY <2>5, <2>6, <3>4
      <4> HIDE DEF raw
      <4>3. g[a + 1] = HalfTaken(Append(raw, c), a + 1)
        BY ONLY <4>1, <4>2, <2>6, TakenFirst
      <4> QED BY <4>1, <4>3
    <3>7. g[a + 2] = Taken(SubSeq(f.body, 1, m), a + 2)
      BY <3>5, <3>6, TakenSecond
    <3> QED BY <2>0, <3>1, <3>7
  <2>7. CASE c # Escape
    <3>1. BodyEnd(f, m) = a + 1 /\ EncodeBeast(f)[2 + (a + 1)] = c
      BY <2>7, EncodeIs
    <3>2. /\ a + 1 \in 1 .. BodyEnd(f, n) /\ a + 1 \in 1 .. Len(b) /\ (a + 1) - 1 = a
      <4> HIDE DEF a, n
      <4> QED BY <1>2, <2>3, <3>1
    <3>3. b[a + 1] = c
      BY <3>1, <3>2
    <3> HIDE DEF a
    <3>4. g[a + 1] = TakenByte(s, c, a + 1, n)
      BY <1>1, <3>2, <3>3
    <3> HIDE DEF s, n, c
    <3>5. g[a + 1] = Taken(SubSeq(f.body, 1, m), a + 1)
      <4> DEFINE raw == SubSeq(f.body, 1, m - 1)
      <4>1. Len(raw) # n /\ Append(raw, c) = SubSeq(f.body, 1, m)
        BY <2>4
      <4>2. g[a + 1] = TakenByte(Taken(raw, a), c, a + 1, n)
        BY <2>5, <2>7, <3>4
      <4> HIDE DEF raw
      <4>3. g[a + 1] = Taken(Append(raw, c), a + 1)
        BY ONLY <4>1, <4>2, <2>7 DEF TakenByte, Taken
      <4> QED BY <4>1, <4>3
    <3> QED BY <2>0, <3>1, <3>5
  <2> QED BY <2>6, <2>7
<1>5. n \in T
  <2> HIDE DEF T, n
  <2> QED BY <1>2, <1>3, <1>4, Climbs
<1> DEFINE e == BodyEnd(f, n)
           whole == Taken(f.body, e)
<1>6. g[e] = whole
  <2>1. SubSeq(f.body, 1, n) = f.body
    BY <1>2
  <2>2. g[e] = State(n)
    BY <1>2, <1>5
  <2> QED BY <2>1, <2>2
<1>7. e \in Nat /\ e <= Len(b)
  <2>1. n \in 0 .. n
    BY <1>2
  <2> QED BY <2>1, BodyEndType
<1> DEFINE U == {d \in Nat : e + d <= Len(b) => g[e + d] = whole}
<1> HIDE DEF e
<1>8. 0 \in U
  BY <1>6, <1>7
<1>9. ASSUME NEW d \in Nat, d \in U PROVE d + 1 \in U
  <2> SUFFICES ASSUME e + (d + 1) <= Len(b) PROVE g[e + (d + 1)] = whole
    OBVIOUS
  <2>1. PICK i \in 1 .. Len(b) : i = e + (d + 1)
    BY <1>2, <1>7
  <2>2. i - 1 = e + d
    BY <1>7, <2>1
  <2>3. g[i - 1] = whole
    BY <1>2, <1>7, <1>9, <2>2
  <2>4. g[i] = TakenByte(g[i - 1], b[i], i, n)
    BY <1>1
  <2>5. g[i] = whole
    BY <2>3, <2>4, TakenEnough
  <2> QED BY <2>1, <2>5
<1>10. \A d \in Nat : d \in U
  <2> HIDE DEF U
  <2> QED BY <1>8, <1>9, Climbs
<1>11. Len(b) - e \in Nat /\ e + (Len(b) - e) = Len(b)
  BY <1>2, <1>7
<1>12. g[Len(b)] = whole
  <2>1. Len(b) - e \in U
    BY <1>10, <1>11
  <2> HIDE DEF whole
  <2> QED BY <1>2, <1>11, <2>1
<1>13. whole.raw = f.body /\ whole.pos = e
  BY DEF Taken
<1> QED BY <1>1, <1>12, <1>13 DEF e

\* Escapes only make a body longer.
LEMMA BodyEndGrows ==
    ASSUME NEW f \in Frame
    PROVE  Len(f.body) <= BodyEnd(f, Len(f.body))
<1> DEFINE T == {m \in Nat : m <= Len(f.body) => m <= BodyEnd(f, m)}
<1>1. Len(f.body) \in Nat
  BY EncodeIs
<1>2. 0 \in T
  BY EncodeIs
<1>3. ASSUME NEW k \in Nat, k \in T PROVE k + 1 \in T
  <2> SUFFICES ASSUME k + 1 <= Len(f.body) PROVE k + 1 <= BodyEnd(f, k + 1)
    OBVIOUS
  <2>1. PICK m \in 1 .. Len(f.body) : m = k + 1
    BY <1>1
  <2>2. m - 1 = k /\ m - 1 \in 0 .. Len(f.body) /\ m \in 0 .. Len(f.body)
    BY <1>1, <2>1
  <2>3. k <= BodyEnd(f, k)
    BY <1>1, <1>3
  <2>4. k <= BodyEnd(f, m - 1)
    BY <2>2, <2>3
  <2>5. BodyEnd(f, m - 1) \in Nat /\ BodyEnd(f, m) \in Nat
    BY <2>2, BodyEndType
  <2>6. BodyEnd(f, m) = BodyEnd(f, m - 1) + 1 \/ BodyEnd(f, m) = BodyEnd(f, m - 1) + 2
    BY EncodeIs
  <2>7. m <= BodyEnd(f, m)
    BY <2>1, <2>4, <2>5, <2>6
  <2> QED BY <2>1, <2>7
<1>4. Len(f.body) \in T
  <2> HIDE DEF T
  <2> QED BY <1>1, <1>2, <1>3, Climbs
<1> QED BY <1>1, <1>4

\* What the decoder does with a frame that is there as a whole.
LEMMA StatusFrame ==
    ASSUME NEW f \in Frame, NEW d \in Seq(Byte), f.type = TypeStatus, d[2] = f.type
    PROVE  ~Readable(d)
BY BeastAssumption DEF Readable, TypeModeAC, TypeShort, TypeLong, TypeStatus

LEMMA WholePayload ==
    ASSUME NEW f \in Frame, NEW d \in Seq(Byte), f.type # TypeStatus,
           Len(EncodeBeast(f)) <= Len(d),
           \A p \in 1 .. Len(EncodeBeast(f)) : d[p] = EncodeBeast(f)[p]
    PROVE  /\ Readable(d) /\ d[2] = f.type
           /\ Payload(d).raw = f.body
           /\ 3 + Payload(d).pos = Len(EncodeBeast(f)) + 1
           /\ Complete(d)
           /\ Message(d) = f
<1> DEFINE code == EncodeBeast(f)
           n == Len(f.body)
           e == BodyEnd(f, n)
           b == From(d, 3)
<1>1. /\ n \in Nat /\ Len(code) \in Nat /\ Len(code) = 2 + e /\ code[2] = f.type
  BY EncodeIs
<1>2. n \in 0 .. n
  BY <1>1
<1>3. e \in Nat /\ n <= e
  BY <1>2, BodyEndType, BodyEndGrows
<1>4. /\ f.type \in DOMAIN BodyLen /\ n = BodyLen[f.type] /\ MinLen <= 2 + n /\ MinLen \in Nat
  BY BeastAssumption
<1>5. Len(d) \in Nat
  BY Lengths
<1>6. 2 \in 1 .. Len(code) /\ d[2] = f.type
  BY <1>1, <1>3
<1>7. Readable(d)
  <2>1. MinLen <= Len(d)
    <3> HIDE DEF code, n, e
    <3> QED BY <1>1, <1>3, <1>4, <1>5 DEF code
  <2> QED BY <1>4, <1>6, <2>1 DEF Readable
<1>8. b \in Seq(Byte) /\ Len(b) \in Nat
  BY FromLaws
<1>9. e <= Len(b)
  <2>1. Len(b) = IF 3 <= Len(d) THEN (Len(d) - 3) + 1 ELSE 0
    BY FromLaws
  <2>2. 2 + e <= Len(d)
    BY <1>1
  <2> HIDE DEF b, e
  <2> QED BY <1>3, <1>5, <1>8, <2>1, <2>2
<1>10. ASSUME NEW p \in 1 .. e PROVE b[p] = code[2 + p]
  <2>1. p \in 1 .. Len(b) /\ 2 + p \in 1 .. Len(code) /\ (3 - 1) + p = 2 + p
    <3> HIDE DEF b, e, code
    <3> QED BY <1>1, <1>3, <1>8, <1>9
  <2>2. b[p] = d[(3 - 1) + p]
    BY <2>1, FromLaws
  <2> QED BY <2>1, <2>2
<1>11. /\ unescapeBeastPayload(b, n).raw = f.body
       /\ unescapeBeastPayload(b, n).pos = e
  BY <1>8, <1>9, <1>10, UnescapeFrame
<1>12. Payload(d) = unescapeBeastPayload(b, n)
  BY <1>4, <1>6 DEF Payload
<1>13. Message(d) = f
  <2>1. f = [type |-> f.type, body |-> f.body]
    BY BeastAssumption
  <2> QED BY <1>6, <1>11, <1>12, <2>1 DEF Message
<1>14. Complete(d)
  BY <1>4, <1>6, <1>11, <1>12 DEF Complete
<1> HIDE DEF n, e, b
<1>15. 3 + Payload(d).pos = Len(code) + 1
  BY <1>1, <1>3, <1>11, <1>12
<1> QED BY <1>6, <1>7, <1>11, <1>12, <1>13, <1>14, <1>15

LEMMA WholeHeartbeat ==
    ASSUME NEW f \in Frame, NEW d \in Seq(Byte), f.type = TypeModeAC,
           Len(EncodeBeast(f)) <= Len(d),
           \A p \in 1 .. Len(EncodeBeast(f)) : d[p] = EncodeBeast(f)[p]
    PROVE  /\ Heartbeat(d) <=> \A i \in DOMAIN f.body : f.body[i] = 0
           /\ Heartbeat(d) => 3 + (MinLen - 2) = Len(EncodeBeast(f)) + 1
<1> DEFINE code == EncodeBeast(f)
           n == Len(f.body)
<1>1. /\ n \in Nat /\ f.body \in Seq(Byte) /\ DOMAIN f.body = 1 .. n
      /\ Len(code) \in Nat /\ Len(code) = 2 + BodyEnd(f, n)
      /\ n \in 0 .. n
  BY EncodeIs, EncodeType, Lengths
<1>2. BodyEnd(f, n) \in Nat /\ n <= BodyEnd(f, n)
  BY <1>1, BodyEndType, BodyEndGrows
<1>3. MinLen = 2 + n /\ f.type # TypeStatus
  BY BeastAssumption, SMTT(20) DEF TypeModeAC, TypeStatus
<1>4. Readable(d) /\ d[2] = TypeModeAC
  BY <1>3, WholePayload
<1>5. Escape # 0
  BY DEF Escape
<1>6. ASSUME \A i \in 1 .. n : f.body[i] = 0
      PROVE  Heartbeat(d) /\ 3 + (MinLen - 2) = Len(code) + 1
  <2>1. /\ \A m \in 0 .. n : BodyEnd(f, m) = m
        /\ \A m \in 1 .. n : code[2 + m] = f.body[m]
    BY <1>1, <1>5, <1>6, PlainBody
  <2>2. ASSUME NEW i \in 3 .. MinLen PROVE d[i] = 0
    <3>1. i - 2 \in 1 .. n /\ 2 + (i - 2) = i
      BY <1>1, <1>3
    <3>2. i \in 1 .. Len(code)
      BY <1>1, <1>2, <1>3
    <3>3. code[2 + (i - 2)] = 0
      BY <1>6, <2>1, <3>1
    <3> QED BY <3>1, <3>2, <3>3
  <2>3. Len(code) = 2 + n
    BY <1>1, <2>1
  <2> QED BY <1>1, <1>3, <1>4, <2>2, <2>3 DEF Heartbeat
<1>7. ASSUME Heartbeat(d), NEW k \in 1 .. n, f.body[k] # 0 PROVE FALSE
  <2> DEFINE T == {m \in 1 .. n : f.body[m] # 0}
  <2>1. T \subseteq Nat /\ T # {}
    BY <1>1, <1>7
  <2>2. PICK m \in T : \A y \in T : m <= y
    <3> HIDE DEF T
    <3> QED BY <2>1, Least
  <2>3. m \in 1 .. n /\ m \in Nat /\ f.body[m] # 0 /\ m - 1 \in 0 .. n /\ m - 1 \in 0 .. m - 1
    BY <1>1, <2>2
  <2>4. \A i \in 1 .. m - 1 : f.body[i] # Escape
    <3> SUFFICES ASSUME NEW i \in 1 .. m - 1 PROVE f.body[i] # Escape
      OBVIOUS
    <3>1. i \in 1 .. n /\ ~(m <= i)
      BY <1>1, <2>3
    <3> QED BY <1>5, <2>2, <3>1
  <2>5. BodyEnd(f, m - 1) = m - 1
    BY <2>3, <2>4, PlainBody
  <2>6. (m - 1) + 1 = m /\ 2 + m \in 3 .. MinLen /\ 2 + m \in 1 .. Len(code)
    BY <1>1, <1>2, <1>3, <2>3
  <2>7. code[2 + m] # 0
    <3>1. CASE f.body[m] = Escape
      <4>1. code[2 + (BodyEnd(f, m - 1) + 1)] = Escape
        BY <2>3, <3>1, EncodeIs
      <4> QED BY <1>5, <2>5, <2>6, <4>1
    <3>2. CASE f.body[m] # Escape
      <4>1. code[2 + (BodyEnd(f, m - 1) + 1)] = f.body[m]
        BY <2>3, <3>2, EncodeIs
      <4> QED BY <2>3, <2>5, <2>6, <4>1
    <3> QED BY <3>1, <3>2
  <2>8. d[2 + m] = 0
    BY <1>7, <2>6 DEF Heartbeat
  <2> QED BY <2>6, <2>7, <2>8
<1> QED BY <1>1, <1>6, <1>7

LEMMA WholeFrame ==
    ASSUME NEW f \in Frame, NEW d \in Seq(Byte),
           Len(EncodeBeast(f)) <= Len(d),
           \A p \in 1 .. Len(EncodeBeast(f)) : d[p] = EncodeBeast(f)[p]
    PROVE  /\ Decoded(d) <=> Carries(f)
           /\ Decoded(d) => Message(d) = f
           /\ Decoded(d) \/ Skipped(d) => Remaining(d) = From(d, Len(EncodeBeast(f)) + 1)
           /\ ~Decoded(d) /\ ~Skipped(d) => f.type = TypeStatus \/ ~Decodes(f)
           /\ ~Crashes(d)
<1>1. CASE f.type = TypeStatus
  <2>1. 2 \in 1 .. Len(EncodeBeast(f)) /\ EncodeBeast(f)[2] = f.type
    <3>1. Len(f.body) \in 0 .. Len(f.body)
      BY EncodeIs
    <3> QED BY <3>1, EncodeIs, BodyEndType
  <2>2. d[2] = f.type
    BY <2>1
  <2>3. ~Readable(d)
    BY <1>1, <2>2, StatusFrame
  <2>4. ~Carries(f)
    BY <1>1 DEF Carries, TypeModeAC, TypeStatus
  <2> QED BY <1>1, <2>3, <2>4 DEF Decoded, Skipped, Crashes
<1>2. CASE f.type = TypeModeAC
  <2>1. f.type # TypeStatus
    BY <1>2 DEF TypeModeAC, TypeStatus
  <2>2. /\ Readable(d) /\ d[2] = f.type /\ Complete(d) /\ Message(d) = f
        /\ 3 + Payload(d).pos = Len(EncodeBeast(f)) + 1
    BY <2>1, WholePayload
  <2>3. /\ Heartbeat(d) <=> \A i \in DOMAIN f.body : f.body[i] = 0
        /\ Heartbeat(d) => 3 + (MinLen - 2) = Len(EncodeBeast(f)) + 1
    BY <1>2, WholeHeartbeat
  <2>4. Decodes(f) /\ ~Panics(f)
    BY <1>2, <2>1, BeastAssumption DEF Decodes
  <2>5. Skipped(d) <=> Heartbeat(d) \/ ~modeAC
    BY <1>2, <2>2 DEF Skipped
  <2>6. Carries(f) <=> modeAC /\ ~Heartbeat(d)
    BY <1>2, <2>1, <2>3 DEF Carries
  <2>7. Decoded(d) <=> ~Skipped(d)
    BY <2>2, <2>4 DEF Decoded
  <2>8. Remaining(d) = From(d, Len(EncodeBeast(f)) + 1)
    <3>1. CASE Heartbeat(d)
      BY <2>3, <3>1 DEF Remaining
    <3>2. CASE ~Heartbeat(d)
      BY <2>2, <3>2 DEF Remaining
    <3> QED BY <3>1, <3>2
  <2>9. ~Crashes(d)
    BY <2>2, <2>4 DEF Crashes
  <2> QED BY <2>2, <2>5, <2>6, <2>7, <2>8, <2>9
<1>3. CASE f.type # TypeStatus /\ f.type # TypeModeAC
  <2>1. /\ Readable(d) /\ d[2] = f.type /\ Complete(d) /\ Message(d) = f
        /\ 3 + Payload(d).pos = Len(EncodeBeast(f)) + 1
    BY <1>3, WholePayload
  <2>2. ~Heartbeat(d) /\ ~Skipped(d)
    BY <1>3, <2>1 DEF Heartbeat, Skipped
  <2>3. Carries(f) <=> Decodes(f)
    BY <1>3 DEF Carries
  <2>4. (Decoded(d) <=> Decodes(f)) /\ ~Crashes(d)
    BY <1>3, <2>1, <2>2, BeastAssumption DEF Decoded, Crashes
  <2>5. Remaining(d) = From(d, Len(EncodeBeast(f)) + 1)
    BY <2>1, <2>2 DEF Remaining
  <2> QED BY <2>1, <2>2, <2>3, <2>4, <2>5
<1> QED BY <1>1, <1>2, <1>3

\* What it does with the beginning of a frame without escape bytes: it waits for the rest.
LEMMA PartOfFrame ==
    ASSUME NEW f \in Frame, NEW d \in Seq(Byte), ~HasEscape(f),
           Len(d) < Len(EncodeBeast(f)),
           \A p \in 1 .. Len(d) : d[p] = EncodeBeast(f)[p]
    PROVE  /\ ~Decoded(d) /\ ~Skipped(d) /\ ~Crashes(d)
           /\ \A p \in 2 .. Len(d) : d[p] # Escape
           /\ f.type # TypeStatus => Len(d) < BufferLimit
<1> DEFINE n == Len(f.body)
<1>1. Len(d) \in Nat /\ n \in Nat
  BY Lengths, EncodeIs
<1>2. /\ Len(EncodeBeast(f)) = 2 + n
      /\ \A p \in 2 .. Len(EncodeBeast(f)) : EncodeBeast(f)[p] # Escape
  BY PlainFrame
<1>3. ASSUME NEW p \in 2 .. Len(d) PROVE d[p] # Escape
  <2>1. p \in 1 .. Len(d) /\ p \in 2 .. Len(EncodeBeast(f))
    BY <1>1, <1>2
  <2> QED BY <1>2, <2>1
<1>4. ASSUME f.type # TypeStatus
      PROVE  f.type \in DOMAIN BodyLen /\ n = BodyLen[f.type] /\ Len(d) < 2 + n /\ 2 + n <= BufferLimit
  BY <1>1, <1>2, <1>4, BeastAssumption
<1>6. ASSUME Readable(d) PROVE f.type # TypeStatus /\ f.type # TypeModeAC /\ d[2] = f.type
  <2>1. Len(d) >= MinLen /\ MinLen \in Nat /\ MinLen >= 3
    BY <1>6, BeastAssumption, SMTT(20) DEF Readable
  <2>2. 2 \in 1 .. Len(d)
    BY <1>1, <2>1
  <2>3. d[2] = f.type
    BY <2>2, EncodeIs
  <2>4. f.type # TypeStatus
    BY <1>6, <2>3, StatusFrame
  <2>5. f.type # TypeModeAC
    BY <1>1, <1>4, <2>1, <2>4, BeastAssumption
  <2> QED BY <2>3, <2>4, <2>5
<1>7. ~Skipped(d)
  BY <1>6 DEF Skipped, Heartbeat
<1>8. ASSUME Readable(d) PROVE ~Complete(d)
  <2>1. d[2] = f.type /\ f.type # TypeStatus
    BY <1>6, <1>8
  <2>2. BodyLen[d[2]] = n /\ Len(d) < 2 + n
    BY <1>4, <2>1
  <2>3. From(d, 3) \in Seq(Byte) /\ Len(From(d, 3)) \in Nat
    BY FromLaws
  <2>4. Len(From(d, 3)) = IF 3 <= Len(d) THEN (Len(d) - 3) + 1 ELSE 0
    BY FromLaws
  <2>5. Len(Payload(d).raw) <= Len(From(d, 3)) /\ Payload(d) \in TakenType
    BY <2>3, UnescapeBound, UnescapeType DEF Payload
  <2>6. Len(Payload(d).raw) \in Nat
    BY <2>5 DEF TakenType
  <2>7. n # 0
    BY <1>4, <2>1, BeastAssumption
  <2>8. Len(Payload(d).raw) # n
    <3> HIDE DEF n
    <3> QED BY <1>1, <2>2, <2>3, <2>4, <2>5, <2>6, <2>7
  <2> QED BY <2>2, <2>8 DEF Complete
<1>9. ~Decoded(d) /\ ~Crashes(d)
  BY <1>8 DEF Decoded, Crashes
<1>10. f.type # TypeStatus => Len(d) < BufferLimit
  <2>1. BufferLimit \in Nat
    BY BeastAssumption
  <2> HIDE DEF n
  <2> QED BY <1>1, <1>4, <2>1
<1> QED BY <1>3, <1>7, <1>9, <1>10

-----------------------------------------------------------------------------
(***************************************************************************)
(* The stream that the frames of s make, and where its frames end.         *)
(***************************************************************************)

Codes(s) == [i \in DOMAIN s |-> EncodeBeast(s[i])]
End(s, i) == Len(Cat(Codes(s), i))
Stream(s) == Cat(Codes(s), Len(s))

LEMMA CodesListed ==
    ASSUME NEW s \in Seq(Frame)
    PROVE  /\ Len(s) \in Nat /\ Listed(Byte, Codes(s), Len(s))
           /\ \A i \in 1 .. Len(s) : /\ s[i] \in Frame /\ Codes(s)[i] = EncodeBeast(s[i])
                                     /\ EncodeBeast(s[i]) \in Seq(Byte)
<1>1. Len(s) \in Nat /\ DOMAIN s = 1 .. Len(s) /\ \A i \in 1 .. Len(s) : s[i] \in Frame
  BY Lengths
<1>2. \A i \in 1 .. Len(s) : Codes(s)[i] = EncodeBeast(s[i]) /\ EncodeBeast(s[i]) \in Seq(Byte)
  BY <1>1, EncodeType DEF Codes
<1> QED BY <1>1, <1>2 DEF Listed

LEMMA Ends ==
    ASSUME NEW s \in Seq(Frame)
    PROVE  /\ Len(s) \in Nat /\ End(s, 0) = 0 /\ End(s, Len(s)) \in Nat
           /\ \A i \in 0 .. Len(s) : End(s, i) \in Nat
           /\ Stream(s) \in Seq(Byte) /\ Len(Stream(s)) = End(s, Len(s))
<1>1. Len(s) \in Nat /\ Listed(Byte, Codes(s), Len(s)) /\ Len(s) \in 0 .. Len(s)
  BY CodesListed
<1>2. Cat(Codes(s), 0) = <<>> /\ \A i \in 0 .. Len(s) : Cat(Codes(s), i) \in Seq(Byte)
  BY <1>1, CatLaws
<1>3. \A i \in 0 .. Len(s) : End(s, i) \in Nat
  BY <1>2, Lengths DEF End
<1>4. End(s, 0) = 0
  BY <1>2 DEF End
<1>5. Stream(s) \in Seq(Byte) /\ Len(Stream(s)) = End(s, Len(s))
  BY <1>1, <1>2 DEF End, Stream
<1> QED BY <1>1, <1>3, <1>4, <1>5

LEMMA NextEnd ==
    ASSUME NEW s \in Seq(Frame), NEW i \in 1 .. Len(s)
    PROVE  /\ End(s, i) = End(s, i - 1) + Len(EncodeBeast(s[i]))
           /\ End(s, i) \in Nat /\ End(s, i - 1) \in Nat
           /\ s[i] \in Frame /\ Len(EncodeBeast(s[i])) \in Nat /\ Len(EncodeBeast(s[i])) >= 2
<1>1. /\ Len(s) \in Nat /\ Listed(Byte, Codes(s), Len(s))
      /\ s[i] \in Frame /\ Codes(s)[i] = EncodeBeast(s[i])
  BY CodesListed
<1>2. /\ End(s, i) = End(s, i - 1) + Len(Codes(s)[i])
      /\ End(s, i) \in Nat /\ End(s, i - 1) \in Nat /\ Len(Codes(s)[i]) \in Nat
  BY <1>1, CatLength DEF End
<1>3. Len(EncodeBeast(s[i])) >= 2
  <2>1. Len(s[i].body) \in Nat /\ Len(s[i].body) \in 0 .. Len(s[i].body)
    BY <1>1, EncodeIs
  <2>2. BodyEnd(s[i], Len(s[i].body)) \in Nat
    BY <1>1, <2>1, EncodeIs
  <2>3. Len(EncodeBeast(s[i])) = 2 + BodyEnd(s[i], Len(s[i].body))
    BY <1>1, EncodeIs
  <2> QED BY <2>2, <2>3
<1> QED BY <1>1, <1>2, <1>3

LEMMA EndsClimb ==
    ASSUME NEW s \in Seq(Frame), NEW i \in 0 .. Len(s), NEW k \in 0 .. Len(s), i <= k
    PROVE  End(s, i) <= End(s, k)
<1>1. Len(s) \in Nat /\ Listed(Byte, Codes(s), Len(s))
  BY CodesListed
<1> QED BY <1>1, CatPrefix DEF End

\* Only the last frame ends where the stream does.
LEMMA LastEnd ==
    ASSUME NEW s \in Seq(Frame), NEW i \in 0 .. Len(s), End(s, i) >= End(s, Len(s))
    PROVE  i = Len(s)
<1>1. Len(s) \in Nat
  BY Ends
<1> SUFFICES ASSUME i # Len(s) PROVE FALSE
  OBVIOUS
<1>2. PICK k \in 1 .. Len(s) : k = i + 1
  BY <1>1
<1>3. k - 1 = i /\ k \in 0 .. Len(s) /\ Len(s) \in 0 .. Len(s) /\ k <= Len(s)
  BY <1>1, <1>2
<1>4. /\ End(s, k) = End(s, i) + Len(EncodeBeast(s[k]))
      /\ End(s, k) \in Nat /\ End(s, i) \in Nat
      /\ Len(EncodeBeast(s[k])) \in Nat /\ Len(EncodeBeast(s[k])) >= 2
  BY <1>3, NextEnd
<1>5. End(s, k) <= End(s, Len(s)) /\ End(s, Len(s)) \in Nat
  BY <1>3, EndsClimb, Ends
<1> QED BY <1>4, <1>5

LEMMA StreamPlace ==
    ASSUME NEW s \in Seq(Frame), NEW i \in 1 .. Len(s), NEW p \in 1 .. Len(EncodeBeast(s[i]))
    PROVE  Stream(s)[End(s, i - 1) + p] = EncodeBeast(s[i])[p]
<1>1. Len(s) \in Nat /\ Listed(Byte, Codes(s), Len(s)) /\ Codes(s)[i] = EncodeBeast(s[i])
  BY CodesListed
<1>2. p \in 1 .. Len(Codes(s)[i])
  BY <1>1
<1>3. Cat(Codes(s), Len(s))[Len(Cat(Codes(s), i - 1)) + p] = Codes(s)[i][p]
  <2>1. PICK e : e = Codes(s)
    OBVIOUS
  <2>2. PICK n \in Nat : n = Len(s)
    BY <1>1
  <2>3. Listed(Byte, e, n) /\ i \in 1 .. n
    BY <1>1, <2>1, <2>2
  <2>4. \A q \in 1 .. Len(e[i]) : Cat(e, n)[Len(Cat(e, i - 1)) + q] = e[i][q]
    BY ONLY <2>3, CatPlace
  <2> QED BY <1>2, <2>1, <2>2, <2>4
<1> QED BY <1>1, <1>3 DEF End, Stream

\* A new frame does not change the stream before it.
LEMMA StreamGrows ==
    ASSUME NEW s \in Seq(Frame), NEW f \in Frame
    PROVE  LET t == Append(s, f)
           IN  /\ t \in Seq(Frame) /\ Len(t) = Len(s) + 1
               /\ \A i \in 1 .. Len(s) : t[i] = s[i]
               /\ \A i \in 0 .. Len(s) : End(t, i) = End(s, i)
               /\ End(t, Len(t)) = End(s, Len(s)) + Len(EncodeBeast(f))
               /\ \A p \in 1 .. End(s, Len(s)) : Stream(t)[p] = Stream(s)[p]
               /\ \A p \in 1 .. Len(EncodeBeast(f)) :
                      Stream(t)[End(s, Len(s)) + p] = EncodeBeast(f)[p]
<1> DEFINE t == Append(s, f)
           n == Len(s)
<1>1. t \in Seq(Frame) /\ Len(t) = n + 1 /\ t[n + 1] = f /\ \A i \in 1 .. n : t[i] = s[i]
  OBVIOUS
<1>2. n \in Nat /\ n \in 0 .. n /\ n + 1 \in 1 .. n + 1 /\ (n + 1) - 1 = n
  BY Ends
<1> HIDE DEF t, n
<1>3. ASSUME NEW i \in 0 .. n PROVE Cat(Codes(t), i) = Cat(Codes(s), i)
  <2>1. ASSUME NEW k \in 1 .. i PROVE Codes(t)[k] = Codes(s)[k]
    <3>1. k \in 1 .. n /\ k \in 1 .. n + 1
      BY <1>2
    <3> QED BY <1>1, <3>1, CodesListed DEF n
  <2> QED BY <2>1, CatAgree
<1>4. \A i \in 0 .. n : End(t, i) = End(s, i)
  BY <1>3 DEF End
<1>5. End(t, n + 1) = End(s, n) + Len(EncodeBeast(f))
  BY <1>1, <1>2, <1>4, NextEnd
<1>6. ASSUME NEW p \in 1 .. Len(EncodeBeast(f)) PROVE Stream(t)[End(s, n) + p] = EncodeBeast(f)[p]
  BY <1>1, <1>2, <1>4, StreamPlace
<1>7. ASSUME NEW p \in 1 .. End(s, n) PROVE Stream(t)[p] = Stream(s)[p]
  <2>1. Listed(Byte, Codes(t), n + 1) /\ n + 1 \in Nat /\ n \in 0 .. n + 1 /\ n + 1 \in 0 .. n + 1
        /\ n <= n + 1
    BY <1>1, <1>2, CodesListed
  <2>2. p \in 1 .. Len(Cat(Codes(t), n))
    BY <1>2, <1>4 DEF End
  <2>3. PICK e : e = Codes(t)
    OBVIOUS
  <2>4. PICK m \in Nat : m = n + 1
    BY <1>2
  <2>5. Listed(Byte, e, m) /\ n \in 0 .. m /\ m \in 0 .. m /\ n <= m
    BY <2>1, <2>3, <2>4
  <2>6. \A q \in 1 .. Len(Cat(e, n)) : Cat(e, m)[q] = Cat(e, n)[q]
    BY ONLY <2>5, CatSame
  <2> QED BY <1>1, <1>2, <1>3, <2>2, <2>3, <2>4, <2>6 DEF Stream, n
<1> QED BY <1>1, <1>4, <1>5, <1>6, <1>7 DEF t, n

LEMMA EndOfIs ==
    ASSUME sent \in Seq(Frame), NEW i \in 0 .. Len(sent)
    PROVE  EndOf(i) = End(sent, i)
<1>1. Len(sent) \in Nat /\ \A k \in 1 .. Len(sent) : Codes(sent)[k] = EncodeBeast(sent[k])
  BY CodesListed
<1>2. [j \in 1 .. i |-> EncodeBeast(sent[j])] = [j \in 1 .. i |-> Codes(sent)[j]]
  BY <1>1
<1> QED BY <1>2 DEF EndOf, End, Cat

-----------------------------------------------------------------------------
(***************************************************************************)
(* The invariant.  The bytes of the stream are parsed, in the buffer or on *)
(* the wire; what is parsed ends where a frame ends, or further back with  *)
(* no escape byte up to there.                                             *)
(***************************************************************************)

ReadTo == End(sent, Len(sent)) - Len(wire)
ParsedTo == ReadTo - Len(buffer)

\* Buffer and wire hold the stream from where it is parsed to.
StreamInv ==
    /\ ParsedTo >= 0
    /\ \A p \in 1 .. Len(buffer) : buffer[p] = Stream(sent)[ParsedTo + p]
    /\ \A p \in 1 .. Len(wire) : wire[p] = Stream(sent)[ReadTo + p]

\* A frame that is not there as a whole was cut.
CutInv ==
    \A i \in 1 .. Len(sent) : End(sent, i - 1) < ReadTo /\ ReadTo < End(sent, i) => i \in cut

\* While it reads, the loop has found all that is to be found.
RestInv == stage = "read" => Failed /\ NextEscape(buffer) = 0

Carried == [i \in DOMAIN sent |-> IF Carries(sent[i]) THEN <<sent[i]>> ELSE <<>>]

\* Frame i does not lose the decoder its way.
Harmless(i) ==
    HasEscape(sent[i]) => i \notin cut /\ sent[i].type # TypeStatus /\ Decodes(sent[i])

Undamaged == \A i \in 1 .. Len(sent) : Harmless(i)

\* The first j frames, and no other, have been parsed.
At(j) ==
    /\ ParsedTo <= End(sent, j)
    /\ \A p \in ParsedTo + 1 .. End(sent, j) : Stream(sent)[p] # Escape

\* The frame after them is harmless.
SafeAfter(j) == \A i \in 1 .. Len(sent) : i = j + 1 => Harmless(i)

\* They have been handled.
Handled(j) == At(j) /\ got = Cat(Carried, j)

HandledInv == Undamaged => \E j \in 0 .. Len(sent) : Handled(j)

LEMMA Places ==
    ASSUME TypeInv, StreamInv
    PROVE  /\ ParsedTo \in Nat /\ ReadTo \in Nat /\ Len(buffer) \in Nat /\ Len(wire) \in Nat
           /\ ReadTo = ParsedTo + Len(buffer)
           /\ Len(sent) \in Nat /\ End(sent, Len(sent)) \in Nat
           /\ End(sent, Len(sent)) = ReadTo + Len(wire)
<1>1. Len(buffer) \in Nat /\ Len(wire) \in Nat /\ Len(sent) \in Nat /\ End(sent, Len(sent)) \in Nat
  BY Lengths, Ends DEF TypeInv
<1> QED BY <1>1 DEF StreamInv, ReadTo, ParsedTo

LEMMA NoEscapes ==
    ASSUME NEW data \in Seq(Byte), \A p \in 1 .. Len(data) : data[p] # Escape
    PROVE  /\ Aligned(data) = <<>> /\ NextEscape(data) = 0
           /\ ~Readable(Aligned(data))
<1>1. Len(data) \in Nat
  BY Lengths
<1>2. Aligned(data) = <<>>
  BY AlignedIs
<1>3. NextEscape(data) = 0
  <2>1. ASSUME NEW p \in 2 .. Len(data) PROVE data[p] # Escape
    <3>1. p \in 1 .. Len(data)
      BY <1>1
    <3> QED BY <3>1
  <2> QED BY <2>1, NextEscapeIs
<1>4. MinLen \in Nat /\ MinLen >= 3 /\ Len(<<>>) = 0
  BY BeastAssumption
<1> QED BY <1>2, <1>3, <1>4 DEF Readable

\* Either there is no escape byte in the buffer, ...
LEMMA NothingFound ==
    ASSUME TypeInv, StreamInv, NEW j \in 0 .. Len(sent), At(j), ReadTo <= End(sent, j)
    PROVE  \A p \in 1 .. Len(buffer) : buffer[p] # Escape
<1> TAKE p \in 1 .. Len(buffer)
<1>1. /\ ParsedTo \in Nat /\ ReadTo \in Nat /\ Len(buffer) \in Nat
      /\ ReadTo = ParsedTo + Len(buffer)
  BY Places
<1>2. End(sent, j) \in Nat
  BY Ends DEF TypeInv
<1>3. ParsedTo + p \in ParsedTo + 1 .. End(sent, j)
  BY <1>1, <1>2
<1> QED BY <1>3 DEF StreamInv, At

\* ... or the first one begins the next frame.
LEMMA FrameFound ==
    ASSUME TypeInv, StreamInv, NEW i \in 1 .. Len(sent), At(i - 1), End(sent, i - 1) < ReadTo
    PROVE  \E k \in 1 .. Len(buffer) :
               /\ ParsedTo + k = End(sent, i - 1) + 1
               /\ Aligned(buffer) = From(buffer, k) /\ buffer[k] = Escape
               /\ \A p \in 1 .. Len(buffer) : buffer[p] = Escape => k <= p
<1>1. /\ ParsedTo \in Nat /\ ReadTo \in Nat /\ Len(buffer) \in Nat
      /\ ReadTo = ParsedTo + Len(buffer)
  BY Places
<1>2. /\ End(sent, i - 1) \in Nat /\ sent[i] \in Frame
      /\ Len(EncodeBeast(sent[i])) \in Nat /\ Len(EncodeBeast(sent[i])) >= 2
  BY NextEnd DEF TypeInv
<1>3. ParsedTo <= End(sent, i - 1)
  BY DEF At
<1>4. PICK k \in 1 .. Len(buffer) : ParsedTo + k = End(sent, i - 1) + 1
  <2>1. (End(sent, i - 1) - ParsedTo) + 1 \in 1 .. Len(buffer)
    BY <1>1, <1>2, <1>3
  <2>2. ParsedTo + ((End(sent, i - 1) - ParsedTo) + 1) = End(sent, i - 1) + 1
    BY <1>1, <1>2
  <2> QED BY <2>1, <2>2
<1>5. buffer[k] = Escape
  <2>1. buffer[k] = Stream(sent)[End(sent, i - 1) + 1]
    BY <1>4 DEF StreamInv
  <2>2. 1 \in 1 .. Len(EncodeBeast(sent[i]))
    BY <1>2
  <2>3. Stream(sent)[End(sent, i - 1) + 1] = EncodeBeast(sent[i])[1]
    BY <2>2, StreamPlace DEF TypeInv
  <2> QED BY <1>2, <2>1, <2>3, EncodeIs
<1>6. ASSUME NEW p \in 1 .. Len(buffer), buffer[p] = Escape PROVE k <= p
  <2> SUFFICES ASSUME p < k PROVE FALSE
    BY <1>1
  <2>1. ParsedTo + p \in ParsedTo + 1 .. End(sent, i - 1)
    BY <1>1, <1>2, <1>4
  <2>2. Stream(sent)[ParsedTo + p] # Escape
    BY <2>1 DEF At
  <2> QED BY <1>6, <2>2 DEF StreamInv
<1>7. Aligned(buffer) = From(buffer, k)
  <2>1. PICK n \in 1 .. Len(buffer) :
            /\ Aligned(buffer) = From(buffer, n)
            /\ buffer[n] = Escape
            /\ \A p \in 1 .. Len(buffer) : buffer[p] = Escape => n <= p
    BY <1>5, AlignedIs DEF TypeInv
  <2>2. n = k
    BY <1>1, <1>5, <1>6, <2>1
  <2> QED BY <2>1, <2>2
<1> QED BY <1>4, <1>5, <1>6, <1>7

LEMMA FrameData ==
    ASSUME TypeInv, StreamInv, NEW i \in 1 .. Len(sent), At(i - 1), End(sent, i - 1) < ReadTo
    PROVE  /\ Aligned(buffer) \in Seq(Byte) /\ Len(Aligned(buffer)) \in Nat
           /\ Len(Aligned(buffer)) = ReadTo - End(sent, i - 1)
           /\ \A p \in 1 .. Len(Aligned(buffer)) :
                  p <= Len(EncodeBeast(sent[i])) => Aligned(buffer)[p] = EncodeBeast(sent[i])[p]
<1>1. /\ ParsedTo \in Nat /\ ReadTo \in Nat /\ Len(buffer) \in Nat
      /\ ReadTo = ParsedTo + Len(buffer) /\ buffer \in Seq(Byte)
  BY Places DEF TypeInv
<1>2. End(sent, i - 1) \in Nat /\ Len(EncodeBeast(sent[i])) \in Nat
  BY NextEnd DEF TypeInv
<1>3. PICK k \in 1 .. Len(buffer) :
          ParsedTo + k = End(sent, i - 1) + 1 /\ Aligned(buffer) = From(buffer, k)
  BY FrameFound
<1> DEFINE d == From(buffer, k)
<1>4. d \in Seq(Byte) /\ Len(d) \in Nat
  BY <1>1, FromLaws
<1>5. Len(d) = (Len(buffer) - k) + 1
  <2>1. Len(d) = IF k <= Len(buffer) THEN (Len(buffer) - k) + 1 ELSE 0
    BY <1>1, FromLaws
  <2> QED BY <1>1, <2>1
<1>6. \A p \in 1 .. Len(d) : d[p] = buffer[(k - 1) + p]
  BY <1>1, FromLaws
<1>7. ASSUME NEW p \in 1 .. Len(d), p <= Len(EncodeBeast(sent[i])) PROVE d[p] = EncodeBeast(sent[i])[p]
  <2>1. (k - 1) + p \in 1 .. Len(buffer) /\ ParsedTo + ((k - 1) + p) = End(sent, i - 1) + p
    <3>1. ASSUME NEW a \in Nat, NEW b \in Nat, NEW c \in 1 .. b, NEW q \in 1 .. (b - c) + 1,
                 NEW g \in Nat, a + c = g + 1
          PROVE  (c - 1) + q \in 1 .. b /\ a + ((c - 1) + q) = g + q
      BY <3>1
    <3>2. p \in 1 .. (Len(buffer) - k) + 1
      BY <1>5
    <3> QED BY <1>1, <1>2, <1>3, <3>1, <3>2, SMTT(20)
  <2>2. d[p] = Stream(sent)[End(sent, i - 1) + p]
    BY <1>6, <2>1 DEF StreamInv
  <2>3. p \in 1 .. Len(EncodeBeast(sent[i]))
    BY <1>2, <1>7
  <2>4. Stream(sent)[End(sent, i - 1) + p] = EncodeBeast(sent[i])[p]
    BY <2>3, StreamPlace DEF TypeInv
  <2> QED BY <2>2, <2>4
<1>8. Len(d) = ReadTo - End(sent, i - 1)
  <2> HIDE DEF d
  <2> QED BY <1>1, <1>2, <1>3, <1>5, SMTT(20)
<1> QED BY <1>3, <1>4, <1>7, <1>8

\* The frame found is there as a whole, or it was cut and has no escape bytes in it.
LEMMA FrameWhole ==
    ASSUME TypeInv, StreamInv, NEW i \in 1 .. Len(sent), At(i - 1), End(sent, i - 1) < ReadTo,
           End(sent, i) <= ReadTo
    PROVE  LET d == Aligned(buffer)
           IN  /\ Decoded(d) <=> Carries(sent[i])
               /\ Decoded(d) => Message(d) = sent[i]
               /\ Decoded(d) \/ Skipped(d) => /\ Remaining(d) \in Seq(Byte)
                                              /\ Len(Remaining(d)) = ReadTo - End(sent, i)
               /\ ~Decoded(d) /\ ~Skipped(d) => sent[i].type = TypeStatus \/ ~Decodes(sent[i])
               /\ ~Crashes(d)
<1> DEFINE d == Aligned(buffer)
           c == Len(EncodeBeast(sent[i]))
<1>1. /\ d \in Seq(Byte) /\ Len(d) \in Nat /\ Len(d) = ReadTo - End(sent, i - 1)
      /\ \A p \in 1 .. Len(d) : p <= c => d[p] = EncodeBeast(sent[i])[p]
  BY FrameData
<1>2. /\ End(sent, i) = End(sent, i - 1) + c /\ c \in Nat /\ sent[i] \in Frame
      /\ End(sent, i) \in Nat /\ End(sent, i - 1) \in Nat
  BY NextEnd DEF TypeInv
<1>3. ReadTo \in Nat
  BY Places
<1> HIDE DEF d, c
<1>4. c <= Len(d)
  BY <1>1, <1>2, <1>3
<1>5. \A p \in 1 .. c : d[p] = EncodeBeast(sent[i])[p]
  <2>1. \A p \in 1 .. c : p \in 1 .. Len(d) /\ p <= c
    BY <1>1, <1>2, <1>4
  <2> QED BY <1>1, <2>1
<1>6. /\ Decoded(d) <=> Carries(sent[i])
      /\ Decoded(d) => Message(d) = sent[i]
      /\ Decoded(d) \/ Skipped(d) => Remaining(d) = From(d, c + 1)
      /\ ~Decoded(d) /\ ~Skipped(d) => sent[i].type = TypeStatus \/ ~Decodes(sent[i])
      /\ ~Crashes(d)
  BY <1>1, <1>2, <1>4, <1>5, WholeFrame DEF c
<1>7. From(d, c + 1) \in Seq(Byte) /\ Len(From(d, c + 1)) = ReadTo - End(sent, i)
  <2>1. c + 1 \in Nat \ {0}
    BY <1>2
  <2>2. /\ From(d, c + 1) \in Seq(Byte)
        /\ Len(From(d, c + 1)) = IF c + 1 <= Len(d) THEN (Len(d) - (c + 1)) + 1 ELSE 0
    BY <1>1, <2>1, FromLaws
  <2>3. Len(From(d, c + 1)) = Len(d) - c
    <3>1. CASE c = Len(d)
      BY <1>2, <2>2, <3>1
    <3>2. CASE c # Len(d)
      <4>1. c + 1 <= Len(d)
        BY <1>1, <1>2, <1>4, <3>2
      <4> QED BY <1>1, <1>2, <2>2, <4>1
    <3> QED BY <3>1, <3>2
  <2>4. Len(d) - c = ReadTo - End(sent, i)
    BY <1>1, <1>2, <1>3
  <2> QED BY <2>2, <2>3, <2>4
<1>8. Decoded(d) \/ Skipped(d) => /\ Remaining(d) \in Seq(Byte)
                                  /\ Len(Remaining(d)) = ReadTo - End(sent, i)
  BY <1>6, <1>7
<1> QED BY <1>6, <1>8 DEF d

LEMMA FramePart ==
    ASSUME TypeInv, StreamInv, CutInv,
           NEW i \in 1 .. Len(sent), Harmless(i), At(i - 1), End(sent, i - 1) < ReadTo,
           ReadTo < End(sent, i)
    PROVE  LET d == Aligned(buffer)
           IN  /\ ~Decoded(d) /\ ~Skipped(d) /\ ~Crashes(d)
               /\ ~HasEscape(sent[i])
               /\ Carries(sent[i]) => Len(d) < BufferLimit
<1> DEFINE d == Aligned(buffer)
           c == Len(EncodeBeast(sent[i]))
<1>1. /\ d \in Seq(Byte) /\ Len(d) \in Nat /\ Len(d) = ReadTo - End(sent, i - 1)
      /\ \A p \in 1 .. Len(d) : p <= c => d[p] = EncodeBeast(sent[i])[p]
  BY FrameData
<1>2. /\ End(sent, i) = End(sent, i - 1) + c /\ c \in Nat /\ sent[i] \in Frame
      /\ End(sent, i) \in Nat /\ End(sent, i - 1) \in Nat
  BY NextEnd DEF TypeInv
<1>3. ReadTo \in Nat
  BY Places
<1> HIDE DEF d, c
<1>4. Len(d) < c
  BY <1>1, <1>2, <1>3
<1>5. \A p \in 1 .. Len(d) : d[p] = EncodeBeast(sent[i])[p]
  <2>1. \A p \in 1 .. Len(d) : p <= c
    BY <1>1, <1>2, <1>4
  <2> QED BY <1>1, <2>1
<1>6. ~HasEscape(sent[i])
  BY DEF CutInv, Harmless
<1>7. ~Decoded(d) /\ ~Skipped(d) /\ ~Crashes(d)
      /\ (sent[i].type # TypeStatus => Len(d) < BufferLimit)
  BY <1>1, <1>2, <1>4, <1>5, <1>6, PartOfFrame DEF c
<1>8. Carries(sent[i]) => sent[i].type # TypeStatus
  BY DEF Carries, TypeModeAC, TypeStatus
<1> QED BY <1>6, <1>7, <1>8 DEF d

\* What the parsing loop finds if it takes a frame: the next one, all of it.
LEMMA Succeeds ==
    ASSUME TypeInv, StreamInv, CutInv, NEW j \in 0 .. Len(sent), At(j), SafeAfter(j),
           Decoded(Aligned(buffer)) \/ Skipped(Aligned(buffer))
    PROVE  \E i \in 1 .. Len(sent) :
               /\ i = j + 1
               /\ Decoded(Aligned(buffer)) <=> Carries(sent[i])
               /\ Decoded(Aligned(buffer)) => Message(Aligned(buffer)) = sent[i]
               /\ Remaining(Aligned(buffer)) \in Seq(Byte)
               /\ Len(Remaining(Aligned(buffer))) = ReadTo - End(sent, i)
<1>1. /\ ParsedTo \in Nat /\ ReadTo \in Nat /\ Len(buffer) \in Nat /\ Len(wire) \in Nat
      /\ Len(sent) \in Nat /\ End(sent, Len(sent)) = ReadTo + Len(wire)
      /\ End(sent, Len(sent)) \in Nat
  BY Places
<1>2. End(sent, j) \in Nat
  BY Ends DEF TypeInv
<1>3. Readable(Aligned(buffer))
  BY DEF Decoded, Skipped
<1>4. End(sent, j) < ReadTo
  <2> SUFFICES ASSUME ReadTo <= End(sent, j) PROVE FALSE
    BY <1>1, <1>2
  <2>1. \A p \in 1 .. Len(buffer) : buffer[p] # Escape
    BY NothingFound
  <2> QED BY <1>3, <2>1, NoEscapes DEF TypeInv
<1>5. j # Len(sent)
  BY <1>1, <1>4
<1>6. PICK i \in 1 .. Len(sent) : i = j + 1
  BY <1>1, <1>5
<1>7. i - 1 = j
  BY <1>1, <1>6
<1>8. At(i - 1) /\ End(sent, i - 1) < ReadTo
  BY <1>4, <1>7
<1>9. End(sent, i) <= ReadTo
  <2>1. End(sent, i) \in Nat
    BY NextEnd DEF TypeInv
  <2>2. ~(ReadTo < End(sent, i))
    BY <1>6, <1>8, FramePart DEF SafeAfter
  <2> QED BY <1>1, <2>1, <2>2
<1>10. /\ Decoded(Aligned(buffer)) <=> Carries(sent[i])
       /\ Decoded(Aligned(buffer)) => Message(Aligned(buffer)) = sent[i]
       /\ Remaining(Aligned(buffer)) \in Seq(Byte)
       /\ Len(Remaining(Aligned(buffer))) = ReadTo - End(sent, i)
  BY <1>8, <1>9, FrameWhole
<1> QED BY <1>6, <1>10

\* It does not come to a panic there.
LEMMA NoPanic ==
    ASSUME TypeInv, StreamInv, CutInv, NEW j \in 0 .. Len(sent), At(j), SafeAfter(j)
    PROVE  ~Crashes(Aligned(buffer))
<1>1. /\ ReadTo \in Nat /\ Len(wire) \in Nat
      /\ Len(sent) \in Nat /\ End(sent, Len(sent)) = ReadTo + Len(wire)
  BY Places
<1>2. End(sent, j) \in Nat
  BY Ends DEF TypeInv
<1>3. CASE ReadTo <= End(sent, j)
  <2>1. \A p \in 1 .. Len(buffer) : buffer[p] # Escape
    BY <1>3, NothingFound
  <2> QED BY <2>1, NoEscapes DEF TypeInv, Crashes
<1>4. CASE End(sent, j) < ReadTo
  <2>1. j # Len(sent)
    BY <1>1, <1>4
  <2>2. PICK i \in 1 .. Len(sent) : i = j + 1 /\ i - 1 = j
    BY <1>1, <2>1
  <2>3. At(i - 1) /\ End(sent, i - 1) < ReadTo /\ Harmless(i) /\ End(sent, i) \in Nat
    BY <1>4, <2>2, NextEnd DEF SafeAfter, TypeInv
  <2>4. CASE End(sent, i) <= ReadTo
    BY <2>3, <2>4, FrameWhole
  <2>5. CASE ReadTo < End(sent, i)
    BY <2>3, <2>5, FramePart
  <2> QED BY <1>1, <2>3, <2>4, <2>5
<1> QED BY <1>1, <1>2, <1>3, <1>4

\* What it finds if it takes none: escape bytes only further on, or a frame that is not for
\* this program, or one of which more is to come.
LEMMA FailsBefore ==
    ASSUME TypeInv, StreamInv, NEW i \in 1 .. Len(sent), At(i - 1), End(sent, i - 1) < ReadTo,
           ParsedTo # End(sent, i - 1)
    PROVE  NextEscape(buffer) \in 2 .. Len(buffer)
           /\ ParsedTo + NextEscape(buffer) = End(sent, i - 1) + 1
<1>1. ParsedTo \in Nat /\ Len(buffer) \in Nat
  BY Places
<1>2. PICK k \in 1 .. Len(buffer) :
          /\ ParsedTo + k = End(sent, i - 1) + 1 /\ buffer[k] = Escape
          /\ \A p \in 1 .. Len(buffer) : buffer[p] = Escape => k <= p
  BY FrameFound
<1>3. End(sent, i - 1) \in Nat
  BY NextEnd DEF TypeInv
<1>4. k \in 2 .. Len(buffer)
  BY <1>1, <1>2, <1>3
<1>5. NextEscape(buffer) \in 2 .. Len(buffer) /\ buffer[NextEscape(buffer)] = Escape
      /\ NextEscape(buffer) <= k
  BY <1>2, <1>4, NextEscapeIs DEF TypeInv
<1>6. k <= NextEscape(buffer)
  <2>1. NextEscape(buffer) \in 1 .. Len(buffer)
    BY <1>1, <1>5
  <2> QED BY <1>2, <1>5, <2>1
<1>7. NextEscape(buffer) = k
  BY <1>1, <1>4, <1>5, <1>6
<1> QED BY <1>2, <1>4, <1>7

\* The bytes after the first escape byte of a frame without others.
LEMMA PlainBuffer ==
    ASSUME TypeInv, StreamInv, NEW i \in 1 .. Len(sent), ~HasEscape(sent[i]),
           ParsedTo = End(sent, i - 1)
    PROVE  \A p \in 2 .. Len(buffer) : p <= Len(EncodeBeast(sent[i])) => buffer[p] # Escape
<1> SUFFICES ASSUME NEW p \in 2 .. Len(buffer), p <= Len(EncodeBeast(sent[i]))
             PROVE  buffer[p] # Escape
  OBVIOUS
<1>1. Len(buffer) \in Nat /\ Len(EncodeBeast(sent[i])) \in Nat /\ sent[i] \in Frame
  BY Places, NextEnd DEF TypeInv
<1>2. /\ p \in 1 .. Len(buffer)
      /\ p \in 1 .. Len(EncodeBeast(sent[i])) /\ p \in 2 .. Len(EncodeBeast(sent[i]))
  BY <1>1
<1>3. buffer[p] = Stream(sent)[End(sent, i - 1) + p]
  BY <1>2 DEF StreamInv
<1>4. Stream(sent)[End(sent, i - 1) + p] = EncodeBeast(sent[i])[p]
  BY <1>2, StreamPlace DEF TypeInv
<1>5. EncodeBeast(sent[i])[p] # Escape
  BY <1>1, <1>2, PlainFrame
<1> QED BY <1>3, <1>4, <1>5

LEMMA FailsAt ==
    ASSUME TypeInv, StreamInv, CutInv,
           NEW i \in 1 .. Len(sent), Harmless(i), At(i - 1), End(sent, i - 1) < ReadTo,
           ParsedTo = End(sent, i - 1), Failed
    PROVE  /\ ~HasEscape(sent[i])
           /\ \/ /\ End(sent, i) < ReadTo /\ ~Carries(sent[i])
                 /\ NextEscape(buffer) \in 2 .. Len(buffer)
                 /\ ParsedTo + NextEscape(buffer) = End(sent, i) + 1
              \/ /\ ReadTo <= End(sent, i) /\ NextEscape(buffer) = 0
                 /\ Carries(sent[i]) => ReadTo < End(sent, i) /\ Len(buffer) < BufferLimit
<1> DEFINE c == Len(EncodeBeast(sent[i]))
<1>1. /\ ParsedTo \in Nat /\ ReadTo \in Nat /\ Len(buffer) \in Nat /\ Len(wire) \in Nat
      /\ ReadTo = ParsedTo + Len(buffer)
      /\ Len(sent) \in Nat /\ End(sent, Len(sent)) = ReadTo + Len(wire)
  BY Places
<1>2. /\ End(sent, i) = End(sent, i - 1) + c /\ c \in Nat /\ c >= 2 /\ sent[i] \in Frame
      /\ End(sent, i) \in Nat /\ End(sent, i - 1) \in Nat
  BY NextEnd DEF TypeInv
<1>3. Len(Aligned(buffer)) = Len(buffer)
  <2>1. Len(Aligned(buffer)) = ReadTo - End(sent, i - 1) /\ Len(Aligned(buffer)) \in Nat
    BY FrameData
  <2> QED BY <1>1, <2>1
<1>4. End(sent, i) <= ReadTo => ~Carries(sent[i]) /\ ~HasEscape(sent[i])
  BY FrameWhole DEF Failed, Harmless
<1>5. ReadTo < End(sent, i) =>
          ~HasEscape(sent[i]) /\ (Carries(sent[i]) => Len(Aligned(buffer)) < BufferLimit)
  BY FramePart
<1>6. ~HasEscape(sent[i])
  BY <1>1, <1>2, <1>4, <1>5, SMTT(20)
<1>7. \A p \in 2 .. Len(buffer) : p <= c => buffer[p] # Escape
  BY <1>6, PlainBuffer
<1> HIDE DEF c
<1>8. CASE End(sent, i) < ReadTo
  <2>1. i # Len(sent)
    BY <1>1, <1>2, <1>8
  <2>2. PICK k \in 1 .. Len(sent) : k - 1 = i
    <3>1. i + 1 \in 1 .. Len(sent) /\ (i + 1) - 1 = i
      BY <1>1, <2>1
    <3> QED BY <3>1
  <2>3. /\ c + 1 \in 2 .. Len(buffer) /\ c + 1 \in 1 .. Len(buffer)
        /\ ParsedTo + (c + 1) = End(sent, i) + 1
    <3>1. ASSUME NEW a \in Nat, NEW b \in Nat, NEW x \in Nat, NEW y \in Nat,
                 x >= 2, y = a + x, y < a + b
          PROVE  x + 1 \in 2 .. b /\ x + 1 \in 1 .. b /\ a + (x + 1) = y + 1
      BY <3>1
    <3>2. End(sent, i) = ParsedTo + c /\ End(sent, i) < ParsedTo + Len(buffer)
      BY ONLY <1>1, <1>2, <1>8, ParsedTo = End(sent, i - 1)
    <3> QED BY ONLY <1>1, <1>2, <3>1, <3>2, SMTT(20)
  <2>4. buffer[c + 1] = Escape
    <3>1. buffer[c + 1] = Stream(sent)[End(sent, i) + 1]
      BY <2>3 DEF StreamInv
    <3>2. 1 \in 1 .. Len(EncodeBeast(sent[k])) /\ sent[k] \in Frame
      BY NextEnd DEF TypeInv
    <3>3. Stream(sent)[End(sent, k - 1) + 1] = EncodeBeast(sent[k])[1]
      BY <3>2, StreamPlace DEF TypeInv
    <3> QED BY <2>2, <3>1, <3>2, <3>3, EncodeIs
  <2>5. /\ NextEscape(buffer) \in 2 .. Len(buffer) /\ buffer[NextEscape(buffer)] = Escape
        /\ NextEscape(buffer) <= c + 1
    BY <2>3, <2>4, NextEscapeIs DEF TypeInv
  <2>6. NextEscape(buffer) = c + 1
    <3>1. ~(NextEscape(buffer) <= c)
      BY <1>7, <2>5
    <3>2. ASSUME NEW a \in Nat, NEW b \in Nat, NEW x \in 2 .. a, x <= b + 1, ~(x <= b) PROVE x = b + 1
      BY <3>2
    <3> QED BY <1>1, <1>2, <2>5, <3>1, <3>2
  <2>7. ~Carries(sent[i])
    BY <1>1, <1>2, <1>4, <1>8, SMTT(20)
  <2> QED BY <1>6, <1>8, <2>3, <2>5, <2>6, <2>7
<1>9. CASE ReadTo <= End(sent, i)
  <2>1. \A p \in 2 .. Len(buffer) : buffer[p] # Escape
    <3>1. \A p \in 2 .. Len(buffer) : p <= c
      BY <1>1, <1>2, <1>9
    <3> QED BY <1>7, <3>1
  <2>2. NextEscape(buffer) = 0
    BY <2>1, NextEscapeIs DEF TypeInv
  <2>3. Carries(sent[i]) => ReadTo < End(sent, i)
    BY <1>1, <1>2, <1>4, <1>9, SMTT(20)
  <2> QED BY <1>3, <1>5, <1>6, <1>9, <2>2, <2>3
<1> QED BY <1>1, <1>2, <1>8, <1>9

-----------------------------------------------------------------------------
(***************************************************************************)
(* The steps of the parsing loop.                                          *)
(***************************************************************************)

\* Data without some of its first bytes.
IsTail(t, s) ==
    /\ t \in Seq(Byte) /\ Len(t) <= Len(s)
    /\ \A p \in 1 .. Len(t) : t[p] = s[(Len(s) - Len(t)) + p]

LEMMA FromTail ==
    ASSUME NEW s \in Seq(Byte), NEW i \in Nat \ {0}
    PROVE  IsTail(From(s, i), s)
<1> DEFINE t == From(s, i)
<1>1. Len(s) \in Nat
  BY Lengths
<1>2. t \in Seq(Byte) /\ Len(t) \in Nat
  BY FromLaws
<1>3. Len(t) = IF i <= Len(s) THEN (Len(s) - i) + 1 ELSE 0
  BY FromLaws
<1>4. \A p \in 1 .. Len(t) : t[p] = s[(i - 1) + p]
  BY FromLaws
<1> HIDE DEF t
<1>5. Len(t) <= Len(s)
  BY <1>1, <1>3
<1>6. ASSUME NEW p \in 1 .. Len(t) PROVE t[p] = s[(Len(s) - Len(t)) + p]
  <2>1. i <= Len(s)
    BY <1>1, <1>3
  <2>2. Len(s) - Len(t) = i - 1
    BY <1>1, <1>3, <2>1
  <2> QED BY <1>4, <2>2
<1>7. IsTail(t, s)
  BY <1>2, <1>5, <1>6 DEF IsTail
<1> QED BY <1>7 DEF t

LEMMA TailOfTail ==
    ASSUME NEW s \in Seq(Byte), NEW t, NEW u, IsTail(t, s), IsTail(u, t)
    PROVE  IsTail(u, s)
<1>1. /\ Len(s) \in Nat /\ Len(t) \in Nat /\ Len(u) \in Nat
      /\ Len(t) <= Len(s) /\ Len(u) <= Len(t)
      /\ u \in Seq(Byte)
  BY Lengths DEF IsTail
<1>2. ASSUME NEW p \in 1 .. Len(u) PROVE u[p] = s[(Len(s) - Len(u)) + p]
  <2>1. ASSUME NEW a \in Nat, NEW b \in Nat, NEW c \in Nat, b <= a, c <= b, NEW q \in 1 .. c
        PROVE  (b - c) + q \in 1 .. b /\ (a - b) + ((b - c) + q) = (a - c) + q
    BY <2>1
  <2>2. PICK q \in 1 .. Len(t) : q = (Len(t) - Len(u)) + p
    BY <1>1, <2>1
  <2>3. (Len(s) - Len(t)) + q = (Len(s) - Len(u)) + p
    BY <1>1, <2>1, <2>2
  <2>4. u[p] = t[q]
    BY <2>2 DEF IsTail
  <2>5. t[q] = s[(Len(s) - Len(t)) + q]
    BY DEF IsTail
  <2> QED BY <2>3, <2>4, <2>5
<1>3. Len(u) <= Len(s)
  BY <1>1
<1> QED BY <1>1, <1>2, <1>3 DEF IsTail

LEMMA AlignedTail ==
    ASSUME NEW data \in Seq(Byte)
    PROVE  IsTail(Aligned(data), data)
<1>1. Len(data) \in Nat
  BY Lengths
<1>2. CASE Aligned(data) = <<>>
  <2>1. <<>> \in Seq(Byte) /\ Len(<<>>) = 0
    BY EmptyJoined
  <2> QED BY <1>1, <1>2, <2>1 DEF IsTail
<1>3. ASSUME NEW n \in 1 .. Len(data), Aligned(data) = From(data, n)
      PROVE  IsTail(Aligned(data), data)
  <2>1. n \in Nat \ {0}
    BY <1>1
  <2> QED BY <1>3, <2>1, FromTail
<1> QED BY <1>2, <1>3, AlignedIs

LEMMA RemainingTail ==
    ASSUME NEW d \in Seq(Byte), Readable(d)
    PROVE  IsTail(Remaining(d), d)
<1>1. MinLen \in Nat /\ MinLen >= 3
  BY BeastAssumption
<1>2. Payload(d).pos \in Nat
  <2>1. From(d, 3) \in Seq(Byte)
    BY FromLaws
  <2> QED BY <2>1, UnescapeType DEF Payload, TakenType
<1>3. CASE Heartbeat(d)
  <2>1. Remaining(d) = From(d, 3 + (MinLen - 2)) /\ 3 + (MinLen - 2) \in Nat \ {0}
    BY <1>1, <1>3 DEF Remaining
  <2> QED BY <2>1, FromTail
<1>4. CASE ~Heartbeat(d)
  <2>1. Remaining(d) = From(d, 3 + Payload(d).pos) /\ 3 + Payload(d).pos \in Nat \ {0}
    BY <1>2, <1>4 DEF Remaining
  <2> QED BY <2>1, FromTail
<1> QED BY <1>3, <1>4

\* Whatever the loop takes from the buffer, it takes from its beginning.
LEMMA ParseTail ==
    ASSUME TypeInv, Parse
    PROVE  IsTail(buffer', buffer) /\ UNCHANGED <<modeAC, wire, sent, cut>>
<1>1. buffer \in Seq(Byte) /\ Len(buffer) \in Nat
  BY Lengths DEF TypeInv
<1>2. Aligned(buffer) \in Seq(Byte) /\ IsTail(Aligned(buffer), buffer)
  BY <1>1, AlignedTail DEF IsTail
<1>3. ASSUME Readable(Aligned(buffer)) PROVE IsTail(Remaining(Aligned(buffer)), buffer)
  BY <1>1, <1>2, <1>3, RemainingTail, TailOfTail
<1>4. CASE Deliver
  BY <1>3, <1>4 DEF Deliver, Decoded
<1>5. CASE Skip
  BY <1>3, <1>5 DEF Skip, Skipped
<1>6. CASE Resync
  <2>1. NextEscape(buffer) \in Nat \ {0}
    BY <1>1, <1>6, NextEscapeIs DEF Resync
  <2> QED BY <1>1, <1>6, <2>1, FromTail DEF Resync
<1>7. CASE Wait
  <2>1. CASE Len(buffer) > BufferLimit
    <3>1. (Len(buffer) - BufferKept) + 1 \in Nat \ {0}
      BY <1>1, <2>1, BeastAssumption
    <3> QED BY <1>1, <1>7, <2>1, <3>1, FromTail DEF Wait
  <2>2. CASE ~(Len(buffer) > BufferLimit)
    <3>1. IsTail(buffer, buffer)
      BY <1>1 DEF IsTail
    <3> QED BY <1>7, <2>2, <3>1 DEF Wait
  <2> QED BY <2>1, <2>2
<1> QED BY <1>4, <1>5, <1>6, <1>7 DEF Parse

LEMMA ParseStream ==
    ASSUME TypeInv, TypeInv', StreamInv, CutInv, Parse
    PROVE  /\ StreamInv' /\ CutInv'
           /\ ReadTo' = ReadTo /\ ParsedTo' = ReadTo - Len(buffer')
           /\ ParsedTo' \in Nat /\ Len(buffer') \in Nat /\ ParsedTo <= ParsedTo'
<1>1. IsTail(buffer', buffer) /\ UNCHANGED <<wire, sent, cut>>
  BY ParseTail
<1>2. /\ ParsedTo \in Nat /\ ReadTo \in Nat /\ Len(buffer) \in Nat
      /\ ReadTo = ParsedTo + Len(buffer)
  BY Places
<1>3. Len(buffer') \in Nat /\ Len(buffer') <= Len(buffer)
  BY <1>1, Lengths DEF TypeInv, IsTail
<1>4. ReadTo' = ReadTo
  BY <1>1 DEF ReadTo
<1>5. ParsedTo' = ReadTo - Len(buffer')
  BY <1>4 DEF ParsedTo
<1>6. ParsedTo' \in Nat /\ ParsedTo <= ParsedTo'
  BY <1>2, <1>3, <1>5
<1>7. ASSUME NEW p \in 1 .. Len(buffer') PROVE buffer'[p] = Stream(sent)[ParsedTo' + p]
  <2>1. PICK q \in 1 .. Len(buffer) : q = (Len(buffer) - Len(buffer')) + p
    BY <1>2, <1>3
  <2>2. ParsedTo + q = ParsedTo' + p
    <3>1. ASSUME NEW a \in Nat, NEW b \in Nat, NEW c \in Nat, NEW x \in Nat, NEW y \in 1 .. c,
                 NEW z \in Nat, a = b + x, z = a - c
          PROVE  b + ((x - c) + y) = z + y
      BY <3>1
    <3> QED BY <1>2, <1>3, <1>5, <1>6, <2>1, <3>1
  <2>3. buffer'[p] = buffer[q]
    BY <1>1, <2>1 DEF IsTail
  <2> QED BY <2>2, <2>3 DEF StreamInv
<1>8. StreamInv'
  BY <1>1, <1>4, <1>6, <1>7 DEF StreamInv
<1>9. CutInv'
  BY <1>1, <1>4 DEF CutInv
<1> QED BY <1>3, <1>4, <1>5, <1>6, <1>8, <1>9

\* What the frames carry, one frame after the other.
LEMMA CarriedListed ==
    ASSUME TypeInv
    PROVE  /\ Len(sent) \in Nat /\ Listed(Frame, Carried, Len(sent)) /\ DOMAIN sent = 1 .. Len(sent)
           /\ \A i \in 1 .. Len(sent) :
                  Carried[i] = IF Carries(sent[i]) THEN <<sent[i]>> ELSE <<>>
<1>1. Len(sent) \in Nat /\ DOMAIN sent = 1 .. Len(sent) /\ \A i \in 1 .. Len(sent) : sent[i] \in Frame
  BY Lengths DEF TypeInv
<1>2. \A i \in 1 .. Len(sent) : Carried[i] = IF Carries(sent[i]) THEN <<sent[i]>> ELSE <<>>
  BY <1>1 DEF Carried
<1>3. ASSUME NEW i \in 1 .. Len(sent) PROVE Carried[i] \in Seq(Frame)
  <2>1. sent[i] \in Frame
    BY <1>1
  <2>2. <<sent[i]>> \in Seq(Frame) /\ <<>> \in Seq(Frame)
    BY <2>1
  <2> QED BY <1>2, <2>2
<1> QED BY <1>1, <1>2, <1>3 DEF Listed

LEMMA CarriedStep ==
    ASSUME TypeInv, NEW i \in 1 .. Len(sent)
    PROVE  Cat(Carried, i) = IF Carries(sent[i]) THEN Append(Cat(Carried, i - 1), sent[i])
                             ELSE Cat(Carried, i - 1)
<1>1. /\ Len(sent) \in Nat /\ Listed(Frame, Carried, Len(sent))
      /\ Carried[i] = IF Carries(sent[i]) THEN <<sent[i]>> ELSE <<>>
  BY CarriedListed
<1>2. Cat(Carried, i) = Cat(Carried, i - 1) \o Carried[i] /\ Cat(Carried, i - 1) \in Seq(Frame)
  BY <1>1, CatParts
<1>3. sent[i] \in Frame
  BY <1>1 DEF TypeInv
<1>4. CASE Carries(sent[i])
  BY <1>1, <1>2, <1>3, <1>4
<1>5. CASE ~Carries(sent[i])
  BY <1>1, <1>2, <1>5
<1> QED BY <1>4, <1>5

\* A step that parses frame i after the first j, or none, gains the message of that frame.
Gains(j, i) ==
    \/ i = j /\ got' = got
    \/ i = j + 1 /\ got' = IF Carries(sent[i]) THEN Append(got, sent[i]) ELSE got

\* It is enough that the parsing ends where a frame does, or that no escape byte comes
\* before.
LEMMA StillAt ==
    ASSUME NEW i \in Nat, UNCHANGED sent, ParsedTo' <= End(sent, i),
           \A p \in ParsedTo' + 1 .. End(sent, i) : Stream(sent)[p] # Escape
    PROVE  At(i)'
BY DEF At

LEMMA AtThere ==
    ASSUME TypeInv, NEW i \in 0 .. Len(sent), UNCHANGED sent, ParsedTo' = End(sent, i)
    PROVE  At(i)'
<1>1. End(sent, i) \in Nat /\ Len(sent) \in Nat
  BY Ends DEF TypeInv
<1>2. i \in Nat
  BY <1>1
<1>3. \A p \in ParsedTo' + 1 .. End(sent, i) : Stream(sent)[p] # Escape
  <2>1. ParsedTo' + 1 .. End(sent, i) = {}
    BY <1>1
  <2> QED BY <2>1
<1> QED BY <1>1, <1>2, <1>3, StillAt

LEMMA TakenMoves ==
    ASSUME TypeInv, TypeInv', StreamInv, CutInv, Deliver \/ Skip,
           NEW j \in 0 .. Len(sent), At(j), SafeAfter(j)
    PROVE  \E i \in 0 .. Len(sent) : At(i)' /\ Gains(j, i)
<1> DEFINE d == Aligned(buffer)
<1>1. /\ UNCHANGED <<modeAC, sent>> /\ buffer' = Remaining(d) /\ (Decoded(d) \/ Skipped(d))
      /\ ParsedTo' = ReadTo - Len(buffer')
  BY ParseStream DEF Deliver, Skip, Parse
<1>2. PICK i \in 1 .. Len(sent) :
          /\ i = j + 1
          /\ Decoded(d) <=> Carries(sent[i])
          /\ Decoded(d) => Message(d) = sent[i]
          /\ Remaining(d) \in Seq(Byte)
          /\ Len(Remaining(d)) = ReadTo - End(sent, i)
  BY <1>1, Succeeds
<1> HIDE DEF d
<1>3. /\ Len(sent) \in Nat /\ i \in 0 .. Len(sent) /\ i - 1 = j
      /\ End(sent, i) \in Nat /\ ReadTo \in Nat
  BY <1>2, Places, NextEnd DEF TypeInv
<1>4. ParsedTo' = End(sent, i)
  BY <1>1, <1>2, <1>3
<1>5. Gains(j, i)
  <2>2. CASE Deliver
    <3>1. got' = Append(got, sent[i]) /\ Carries(sent[i])
      BY <1>2, <2>2 DEF Deliver, d
    <3> QED BY <1>2, <3>1 DEF Gains
  <2>3. CASE Skip
    <3>1. got' = got /\ ~Carries(sent[i])
      BY <1>2, <2>3 DEF Skip, Decoded, d
    <3> QED BY <1>2, <3>1 DEF Gains
  <2> QED BY <1>1, <2>2, <2>3
<1>6. At(i)'
  BY <1>1, <1>3, <1>4, AtThere
<1> QED BY <1>3, <1>5, <1>6

LEMMA ResyncMoves ==
    ASSUME TypeInv, TypeInv', StreamInv, CutInv, Resync,
           NEW j \in 0 .. Len(sent), At(j), SafeAfter(j)
    PROVE  \E i \in 0 .. Len(sent) : At(i)' /\ Gains(j, i)
<1>1. /\ UNCHANGED <<modeAC, sent, got>> /\ buffer' = From(buffer, NextEscape(buffer))
      /\ Failed /\ NextEscape(buffer) # 0 /\ ParsedTo' = ReadTo - Len(buffer')
  BY ParseStream, NextEscapeIs DEF Resync, Parse, TypeInv
<1>2. /\ ParsedTo \in Nat /\ ReadTo \in Nat /\ Len(buffer) \in Nat /\ Len(wire) \in Nat
      /\ ReadTo = ParsedTo + Len(buffer) /\ buffer \in Seq(Byte)
      /\ Len(sent) \in Nat /\ End(sent, Len(sent)) = ReadTo + Len(wire)
  BY Places DEF TypeInv
<1>3. End(sent, j) \in Nat
  BY Ends DEF TypeInv
<1>4. End(sent, j) < ReadTo
  <2> SUFFICES ASSUME ReadTo <= End(sent, j) PROVE FALSE
    BY <1>2, <1>3
  <2>1. \A p \in 1 .. Len(buffer) : buffer[p] # Escape
    BY NothingFound
  <2> QED BY <1>1, <1>2, <2>1, NoEscapes
<1>5. PICK i \in 1 .. Len(sent) : i = j + 1
  <2>1. j # Len(sent)
    BY <1>2, <1>4
  <2> QED BY <1>2, <2>1
<1>6. i - 1 = j /\ i \in 0 .. Len(sent)
  BY <1>2, <1>5
<1>7. At(i - 1) /\ End(sent, i - 1) < ReadTo /\ Harmless(i)
  BY <1>4, <1>5, <1>6 DEF SafeAfter
<1>8. ASSUME NextEscape(buffer) \in 2 .. Len(buffer)
      PROVE  ParsedTo' = (ParsedTo + NextEscape(buffer)) - 1
  <2>1. NextEscape(buffer) \in Nat \ {0} /\ NextEscape(buffer) <= Len(buffer)
    BY <1>2, <1>8
  <2>2. Len(buffer') = (Len(buffer) - NextEscape(buffer)) + 1
    BY <1>1, <1>2, <2>1, FromLaws
  <2> QED BY <1>1, <1>2, <2>1, <2>2, SMTT(20)
<1>9. CASE ParsedTo # End(sent, j)
  <2>1. NextEscape(buffer) \in 2 .. Len(buffer) /\ ParsedTo + NextEscape(buffer) = End(sent, j) + 1
    BY <1>6, <1>7, <1>9, FailsBefore
  <2>2. ParsedTo' = End(sent, j)
    BY <1>2, <1>3, <1>8, <2>1
  <2>3. At(j)'
    BY <1>1, <2>2, AtThere
  <2> QED BY <1>1, <2>3 DEF Gains
<1>10. CASE ParsedTo = End(sent, j)
  <2>1. /\ ~Carries(sent[i]) /\ NextEscape(buffer) \in 2 .. Len(buffer)
        /\ ParsedTo + NextEscape(buffer) = End(sent, i) + 1
    BY <1>1, <1>6, <1>7, <1>10, FailsAt
  <2>2. End(sent, i) \in Nat
    BY NextEnd DEF TypeInv
  <2>3. ParsedTo' = End(sent, i)
    BY <1>2, <1>8, <2>1, <2>2
  <2>4. Gains(j, i)
    BY <1>1, <1>5, <2>1 DEF Gains
  <2>5. At(i)'
    BY <1>1, <1>6, <2>3, AtThere
  <2> QED BY <1>6, <2>4, <2>5
<1> QED BY <1>9, <1>10

\* A frame without escape bytes in it has none after its first byte.
LEMMA PlainPlace ==
    ASSUME TypeInv, NEW i \in 1 .. Len(sent), ~HasEscape(sent[i]),
           NEW from \in Nat, End(sent, i - 1) < from
    PROVE  \A p \in from + 1 .. End(sent, i) : Stream(sent)[p] # Escape
<1> SUFFICES ASSUME NEW p \in from + 1 .. End(sent, i) PROVE Stream(sent)[p] # Escape
  OBVIOUS
<1>1. /\ End(sent, i) = End(sent, i - 1) + Len(EncodeBeast(sent[i]))
      /\ End(sent, i - 1) \in Nat /\ Len(EncodeBeast(sent[i])) \in Nat /\ sent[i] \in Frame
  BY NextEnd DEF TypeInv
<1>2. PICK q \in 2 .. Len(EncodeBeast(sent[i])) : p = End(sent, i - 1) + q
  <2>1. p - End(sent, i - 1) \in 2 .. Len(EncodeBeast(sent[i]))
    <3>1. ASSUME NEW a \in Nat, NEW b \in Nat, NEW c \in Nat, NEW x \in Nat, a < b, x = a + c,
                 NEW y \in b + 1 .. x
          PROVE  y - a \in 2 .. c
      BY <3>1
    <3>2. End(sent, i) \in Nat
      BY <1>1
    <3> QED BY <1>1, <3>1, <3>2
  <2>2. p = End(sent, i - 1) + (p - End(sent, i - 1))
    BY <1>1
  <2> QED BY <2>1, <2>2
<1>3. q \in 1 .. Len(EncodeBeast(sent[i]))
  BY <1>1
<1>4. Stream(sent)[End(sent, i - 1) + q] = EncodeBeast(sent[i])[q]
  BY <1>3, StreamPlace DEF TypeInv
<1>5. EncodeBeast(sent[i])[q] # Escape
  BY <1>1, PlainFrame
<1> QED BY <1>2, <1>4, <1>5

\* If the loop waits, it keeps the buffer or cuts it down to bytes after the first.
LEMMA WaitKeeps ==
    ASSUME TypeInv, TypeInv', StreamInv, CutInv, Wait
    PROVE  \/ buffer' = buffer
           \/ /\ Len(buffer) > BufferLimit /\ ParsedTo < ParsedTo'
              /\ \A p \in 1 .. Len(buffer') : buffer'[p] # Escape
<1>1. /\ ParsedTo' = ReadTo - Len(buffer') /\ Len(buffer') \in Nat
      /\ NextEscape(buffer) = 0
  BY ParseStream DEF Parse, Wait
<1>2. /\ ParsedTo \in Nat /\ ReadTo \in Nat /\ Len(buffer) \in Nat
      /\ ReadTo = ParsedTo + Len(buffer) /\ buffer \in Seq(Byte)
  BY Places DEF TypeInv
<1>3. CASE ~(Len(buffer) > BufferLimit)
  BY <1>3 DEF Wait
<1>4. CASE Len(buffer) > BufferLimit
  <2>1. BufferLimit \in Nat /\ BufferKept \in Nat /\ BufferKept <= BufferLimit
    BY BeastAssumption
  <2>2. PICK k \in Nat \ {0} : k = (Len(buffer) - BufferKept) + 1
    BY <1>2, <1>4, <2>1
  <2>3. k >= 2 /\ buffer' = From(buffer, k)
    BY <1>2, <1>4, <2>1, <2>2 DEF Wait
  <2>4. Len(buffer') = IF k <= Len(buffer) THEN (Len(buffer) - k) + 1 ELSE 0
    BY <1>2, <2>3, FromLaws
  <2>5. \A p \in 1 .. Len(buffer') : buffer'[p] = buffer[(k - 1) + p]
    BY <1>2, <2>3, FromLaws
  <2>6. \A p \in 2 .. Len(buffer) : buffer[p] # Escape
    BY <1>1, <1>2, NextEscapeIs
  <2>7. ASSUME NEW p \in 1 .. Len(buffer') PROVE buffer'[p] # Escape
    <3>1. (k - 1) + p \in 2 .. Len(buffer)
      BY <1>1, <1>2, <2>3, <2>4
    <3> QED BY <2>5, <2>6, <3>1
  <2>8. ParsedTo < ParsedTo'
    <3>1. Len(buffer') < Len(buffer)
      BY <1>1, <1>2, <1>4, <2>1, <2>3, <2>4
    <3> QED BY <1>1, <1>2, <3>1
  <2> QED BY <1>4, <2>7, <2>8
<1> QED BY <1>3, <1>4

LEMMA WaitRests ==
    ASSUME TypeInv, TypeInv', StreamInv, CutInv, Wait
    PROVE  RestInv'
<1>1. Failed /\ NextEscape(buffer) = 0 /\ modeAC' = modeAC
  BY DEF Wait
<1>2. CASE buffer' = buffer
  BY <1>1, <1>2 DEF RestInv, Failed, Decoded, Skipped, Crashes
<1>3. CASE \A p \in 1 .. Len(buffer') : buffer'[p] # Escape
  <2>1. NextEscape(buffer') = 0 /\ ~Readable(Aligned(buffer'))
    BY <1>3, NoEscapes DEF TypeInv
  <2> QED BY <2>1 DEF RestInv, Failed, Decoded, Skipped, Crashes
<1> QED BY <1>2, <1>3, WaitKeeps

LEMMA WaitMoves ==
    ASSUME TypeInv, TypeInv', StreamInv, CutInv, Wait,
           NEW j \in 0 .. Len(sent), At(j), SafeAfter(j)
    PROVE  \E i \in 0 .. Len(sent) : At(i)' /\ Gains(j, i)
<1>1. /\ UNCHANGED <<modeAC, wire, sent, got>>
      /\ Failed /\ NextEscape(buffer) = 0
      /\ ParsedTo' \in Nat /\ ReadTo' = ReadTo /\ ParsedTo' = ReadTo - Len(buffer')
      /\ Len(buffer') \in Nat /\ ParsedTo <= ParsedTo'
  BY ParseStream DEF Wait, Parse
<1>2. /\ ParsedTo \in Nat /\ ReadTo \in Nat /\ Len(buffer) \in Nat /\ Len(wire) \in Nat
      /\ ReadTo = ParsedTo + Len(buffer) /\ buffer \in Seq(Byte)
      /\ Len(sent) \in Nat /\ End(sent, Len(sent)) = ReadTo + Len(wire)
  BY Places DEF TypeInv
<1>3. End(sent, j) \in Nat /\ j \in Nat
  BY <1>2, Ends DEF TypeInv
<1>4. CASE ParsedTo' <= End(sent, j)
  <2>1. \A p \in ParsedTo' + 1 .. End(sent, j) : Stream(sent)[p] # Escape
    <3>1. \A p \in ParsedTo' + 1 .. End(sent, j) : p \in ParsedTo + 1 .. End(sent, j)
      BY <1>1, <1>2, <1>3
    <3> QED BY <3>1 DEF At
  <2>2. At(j)'
    BY <1>1, <1>3, <1>4, <2>1, StillAt
  <2> QED BY <1>1, <2>2 DEF Gains
<1>5. CASE End(sent, j) < ParsedTo'
  <2>1. End(sent, j) < ReadTo
    BY <1>1, <1>2, <1>3, <1>5
  <2>2. PICK i \in 1 .. Len(sent) : i = j + 1
    <3>1. j # Len(sent)
      BY <1>2, <2>1
    <3> QED BY <1>2, <3>1
  <2>3. i - 1 = j /\ i \in 0 .. Len(sent) /\ i \in Nat
    BY <1>2, <2>2
  <2>4. At(i - 1) /\ End(sent, i - 1) < ReadTo /\ Harmless(i)
    BY <2>1, <2>2, <2>3 DEF SafeAfter
  <2>5. ParsedTo = End(sent, i - 1)
    BY <1>1, <1>2, <2>4, FailsBefore
  <2>6. /\ ~HasEscape(sent[i]) /\ ReadTo <= End(sent, i)
        /\ Carries(sent[i]) => Len(buffer) < BufferLimit
    <3>1. /\ ~HasEscape(sent[i])
          /\ \/ /\ End(sent, i) < ReadTo /\ ~Carries(sent[i])
                /\ NextEscape(buffer) \in 2 .. Len(buffer)
                /\ ParsedTo + NextEscape(buffer) = End(sent, i) + 1
             \/ /\ ReadTo <= End(sent, i) /\ NextEscape(buffer) = 0
                /\ Carries(sent[i]) => ReadTo < End(sent, i) /\ Len(buffer) < BufferLimit
      BY <1>1, <2>4, <2>5, FailsAt
    <3>2. NextEscape(buffer) \notin 2 .. Len(buffer)
      BY ONLY <1>1, <1>2
    <3> QED BY ONLY <3>1, <3>2
  <2>7. ParsedTo < ParsedTo' /\ Len(buffer) > BufferLimit
    <3>1. buffer' # buffer
      <4> SUFFICES ASSUME buffer' = buffer PROVE FALSE
        OBVIOUS
      <4>1. ParsedTo' = ParsedTo
        BY <1>1, <1>2
      <4> QED BY <1>2, <1>3, <1>5, <2>3, <2>5, <4>1
    <3> QED BY <3>1, WaitKeeps
  <2>8. ~Carries(sent[i])
    BY <1>2, <2>6, <2>7, BeastAssumption
  <2>9. Gains(j, i)
    BY <1>1, <2>2, <2>8 DEF Gains
  <2>10. /\ End(sent, i) = End(sent, i - 1) + Len(EncodeBeast(sent[i]))
         /\ End(sent, i) \in Nat /\ Len(EncodeBeast(sent[i])) \in Nat /\ sent[i] \in Frame
    BY NextEnd DEF TypeInv
  <2>11. ParsedTo' <= End(sent, i)
    BY <1>1, <1>2, <2>6, <2>10
  <2>12. \A p \in ParsedTo' + 1 .. End(sent, i) : Stream(sent)[p] # Escape
    BY <1>1, <2>5, <2>6, <2>7, PlainPlace
  <2>13. At(i)'
    BY <1>1, <2>3, <2>11, <2>12, StillAt
  <2> QED BY <2>3, <2>9, <2>13
<1>6. ParsedTo' <= End(sent, j) \/ End(sent, j) < ParsedTo'
  BY <1>1, <1>3
<1> QED BY <1>4, <1>5, <1>6

\* Where the frames are harmless a parsing step takes the next one, and its message.
LEMMA ParseMoves ==
    ASSUME TypeInv, TypeInv', StreamInv, CutInv, Parse,
           NEW j \in 0 .. Len(sent), At(j), SafeAfter(j)
    PROVE  \E i \in 0 .. Len(sent) : At(i)' /\ Gains(j, i)
BY TakenMoves, ResyncMoves, WaitMoves DEF Parse

\* A parsing step keeps the invariant.
LEMMA ParseKeeps ==
    ASSUME TypeInv, TypeInv', StreamInv, CutInv, HandledInv, Parse
    PROVE  StreamInv' /\ CutInv' /\ RestInv' /\ HandledInv'
<1>1. StreamInv' /\ CutInv'
  BY ParseStream
<1>2. RestInv'
  <2>1. CASE Deliver \/ Skip \/ Resync
    BY <2>1 DEF Deliver, Skip, Resync, RestInv
  <2> QED BY <2>1, WaitRests DEF Parse
<1>3. HandledInv'
  <2>1. UNCHANGED <<sent, cut>>
    BY ParseTail
  <2> SUFFICES ASSUME Undamaged' PROVE \E j \in 0 .. Len(sent') : Handled(j)'
    BY DEF HandledInv
  <2>2. Undamaged
    BY <2>1 DEF Undamaged, Harmless
  <2>3. PICK j \in 0 .. Len(sent) : Handled(j)
    BY <2>2 DEF HandledInv
  <2>4. SafeAfter(j)
    BY <2>2 DEF SafeAfter, Undamaged
  <2>5. PICK i \in 0 .. Len(sent) : At(i)' /\ Gains(j, i)
    BY <2>3, <2>4, ParseMoves DEF Handled
  <2>6. got' = Cat(Carried, i)
    <3>1. CASE i = j
      BY <2>3, <2>5, <3>1 DEF Gains, Handled
    <3>2. CASE i # j
      <4>1. i = j + 1 /\ got' = IF Carries(sent[i]) THEN Append(got, sent[i]) ELSE got
        BY <2>5, <3>2 DEF Gains
      <4>2. i \in 1 .. Len(sent) /\ i - 1 = j
        BY <4>1, Places
      <4> QED BY <2>3, <4>1, <4>2, CarriedStep DEF Handled
    <3> QED BY <3>1, <3>2
  <2>7. Carried' = Carried
    BY <2>1, ParseTail DEF Carried, Carries
  <2> QED BY <2>1, <2>5, <2>6, <2>7 DEF Handled
<1> QED BY <1>1, <1>2, <1>3

-----------------------------------------------------------------------------
(***************************************************************************)
(* The other steps.                                                        *)
(***************************************************************************)

LEMMA InitBeastInv == Init => StreamInv /\ CutInv /\ RestInv /\ HandledInv
<1> SUFFICES ASSUME Init PROVE StreamInv /\ CutInv /\ RestInv /\ HandledInv
  OBVIOUS
<1>1. TypeInv
  BY InitTypeInv
<1>2. wire = <<>> /\ buffer = <<>> /\ sent = <<>> /\ got = <<>>
  BY DEF Init
<1>3. Len(wire) = 0 /\ Len(buffer) = 0 /\ Len(sent) = 0 /\ End(sent, 0) = 0
  BY <1>1, <1>2, Ends DEF TypeInv
<1>4. ReadTo = 0 /\ ParsedTo = 0
  BY <1>3 DEF ReadTo, ParsedTo
<1>5. StreamInv /\ CutInv
  BY <1>3, <1>4 DEF StreamInv, CutInv
<1>6. RestInv
  <2>1. \A p \in 1 .. Len(buffer) : buffer[p] # Escape
    BY <1>3
  <2> QED BY <1>1, <2>1, NoEscapes DEF TypeInv, RestInv, Failed, Decoded, Skipped, Crashes
<1>7. Handled(0)
  <2>1. Cat(Carried, 0) = <<>>
    BY <1>1, CarriedListed, CatLaws
  <2> QED BY <1>2, <1>3, <1>4, <2>1 DEF Handled, At
<1> QED BY <1>3, <1>5, <1>6, <1>7 DEF HandledInv

LEMMA ReconnectKeeps ==
    ASSUME TypeInv', Reconnect
    PROVE  StreamInv' /\ CutInv' /\ RestInv' /\ HandledInv'
<1>2. wire' = <<>> /\ buffer' = <<>> /\ sent' = <<>> /\ got' = <<>>
  BY DEF Reconnect, NewBuffer
<1>3. Len(wire') = 0 /\ Len(buffer') = 0 /\ Len(sent') = 0 /\ End(sent', 0) = 0
  BY <1>2, Ends DEF TypeInv
<1>4. ReadTo' = 0 /\ ParsedTo' = 0
  BY <1>3 DEF ReadTo, ParsedTo
<1>5. StreamInv' /\ CutInv'
  BY <1>3, <1>4 DEF StreamInv, CutInv
<1>6. RestInv'
  <2>1. \A p \in 1 .. Len(buffer') : buffer'[p] # Escape
    BY <1>3
  <2>2. NextEscape(buffer') = 0 /\ ~Readable(Aligned(buffer'))
    BY <2>1, NoEscapes DEF TypeInv
  <2> QED BY <2>2 DEF RestInv, Failed, Decoded, Skipped, Crashes
<1>7. Handled(0)'
  <2>1. Cat(Carried', 0) = <<>>
    BY DEF Cat, FlattenSeq
  <2> QED BY <1>2, <1>3, <1>4, <2>1 DEF Handled, At
<1> QED BY <1>3, <1>5, <1>6, <1>7 DEF HandledInv

LEMMA ReadKeeps ==
    ASSUME TypeInv, TypeInv', StreamInv, CutInv, HandledInv, NEW n \in 1 .. Len(wire), Read(n)
    PROVE  StreamInv' /\ CutInv' /\ RestInv' /\ HandledInv' /\ ParsedTo' = ParsedTo
<1>1. /\ buffer' = buffer \o SubSeq(wire, 1, n) /\ wire' = From(wire, n + 1)
      /\ stage' = "parse" /\ UNCHANGED <<modeAC, sent, got>>
  BY DEF Read
<1>2. /\ ParsedTo \in Nat /\ ReadTo \in Nat /\ Len(buffer) \in Nat /\ Len(wire) \in Nat
      /\ ReadTo = ParsedTo + Len(buffer) /\ buffer \in Seq(Byte) /\ wire \in Seq(Byte)
      /\ Len(sent) \in Nat /\ End(sent, Len(sent)) = ReadTo + Len(wire)
      /\ End(sent, Len(sent)) \in Nat
  BY Places DEF TypeInv
<1> DEFINE r == SubSeq(wire, 1, n)
<1>3. r \in Seq(Byte) /\ Len(r) = n /\ \A p \in 1 .. n : r[p] = wire[p]
  BY <1>2
<1> HIDE DEF r
<1>4. /\ Len(buffer') = Len(buffer) + n
      /\ \A p \in 1 .. Len(buffer) : buffer'[p] = buffer[p]
      /\ \A p \in 1 .. n : buffer'[Len(buffer) + p] = wire[p]
  <2>1. buffer' = buffer \o r
    BY <1>1 DEF r
  <2>2. /\ Len(buffer \o r) = Len(buffer) + Len(r)
        /\ \A p \in 1 .. Len(buffer) : (buffer \o r)[p] = buffer[p]
        /\ \A p \in 1 .. Len(r) : (buffer \o r)[Len(buffer) + p] = r[p]
    <3>1. buffer \in Seq(Byte) /\ r \in Seq(Byte)
      BY <1>2, <1>3
    <3> QED BY ONLY <3>1, Joined
  <2> QED BY <1>3, <2>1, <2>2
<1>5. /\ Len(wire') = Len(wire) - n
      /\ \A p \in 1 .. Len(wire') : wire'[p] = wire[n + p]
  <2>1. n + 1 \in Nat \ {0} /\ (n + 1) - 1 = n
    BY <1>2
  <2>2. Len(wire') = IF n + 1 <= Len(wire) THEN (Len(wire) - (n + 1)) + 1 ELSE 0
    BY <1>1, <1>2, <2>1, FromLaws
  <2>3. \A p \in 1 .. Len(wire') : wire'[p] = wire[((n + 1) - 1) + p]
    BY <1>1, <1>2, <2>1, FromLaws
  <2>4. Len(wire') = Len(wire) - n
    BY <1>2, <2>2
  <2> QED BY <2>1, <2>3, <2>4
<1>6. ReadTo' = ReadTo + n /\ ParsedTo' = ParsedTo
  <2>1. ReadTo' = ReadTo + n
    <3>1. ReadTo' = End(sent, Len(sent)) - Len(wire')
      BY <1>1 DEF ReadTo
    <3> QED BY <1>2, <1>5, <3>1
  <2> QED BY <1>2, <1>4, <2>1 DEF ParsedTo
<1>7. StreamInv'
  <2>1. ASSUME NEW p \in 1 .. Len(buffer') PROVE buffer'[p] = Stream(sent)[ParsedTo + p]
    <3>1. CASE p <= Len(buffer)
      <4>1. p \in 1 .. Len(buffer)
        BY <1>2, <1>4, <3>1
      <4> QED BY <1>4, <4>1 DEF StreamInv
    <3>2. CASE ~(p <= Len(buffer))
      <4>1. PICK q \in 1 .. n : p = Len(buffer) + q
        <5>1. p - Len(buffer) \in 1 .. n /\ p = Len(buffer) + (p - Len(buffer))
          BY <1>2, <1>4, <3>2
        <5> QED BY <5>1
      <4>2. q \in 1 .. Len(wire) /\ ReadTo + q = ParsedTo + p
        BY <1>2, <4>1
      <4> QED BY <1>4, <4>1, <4>2 DEF StreamInv
    <3> QED BY <3>1, <3>2
  <2>2. ASSUME NEW p \in 1 .. Len(wire') PROVE wire'[p] = Stream(sent)[(ReadTo + n) + p]
    <3>1. n + p \in 1 .. Len(wire) /\ ReadTo + (n + p) = (ReadTo + n) + p
      BY <1>2, <1>5
    <3> QED BY <1>5, <3>1 DEF StreamInv
  <2> QED BY <1>1, <1>2, <1>6, <2>1, <2>2 DEF StreamInv
<1>8. CutInv'
  <2> SUFFICES ASSUME NEW i \in 1 .. Len(sent), End(sent, i - 1) < ReadTo', ReadTo' < End(sent, i)
               PROVE  i \in cut'
    BY <1>1 DEF CutInv
  <2>1. /\ i - 1 \in 0 .. Len(sent) /\ i \in 0 .. Len(sent) /\ Len(sent) \in 0 .. Len(sent)
        /\ i \in DOMAIN sent
    BY <1>2, Lengths DEF TypeInv
  <2>2. /\ EndOf(i - 1) = End(sent, i - 1) /\ EndOf(i) = End(sent, i)
        /\ EndOf(Len(sent)) = End(sent, Len(sent))
    BY <2>1, EndOfIs DEF TypeInv
  <2>3. EndOf(Len(sent)) - Len(wire') = ReadTo'
    BY <1>1, <2>2 DEF ReadTo
  <2> QED BY <2>1, <2>2, <2>3 DEF Read
<1>9. HandledInv'
  <2> SUFFICES ASSUME Undamaged' PROVE \E j \in 0 .. Len(sent') : Handled(j)'
    BY DEF HandledInv
  <2>1. Undamaged
    BY <1>1 DEF Undamaged, Harmless, Read
  <2>2. PICK j \in 0 .. Len(sent) : Handled(j)
    BY <2>1 DEF HandledInv
  <2>3. Handled(j)'
    <3>1. Carried' = Carried
      BY <1>1 DEF Carried, Carries
    <3> QED BY <1>1, <1>6, <2>2, <3>1 DEF Handled, At
  <2> QED BY <1>1, <2>3
<1> QED BY <1>1, <1>6, <1>7, <1>8, <1>9 DEF RestInv

\* A frame that is sent changes nothing before it.
LEMMA SendStream ==
    ASSUME TypeInv, TypeInv', StreamInv, CutInv, RestInv, NEW f \in Frame, Send(f)
    PROVE  /\ StreamInv' /\ CutInv' /\ RestInv'
           /\ ParsedTo' = ParsedTo
           /\ Len(sent) \in Nat /\ Len(sent') = Len(sent) + 1
           /\ \A i \in 1 .. Len(sent) : sent'[i] = sent[i]
           /\ \A i \in 0 .. Len(sent) : End(sent', i) = End(sent, i) /\ (At(i) => At(i)')
<1> DEFINE c == EncodeBeast(f)
<1>1. wire' = wire \o c /\ sent' = Append(sent, f) /\ UNCHANGED <<modeAC, buffer, stage, got, cut>>
  BY DEF Send
<1>2. /\ ParsedTo \in Nat /\ ReadTo \in Nat /\ Len(buffer) \in Nat /\ Len(wire) \in Nat
      /\ ReadTo = ParsedTo + Len(buffer) /\ wire \in Seq(Byte) /\ sent \in Seq(Frame)
      /\ Len(sent) \in Nat /\ End(sent, Len(sent)) = ReadTo + Len(wire)
      /\ End(sent, Len(sent)) \in Nat
  BY Places DEF TypeInv
<1>3. c \in Seq(Byte) /\ Len(c) \in Nat
  BY EncodeType, Lengths
<1>4. /\ Len(wire') = Len(wire) + Len(c)
      /\ \A p \in 1 .. Len(wire) : wire'[p] = wire[p]
      /\ \A p \in 1 .. Len(c) : wire'[Len(wire) + p] = c[p]
  <2> HIDE DEF c
  <2> QED BY <1>1, <1>2, <1>3, Joined, SMTT(20)
<1>5. /\ Len(sent') = Len(sent) + 1
      /\ \A i \in 1 .. Len(sent) : sent'[i] = sent[i]
      /\ \A i \in 0 .. Len(sent) : End(sent', i) = End(sent, i)
      /\ End(sent', Len(sent')) = End(sent, Len(sent)) + Len(c)
      /\ \A p \in 1 .. End(sent, Len(sent)) : Stream(sent')[p] = Stream(sent)[p]
      /\ \A p \in 1 .. Len(c) : Stream(sent')[End(sent, Len(sent)) + p] = c[p]
  BY <1>1, <1>2, StreamGrows
<1> HIDE DEF c
<1>6. ReadTo' = ReadTo /\ ParsedTo' = ParsedTo
  <2>1. ReadTo' = ReadTo
    BY <1>2, <1>3, <1>4, <1>5 DEF ReadTo
  <2> QED BY <1>1, <2>1 DEF ParsedTo
<1>7. StreamInv'
  <2>1. ASSUME NEW p \in 1 .. Len(buffer) PROVE buffer[p] = Stream(sent')[ParsedTo + p]
    <3>1. ParsedTo + p \in 1 .. End(sent, Len(sent))
      BY <1>2
    <3> QED BY <1>5, <3>1 DEF StreamInv
  <2>2. ASSUME NEW p \in 1 .. Len(wire') PROVE wire'[p] = Stream(sent')[ReadTo + p]
    <3>1. CASE p <= Len(wire)
      <4>1. p \in 1 .. Len(wire) /\ ReadTo + p \in 1 .. End(sent, Len(sent))
        BY <1>2, <1>3, <1>4, <3>1
      <4> QED BY <1>4, <1>5, <4>1 DEF StreamInv
    <3>2. CASE ~(p <= Len(wire))
      <4>1. PICK q \in 1 .. Len(c) : p = Len(wire) + q
        <5>1. p - Len(wire) \in 1 .. Len(c) /\ p = Len(wire) + (p - Len(wire))
          BY <1>2, <1>3, <1>4, <3>2
        <5> QED BY <5>1
      <4>2. ReadTo + p = End(sent, Len(sent)) + q
        BY <1>2, <4>1
      <4> QED BY <1>4, <1>5, <4>1, <4>2
    <3> QED BY <3>1, <3>2
  <2> QED BY <1>1, <1>2, <1>6, <2>1, <2>2 DEF StreamInv
<1>8. CutInv'
  <2> SUFFICES ASSUME NEW i \in 1 .. Len(sent'), End(sent', i - 1) < ReadTo, ReadTo < End(sent', i)
               PROVE  i \in cut
    BY <1>1, <1>6 DEF CutInv
  <2>1. i # Len(sent) + 1
    <3> SUFFICES ASSUME i = Len(sent) + 1 PROVE FALSE
      OBVIOUS
    <3>1. i - 1 = Len(sent) /\ Len(sent) \in 0 .. Len(sent)
      BY <1>2
    <3>2. End(sent, Len(sent)) < ReadTo
      BY <1>5, <3>1
    <3> QED BY <1>2, <3>2
  <2>2. i \in 1 .. Len(sent) /\ i \in 0 .. Len(sent) /\ i - 1 \in 0 .. Len(sent)
    BY <1>2, <1>5, <2>1
  <2> QED BY <1>5, <2>2 DEF CutInv
<1>9. RestInv'
  BY <1>1 DEF RestInv, Failed, Decoded, Skipped, Crashes
<1>10. ASSUME NEW j \in 0 .. Len(sent), At(j) PROVE At(j)'
  <2>1. End(sent', j) = End(sent, j)
    BY <1>5
  <2>2. End(sent, j) <= End(sent, Len(sent)) /\ End(sent, j) \in Nat
    <3>1. Len(sent) \in 0 .. Len(sent) /\ j <= Len(sent)
      BY <1>2
    <3> QED BY <1>2, <3>1, EndsClimb, Ends
  <2>3. ASSUME NEW p \in ParsedTo + 1 .. End(sent, j) PROVE Stream(sent')[p] # Escape
    <3>1. p \in 1 .. End(sent, Len(sent))
      BY <1>2, <2>2
    <3> QED BY <1>5, <1>10, <3>1 DEF At
  <2> QED BY <1>6, <1>10, <2>1, <2>3 DEF At
<1> QED BY <1>2, <1>5, <1>6, <1>7, <1>8, <1>9, <1>10

\* What was harmless before is what is harmless now.
LEMMA SendSafe ==
    ASSUME TypeInv, TypeInv', StreamInv, CutInv, RestInv, NEW f \in Frame, Send(f),
           NEW i \in 1 .. Len(sent)
    PROVE  /\ i \in 1 .. Len(sent') /\ Carried'[i] = Carried[i]
           /\ Harmless(i)' <=> Harmless(i)
<1>1. /\ Len(sent) \in Nat /\ Len(sent') = Len(sent) + 1 /\ sent'[i] = sent[i]
      /\ UNCHANGED <<modeAC, cut>>
  BY SendStream DEF Send
<1>2. i \in 1 .. Len(sent')
  BY <1>1
<1>3. Carried[i] = IF Carries(sent[i]) THEN <<sent[i]>> ELSE <<>>
  BY CarriedListed
<1>4. i \in DOMAIN sent'
  BY <1>2, Lengths DEF TypeInv
<1> QED BY <1>1, <1>2, <1>3, <1>4 DEF Harmless, Carried, Carries

LEMMA SendKeeps ==
    ASSUME TypeInv, TypeInv', StreamInv, CutInv, RestInv, HandledInv, NEW f \in Frame, Send(f)
    PROVE  HandledInv'
<1> SUFFICES ASSUME Undamaged' PROVE \E j \in 0 .. Len(sent') : Handled(j)'
  BY DEF HandledInv
<1>1. Undamaged
  BY SendSafe DEF Undamaged
<1>2. PICK j \in 0 .. Len(sent) : Handled(j)
  BY <1>1 DEF HandledInv
<1>3. At(j)' /\ got' = got
  BY <1>2, SendStream DEF Handled, Send
<1>4. j \in 0 .. Len(sent') /\ \A k \in 1 .. j : k \in 1 .. Len(sent)
  BY SendStream
<1>5. Cat(Carried', j) = Cat(Carried, j)
  <2>1. \A k \in 1 .. j : Carried'[k] = Carried[k]
    BY <1>4, SendSafe
  <2> QED BY <2>1, CatAgree
<1> QED BY <1>2, <1>3, <1>4, <1>5 DEF Handled

-----------------------------------------------------------------------------
(***************************************************************************)
(* Nothing is lost.                                                        *)
(***************************************************************************)

\* The program goes on.
GoesOnInv == Undamaged => stage # "crashed"

BeastInv == TypeInv /\ StreamInv /\ CutInv /\ RestInv /\ HandledInv /\ GoesOnInv

\* Only a panic ends it, and what did damage still did.
LEMMA GoesOn ==
    ASSUME TypeInv, TypeInv', StreamInv, CutInv, RestInv, HandledInv, GoesOnInv, Next
    PROVE  GoesOnInv'
<1>1. ASSUME NEW f \in Frame, Send(f) PROVE GoesOnInv'
  <2>1. Undamaged' => Undamaged
    BY <1>1, SendSafe DEF Undamaged
  <2> QED BY <1>1, <2>1 DEF GoesOnInv, Send
<1>2. CASE Panic
  <2>1. ~Undamaged
    <3> SUFFICES ASSUME Undamaged PROVE FALSE
      OBVIOUS
    <3>1. PICK j \in 0 .. Len(sent) : At(j) /\ SafeAfter(j)
      BY DEF HandledInv, Handled, SafeAfter, Undamaged
    <3> QED BY <1>2, <3>1, NoPanic DEF Panic
  <2>2. Undamaged' <=> Undamaged
    BY <1>2 DEF Panic, Undamaged, Harmless
  <2> QED BY <2>1, <2>2 DEF GoesOnInv
<1>3. ASSUME stage' \in {"read", "parse"} PROVE GoesOnInv'
  BY <1>3 DEF GoesOnInv
<1> QED BY <1>1, <1>2, <1>3 DEF Next, Parse, Read, Deliver, Skip, Resync, Wait, Reconnect

LEMMA NextBeastInv == BeastInv /\ [Next]_vars => BeastInv'
<1> SUFFICES ASSUME BeastInv, [Next]_vars PROVE BeastInv'
  OBVIOUS
<1>1. /\ TypeInv /\ TypeInv' /\ StreamInv /\ CutInv /\ RestInv /\ HandledInv
      /\ Next => GoesOnInv'
  BY NextTypeInv, GoesOn DEF BeastInv
<1> USE DEF Next
<1>2. ASSUME NEW f \in Frame, Send(f) PROVE BeastInv'
  BY <1>1, <1>2, SendStream, SendKeeps DEF BeastInv
<1>3. ASSUME NEW n \in 1 .. Len(wire), Read(n) PROVE BeastInv'
  BY <1>1, <1>3, ReadKeeps DEF BeastInv
<1>4. CASE Parse
  BY <1>1, <1>4, ParseKeeps DEF BeastInv
<1>5. CASE Reconnect
  BY <1>1, <1>5, ReconnectKeeps DEF BeastInv
<1>6. CASE Panic \/ UNCHANGED vars
  <2>1. UNCHANGED <<modeAC, wire, buffer, sent, got, cut>>
        /\ stage' \in {stage, "crashed"}
    BY <1>6 DEF Panic, vars
  <2>2. ReadTo' = ReadTo /\ ParsedTo' = ParsedTo
    BY <2>1 DEF ReadTo, ParsedTo
  <2>3. StreamInv' /\ CutInv'
    BY <1>1, <2>1, <2>2 DEF StreamInv, CutInv
  <2>4. RestInv'
    BY <1>1, <2>1 DEF RestInv, Failed, Decoded, Skipped, Crashes
  <2>5. HandledInv'
    <3>1. Carried' = Carried
      BY <2>1 DEF Carried, Carries
    <3> QED BY <1>1, <2>1, <2>2, <3>1 DEF HandledInv, Undamaged, Harmless, Handled, At
  <2>6. GoesOnInv'
    <3>1. CASE Panic
      BY <1>1, <3>1
    <3>2. CASE UNCHANGED vars
      BY <3>2 DEF BeastInv, GoesOnInv, Undamaged, Harmless, vars
    <3> QED BY <1>6, <3>1, <3>2
  <2> QED BY <1>1, <2>3, <2>4, <2>5, <2>6 DEF BeastInv
<1> QED BY <1>2, <1>3, <1>4, <1>5, <1>6 DEF Next

LEMMA DamagedNone ==
    ASSUME TypeInv, Damaged = 0
    PROVE  Undamaged
<1> DEFINE T == {0} \cup {i \in DOMAIN sent :
                            /\ HasEscape(sent[i])
                            /\ i \in cut \/ sent[i].type = TypeStatus \/ ~Decodes(sent[i])}
<1>1. Len(sent) \in Nat /\ DOMAIN sent = 1 .. Len(sent)
  BY Lengths DEF TypeInv
<1>2. T \subseteq 0 .. Len(sent) /\ T # {}
  BY <1>1
<1>3. \A y \in T : y <= Max(T)
  <2> HIDE DEF T
  <2> QED BY <1>1, <1>2, MaxIsGreatest
<1>4. Max(T) = 0
  BY DEF Damaged
<1> SUFFICES ASSUME NEW i \in 1 .. Len(sent), HasEscape(sent[i]),
                    i \in cut \/ sent[i].type = TypeStatus \/ ~Decodes(sent[i])
             PROVE  FALSE
  BY DEF Undamaged, Harmless
<1>5. i \in T
  BY <1>1
<1> HIDE DEF T
<1>6. i <= 0
  BY <1>3, <1>4, <1>5
<1> QED BY <1>1, <1>6

LEMMA ExpectedAll ==
    ASSUME TypeInv
    PROVE  Expected(1) = Cat(Carried, Len(sent))
<1>1. /\ Len(sent) \in Nat /\ DOMAIN sent = 1 .. Len(sent)
      /\ \A i \in 1 .. Len(sent) : Carried[i] = IF Carries(sent[i]) THEN <<sent[i]>> ELSE <<>>
  BY CarriedListed
<1>2. From(sent, 1) = sent
  BY DEF From, TypeInv
<1>3. [i \in DOMAIN sent |-> IF Carries(sent[i]) THEN <<sent[i]>> ELSE <<>>]
        = [i \in 1 .. Len(sent) |-> Carried[i]]
  BY <1>1
<1> QED BY <1>2, <1>3 DEF Expected, MessagesIn, Cat

\* At rest all frames have been parsed, or the last one has no message.
LEMMA AllParsed ==
    ASSUME TypeInv, StreamInv, CutInv, RestInv, AtRest,
           NEW j \in 0 .. Len(sent), At(j), SafeAfter(j)
    PROVE  j = Len(sent) \/ (j + 1 = Len(sent) /\ ~Carries(sent[Len(sent)]))
<1>1. /\ ParsedTo \in Nat /\ ReadTo \in Nat /\ Len(buffer) \in Nat
      /\ ReadTo = ParsedTo + Len(buffer)
      /\ Len(sent) \in Nat /\ End(sent, Len(sent)) = ReadTo + Len(wire)
      /\ Failed /\ NextEscape(buffer) = 0 /\ Len(wire) = 0
  BY Places DEF RestInv, AtRest
<1>2. End(sent, j) \in Nat
  BY Ends DEF TypeInv
<1>3. CASE ReadTo <= End(sent, j)
  <2>1. End(sent, j) >= End(sent, Len(sent))
    BY <1>1, <1>2, <1>3
  <2> QED BY <2>1, LastEnd DEF TypeInv
<1>4. CASE End(sent, j) < ReadTo
  <2>1. PICK i \in 1 .. Len(sent) : i = j + 1
    <3>1. j # Len(sent)
      BY <1>1, <1>4
    <3> QED BY <1>1, <3>1
  <2>2. i - 1 = j /\ i \in 0 .. Len(sent)
    BY <1>1, <2>1
  <2>3. At(i - 1) /\ End(sent, i - 1) < ReadTo /\ Harmless(i)
    BY <1>4, <2>1, <2>2 DEF SafeAfter
  <2>4. ParsedTo = End(sent, i - 1)
    BY <1>1, <2>3, FailsBefore
  <2>5. ReadTo <= End(sent, i) /\ (Carries(sent[i]) => ReadTo < End(sent, i))
    BY <1>1, <2>3, <2>4, FailsAt
  <2>6. End(sent, i) \in Nat
    BY NextEnd DEF TypeInv
  <2>7. i = Len(sent)
    <3>1. End(sent, i) >= End(sent, Len(sent))
      BY <1>1, <2>5, <2>6
    <3> QED BY <2>2, <3>1, LastEnd DEF TypeInv
  <2>8. ~Carries(sent[i])
    BY <1>1, <2>5, <2>6, <2>7
  <2> QED BY <2>1, <2>7, <2>8
<1> QED BY <1>1, <1>2, <1>3, <1>4

LEMMA AllHandled ==
    ASSUME TypeInv, StreamInv, CutInv, RestInv, Undamaged, AtRest,
           NEW j \in 0 .. Len(sent), Handled(j)
    PROVE  got = Cat(Carried, Len(sent))
<1>1. j = Len(sent) \/ (j + 1 = Len(sent) /\ ~Carries(sent[Len(sent)]))
  BY AllParsed DEF Handled, Undamaged, SafeAfter
<1>2. CASE j = Len(sent)
  BY <1>2 DEF Handled
<1>3. CASE j # Len(sent)
  <2>1. PICK i \in 1 .. Len(sent) : i = Len(sent) /\ i - 1 = j
    BY <1>1, <1>3, Places
  <2>2. Cat(Carried, i) = Cat(Carried, i - 1)
    BY <1>1, <1>3, <2>1, CarriedStep
  <2> QED BY <2>1, <2>2 DEF Handled
<1> QED BY <1>2, <1>3

\* As long as no frame does damage, the messages handled are those sent, from the first on
\* and in their order, wherever reads cut the stream; at rest they are all of them, and
\* the decoder does not panic.
THEOREM NothingIsLost == Spec => []NothingLost
<1>1. BeastInv => NothingLost
  <2> SUFFICES ASSUME BeastInv, Damaged = 0
               PROVE  IsPrefix(got, Expected(1)) /\ (AtRest => got = Expected(1))
                      /\ stage # "crashed"
    BY DEF NothingLost
  <2>1. TypeInv /\ StreamInv /\ CutInv /\ RestInv /\ HandledInv
    BY DEF BeastInv
  <2>2. Undamaged /\ Expected(1) = Cat(Carried, Len(sent))
    BY <2>1, DamagedNone, ExpectedAll
  <2>3. PICK j \in 0 .. Len(sent) : Handled(j)
    BY <2>1, <2>2 DEF HandledInv
  <2>4. ASSUME AtRest PROVE got = Expected(1)
    BY <2>1, <2>2, <2>3, <2>4, AllHandled
  <2>5. IsPrefix(got, Expected(1))
    <3> DEFINE all == Cat(Carried, Len(sent))
    <3>1. /\ Len(sent) \in Nat /\ Listed(Frame, Carried, Len(sent)) /\ Len(sent) \in 0 .. Len(sent)
          /\ j <= Len(sent)
      BY <2>1, CarriedListed
    <3>2. got = Cat(Carried, j)
      BY <2>3 DEF Handled
    <3>3. got \in Seq(Frame) /\ all \in Seq(Frame)
      BY <3>1, <3>2, CatLaws
    <3>4. Len(got) \in Nat /\ Len(all) \in Nat /\ Len(got) <= Len(all)
      BY <3>1, <3>2, CatPrefix
    <3>5. \A p \in 1 .. Len(got) : all[p] = got[p]
      BY <3>1, <3>2, CatSame
    <3> HIDE DEF all
    <3>6. SubSeq(got, 1, Len(got)) = SubSeq(all, 1, Len(got))
      BY <3>3, <3>4, <3>5
    <3> QED BY <2>2, <3>4, <3>6 DEF IsPrefix, all
  <2>6. stage # "crashed"
    BY <2>2 DEF BeastInv, GoesOnInv
  <2> QED BY <2>4, <2>5, <2>6
<1>2. Init => BeastInv
  BY InitTypeInv, InitBeastInv DEF BeastInv, GoesOnInv, Init
<1> QED BY <1>1, <1>2, NextBeastInv, PTL DEF Spec

-----------------------------------------------------------------------------
(***************************************************************************)
(* Where the decoder has lost its way: what it takes there.                *)
(***************************************************************************)

LEMMA TakenStep ==
    ASSUME NEW s \in TakenType, NEW b \in Byte, NEW i \in Nat, NEW want \in Nat,
           s.pos <= i, Len(s.raw) <= want
    PROVE  LET t == TakenByte(s, b, i + 1, want)
           IN  /\ t \in TakenType /\ t.pos <= i + 1 /\ Len(t.raw) <= want
               /\ ~(s.pair /\ b = Escape) => /\ t.pair => b = Escape
                                             /\ Len(t.raw) = want \/ Len(t.raw) = Len(s.raw) + 1
               /\ ~s.pair /\ Len(s.raw) = want => t.pos = s.pos /\ ~t.pair /\ Len(t.raw) = want
<1> DEFINE t == TakenByte(s, b, i + 1, want)
<1>1. /\ s.raw \in Seq(Byte) /\ s.pos \in Nat /\ s.pair \in BOOLEAN
      /\ Len(s.raw) \in Nat
  BY Lengths DEF TakenType
<1>2. t \in TakenType
  BY TakenByteType
<1>3. CASE s.pair /\ b = Escape
  <2>1. t.pos = i + 1 /\ t.raw = s.raw
    BY <1>3 DEF TakenByte, TakenType
  <2> QED BY <1>1, <1>2, <1>3, <2>1
<1>4. CASE ~(s.pair /\ b = Escape) /\ Len(s.raw) = want
  <2>1. t.pos = s.pos /\ t.raw = s.raw /\ ~t.pair
    BY <1>4 DEF TakenByte, TakenType
  <2> QED BY <1>1, <1>2, <1>4, <2>1
<1>5. CASE ~(s.pair /\ b = Escape) /\ Len(s.raw) # want
  <2>1. t.pos = i + 1 /\ t.raw = Append(s.raw, b) /\ (t.pair => b = Escape)
    BY <1>5 DEF TakenByte
  <2>2. Len(Append(s.raw, b)) = Len(s.raw) + 1
    BY <1>1
  <2>3. Len(t.raw) = Len(s.raw) + 1 /\ t.pos <= i + 1 /\ Len(t.raw) <= want
    <3>1. ASSUME NEW x \in Nat, x <= want, x # want PROVE x + 1 <= want
      BY ONLY <3>1, want \in Nat
    <3>2. i + 1 <= i + 1
      BY ONLY i \in Nat
    <3> QED BY <1>1, <1>5, <2>1, <2>2, <3>1, <3>2
  <2>4. ~(~s.pair /\ Len(s.raw) = want)
    BY <1>5
  <2>5. /\ t \in TakenType /\ t.pos <= i + 1 /\ Len(t.raw) <= want
        /\ ~(s.pair /\ b = Escape) => /\ t.pair => b = Escape
                                      /\ Len(t.raw) = want \/ Len(t.raw) = Len(s.raw) + 1
        /\ ~s.pair /\ Len(s.raw) = want => t.pos = s.pos /\ ~t.pair /\ Len(t.raw) = want
    <3> HIDE DEF t
    <3> QED BY ONLY <1>2, <2>1, <2>3, <2>4
  <2> QED BY <2>5
<1> QED BY <1>3, <1>4, <1>5

\* As many bytes in a row as are wanted are enough, if no escape byte of them follows on
\* another, and the first and the last are none.
LEMMA UnescapeOver ==
    ASSUME NEW data \in Seq(Byte), NEW want \in Nat, NEW a \in Nat, NEW m \in Nat \ {0},
           want <= m, a + m <= Len(data),
           data[a + 1] # Escape, data[a + m] # Escape,
           \A k \in 1 .. m - 1 : data[a + k] = Escape => data[(a + k) + 1] # Escape
    PROVE  unescapeBeastPayload(data, want).pos <= a + m
<1>1. PICK f : /\ f[0] = TakenNone
               /\ \A i \in 1 .. Len(data) : f[i] = TakenByte(f[i - 1], data[i], i, want)
               /\ unescapeBeastPayload(data, want) = f[Len(data)]
  BY UnescapeUnfold
<1>2. Len(data) \in Nat /\ \A i \in 1 .. Len(data) : data[i] \in Byte
  BY Lengths
<1> DEFINE Good(i) == f[i] \in TakenType /\ f[i].pos <= i /\ Len(f[i].raw) <= want
           T == {i \in Nat : i <= Len(data) => Good(i)}
<1>3. ASSUME NEW i \in Nat, i < Len(data), Good(i)
      PROVE  /\ Good(i + 1)
             /\ ~(f[i].pair /\ data[i + 1] = Escape) =>
                    /\ f[i + 1].pair => data[i + 1] = Escape
                    /\ Len(f[i + 1].raw) = want \/ Len(f[i + 1].raw) = Len(f[i].raw) + 1
             /\ ~f[i].pair /\ Len(f[i].raw) = want =>
                    f[i + 1].pos = f[i].pos /\ ~f[i + 1].pair /\ Len(f[i + 1].raw) = want
  <2>1. i + 1 \in 1 .. Len(data) /\ (i + 1) - 1 = i
    BY <1>2, <1>3
  <2>2. f[i + 1] = TakenByte(f[i], data[i + 1], i + 1, want) /\ data[i + 1] \in Byte
    BY <1>1, <1>2, <2>1
  <2>3. f[i] \in TakenType /\ f[i].pos <= i /\ Len(f[i].raw) <= want
    BY <1>3
  <2>4. PICK s : s = f[i]
    OBVIOUS
  <2>5. PICK t : t = TakenByte(s, data[i + 1], i + 1, want)
    OBVIOUS
  <2>6. /\ t \in TakenType /\ t.pos <= i + 1 /\ Len(t.raw) <= want
        /\ ~(s.pair /\ data[i + 1] = Escape) =>
               /\ t.pair => data[i + 1] = Escape
               /\ Len(t.raw) = want \/ Len(t.raw) = Len(s.raw) + 1
        /\ ~s.pair /\ Len(s.raw) = want => t.pos = s.pos /\ ~t.pair /\ Len(t.raw) = want
    <3>1. data[i + 1] \in Byte /\ s \in TakenType /\ s.pos <= i /\ Len(s.raw) <= want
      BY ONLY <2>2, <2>3, <2>4
    <3>2. PICK c \in Byte : c = data[i + 1]
      BY ONLY <3>1
    <3>3. t = TakenByte(s, c, i + 1, want)
      BY ONLY <2>5, <3>2
    <3>4. /\ t \in TakenType /\ t.pos <= i + 1 /\ Len(t.raw) <= want
          /\ ~(s.pair /\ c = Escape) => /\ t.pair => c = Escape
                                        /\ Len(t.raw) = want \/ Len(t.raw) = Len(s.raw) + 1
          /\ ~s.pair /\ Len(s.raw) = want => t.pos = s.pos /\ ~t.pair /\ Len(t.raw) = want
      BY ONLY <3>1, <3>3, TakenStep, c \in Byte, i \in Nat, want \in Nat
    <3> QED BY ONLY <3>2, <3>4
  <2>7. t = f[i + 1]
    BY <2>2, <2>4, <2>5
  <2> QED BY ONLY <2>4, <2>6, <2>7
<1>4. 0 \in T
  <2>1. TakenNone \in TakenType /\ TakenNone.pos = 0 /\ Len(TakenNone.raw) = 0
    BY EmptyJoined DEF TakenNone, TakenType
  <2> QED BY <1>1, <2>1
<1>5. ASSUME NEW i \in Nat, i \in T PROVE i + 1 \in T
  BY <1>2, <1>3, <1>5
<1>6. \A i \in Nat : i \in T
  <2> HIDE DEF T
  <2> QED BY <1>4, <1>5, Climbs
<1>7. \A i \in 0 .. Len(data) : Good(i)
  BY <1>6
<1> HIDE DEF T
<1> DEFINE Far(k) == /\ Len(f[a + k].raw) = want \/ Len(f[a + k].raw) >= k
                     /\ k >= 1 /\ f[a + k].pair => data[a + k] = Escape
           U == {k \in Nat : k <= m => Far(k)}
<1>8. 0 \in U
  <2>1. Good(a)
    BY <1>2, <1>7
  <2>2. Len(f[a].raw) \in Nat
    BY <2>1 DEF TakenType
  <2> QED BY <2>2
<1>9. ASSUME NEW k \in Nat, k \in U PROVE k + 1 \in U
  <2> SUFFICES ASSUME k + 1 <= m PROVE Far(k + 1)
    OBVIOUS
  <2>1. /\ a + k \in Nat /\ a + k < Len(data) /\ a + k \in 0 .. Len(data)
        /\ a + (k + 1) = (a + k) + 1 /\ (k >= 1 => k \in 1 .. m - 1)
    BY <1>2
  <2>2. Good(a + k) /\ Far(k)
    <3>1. Good(a + k)
      BY <1>7, <2>1
    <3>2. k <= m => Far(k)
      BY <1>9
    <3>3. k <= m
      OBVIOUS
    <3> HIDE DEF Far
    <3> QED BY <3>1, <3>2, <3>3
  <2>3. Len(f[a + k].raw) \in Nat
    BY <2>2 DEF TakenType
  <2>8. ~(f[a + k].pair /\ data[(a + k) + 1] = Escape)
    <3>1. CASE k = 0
      BY <3>1
    <3>2. CASE k >= 1
      BY <2>1, <2>2, <3>2
    <3> QED BY <3>1, <3>2
  <2>4. /\ f[(a + k) + 1].pair => data[(a + k) + 1] = Escape
        /\ Len(f[(a + k) + 1].raw) = want \/ Len(f[(a + k) + 1].raw) = Len(f[a + k].raw) + 1
    BY <1>3, <2>1, <2>2, <2>8
  <2>5. Good((a + k) + 1)
    BY <1>3, <2>1, <2>2
  <2>6. Len(f[(a + k) + 1].raw) \in Nat
    BY <2>5 DEF TakenType
  <2>7. Len(f[(a + k) + 1].raw) = want \/ Len(f[(a + k) + 1].raw) >= k + 1
    <3>1. ASSUME NEW x \in Nat, NEW y \in Nat, x = want \/ x >= k, y <= want,
                 y = want \/ y = x + 1
          PROVE  y = want \/ y >= k + 1
      BY <3>1
    <3>2. Len(f[(a + k) + 1].raw) <= want
      BY <2>5
    <3>3. Len(f[a + k].raw) = want \/ Len(f[a + k].raw) >= k
      BY <2>2
    <3> HIDE DEF Far, Good
    <3> QED BY <2>3, <2>4, <2>6, <3>1, <3>2, <3>3
  <2> QED BY <2>1, <2>4, <2>7
<1>10. Far(m)
  <2>1. m \in U
    <3> HIDE DEF U
    <3> QED BY <1>8, <1>9, Climbs
  <2> QED BY <2>1
<1> DEFINE Full(i) == ~f[i].pair /\ Len(f[i].raw) = want /\ f[i].pos <= a + m
           V == {k \in Nat : (a + m) + k <= Len(data) => Full((a + m) + k)}
<1>11. 0 \in V
  <2>1. a + m \in 0 .. Len(data) /\ (a + m) + 0 = a + m
    BY <1>2
  <2>2. Good(a + m)
    BY <1>7, <2>1
  <2>3. Len(f[a + m].raw) \in Nat
    BY <2>2 DEF TakenType
  <2>4. Full(a + m)
    BY <1>10, <2>2, <2>3
  <2> QED BY <2>1, <2>4
<1>12. ASSUME NEW k \in Nat, k \in V PROVE k + 1 \in V
  <2> SUFFICES ASSUME (a + m) + (k + 1) <= Len(data) PROVE Full((a + m) + (k + 1))
    OBVIOUS
  <2>1. /\ (a + m) + k \in Nat /\ (a + m) + k < Len(data) /\ (a + m) + k \in 0 .. Len(data)
        /\ (a + m) + (k + 1) = ((a + m) + k) + 1
    BY <1>2
  <2>2. Full((a + m) + k) /\ Good((a + m) + k)
    BY <1>7, <1>12, <2>1
  <2> HIDE DEF V
  <2>3. Full(((a + m) + k) + 1)
    BY <1>3, <2>1, <2>2
  <2> QED BY <2>1, <2>3
<1>13. Len(data) - (a + m) \in Nat /\ (a + m) + (Len(data) - (a + m)) = Len(data)
  BY <1>2
<1>14. Len(data) - (a + m) \in V
  <2> HIDE DEF V
  <2> QED BY <1>11, <1>12, <1>13, Climbs
<1>15. Full(Len(data))
  <2>1. Full((a + m) + (Len(data) - (a + m)))
    BY <1>13, <1>14
  <2> HIDE DEF Full
  <2> QED BY <1>13, <2>1
<1> QED BY <1>1, <1>15

\* The data the decoder reads are the stream from an escape byte on, the first that is not
\* parsed.
LEMMA AlignedStream ==
    ASSUME TypeInv, StreamInv, Readable(Aligned(buffer))
    PROVE  LET d == Aligned(buffer)
           IN  \E q \in Nat :
                   /\ ParsedTo <= q /\ q < ReadTo /\ Len(d) = ReadTo - q
                   /\ \A x \in 1 .. Len(d) : d[x] = Stream(sent)[q + x]
                   /\ \A p \in ParsedTo + 1 .. q : Stream(sent)[p] # Escape
<1> DEFINE d == Aligned(buffer)
<1>1. /\ ParsedTo \in Nat /\ ReadTo \in Nat /\ Len(buffer) \in Nat /\ Len(wire) \in Nat
      /\ ReadTo = ParsedTo + Len(buffer) /\ buffer \in Seq(Byte)
      /\ End(sent, Len(sent)) = ReadTo + Len(wire)
  BY Places DEF TypeInv
<1>2. Stream(sent) \in Seq(Byte) /\ Len(Stream(sent)) = ReadTo + Len(wire)
  BY <1>1, Ends DEF TypeInv
<1>3. d # <<>>
  <2>1. MinLen \in Nat /\ MinLen >= 3 /\ Len(<<>>) = 0
    BY BeastAssumption
  <2> QED BY <2>1 DEF Readable
<1>4. PICK n \in 1 .. Len(buffer) :
          /\ d = From(buffer, n) /\ buffer[n] = Escape
          /\ \A p \in 1 .. Len(buffer) : buffer[p] = Escape => n <= p
  BY <1>1, <1>3, AlignedIs
<1>5. PICK q \in Nat : q = ParsedTo + (n - 1)
  BY <1>1
<1> HIDE DEF d
<1>6. ParsedTo <= q /\ q < ReadTo /\ ReadTo \in 0 .. Len(Stream(sent)) /\ q + 1 \in Nat \ {0}
  BY <1>1, <1>2, <1>5
<1>7. /\ d \in Seq(Byte) /\ Len(d) = (Len(buffer) - n) + 1
      /\ \A x \in 1 .. Len(d) : d[x] = buffer[(n - 1) + x]
  <2>1. n \in Nat \ {0} /\ n <= Len(buffer)
    BY <1>1
  <2> QED BY <1>1, <1>4, <2>1, FromLaws
<1>8. Len(d) = ReadTo - q
  BY <1>1, <1>5, <1>7
<1>9. ASSUME NEW x \in 1 .. Len(d) PROVE d[x] = Stream(sent)[q + x]
  <2>1. (n - 1) + x \in 1 .. Len(buffer) /\ ParsedTo + ((n - 1) + x) = q + x
    <3>1. ASSUME NEW l \in Nat, NEW m \in 1 .. l, NEW o \in Nat, NEW y \in 1 .. (l - m) + 1
          PROVE  (m - 1) + y \in 1 .. l /\ o + ((m - 1) + y) = (o + (m - 1)) + y
      BY ONLY <3>1
    <3>2. x \in 1 .. (Len(buffer) - n) + 1
      BY <1>7
    <3> QED BY ONLY <1>1, <1>5, <3>1, <3>2, n \in 1 .. Len(buffer)
  <2> QED BY <1>7, <2>1 DEF StreamInv
<1>12. ASSUME NEW p \in ParsedTo + 1 .. q PROVE Stream(sent)[p] # Escape
  <2>1. PICK x \in 1 .. Len(buffer) : p = ParsedTo + x /\ x < n
    <3>1. p - ParsedTo \in 1 .. Len(buffer) /\ p = ParsedTo + (p - ParsedTo) /\ p - ParsedTo < n
      BY <1>1, <1>5
    <3> QED BY <3>1
  <2>2. ~(n <= x)
    BY <1>1, <2>1
  <2> QED BY <1>4, <2>1, <2>2 DEF StreamInv
<1> QED BY <1>6, <1>8, <1>9, <1>12 DEF d

LEMMA FrameBegins ==
    ASSUME TypeInv, NEW i \in 1 .. Len(sent)
    PROVE  /\ Stream(sent)[End(sent, i - 1) + 1] = Escape
           /\ End(sent, i) = End(sent, i - 1) + Len(EncodeBeast(sent[i]))
           /\ End(sent, i) \in Nat /\ End(sent, i - 1) \in Nat
           /\ Len(EncodeBeast(sent[i])) \in Nat /\ Len(EncodeBeast(sent[i])) >= 2
           /\ sent[i] \in Frame
<1>1. /\ End(sent, i) = End(sent, i - 1) + Len(EncodeBeast(sent[i]))
      /\ End(sent, i) \in Nat /\ End(sent, i - 1) \in Nat
      /\ Len(EncodeBeast(sent[i])) \in Nat /\ Len(EncodeBeast(sent[i])) >= 2
      /\ sent[i] \in Frame
  BY NextEnd DEF TypeInv
<1>2. 1 \in 1 .. Len(EncodeBeast(sent[i]))
  BY <1>1
<1>3. Stream(sent)[End(sent, i - 1) + 1] = EncodeBeast(sent[i])[1]
  BY <1>2, StreamPlace DEF TypeInv
<1> QED BY <1>1, <1>3, EncodeIs

\* Frames i to k have no escape bytes and are longer together than any body.
PlainRun(i, k) ==
    /\ i <= k /\ \A j \in i .. k : ~HasEscape(sent[j])
    /\ \A t \in DOMAIN BodyLen : End(sent, k) - End(sent, i - 1) > BodyLen[t]

LEMMA RunEnds ==
    ASSUME TypeInv, NEW i \in 1 .. Len(sent), NEW k \in 1 .. Len(sent), PlainRun(i, k)
    PROVE  /\ ~HasEscape(sent[i]) /\ ~HasEscape(sent[k]) /\ i <= k
           /\ End(sent, i) <= End(sent, k) /\ End(sent, k) \in Nat
<1>1. i \in i .. k /\ k \in i .. k /\ i \in 0 .. Len(sent) /\ k \in 0 .. Len(sent) /\ i <= k
  BY DEF PlainRun
<1>2. End(sent, i) <= End(sent, k)
  BY <1>1, EndsClimb DEF TypeInv
<1> QED BY <1>1, <1>2, FrameBegins DEF PlainRun

\* Where in frames without escape bytes a place of the stream is.
LEMMA PlaceWithin ==
    ASSUME TypeInv, NEW i \in 1 .. Len(sent), NEW k \in 1 .. Len(sent), i <= k,
           NEW p \in Nat, End(sent, i - 1) < p, p <= End(sent, k)
    PROVE  \E j \in i .. k : End(sent, j - 1) < p /\ p <= End(sent, j)
<1> DEFINE T == {j \in i .. k : p <= End(sent, j)}
<1>1. T \subseteq Nat /\ T # {}
  <2>1. k \in i .. k
    OBVIOUS
  <2>2. k \in T
    BY <2>1
  <2> QED BY <2>2
<1>2. PICK j \in T : \A y \in T : j <= y
  <2> HIDE DEF T
  <2> QED BY <1>1, Least
<1>3. j \in i .. k /\ p <= End(sent, j)
  BY <1>2
<1>4. End(sent, j - 1) < p
  <2>1. CASE j = i
    BY <2>1
  <2>2. CASE j # i
    <3>1. j - 1 \in i .. k /\ ~(j <= j - 1) /\ j \in 1 .. Len(sent)
      BY <1>3, <2>2
    <3>2. ~(p <= End(sent, j - 1))
      BY <1>2, <3>1
    <3>3. End(sent, j - 1) \in Nat
      BY <3>1, FrameBegins
    <3> QED BY <3>2, <3>3
  <2> QED BY <2>1, <2>2
<1> QED BY <1>3, <1>4

\* In such frames no escape byte follows on another.
LEMMA NoTwoEscapes ==
    ASSUME TypeInv, NEW i \in 1 .. Len(sent), NEW k \in 1 .. Len(sent), PlainRun(i, k),
           NEW p \in Nat, End(sent, i - 1) < p, p < End(sent, k), Stream(sent)[p] = Escape
    PROVE  Stream(sent)[p + 1] # Escape
<1>1. i <= k /\ End(sent, k) \in Nat
  BY RunEnds
<1>2. PICK j \in i .. k : End(sent, j - 1) < p /\ p <= End(sent, j)
  <2>1. p <= End(sent, k)
    BY <1>1
  <2> QED BY <1>1, <2>1, PlaceWithin
<1>3. j \in 1 .. Len(sent) /\ ~HasEscape(sent[j])
  BY <1>1, <1>2 DEF PlainRun
<1>4. /\ End(sent, j) = End(sent, j - 1) + Len(EncodeBeast(sent[j]))
      /\ End(sent, j - 1) \in Nat /\ Len(EncodeBeast(sent[j])) \in Nat
      /\ Len(EncodeBeast(sent[j])) >= 2
  BY <1>3, FrameBegins
<1>5. End(sent, j - 1) + 1 \in Nat /\ End(sent, j - 1) < End(sent, j - 1) + 1
  BY <1>4
<1>6. \A x \in (End(sent, j - 1) + 1) + 1 .. End(sent, j) : Stream(sent)[x] # Escape
  BY <1>3, <1>5, PlainPlace
<1>7. p = End(sent, j - 1) + 1
  <2> SUFFICES ASSUME p # End(sent, j - 1) + 1 PROVE FALSE
    OBVIOUS
  <2>1. p \in (End(sent, j - 1) + 1) + 1 .. End(sent, j)
    BY <1>2, <1>4
  <2> QED BY <1>6, <2>1
<1>8. p + 1 \in (End(sent, j - 1) + 1) + 1 .. End(sent, j)
  BY <1>4, <1>7
<1> QED BY <1>6, <1>8

\* What is read from before such frames ends before they do.
LEMMA AstrayNotOver ==
    ASSUME TypeInv, StreamInv,
           NEW i \in 1 .. Len(sent), NEW k \in 1 .. Len(sent), PlainRun(i, k), End(sent, k) < ReadTo,
           NEW d \in Seq(Byte), NEW q \in Nat, q < End(sent, i - 1), Len(d) = ReadTo - q,
           \A x \in 1 .. Len(d) : d[x] = Stream(sent)[q + x],
           Readable(d)
    PROVE  ReadTo - Len(Remaining(d)) <= End(sent, k)
<1>1. /\ End(sent, i - 1) \in Nat /\ End(sent, i) \in Nat /\ End(sent, k) \in Nat
      /\ Stream(sent)[End(sent, i - 1) + 1] = Escape
      /\ End(sent, i) = End(sent, i - 1) + Len(EncodeBeast(sent[i]))
      /\ Len(EncodeBeast(sent[i])) \in Nat /\ Len(EncodeBeast(sent[i])) >= 2
      /\ End(sent, i) <= End(sent, k) /\ ~HasEscape(sent[i]) /\ ~HasEscape(sent[k])
  BY FrameBegins, RunEnds
<1>2. PICK o \in Nat, y \in Nat, r \in Nat, l \in Nat :
          o = End(sent, i - 1) /\ y = End(sent, k) /\ r = ReadTo /\ l = Len(d)
  <2>1. ReadTo \in Nat /\ Len(d) \in Nat
    BY Places, Lengths
  <2> QED BY <1>1, <2>1
<1>3. PICK want : want = BodyLen[d[2]]
  OBVIOUS
<1>4. /\ want \in Nat /\ want > 0 /\ MinLen \in Nat /\ MinLen >= 3 /\ MinLen <= l
      /\ d[2] \in {TypeModeAC, TypeShort, TypeLong}
  <2>1. d[2] \in DOMAIN BodyLen /\ MinLen <= l
    BY <1>2 DEF Readable
  <2>2. BodyLen \in [{TypeModeAC, TypeShort, TypeLong} -> Nat \ {0}]
    BY BeastAssumption
  <2>3. BodyLen[TypeModeAC] \in Nat \ {0} /\ MinLen = 2 + BodyLen[TypeModeAC]
    BY <2>2, BeastAssumption
  <2> QED BY <1>3, <2>1, <2>2, <2>3
<1>5. q < o /\ o + 2 <= y /\ y < r /\ l = r - q /\ y - o > want
  <2>1. PICK n \in Nat, z \in Nat : /\ n = Len(EncodeBeast(sent[i])) /\ z = End(sent, i)
                                   /\ z = o + n /\ n >= 2 /\ z <= y
    BY ONLY <1>1, <1>2
  <2>2. y - o > want
    BY <1>2, <1>3, <1>4, BeastAssumption DEF PlainRun
  <2>3. o + 2 <= y
    BY ONLY <2>1, o \in Nat, y \in Nat
  <2> QED BY <1>2, <2>2, <2>3
<1>6. ASSUME NEW x \in Nat, 1 <= x, x <= y - o PROVE d[(o - q) + x] = Stream(sent)[o + x]
  <2>1. (o - q) + x \in 1 .. l /\ q + ((o - q) + x) = o + x
    BY ONLY <1>5, <1>6, o \in Nat, q \in Nat, r \in Nat, y \in Nat, x \in Nat
  <2> QED BY <1>2, <2>1
<1>7. d[(o - q) + 1] = Escape
  <2>1. 1 <= y - o /\ 1 \in Nat
    BY ONLY <1>5, o \in Nat, y \in Nat
  <2>2. d[(o - q) + 1] = Stream(sent)[o + 1]
    BY ONLY <1>6, <2>1
  <2>3. Stream(sent)[o + 1] = Escape
    BY ONLY <1>1, <1>2
  <2> QED BY ONLY <2>2, <2>3
<1>8. (o - q) + 1 \in Nat /\ (o - q) + 1 >= 3
  <2>1. d[2] # Escape
    BY <1>4 DEF Escape, TypeModeAC, TypeShort, TypeLong
  <2>2. (o - q) + 1 # 2
    BY ONLY <1>7, <2>1
  <2> QED BY ONLY <1>5, <2>2, o \in Nat, q \in Nat
<1>9. Len(Remaining(d)) \in Nat /\ Len(Remaining(d)) >= r - y
  <2>1. CASE Heartbeat(d)
    <3>1. MinLen < (o - q) + 1
      <4> SUFFICES ASSUME (o - q) + 1 <= MinLen PROVE FALSE
        BY <1>4, <1>8
      <4>1. (o - q) + 1 \in 3 .. MinLen
        BY <1>4, <1>8
      <4>2. d[(o - q) + 1] = 0
        BY <2>1, <4>1 DEF Heartbeat
      <4> QED BY <1>7, <4>2 DEF Escape
    <3>2. Remaining(d) = From(d, MinLen + 1) /\ MinLen + 1 \in Nat \ {0}
      <4>1. Remaining(d) = From(d, 3 + (MinLen - 2))
        BY <2>1 DEF Remaining
      <4>2. 3 + (MinLen - 2) = MinLen + 1 /\ MinLen + 1 \in Nat \ {0}
        BY ONLY <1>4
      <4> QED BY ONLY <4>1, <4>2
    <3>3. Len(Remaining(d)) = IF MinLen + 1 <= l THEN (l - (MinLen + 1)) + 1 ELSE 0
      <4>1. Len(From(d, MinLen + 1)) = IF MinLen + 1 <= Len(d) THEN (Len(d) - (MinLen + 1)) + 1 ELSE 0
        BY ONLY <3>2, FromLaws, d \in Seq(Byte)
      <4> QED BY ONLY <1>2, <3>2, <4>1
    <3> QED BY ONLY <1>4, <1>5, <3>1, <3>3, o \in Nat, q \in Nat, r \in Nat, y \in Nat, l \in Nat
  <2>2. CASE ~Heartbeat(d)
    <3>1. PICK b : b = From(d, 3)
      OBVIOUS
    <3>2. Remaining(d) = From(d, 3 + Payload(d).pos) /\ Payload(d) = unescapeBeastPayload(b, want)
      BY <1>3, <2>2, <3>1 DEF Remaining, Payload
    <3>3. /\ b \in Seq(Byte)
          /\ Len(b) = IF 3 <= l THEN (l - 3) + 1 ELSE 0
          /\ \A x \in 1 .. Len(b) : b[x] = d[(3 - 1) + x]
      <4>1. d \in Seq(Byte) /\ 3 \in Nat \ {0}
        OBVIOUS
      <4> QED BY ONLY <1>2, <3>1, <4>1, FromLaws
    <3>4. Len(b) = l - 2
      BY ONLY <1>4, <3>3, l \in Nat
    <3>5. PICK a \in Nat, m \in Nat \ {0} : a = (o - q) - 1 /\ m = (y - o) - 1
      BY ONLY <1>5, o \in Nat, q \in Nat, y \in Nat
    <3>6. want <= m /\ a + m <= Len(b) /\ (a + m) + 2 = y - q
      BY ONLY <1>4, <1>5, <3>4, <3>5, o \in Nat, q \in Nat, y \in Nat, r \in Nat, l \in Nat
    <3>7. ASSUME NEW x \in Nat, 1 <= x, x <= m PROVE b[a + x] = Stream(sent)[(o + 1) + x]
      <4>1. a + x \in 1 .. Len(b)
        BY ONLY <3>4, <3>6, <3>7, a \in Nat, m \in Nat, x \in Nat, l \in Nat
      <4>2. /\ (3 - 1) + (a + x) = (o - q) + (1 + x) /\ 1 + x \in Nat /\ 1 <= 1 + x
            /\ 1 + x <= y - o /\ o + (1 + x) = (o + 1) + x
        BY ONLY <1>5, <3>5, <3>7, o \in Nat, q \in Nat, y \in Nat, x \in Nat
      <4>3. d[(o - q) + (1 + x)] = Stream(sent)[o + (1 + x)]
        BY <1>6, <4>2
      <4> QED BY <3>3, <4>1, <4>2, <4>3
    <3>8. b[a + 1] # Escape
      <4>1. o + 1 \in Nat /\ End(sent, i - 1) < o + 1 /\ (o + 1) + 1 \in (o + 1) + 1 .. End(sent, i)
        <5>1. PICK n \in Nat, z \in Nat : z = End(sent, i) /\ z = o + n /\ n >= 2
          BY ONLY <1>1, <1>2
        <5>2. o < o + 1 /\ (o + 1) + 1 \in (o + 1) + 1 .. z
          BY ONLY <5>1, o \in Nat
        <5> QED BY ONLY <1>2, <5>1, <5>2
      <4>2. Stream(sent)[(o + 1) + 1] # Escape
        BY <1>1, <4>1, PlainPlace
      <4>3. 1 \in Nat /\ 1 <= 1 /\ 1 <= m
        OBVIOUS
      <4> QED BY ONLY <3>7, <4>2, <4>3
    <3>9. b[a + m] # Escape
      <4>1. PICK z \in Nat, n \in Nat :
                z = End(sent, k - 1) /\ n = Len(EncodeBeast(sent[k])) /\ y = z + n /\ n >= 2
        BY <1>2, FrameBegins
      <4>2. z + 1 \in Nat /\ z < z + 1 /\ y \in (z + 1) + 1 .. y
        BY ONLY <4>1
      <4>3. Stream(sent)[y] # Escape
        BY <1>1, <1>2, <4>1, <4>2, PlainPlace
      <4>4. (o + 1) + m = y /\ m \in Nat /\ 1 <= m /\ m <= m
        BY ONLY <3>5, o \in Nat, y \in Nat
      <4> QED BY ONLY <3>7, <4>3, <4>4
    <3>10. ASSUME NEW x \in 1 .. m - 1, b[a + x] = Escape PROVE b[(a + x) + 1] # Escape
      <4>1. /\ x \in Nat /\ 1 <= x /\ x <= m /\ x + 1 \in Nat /\ 1 <= x + 1 /\ x + 1 <= m
            /\ (a + x) + 1 = a + (x + 1)
        BY ONLY <3>10, a \in Nat, m \in Nat
      <4>2. PICK p \in Nat : p = (o + 1) + x
        BY <4>1
      <4>3. o < p /\ p < y /\ p + 1 = (o + 1) + (x + 1)
        BY ONLY <3>5, <4>1, <4>2, o \in Nat, y \in Nat
      <4>4. Stream(sent)[p] = Escape
        BY ONLY <3>7, <3>10, <4>1, <4>2
      <4>5. Stream(sent)[p + 1] # Escape
        BY <1>2, <4>3, <4>4, NoTwoEscapes
      <4> QED BY ONLY <3>7, <4>1, <4>3, <4>5
    <3>11. PICK z \in Nat : z = Payload(d).pos /\ z <= a + m
      <4>1. unescapeBeastPayload(b, want).pos <= a + m
        BY <1>4, <3>3, <3>5, <3>6, <3>8, <3>9, <3>10, UnescapeOver
      <4>2. unescapeBeastPayload(b, want) \in TakenType
        BY <1>4, <3>3, UnescapeType
      <4> QED BY <3>2, <4>1, <4>2 DEF TakenType
    <3>12. Len(Remaining(d)) = IF 3 + z <= l THEN (l - (3 + z)) + 1 ELSE 0
      <4>1. 3 + z \in Nat \ {0} /\ Remaining(d) = From(d, 3 + z)
        BY <3>2, <3>11
      <4> QED BY <1>2, <4>1, FromLaws
    <3>13. z + 2 <= y - q
      BY ONLY <3>6, <3>11, a \in Nat, m \in Nat, q \in Nat, y \in Nat
    <3>14. 3 + z <= l /\ (l - (3 + z)) + 1 \in Nat /\ (l - (3 + z)) + 1 >= r - y
      BY ONLY <1>5, <3>13, q \in Nat, r \in Nat, y \in Nat, l \in Nat, z \in Nat
    <3> QED BY ONLY <3>12, <3>14
  <2> QED BY <2>1, <2>2
<1> QED BY ONLY <1>2, <1>9, r \in Nat, y \in Nat

LEMMA TakenNotOver ==
    ASSUME TypeInv, StreamInv,
           NEW i \in 1 .. Len(sent), NEW k \in 1 .. Len(sent), PlainRun(i, k),
           ParsedTo <= End(sent, i - 1), End(sent, k) < ReadTo,
           Decoded(Aligned(buffer)) \/ Skipped(Aligned(buffer))
    PROVE  ReadTo - Len(Remaining(Aligned(buffer))) <= End(sent, k)
<1> DEFINE d == Aligned(buffer)
<1>1. /\ ParsedTo \in Nat /\ ReadTo \in Nat /\ d \in Seq(Byte)
  BY Places, AlignedType DEF TypeInv
<1>2. /\ Stream(sent)[End(sent, i - 1) + 1] = Escape
      /\ End(sent, i) = End(sent, i - 1) + Len(EncodeBeast(sent[i]))
      /\ End(sent, i) \in Nat /\ End(sent, i - 1) \in Nat /\ End(sent, k) \in Nat
      /\ Len(EncodeBeast(sent[i])) \in Nat /\ Len(EncodeBeast(sent[i])) >= 2
      /\ End(sent, i) <= End(sent, k)
  BY FrameBegins, RunEnds
<1>3. Readable(d)
  BY DEF Decoded, Skipped
<1>4. PICK q \in Nat :
          /\ ParsedTo <= q /\ q < ReadTo /\ Len(d) = ReadTo - q
          /\ \A x \in 1 .. Len(d) : d[x] = Stream(sent)[q + x]
          /\ \A p \in ParsedTo + 1 .. q : Stream(sent)[p] # Escape
  BY <1>3, AlignedStream
<1>5. q <= End(sent, i - 1)
  <2> SUFFICES ASSUME End(sent, i - 1) < q PROVE FALSE
    BY <1>2
  <2>1. End(sent, i - 1) + 1 \in ParsedTo + 1 .. q
    <3>1. ASSUME NEW o \in Nat, NEW x \in Nat, o <= x, x < q PROVE x + 1 \in o + 1 .. q
      BY ONLY <3>1, q \in Nat
    <3> QED BY ONLY <1>1, <1>2, <3>1, ParsedTo <= End(sent, i - 1), End(sent, i - 1) < q
  <2> QED BY <1>2, <1>4, <2>1
<1> HIDE DEF d
<1>6. CASE q = End(sent, i - 1)
  <2>1. At(i - 1)
    BY <1>4, <1>6 DEF At
  <2>2. End(sent, i - 1) < ReadTo /\ End(sent, i) <= ReadTo
    BY ONLY <1>1, <1>2, End(sent, k) < ReadTo
  <2>3. Len(Remaining(d)) = ReadTo - End(sent, i)
    BY <2>1, <2>2, FrameWhole DEF d
  <2>4. ASSUME NEW r \in Nat, NEW o \in Nat, NEW y \in Nat, o <= y PROVE r - (r - o) <= y
    BY ONLY <2>4
  <2>5. ReadTo - Len(Remaining(d)) <= End(sent, k)
    BY ONLY <1>1, <1>2, <2>3, <2>4
  <2> QED BY ONLY <2>5 DEF d
<1>7. CASE q # End(sent, i - 1)
  <2>1. q < End(sent, i - 1)
    BY ONLY <1>2, <1>5, <1>7, q \in Nat
  <2>2. d \in Seq(Byte) /\ Readable(d)
    BY <1>1, <1>3
  <2>3. ReadTo - Len(Remaining(d)) <= End(sent, k)
    BY ONLY TypeInv, StreamInv, PlainRun(i, k), End(sent, k) < ReadTo, <1>4, <2>1, <2>2, q \in Nat,
            i \in 1 .. Len(sent), k \in 1 .. Len(sent), AstrayNotOver
  <2> QED BY ONLY <2>3 DEF d
<1> QED BY <1>6, <1>7 DEF d

\* The decoder, however it came there, does not parse on over such frames.
LEMMA ParseNotOver ==
    ASSUME TypeInv, TypeInv', StreamInv, CutInv, Parse,
           NEW i \in 1 .. Len(sent), NEW k \in 1 .. Len(sent), PlainRun(i, k),
           ParsedTo <= End(sent, i - 1), End(sent, k) < ReadTo
    PROVE  ParsedTo' <= End(sent, k)
<1>1. /\ ParsedTo' = ReadTo - Len(buffer') /\ Len(buffer') \in Nat
      /\ UNCHANGED <<modeAC, wire, sent, cut>>
  BY ParseStream, ParseTail
<1>2. /\ ParsedTo \in Nat /\ ReadTo \in Nat /\ Len(buffer) \in Nat
      /\ ReadTo = ParsedTo + Len(buffer) /\ buffer \in Seq(Byte)
  BY Places DEF TypeInv
<1>3. /\ End(sent, i) = End(sent, i - 1) + Len(EncodeBeast(sent[i]))
      /\ End(sent, i) \in Nat /\ End(sent, i - 1) \in Nat
      /\ Len(EncodeBeast(sent[i])) \in Nat /\ Stream(sent)[End(sent, i - 1) + 1] = Escape
  BY FrameBegins
<1>4. ParsedTo' \in Int
  BY <1>1, <1>2
<1>7. /\ ~HasEscape(sent[i]) /\ End(sent, i) <= End(sent, k) /\ End(sent, k) \in Nat
      /\ End(sent, i) < ReadTo
  <2>1. ~HasEscape(sent[i]) /\ End(sent, i) <= End(sent, k) /\ End(sent, k) \in Nat
    BY RunEnds
  <2> QED BY ONLY <1>2, <1>3, <2>1, End(sent, k) < ReadTo
<1>5. CASE Deliver \/ Skip
  <2>1. buffer' = Remaining(Aligned(buffer))
        /\ (Decoded(Aligned(buffer)) \/ Skipped(Aligned(buffer)))
    BY <1>5 DEF Deliver, Skip
  <2> QED BY <1>1, <2>1, TakenNotOver
<1>6. CASE Resync \/ Wait
  <2>1. PICK e \in 1 .. Len(buffer) : ParsedTo + e = End(sent, i - 1) + 1
    <3>1. (End(sent, i - 1) + 1) - ParsedTo \in 1 .. Len(buffer)
          /\ ParsedTo + ((End(sent, i - 1) + 1) - ParsedTo) = End(sent, i - 1) + 1
      BY <1>2, <1>3, <1>7
    <3> QED BY <3>1
  <2>2. buffer[e] = Escape
    BY <1>3, <2>1 DEF StreamInv
  <2>3. /\ Failed /\ NextEscape(buffer) \in Nat
        /\ NextEscape(buffer) # 0 => Resync /\ NextEscape(buffer) \in 2 .. Len(buffer)
    BY <1>2, <1>6, NextEscapeIs DEF Resync, Wait
  <2>4. ASSUME NextEscape(buffer) # 0 PROVE ParsedTo' = (ParsedTo + NextEscape(buffer)) - 1
    <3>1. NextEscape(buffer) \in Nat \ {0} /\ buffer' = From(buffer, NextEscape(buffer))
          /\ NextEscape(buffer) <= Len(buffer)
      BY <1>2, <2>3, <2>4 DEF Resync
    <3>2. Len(buffer') = (Len(buffer) - NextEscape(buffer)) + 1
      BY <1>2, <3>1, FromLaws
    <3> QED BY ONLY <1>1, <1>2, <3>1, <3>2
  <2>5. CASE e # 1
    <3>1. e \in 2 .. Len(buffer)
      BY <2>1, <2>5
    <3>2. NextEscape(buffer) # 0 /\ NextEscape(buffer) <= e
      BY <1>2, <2>2, <3>1, NextEscapeIs
    <3>3. ParsedTo' <= End(sent, i - 1)
      <4>1. ParsedTo' = (ParsedTo + NextEscape(buffer)) - 1
        BY <2>4, <3>2
      <4>2. NextEscape(buffer) \in Nat /\ e \in Nat
        BY <1>2, <2>3
      <4>3. ASSUME NEW o \in Nat, NEW n \in Nat, NEW m \in Nat, NEW x \in Nat,
                   n <= m, o + m = x + 1
            PROVE  (o + n) - 1 <= x
        BY ONLY <4>3
      <4> QED BY ONLY <1>2, <1>3, <2>1, <3>2, <4>1, <4>2, <4>3
    <3> QED BY ONLY <1>1, <1>2, <1>3, <1>4, <1>7, <3>3
  <2>6. CASE e = 1
    <3>1. ParsedTo = End(sent, i - 1)
      BY <1>2, <1>3, <2>1, <2>6
    <3>2. At(i - 1) /\ End(sent, i - 1) < ReadTo /\ Harmless(i)
      <4>1. ParsedTo + 1 .. End(sent, i - 1) = {}
        BY <1>2, <3>1
      <4>2. End(sent, i - 1) < ReadTo
        BY <1>2, <1>3, <1>7
      <4> QED BY <1>7, <3>1, <4>1, <4>2 DEF At, Harmless
    <3>3. /\ NextEscape(buffer) \in 2 .. Len(buffer)
          /\ ParsedTo + NextEscape(buffer) = End(sent, i) + 1
      <4>1. ~(ReadTo <= End(sent, i))
        BY <1>2, <1>3, <1>7
      <4> QED BY <2>3, <3>1, <3>2, <4>1, FailsAt
    <3>4. ParsedTo' = (ParsedTo + NextEscape(buffer)) - 1
      <4>1. NextEscape(buffer) # 0
        BY <3>3
      <4> QED BY <2>4, <4>1
    <3>5. ParsedTo' = End(sent, i)
      <4>1. (End(sent, i) + 1) - 1 = End(sent, i)
        BY ONLY <1>3
      <4> QED BY ONLY <3>3, <3>4, <4>1
    <3> QED BY ONLY <1>3, <1>7, <3>5
  <2> QED BY <2>5, <2>6
<1> QED BY <1>5, <1>6 DEF Parse

\* From a place in frames without escape bytes there is none up to the end of its frame.
LEMMA InStepWithin ==
    ASSUME TypeInv,
           NEW i \in 1 .. Len(sent), NEW k \in 1 .. Len(sent), i <= k,
           \A j \in i .. k : ~HasEscape(sent[j]),
           NEW o \in Nat, End(sent, i - 1) < o, o <= End(sent, k)
    PROVE  \E j \in i .. k : /\ o <= End(sent, j)
                             /\ \A p \in o + 1 .. End(sent, j) : Stream(sent)[p] # Escape
<1>1. PICK j \in i .. k : End(sent, j - 1) < o /\ o <= End(sent, j)
  BY PlaceWithin
<1>2. j \in 1 .. Len(sent) /\ ~HasEscape(sent[j])
  OBVIOUS
<1>3. \A p \in o + 1 .. End(sent, j) : Stream(sent)[p] # Escape
  BY <1>1, <1>2, PlainPlace
<1> QED BY <1>1, <1>3

\* It comes into step at the latest where such frames end.
LEMMA Crosses ==
    ASSUME TypeInv, TypeInv', StreamInv, CutInv, Parse,
           NEW i \in 1 .. Len(sent), NEW k \in 1 .. Len(sent), PlainRun(i, k),
           ParsedTo <= End(sent, i - 1)
    PROVE  ParsedTo' <= End(sent, i - 1) \/ \E j \in i .. k : At(j)'
<1>1. /\ ParsedTo' = ReadTo - Len(buffer') /\ Len(buffer') \in Nat /\ ParsedTo' \in Nat
      /\ UNCHANGED sent
  BY ParseStream, ParseTail
<1>2. ReadTo \in Nat /\ End(sent, k) \in Nat /\ End(sent, i - 1) \in Nat
  BY Places, FrameBegins
<1>3. ParsedTo' <= End(sent, k)
  <2>1. CASE End(sent, k) < ReadTo
    BY <2>1, ParseNotOver
  <2>2. CASE ~(End(sent, k) < ReadTo)
    BY <1>1, <1>2, <2>2
  <2> QED BY <2>1, <2>2
<1>4. CASE End(sent, i - 1) < ParsedTo'
  <2>1. i <= k /\ \A j \in i .. k : ~HasEscape(sent[j])
    BY DEF PlainRun
  <2>2. PICK j \in i .. k : /\ ParsedTo' <= End(sent, j)
                            /\ \A p \in ParsedTo' + 1 .. End(sent, j) : Stream(sent)[p] # Escape
    BY <1>1, <1>3, <1>4, <2>1, InStepWithin
  <2>3. At(j)'
    BY <1>1, <2>2, StillAt
  <2> QED BY <2>3
<1>5. CASE ~(End(sent, i - 1) < ParsedTo')
  BY <1>1, <1>2, <1>5
<1> QED BY <1>4, <1>5

-----------------------------------------------------------------------------
(***************************************************************************)
(* What is handled once the decoder is in step again.                      *)
(***************************************************************************)

Handed == [type : Byte, body : Seq(Byte)]

GotInv == got \in Seq(Handed)

LEMMA FramesHanded == Frame \subseteq Handed
<1> SUFFICES ASSUME NEW f \in Frame PROVE f \in Handed
  OBVIOUS
<1>1. f \in [type : {TypeModeAC, TypeShort, TypeLong} \cup {TypeStatus}, body : Seq(Byte)]
  BY BeastAssumption
<1>2. {TypeModeAC, TypeShort, TypeLong} \cup {TypeStatus} \subseteq Byte
  BY DEF TypeModeAC, TypeShort, TypeLong, TypeStatus, Byte
<1> QED BY <1>1, <1>2 DEF Handed

LEMMA MessageHanded ==
    ASSUME NEW d \in Seq(Byte), Readable(d)
    PROVE  Message(d) \in Handed
<1>1. d[2] \in Byte
  <2>1. 2 \in 1 .. Len(d)
    BY Lengths, BeastAssumption DEF Readable
  <2> QED BY <2>1, Lengths
<1>2. Payload(d).raw \in Seq(Byte)
  <2>1. From(d, 3) \in Seq(Byte)
    BY FromLaws
  <2> QED BY <2>1, UnescapeType DEF Payload, TakenType
<1> QED BY <1>1, <1>2 DEF Message, Handed

LEMMA GotKept == TypeInv /\ GotInv /\ [Next]_vars => GotInv'
<1> SUFFICES ASSUME TypeInv, GotInv, [Next]_vars PROVE GotInv'
  OBVIOUS
<1>1. CASE Deliver
  <2>1. Aligned(buffer) \in Seq(Byte)
    BY AlignedType DEF TypeInv
  <2>2. Message(Aligned(buffer)) \in Handed
    BY <1>1, <2>1, MessageHanded DEF Deliver, Decoded
  <2> QED BY <1>1, <2>2 DEF Deliver, GotInv
<1>2. CASE Reconnect
  BY <1>2 DEF Reconnect, GotInv
<1>3. CASE UNCHANGED got
  BY <1>3 DEF GotInv
<1> QED BY <1>1, <1>2, <1>3 DEF Next, Parse, Send, Read, Skip, Panic, Resync, Wait, vars

\* g ends with s.
EndsWith(g, s) ==
    Len(s) <= Len(g) /\ \A p \in 1 .. Len(s) : g[(Len(g) - Len(s)) + p] = s[p]

LEMMA EndsWithMore ==
    ASSUME NEW S, NEW g \in Seq(S), NEW T, NEW s \in Seq(T), NEW m, m \in S, m \in T, EndsWith(g, s)
    PROVE  EndsWith(Append(g, m), Append(s, m))
<1>1. /\ Len(g) \in Nat /\ Len(s) \in Nat /\ Len(s) <= Len(g)
      /\ \A p \in 1 .. Len(s) : g[(Len(g) - Len(s)) + p] = s[p]
  BY Lengths DEF EndsWith
<1>2. /\ Len(Append(g, m)) = Len(g) + 1 /\ Append(g, m)[Len(g) + 1] = m
      /\ \A p \in 1 .. Len(g) : Append(g, m)[p] = g[p]
  OBVIOUS
<1>3. /\ Len(Append(s, m)) = Len(s) + 1 /\ Append(s, m)[Len(s) + 1] = m
      /\ \A p \in 1 .. Len(s) : Append(s, m)[p] = s[p]
  OBVIOUS
<1>4. ASSUME NEW p \in 1 .. Len(s) + 1
      PROVE  Append(g, m)[((Len(g) + 1) - (Len(s) + 1)) + p] = Append(s, m)[p]
  <2>1. ((Len(g) + 1) - (Len(s) + 1)) + p = (Len(g) - Len(s)) + p
    BY <1>1
  <2>2. CASE p = Len(s) + 1
    <3>1. (Len(g) - Len(s)) + p = Len(g) + 1
      BY <1>1, <2>2
    <3> QED BY <1>2, <1>3, <2>1, <2>2, <3>1
  <2>3. CASE p # Len(s) + 1
    <3>1. p \in 1 .. Len(s) /\ (Len(g) - Len(s)) + p \in 1 .. Len(g)
      BY <1>1, <2>3
    <3> QED BY <1>1, <1>2, <1>3, <2>1, <3>1
  <2> QED BY <2>2, <2>3
<1>5. Len(s) + 1 <= Len(g) + 1
  BY <1>1
<1> HIDE DEF EndsWith
<1> QED BY <1>2, <1>3, <1>4, <1>5 DEF EndsWith

\* What the frames after number i carry.
After(i) == [k \in 1 .. Len(sent) - i |-> Carried[i + k]]

LEMMA AfterListed ==
    ASSUME TypeInv, NEW i \in 0 .. Len(sent)
    PROVE  /\ Len(sent) - i \in Nat /\ Listed(Frame, After(i), Len(sent) - i)
           /\ Cat(After(i), 0) = <<>>
           /\ \A k \in 0 .. Len(sent) - i : Cat(After(i), k) \in Seq(Frame)
<1>1. Len(sent) \in Nat /\ Listed(Frame, Carried, Len(sent))
  BY CarriedListed
<1>2. ASSUME NEW k \in 1 .. Len(sent) - i PROVE After(i)[k] \in Seq(Frame)
  <2>1. i + k \in 1 .. Len(sent)
    BY <1>1
  <2> QED BY <1>1, <2>1 DEF After, Listed
<1>3. Len(sent) - i \in Nat
  BY <1>1
<1>4. Listed(Frame, After(i), Len(sent) - i)
  BY <1>2, <1>3 DEF Listed
<1> QED BY <1>3, <1>4, CatLaws

LEMMA AfterStep ==
    ASSUME TypeInv, NEW i \in 0 .. Len(sent), NEW j \in 1 .. Len(sent), i < j
    PROVE  Cat(After(i), j - i) = IF Carries(sent[j])
                                  THEN Append(Cat(After(i), (j - 1) - i), sent[j])
                                  ELSE Cat(After(i), (j - 1) - i)
<1>1. /\ Len(sent) \in Nat /\ sent[j] \in Frame
      /\ Carried[j] = IF Carries(sent[j]) THEN <<sent[j]>> ELSE <<>>
  BY CarriedListed DEF TypeInv
<1>2. PICK k \in 1 .. Len(sent) - i : k = j - i
  BY <1>1
<1>3. k - 1 = (j - 1) - i /\ i + k = j /\ k - 1 \in 0 .. Len(sent) - i
  BY <1>1, <1>2
<1>4. After(i)[k] = Carried[j]
  BY <1>3 DEF After
<1>5. Cat(After(i), k) = Cat(After(i), k - 1) \o After(i)[k] /\ Cat(After(i), k - 1) \in Seq(Frame)
  <2>1. PICK n \in Nat : n = Len(sent) - i
    BY <1>1
  <2>2. PICK e : e = After(i)
    OBVIOUS
  <2>3. Listed(Frame, e, n) /\ k \in 1 .. n
    BY <2>1, <2>2, AfterListed
  <2>4. Cat(e, k) = Cat(e, k - 1) \o e[k] /\ Cat(e, k - 1) \in Seq(Frame)
    BY ONLY <2>3, n \in Nat, CatParts, ZenonT(30)
  <2> QED BY <2>2, <2>4
<1>6. PICK c \in Seq(Frame) : c = Cat(After(i), k - 1)
  BY <1>5
<1>7. CASE Carries(sent[j])
  <2>1. c \o <<sent[j]>> = Append(c, sent[j])
    BY <1>1
  <2> QED BY <1>1, <1>2, <1>3, <1>4, <1>5, <1>6, <1>7, <2>1
<1>8. CASE ~Carries(sent[j])
  <2>1. c \o <<>> = c
    OBVIOUS
  <2> QED BY <1>1, <1>2, <1>3, <1>4, <1>5, <1>6, <1>8, <2>1
<1> QED BY <1>7, <1>8

\* Frames i to k are such frames and no frame after them does damage: ...
Turn(i, k) == PlainRun(i, k) /\ \A l \in k + 1 .. Len(sent) : Harmless(l)

\* ... the decoder has not come to them, or is in step and has handled what followed.
Regained(k, j) == At(j) /\ (k <= j => EndsWith(got, Cat(After(k), j - k)))

Recovered(i, k) ==
    Turn(i, k) => ParsedTo <= End(sent, i - 1) \/ \E j \in i .. Len(sent) : Regained(k, j)

RecoveredInv == \A i \in 1 .. Len(sent) : \A k \in 1 .. Len(sent) : Recovered(i, k)

\* What comes after a frame that is parsed in such a turn is harmless.
LEMMA TurnSafe ==
    ASSUME TypeInv, NEW i \in 1 .. Len(sent), NEW k \in 1 .. Len(sent), Turn(i, k),
           NEW j \in i .. Len(sent)
    PROVE  SafeAfter(j)
<1> SUFFICES ASSUME NEW l \in 1 .. Len(sent), l = j + 1 PROVE Harmless(l)
  BY DEF SafeAfter
<1>1. Len(sent) \in Nat
  BY Lengths DEF TypeInv
<1>2. CASE l <= k
  <2>1. l \in i .. k
    BY <1>2
  <2> QED BY <2>1 DEF Turn, PlainRun, Harmless
<1>3. CASE ~(l <= k)
  <2>1. l \in k + 1 .. Len(sent)
    BY <1>3
  <2> QED BY <2>1 DEF Turn
<1> QED BY <1>2, <1>3

\* Nothing has to be handled yet.
LEMMA RegainedEarly ==
    ASSUME TypeInv, NEW k \in 1 .. Len(sent), NEW j \in 1 .. Len(sent), j <= k,
           NEW g \in Seq(Handed)
    PROVE  k <= j => EndsWith(g, Cat(After(k), j - k))
<1> SUFFICES ASSUME k = j PROVE EndsWith(g, Cat(After(k), j - k))
  OBVIOUS
<1>1. Len(sent) \in Nat /\ k \in 0 .. Len(sent) /\ j - k = 0 /\ Len(g) \in Nat /\ Len(<<>>) = 0
  BY Lengths DEF TypeInv
<1>2. Cat(After(k), 0) = <<>>
  BY <1>1, AfterListed
<1>3. EndsWith(g, <<>>)
  BY <1>1 DEF EndsWith
<1> QED BY <1>1, <1>2, <1>3

LEMMA ParseRegains ==
    ASSUME TypeInv, TypeInv', StreamInv, CutInv, GotInv, GotInv', Parse,
           NEW i \in 1 .. Len(sent), NEW k \in 1 .. Len(sent), Turn(i, k), Recovered(i, k)
    PROVE  ParsedTo' <= End(sent, i - 1) \/ \E j \in i .. Len(sent) : Regained(k, j)'
<1>1. UNCHANGED <<modeAC, wire, sent, cut>>
  BY ParseTail
<1>2. Len(sent) \in Nat /\ PlainRun(i, k) /\ i <= k /\ k \in 0 .. Len(sent)
  BY Lengths, RunEnds DEF TypeInv, Turn
<1>3. After(k)' = After(k)
  <2>1. Carried' = Carried
    BY <1>1 DEF Carried, Carries
  <2> QED BY <1>1, <2>1 DEF After
<1>4. CASE ParsedTo <= End(sent, i - 1)
  <2>1. ParsedTo' <= End(sent, i - 1) \/ \E j \in i .. k : At(j)'
    BY <1>2, <1>4, Crosses
  <2>2. ASSUME NEW j \in i .. k, At(j)' PROVE j \in i .. Len(sent) /\ Regained(k, j)'
    <3>1. j \in 1 .. Len(sent) /\ j <= k /\ j \in i .. Len(sent)
      BY <1>2
    <3>2. got' \in Seq(Handed)
      BY DEF GotInv
    <3>3. k <= j => EndsWith(got', Cat(After(k), j - k))
      BY <3>1, <3>2, RegainedEarly
    <3> QED BY <1>3, <2>2, <3>1, <3>3 DEF Regained
  <2> QED BY <2>1, <2>2
<1>5. ASSUME NEW j \in i .. Len(sent), Regained(k, j)
      PROVE  \E l \in i .. Len(sent) : Regained(k, l)'
  <2>1. At(j) /\ SafeAfter(j) /\ j \in 0 .. Len(sent)
    BY <1>2, <1>5, TurnSafe DEF Regained
  <2>2. PICK l \in 0 .. Len(sent) : At(l)' /\ Gains(j, l)
    BY <2>1, ParseMoves
  <2>3. k <= j => EndsWith(got, Cat(After(k), j - k))
    BY <1>5 DEF Regained
  <2>4. CASE l = j
    <3>1. got' = got
      BY <2>2, <2>4 DEF Gains
    <3> QED BY <1>3, <2>2, <2>3, <2>4, <3>1 DEF Regained
  <2>5. CASE l # j
    <3>1. l = j + 1 /\ got' = IF Carries(sent[l]) THEN Append(got, sent[l]) ELSE got
      BY <2>2, <2>5 DEF Gains
    <3>2. l \in 1 .. Len(sent) /\ l \in i .. Len(sent) /\ l - 1 = j
      BY <1>2, <3>1
    <3>3. CASE l <= k
      <4>1. got' \in Seq(Handed)
        BY DEF GotInv
      <4>2. k <= l => EndsWith(got', Cat(After(k), l - k))
        BY <3>2, <3>3, <4>1, RegainedEarly
      <4> QED BY <1>3, <2>2, <3>2, <4>2 DEF Regained
    <3>4. CASE ~(l <= k)
      <4>1. k < l /\ k <= j
        BY <3>1, <3>4
      <4>2. Cat(After(k), l - k) = IF Carries(sent[l]) THEN Append(Cat(After(k), j - k), sent[l])
                                   ELSE Cat(After(k), j - k)
        BY <1>2, <3>2, <4>1, AfterStep
      <4>3. EndsWith(got', Cat(After(k), l - k))
        <5>1. CASE Carries(sent[l])
          <6>1. sent[l] \in Frame /\ sent[l] \in Handed /\ got \in Seq(Handed)
            BY <3>2, FramesHanded DEF TypeInv, GotInv
          <6>2. Cat(After(k), j - k) \in Seq(Frame)
            <7>1. j - k \in 0 .. Len(sent) - k
              BY <1>2, <4>1
            <7> QED BY <1>2, <7>1, AfterListed
          <6>3. EndsWith(Append(got, sent[l]), Append(Cat(After(k), j - k), sent[l]))
            BY <2>3, <4>1, <6>1, <6>2, EndsWithMore
          <6> QED BY <3>1, <4>2, <5>1, <6>3
        <5>2. CASE ~Carries(sent[l])
          BY <2>3, <3>1, <4>1, <4>2, <5>2
        <5> QED BY <5>1, <5>2
      <4> QED BY <1>3, <2>2, <3>2, <4>3 DEF Regained
    <3> QED BY <3>3, <3>4
  <2> QED BY <2>4, <2>5
<1> QED BY <1>4, <1>5 DEF Recovered

LEMMA ParseRecovers ==
    ASSUME TypeInv, TypeInv', StreamInv, CutInv, GotInv, GotInv', Parse, RecoveredInv
    PROVE  RecoveredInv'
<1>1. UNCHANGED <<modeAC, wire, sent, cut>>
  BY ParseTail
<1> SUFFICES ASSUME NEW i \in 1 .. Len(sent), NEW k \in 1 .. Len(sent), Turn(i, k)'
             PROVE  ParsedTo' <= End(sent, i - 1) \/ \E j \in i .. Len(sent) : Regained(k, j)'
  BY <1>1 DEF RecoveredInv, Recovered
<1>2. Turn(i, k) /\ Recovered(i, k)
  BY <1>1 DEF Turn, PlainRun, Harmless, RecoveredInv
<1> QED BY <1>2, ParseRegains

LEMMA ReadRecovers ==
    ASSUME TypeInv, TypeInv', StreamInv, CutInv, HandledInv, NEW n \in 1 .. Len(wire), Read(n),
           RecoveredInv
    PROVE  RecoveredInv'
<1>1. UNCHANGED <<modeAC, sent, got>> /\ ParsedTo' = ParsedTo /\ cut \subseteq cut'
  BY ReadKeeps DEF Read
<1> SUFFICES ASSUME NEW i \in 1 .. Len(sent), NEW k \in 1 .. Len(sent), Turn(i, k)'
             PROVE  ParsedTo' <= End(sent, i - 1) \/ \E j \in i .. Len(sent) : Regained(k, j)'
  BY <1>1 DEF RecoveredInv, Recovered
<1>2. Turn(i, k) /\ Recovered(i, k)
  BY <1>1 DEF Turn, PlainRun, Harmless, RecoveredInv
<1>3. CASE ParsedTo <= End(sent, i - 1)
  BY <1>1, <1>3
<1>4. ASSUME NEW j \in i .. Len(sent), Regained(k, j) PROVE Regained(k, j)'
  <2>1. After(k)' = After(k)
    <3>1. Carried' = Carried
      BY <1>1 DEF Carried, Carries
    <3> QED BY <1>1, <3>1 DEF After
  <2> QED BY <1>1, <1>4, <2>1 DEF Regained, At
<1> QED BY <1>2, <1>3, <1>4 DEF Recovered

LEMMA SendRecovers ==
    ASSUME TypeInv, TypeInv', StreamInv, CutInv, RestInv, NEW f \in Frame, Send(f), RecoveredInv
    PROVE  RecoveredInv'
<1>1. /\ ParsedTo' = ParsedTo /\ UNCHANGED got
      /\ Len(sent) \in Nat /\ Len(sent') = Len(sent) + 1
      /\ \A i \in 1 .. Len(sent) : sent'[i] = sent[i]
      /\ \A i \in 0 .. Len(sent) : End(sent', i) = End(sent, i) /\ (At(i) => At(i)')
  BY SendStream DEF Send
<1>2. \A l \in 1 .. Len(sent) : Carried'[l] = Carried[l] /\ (Harmless(l)' <=> Harmless(l))
  BY SendSafe
<1>3. ParsedTo \in Nat /\ ParsedTo <= End(sent, Len(sent)) /\ End(sent, Len(sent)) \in Nat
  BY Places
<1> SUFFICES ASSUME NEW i \in 1 .. Len(sent'), NEW k \in 1 .. Len(sent'), Turn(i, k)'
             PROVE  \/ ParsedTo' <= End(sent', i - 1)
                    \/ \E j \in i .. Len(sent') : Regained(k, j)'
  BY DEF RecoveredInv, Recovered
<1>4. i <= k /\ \A j \in i .. k : ~HasEscape(sent'[j])
  BY DEF Turn, PlainRun
<1>5. CASE i = Len(sent')
  <2>1. i - 1 = Len(sent) /\ Len(sent) \in 0 .. Len(sent)
    BY <1>1, <1>5
  <2> QED BY <1>1, <1>3, <2>1
<1>6. CASE i # Len(sent') /\ k = Len(sent')
  <2>1. i \in 1 .. Len(sent) /\ Len(sent) \in 1 .. Len(sent) /\ i - 1 \in 0 .. Len(sent)
        /\ i <= Len(sent)
    BY <1>1, <1>6
  <2>2. CASE ParsedTo <= End(sent, i - 1)
    BY <1>1, <2>1, <2>2
  <2>3. CASE ~(ParsedTo <= End(sent, i - 1))
    <3>1. ASSUME NEW j \in i .. Len(sent) PROVE ~HasEscape(sent[j])
      <4>1. j \in i .. k /\ j \in 1 .. Len(sent)
        BY <1>1, <1>6, <2>1
      <4> QED BY <1>1, <1>4, <4>1
    <3>2. End(sent, i - 1) < ParsedTo
      <4>1. End(sent, i - 1) \in Nat
        BY <2>1, FrameBegins
      <4> QED BY <1>3, <2>3, <4>1
    <3>3. PICK j \in i .. Len(sent) :
              /\ ParsedTo <= End(sent, j)
              /\ \A p \in ParsedTo + 1 .. End(sent, j) : Stream(sent)[p] # Escape
      BY <1>3, <2>1, <3>1, <3>2, InStepWithin
    <3>4. At(j) /\ j \in 0 .. Len(sent) /\ j \in i .. Len(sent') /\ ~(k <= j)
      BY <1>1, <1>6, <2>1, <3>3 DEF At
    <3> QED BY <1>1, <3>4 DEF Regained
  <2> QED BY <2>2, <2>3
<1>7. CASE i # Len(sent') /\ k # Len(sent')
  <2>1. /\ i \in 1 .. Len(sent) /\ i - 1 \in 0 .. Len(sent)
        /\ k \in 1 .. Len(sent) /\ k \in 0 .. Len(sent)
    BY <1>1, <1>7
  <2>2. Turn(i, k)
    <3>1. ASSUME NEW l \in k + 1 .. Len(sent) PROVE Harmless(l)
      <4>1. l \in k + 1 .. Len(sent') /\ l \in 1 .. Len(sent)
        BY <1>1, <2>1
      <4>2. Harmless(l)'
        BY <4>1 DEF Turn
      <4> QED BY <1>2, <4>1, <4>2
    <3>2. ASSUME NEW j \in i .. k PROVE ~HasEscape(sent[j])
      <4>1. j \in 1 .. Len(sent)
        BY <2>1
      <4> QED BY <1>1, <1>4, <4>1
    <3>3. \A t \in DOMAIN BodyLen : End(sent, k) - End(sent, i - 1) > BodyLen[t]
      BY <1>1, <2>1 DEF Turn, PlainRun
    <3> QED BY <1>4, <3>1, <3>2, <3>3 DEF Turn, PlainRun
  <2>3. CASE ParsedTo <= End(sent, i - 1)
    BY <1>1, <2>1, <2>3
  <2>4. ASSUME NEW j \in i .. Len(sent), Regained(k, j)
        PROVE  \E l \in i .. Len(sent') : Regained(k, l)'
    <3>1. j \in 0 .. Len(sent) /\ j \in i .. Len(sent') /\ j \in Nat
      BY <1>1, <2>1
    <3>2. At(j)'
      BY <1>1, <2>4, <3>1 DEF Regained
    <3>3. ASSUME k <= j PROVE EndsWith(got', Cat(After(k)', j - k))
      <4>1. j - k \in Nat
        BY <2>1, <3>1, <3>3
      <4>2. ASSUME NEW l \in 1 .. j - k PROVE After(k)'[l] = After(k)[l]
        <5>1. /\ l \in 1 .. Len(sent) - k /\ l \in 1 .. Len(sent') - k /\ k + l \in 1 .. Len(sent)
          BY <1>1, <2>1, <3>1, <4>1
        <5>2. After(k)[l] = Carried[k + l]
          BY <5>1 DEF After
        <5>3. After(k)'[l] = Carried'[k + l]
          BY <5>1 DEF After
        <5> QED BY <1>2, <5>1, <5>2, <5>3
      <4>3. Cat(After(k)', j - k) = Cat(After(k), j - k)
        BY <4>2, CatAgree
      <4> QED BY <1>1, <2>4, <3>3, <4>3 DEF Regained
    <3> QED BY <3>1, <3>2, <3>3 DEF Regained
  <2>5. Recovered(i, k)
    BY <2>1 DEF RecoveredInv
  <2> QED BY <2>2, <2>3, <2>4, <2>5 DEF Recovered
<1> QED BY <1>5, <1>6, <1>7

-----------------------------------------------------------------------------
(***************************************************************************)
(* The damage is limited.                                                  *)
(***************************************************************************)

RecoveryInv == BeastInv /\ GotInv /\ RecoveredInv

LEMMA InitRecoveryInv == Init => RecoveryInv
<1> SUFFICES ASSUME Init PROVE RecoveryInv
  OBVIOUS
<1>1. BeastInv
  BY InitTypeInv, InitBeastInv DEF BeastInv, GoesOnInv, Init
<1>2. sent = <<>> /\ got = <<>>
  BY DEF Init
<1>3. GotInv /\ 1 .. Len(sent) = {}
  BY <1>2 DEF GotInv
<1> QED BY <1>1, <1>3 DEF RecoveryInv, RecoveredInv

LEMMA NextRecoveryInv == RecoveryInv /\ [Next]_vars => RecoveryInv'
<1> SUFFICES ASSUME RecoveryInv, [Next]_vars PROVE RecoveryInv'
  OBVIOUS
<1>1. TypeInv /\ StreamInv /\ CutInv /\ RestInv /\ HandledInv /\ GotInv /\ RecoveredInv
  BY DEF RecoveryInv, BeastInv
<1>2. BeastInv' /\ TypeInv' /\ GotInv'
  BY <1>1, NextTypeInv, NextBeastInv, GotKept DEF RecoveryInv, BeastInv
<1> SUFFICES RecoveredInv'
  BY <1>2 DEF RecoveryInv
<1>3. ASSUME NEW f \in Frame, Send(f) PROVE RecoveredInv'
  BY <1>1, <1>2, <1>3, SendRecovers
<1>4. ASSUME NEW n \in 1 .. Len(wire), Read(n) PROVE RecoveredInv'
  BY <1>1, <1>2, <1>4, ReadRecovers
<1>5. CASE Parse
  BY <1>1, <1>2, <1>5, ParseRecovers
<1>6. CASE Reconnect
  <2>1. sent' = <<>>
    BY <1>6 DEF Reconnect
  <2>2. 1 .. Len(sent') = {}
    BY <2>1
  <2> QED BY <2>2 DEF RecoveredInv
<1>7. CASE Panic \/ UNCHANGED vars
  <2>1. UNCHANGED <<modeAC, wire, buffer, sent, got, cut>>
    BY <1>7 DEF Panic, vars
  <2>2. ParsedTo' = ParsedTo
    BY <2>1 DEF ReadTo, ParsedTo
  <2>3. Carried' = Carried
    BY <2>1 DEF Carried, Carries
  <2>4. \A l : After(l)' = After(l) /\ (At(l)' <=> At(l)) /\ (Harmless(l)' <=> Harmless(l))
    <3>1. \A l : After(l)' = After(l)
      BY <2>1, <2>3 DEF After
    <3>2. \A l : At(l)' <=> At(l)
      BY <2>1, <2>2 DEF At
    <3>3. \A l : Harmless(l)' <=> Harmless(l)
      BY <2>1 DEF Harmless
    <3> QED BY <3>1, <3>2, <3>3
  <2> SUFFICES ASSUME NEW i \in 1 .. Len(sent'), NEW k \in 1 .. Len(sent') PROVE Recovered(i, k)'
    BY DEF RecoveredInv
  <2>5. Recovered(i, k)
    BY <1>1, <2>1 DEF RecoveryInv, RecoveredInv
  <2>6. Turn(i, k)' <=> Turn(i, k)
    <3>1. PlainRun(i, k)' <=> PlainRun(i, k)
      BY <2>1 DEF PlainRun
    <3> QED BY <2>1, <2>4, <3>1 DEF Turn
  <2>7. \A j : Regained(k, j)' <=> Regained(k, j)
    BY <2>1, <2>4 DEF Regained
  <2> QED BY <2>1, <2>2, <2>5, <2>6, <2>7 DEF Recovered
<1> QED BY <1>3, <1>4, <1>5, <1>6, <1>7 DEF Next

\* At rest the decoder is in step after frames without escape bytes, longer together than any
\* body, that no damage follows.
LEMMA BackInStep ==
    ASSUME TypeInv, StreamInv, CutInv, RestInv, GotInv, RecoveredInv, AtRest,
           NEW i \in 1 .. Len(sent), NEW k \in 1 .. Len(sent), Turn(i, k)
    PROVE  EndsWith(got, Cat(After(k), Len(sent) - k))
<1>1. /\ Len(sent) \in Nat /\ i <= k /\ i \in 0 .. Len(sent) /\ k \in 0 .. Len(sent)
      /\ i - 1 \in 0 .. Len(sent) /\ ~HasEscape(sent[i])
  BY Lengths, RunEnds DEF TypeInv, Turn
<1>0. ASSUME k = Len(sent) PROVE EndsWith(got, Cat(After(k), Len(sent) - k))
  <2>1. got \in Seq(Handed) /\ k <= Len(sent) /\ Len(sent) \in 1 .. Len(sent) /\ Len(sent) <= k
    BY <1>0, <1>1 DEF GotInv
  <2> QED BY <2>1, RegainedEarly
<1>2. ASSUME NEW j \in i .. Len(sent), Regained(k, j)
      PROVE  EndsWith(got, Cat(After(k), Len(sent) - k))
  <2>1. At(j) /\ SafeAfter(j) /\ j \in 0 .. Len(sent)
    BY <1>1, <1>2, TurnSafe DEF Regained
  <2>2. j = Len(sent) \/ (j + 1 = Len(sent) /\ ~Carries(sent[Len(sent)]))
    BY <2>1, AllParsed
  <2>3. CASE j = Len(sent)
    BY <1>1, <1>2, <2>3 DEF Regained
  <2>4. CASE j + 1 = Len(sent) /\ ~Carries(sent[Len(sent)]) /\ k # Len(sent)
    <3>1. Len(sent) \in 1 .. Len(sent) /\ k < Len(sent) /\ Len(sent) - 1 = j /\ k <= j
      BY <1>1, <2>4
    <3>2. Cat(After(k), Len(sent) - k) = Cat(After(k), j - k)
      BY <1>1, <2>4, <3>1, AfterStep
    <3> QED BY <1>2, <3>1, <3>2 DEF Regained
  <2> QED BY <1>0, <2>2, <2>3, <2>4
<1>3. CASE ParsedTo <= End(sent, i - 1)
  <2>1. /\ ParsedTo \in Nat /\ ReadTo \in Nat /\ Len(buffer) \in Nat
        /\ ReadTo = ParsedTo + Len(buffer) /\ buffer \in Seq(Byte)
        /\ End(sent, Len(sent)) = ReadTo + Len(wire) /\ Len(wire) = 0
        /\ NextEscape(buffer) = 0
    BY Places DEF TypeInv, RestInv, AtRest
  <2>2. /\ End(sent, i) = End(sent, i - 1) + Len(EncodeBeast(sent[i]))
        /\ End(sent, i) \in Nat /\ End(sent, i - 1) \in Nat
        /\ Len(EncodeBeast(sent[i])) \in Nat /\ Len(EncodeBeast(sent[i])) >= 2
        /\ Stream(sent)[End(sent, i - 1) + 1] = Escape
    BY FrameBegins
  <2>3. End(sent, i) <= ReadTo
    <3>1. Len(sent) \in 0 .. Len(sent) /\ i <= Len(sent)
      BY <1>1
    <3>2. End(sent, i) <= End(sent, Len(sent))
      BY <1>1, <3>1, EndsClimb DEF TypeInv
    <3> QED BY <2>1, <2>2, <3>2
  <2>4. PICK e \in 1 .. Len(buffer) : ParsedTo + e = End(sent, i - 1) + 1
    <3>1. (End(sent, i - 1) + 1) - ParsedTo \in 1 .. Len(buffer)
          /\ ParsedTo + ((End(sent, i - 1) + 1) - ParsedTo) = End(sent, i - 1) + 1
      <4>1. ASSUME NEW o \in Nat, NEW l \in Nat, NEW x \in Nat, o <= x, x + 1 <= o + l
            PROVE  (x + 1) - o \in 1 .. l /\ o + ((x + 1) - o) = x + 1
        BY ONLY <4>1
      <4>2. End(sent, i - 1) + 1 <= ParsedTo + Len(buffer)
        BY ONLY <2>1, <2>2, <2>3
      <4> QED BY ONLY <1>3, <2>1, <2>2, <4>1, <4>2
    <3> QED BY <3>1
  <2>5. buffer[e] = Escape
    BY <2>2, <2>4 DEF StreamInv
  <2>6. e = 1
    <3> SUFFICES ASSUME e # 1 PROVE FALSE
      OBVIOUS
    <3>1. e \in 2 .. Len(buffer)
      BY <2>4
    <3> QED BY <2>1, <2>5, <3>1, NextEscapeIs
  <2>7. ParsedTo = End(sent, i - 1)
    BY <2>1, <2>2, <2>4, <2>6
  <2>8. At(i - 1) /\ SafeAfter(i - 1)
    <3>1. ParsedTo + 1 .. End(sent, i - 1) = {}
      BY <2>1, <2>7
    <3>2. At(i - 1)
      <4>1. ParsedTo <= End(sent, i - 1)
        BY <2>1, <2>7
      <4> QED BY <3>1, <4>1 DEF At
    <3>3. Harmless(i) /\ (i - 1) + 1 = i
      BY <1>1 DEF Harmless
    <3> QED BY <3>2, <3>3 DEF SafeAfter
  <2>9. i = Len(sent)
    <3>1. \/ i - 1 = Len(sent)
          \/ (i - 1) + 1 = Len(sent)
      BY <1>1, <2>8, AllParsed
    <3> QED BY <1>1, <3>1
  <2>10. k = Len(sent)
    BY <1>1, <2>9
  <2> QED BY <1>0, <2>10
<1> QED BY <1>2, <1>3 DEF RecoveredInv, Recovered

\* The last damaged frame is one, or there is none; those after it are harmless.
LEMMA DamagedLast ==
    ASSUME TypeInv
    PROVE  Damaged \in 0 .. Len(sent) /\ \A i \in Damaged + 1 .. Len(sent) : Harmless(i)
<1> DEFINE T == {0} \cup {i \in DOMAIN sent :
                            /\ HasEscape(sent[i])
                            /\ i \in cut \/ sent[i].type = TypeStatus \/ ~Decodes(sent[i])}
<1>1. Len(sent) \in Nat /\ DOMAIN sent = 1 .. Len(sent)
  BY Lengths DEF TypeInv
<1>2. T \subseteq 0 .. Len(sent) /\ T # {}
  BY <1>1
<1>3. Max(T) \in T /\ \A y \in T : y <= Max(T)
  <2> HIDE DEF T
  <2> QED BY <1>1, <1>2, MaxIsGreatest
<1>4. Max(T) = Damaged
  BY DEF Damaged
<1>5. Damaged \in 0 .. Len(sent)
  BY <1>2, <1>3, <1>4
<1>6. ASSUME NEW i \in Damaged + 1 .. Len(sent), ~Harmless(i) PROVE FALSE
  <2>1. i \in 1 .. Len(sent)
    BY <1>1, <1>5
  <2>2. i \in T
    BY <1>1, <1>6, <2>1 DEF Harmless
  <2> HIDE DEF T
  <2>3. i <= Damaged
    BY <1>3, <1>4, <2>2
  <2> QED BY <1>1, <1>5, <2>3
<1> QED BY <1>5, <1>6

\* What is expected of the frames after number i.
LEMMA ExpectedAfter ==
    ASSUME TypeInv, NEW i \in 0 .. Len(sent)
    PROVE  Expected(i + 1) = Cat(After(i), Len(sent) - i)
<1> DEFINE t == From(sent, i + 1)
<1>1. Len(sent) \in Nat /\ i + 1 \in Nat \ {0} /\ sent \in Seq(Frame)
  BY Lengths DEF TypeInv
<1>2. /\ t \in Seq(Frame)
      /\ Len(t) = IF i + 1 <= Len(sent) THEN (Len(sent) - (i + 1)) + 1 ELSE 0
      /\ \A p \in 1 .. Len(t) : t[p] = sent[((i + 1) - 1) + p]
  BY <1>1, FromLaws
<1> HIDE DEF t
<1>3. Len(t) = Len(sent) - i
  BY <1>1, <1>2
<1>4. DOMAIN t = 1 .. Len(sent) - i
  BY <1>2, <1>3, Lengths
<1>5. ASSUME NEW k \in 1 .. Len(sent) - i
      PROVE  (IF Carries(t[k]) THEN <<t[k]>> ELSE <<>>) = After(i)[k]
  <2>1. i + k \in 1 .. Len(sent) /\ ((i + 1) - 1) + k = i + k /\ k \in 1 .. Len(t)
    BY <1>1, <1>3
  <2>2. t[k] = sent[i + k]
    BY <1>2, <2>1
  <2>3. Carried[i + k] = IF Carries(sent[i + k]) THEN <<sent[i + k]>> ELSE <<>>
    BY <2>1, CarriedListed
  <2> QED BY <2>2, <2>3 DEF After
<1>6. [k \in DOMAIN t |-> IF Carries(t[k]) THEN <<t[k]>> ELSE <<>>]
        = [k \in 1 .. Len(sent) - i |-> After(i)[k]]
  BY <1>4, <1>5
<1> QED BY <1>6 DEF Expected, MessagesIn, Cat, t

LEMMA ReverseIs ==
    ASSUME NEW S, NEW s \in Seq(S)
    PROVE  /\ Reverse(s) \in Seq(S) /\ Len(Reverse(s)) = Len(s)
           /\ \A p \in 1 .. Len(s) : Reverse(s)[p] = s[(Len(s) - p) + 1]
<1>1. Len(s) \in Nat /\ \A p \in 1 .. Len(s) : s[p] \in S
  BY Lengths
<1>2. \A p \in 1 .. Len(s) : (Len(s) - p) + 1 \in 1 .. Len(s)
  BY <1>1
<1>3. Reverse(s) = [p \in 1 .. Len(s) |-> s[(Len(s) - p) + 1]]
  BY DEF Reverse
<1>4. [p \in 1 .. Len(s) |-> s[(Len(s) - p) + 1]] \in Seq(S)
  BY <1>1, <1>2
<1>5. Len([p \in 1 .. Len(s) |-> s[(Len(s) - p) + 1]]) = Len(s)
  BY <1>1
<1> QED BY <1>3, <1>4, <1>5

LEMMA SuffixIs ==
    ASSUME NEW S, NEW g \in Seq(S), NEW T, NEW s \in Seq(T), EndsWith(g, s)
    PROVE  IsSuffix(s, g)
<1>1. /\ Len(g) \in Nat /\ Len(s) \in Nat /\ Len(s) <= Len(g)
      /\ \A p \in 1 .. Len(s) : g[(Len(g) - Len(s)) + p] = s[p]
  BY Lengths DEF EndsWith
<1>2. /\ Reverse(s) \in Seq(T) /\ Len(Reverse(s)) = Len(s)
      /\ \A p \in 1 .. Len(s) : Reverse(s)[p] = s[(Len(s) - p) + 1]
  BY ReverseIs
<1>3. /\ Reverse(g) \in Seq(S) /\ Len(Reverse(g)) = Len(g)
      /\ \A p \in 1 .. Len(g) : Reverse(g)[p] = g[(Len(g) - p) + 1]
  BY ReverseIs
<1>4. ASSUME NEW p \in 1 .. Len(s) PROVE Reverse(s)[p] = Reverse(g)[p]
  <2>1. /\ p \in 1 .. Len(g) /\ (Len(s) - p) + 1 \in 1 .. Len(s)
        /\ (Len(g) - Len(s)) + ((Len(s) - p) + 1) = (Len(g) - p) + 1
    BY <1>1
  <2>2. g[(Len(g) - p) + 1] = s[(Len(s) - p) + 1]
    BY <1>1, <2>1
  <2> QED BY <1>2, <1>3, <2>1, <2>2
<1>5. SubSeq(Reverse(s), 1, Len(s)) = SubSeq(Reverse(g), 1, Len(s))
  <2>1. PICK a \in Seq(T) : a = Reverse(s)
    BY <1>2
  <2>2. PICK b \in Seq(S) : b = Reverse(g)
    BY <1>3
  <2>3. Len(a) = Len(s) /\ Len(b) = Len(g) /\ \A p \in 1 .. Len(s) : a[p] = b[p]
    BY <1>2, <1>3, <1>4, <2>1, <2>2
  <2>4. SubSeq(a, 1, Len(s)) = SubSeq(b, 1, Len(s))
    BY ONLY <1>1, <2>3, a \in Seq(T), b \in Seq(S)
  <2> QED BY <2>1, <2>2, <2>4
<1> QED BY <1>1, <1>2, <1>3, <1>5 DEF IsSuffix, IsPrefix

\* The damage is limited: a decoder that is at rest, and so has not crashed, has handled last
\* and in order all that was sent after the last damaged frame and the plain frames that
\* follow it, whatever it took for a message before they ended.
THEOREM RecoversAlways == Spec => []Recovers
<1>1. RecoveryInv => Recovers
  <2> SUFFICES ASSUME RecoveryInv, AtRest, NEW k \in Damaged + 1 .. Len(sent), Plain(Damaged + 1, k)
               PROVE  IsSuffix(Expected(k + 1), got)
    BY DEF Recovers
  <2>1. TypeInv /\ StreamInv /\ CutInv /\ RestInv /\ GotInv /\ RecoveredInv
    BY DEF RecoveryInv, BeastInv
  <2>2. /\ Len(sent) \in Nat
        /\ Damaged \in 0 .. Len(sent) /\ \A i \in Damaged + 1 .. Len(sent) : Harmless(i)
    BY <2>1, CarriedListed, DamagedLast
  <2>3. got \in Seq(Handed)
    BY <2>1 DEF GotInv
  <2>4. PICK i \in 1 .. Len(sent) : i = Damaged + 1
    BY <2>2
  <2>5. k \in 1 .. Len(sent) /\ k \in 0 .. Len(sent) /\ i - 1 \in 0 .. Len(sent)
    BY <2>2, <2>4
  <2>6. Turn(i, k)
    <3>1. EndOf(k) = End(sent, k) /\ EndOf(i - 1) = End(sent, i - 1)
      BY <2>1, <2>5, EndOfIs DEF TypeInv
    <3>2. PlainRun(i, k)
      BY <2>4, <3>1 DEF Plain, PlainRun
    <3>3. \A l \in k + 1 .. Len(sent) : l \in Damaged + 1 .. Len(sent)
      BY <2>2
    <3> QED BY <2>2, <3>2, <3>3 DEF Turn
  <2>7. EndsWith(got, Cat(After(k), Len(sent) - k))
    BY <2>1, <2>5, <2>6, BackInStep
  <2>8. Expected(k + 1) = Cat(After(k), Len(sent) - k)
    BY <2>1, <2>5, ExpectedAfter
  <2>9. Cat(After(k), Len(sent) - k) \in Seq(Frame)
    <3>1. Len(sent) - k \in 0 .. Len(sent) - k
      BY <2>2, <2>5
    <3> QED BY <2>1, <2>5, <3>1, AfterListed
  <2> QED BY <2>3, <2>7, <2>8, <2>9, SuffixIs
<1> QED BY <1>1, InitRecoveryInv, NextRecoveryInv, PTL DEF Spec

=============================================================================
