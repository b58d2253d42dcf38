------------------------- MODULE HttpExchangeProofs -------------------------
(***************************************************************************)
(* First, what the operators of RequestSafety compute, for any header      *)
(* fields and any limits: a length compared with its budget as text is     *)
(* compared as a number, and the fields of a request on the wire are the   *)
(* caller's and the transport's, each once.  Then the proofs about         *)
(* HttpExchange, for any requests, responses and limits: a request on the  *)
(* wire has one reading, no body exceeds what was declared or what the     *)
(* policy allows, and an exchange that is over holds no connection.        *)
(***************************************************************************)
EXTENDS HttpExchange, SequenceTheorems, WellFoundedInduction, TLAPS

-----------------------------------------------------------------------------
(* Induction *)

\* Every set of natural numbers that is not empty has a least one.
LEMMA LeastOf ==
    ASSUME NEW T, T \subseteq Nat, T # {}
    PROVE  \E n \in T : \A m \in T : n <= m
<1> DEFINE R == OpToRel(<, Nat)
<1>1. IsWellFoundedOn(R, Nat)
  BY NatLessThanWellFounded
<1>2. R = {p \in Nat \X Nat : p[1] < p[2]}
  BY DEF OpToRel
<1>3. \E x \in T : \A y \in T : ~(<<y, x>> \in R)
  <2> HIDE DEF R
  <2> QED
    BY <1>1, WFMin, Zenon
<1> HIDE DEF R
<1>4. PICK x \in T : \A y \in T : ~(<<y, x>> \in R)
  BY <1>3
<1>5. ASSUME NEW y \in T PROVE x <= y
  <2>1. x \in Nat /\ y \in Nat /\ <<y, x>> \notin R
    BY <1>4
  <2>2. ~(y < x)
    BY <1>2, <2>1
  <2> QED
    BY <2>1, <2>2
<1> QED
  BY <1>5

\* A set that has 0, and with a natural number the next, has them all.
LEMMA AllOf ==
    ASSUME NEW T, 0 \in T, \A n \in T : n \in Nat => n + 1 \in T
    PROVE  Nat \subseteq T
<1> DEFINE X == Nat \ T
<1> SUFFICES ASSUME X # {} PROVE FALSE
  OBVIOUS
<1>1. PICK n \in X : \A m \in X : n <= m
  <2>1. X \subseteq Nat
    OBVIOUS
  <2> HIDE DEF X
  <2> QED
    BY <2>1, LeastOf
<1>2. n # 0
  OBVIOUS
<1>3. n - 1 \in Nat /\ ~(n <= n - 1)
  BY <1>2
<1>4. n - 1 \in T
  BY <1>1, <1>3
<1>5. n - 1 + 1 = n
  OBVIOUS
<1>6. n \in T
  BY <1>3, <1>4, <1>5
<1> QED
  BY <1>6
-----------------------------------------------------------------------------
(* The number that a text of digits is *)

\* The numbers of the beginnings of a text, by their lengths.
IsCount(f, v) == f = [i \in 0..Len(v) |-> IF i = 0 THEN 0 ELSE 10 * f[i - 1] + v[i]]

\* There is only one way to count.
LEMMA CountUnique ==
    ASSUME NEW v \in Seq(Nat), NEW f, NEW g, IsCount(f, v), IsCount(g, v)
    PROVE  f = g
<1> DEFINE T == {k \in Nat : k <= Len(v) => f[k] = g[k]}
<1>1. 0 \in T
  BY DEF IsCount
<1>2. \A k \in T : k \in Nat => k + 1 \in T
  BY DEF IsCount
<1>3. Nat \subseteq T
  <2> HIDE DEF T
  <2> QED
    BY <1>1, <1>2, AllOf
<1>4. \A k \in 0..Len(v) : f[k] = g[k]
  BY <1>3
<1>5. /\ f = [i \in 0..Len(v) |-> f[i]]
      /\ g = [i \in 0..Len(v) |-> g[i]]
  BY DEF IsCount
<1> HIDE DEF T
<1> QED
  BY <1>4, <1>5

\* Every text of digits can be counted.
LEMMA CountExists ==
    ASSUME NEW v \in Seq(Nat)
    PROVE  \E f \in [0..Len(v) -> Nat] : IsCount(f, v)
<1> DEFINE Counts(f, k) == /\ f \in [0..k -> Nat] /\ f[0] = 0
                           /\ \A i \in 1..k : f[i] = 10 * f[i - 1] + v[i]
           T == {k \in Nat : k <= Len(v) => \E f : Counts(f, k)}
<1>1. Counts([i \in 0..0 |-> 0], 0)
  OBVIOUS
<1>2. ASSUME NEW k \in Nat, k + 1 <= Len(v), NEW f, Counts(f, k) PROVE \E g : Counts(g, k + 1)
  <2> DEFINE g == [i \in 0..(k + 1) |-> IF i <= k THEN f[i] ELSE 10 * f[k] + v[k + 1]]
  <2>1. f \in [0..k -> Nat] /\ f[0] = 0 /\ \A i \in 1..k : f[i] = 10 * f[i - 1] + v[i]
    BY <1>2
  <2>2. v[k + 1] \in Nat
    BY <1>2
  <2>3. g \in [0..(k + 1) -> Nat]
    BY <2>1, <2>2
  <2>4. g[0] = 0
    BY <2>1
  <2>5. ASSUME NEW i \in 1..(k + 1) PROVE g[i] = 10 * g[i - 1] + v[i]
    <3>1. CASE i = k + 1
      <4>1. g[i] = 10 * f[k] + v[k + 1] /\ g[i - 1] = f[k]
        BY <3>1
      <4> QED
        BY <3>1, <4>1
    <3>2. CASE i # k + 1
      <4>1. i \in 1..k /\ g[i] = f[i] /\ g[i - 1] = f[i - 1]
        BY <3>2
      <4> QED
        BY <2>1, <4>1
    <3> QED
      BY <3>1, <3>2
  <2> HIDE DEF g
  <2> QED
    BY <2>3, <2>4, <2>5
<1> HIDE DEF Counts
<1>3. Nat \subseteq T
  <2>1. 0 \in T
    BY <1>1
  <2>2. \A k \in T : k \in Nat => k + 1 \in T
    BY <1>2
  <2> HIDE DEF T
  <2> QED
    BY <2>1, <2>2, AllOf
<1>4. PICK f : Counts(f, Len(v))
  BY <1>3
<1>5. f \in [0..Len(v) -> Nat] /\ f[0] = 0 /\ \A i \in 1..Len(v) : f[i] = 10 * f[i - 1] + v[i]
  BY <1>4 DEF Counts
<1>6. IsCount(f, v)
  BY <1>5 DEF IsCount
<1> QED
  BY <1>5, <1>6

\* The number of a text is that of its longest beginning, however it is counted.
LEMMA NumberIsCount ==
    ASSUME NEW v \in Seq(Nat), NEW f, IsCount(f, v)
    PROVE  Number(v) = f[Len(v)] /\ f \in [0..Len(v) -> Nat]
<1> DEFINE number == CHOOSE g : IsCount(g, v)
<1>1. IsCount(number, v)
  OBVIOUS
<1>2. number = f
  BY <1>1, CountUnique
<1>3. Number(v) = number[Len(v)]
  BY DEF Number, IsCount
<1>4. f \in [0..Len(v) -> Nat]
  BY CountExists, CountUnique
<1> QED
  BY <1>2, <1>3, <1>4

\* A digit is a number below ten.
LEMMA DigitsAre ==
    ASSUME NEW v \in Seq(Digits)
    PROVE  Len(v) \in Nat /\ \A i \in 1..Len(v) : v[i] \in 0..9
<1> DEFINE D == 0..9
<1>1. v \in Seq(D)
  BY DEF Digits
<1> HIDE DEF D
<1>2. Len(v) \in Nat /\ \A i \in 1..Len(v) : v[i] \in D
  BY <1>1
<1> QED
  BY <1>2 DEF D

\* The steps of a count.
LEMMA Counting ==
    ASSUME NEW v \in Seq(Digits)
    PROVE  \E f \in [0..Len(v) -> Nat] :
               /\ f[0] = 0 /\ Number(v) = f[Len(v)]
               /\ \A k \in Nat : k + 1 <= Len(v) =>
                      /\ f[k + 1] = 10 * f[k] + v[k + 1]
                      /\ f[k] \in Nat /\ f[k + 1] \in Nat /\ v[k + 1] \in 0..9
<1>1. v \in Seq(Nat)
  BY DEF Digits
<1>2. PICK f \in [0..Len(v) -> Nat] : IsCount(f, v)
  BY <1>1, CountExists
<1>3. Number(v) = f[Len(v)]
  BY <1>1, <1>2, NumberIsCount
<1>4. Len(v) \in Nat /\ \A i \in 1..Len(v) : v[i] \in 0..9
  BY DigitsAre
<1>5. ASSUME NEW k \in Nat, k + 1 <= Len(v)
      PROVE  /\ f[k + 1] = 10 * f[k] + v[k + 1]
             /\ f[k] \in Nat /\ f[k + 1] \in Nat /\ v[k + 1] \in 0..9
  <2>1. k \in 0..Len(v) /\ k + 1 \in 1..Len(v) /\ k + 1 - 1 = k
    BY <1>4, <1>5
  <2>2. f[k + 1] = 10 * f[k + 1 - 1] + v[k + 1]
    BY <1>2, <2>1 DEF IsCount
  <2> QED
    BY <1>4, <2>1, <2>2
<1>6. f[0] = 0
  BY <1>2, <1>4 DEF IsCount
<1> QED
  BY <1>3, <1>5, <1>6

\* What a further digit makes of the order of two numbers.
LEMMA Shifted ==
    ASSUME NEW m \in Nat, NEW n \in Nat, NEW x \in 0..9, NEW y \in 0..9,
           m > n \/ (m = n /\ x > y)
    PROVE  10 * m + x > 10 * n + y
  OBVIOUS

\* A text that does not begin with a zero is a greater number than any shorter one.
LEMMA LongerIsMore ==
    ASSUME NEW a \in Seq(Digits), NEW b \in Seq(Digits), Len(a) > Len(b), a[1] # 0
    PROVE  Number(a) > Number(b)
<1>1. PICK f \in [0..Len(a) -> Nat] :
          /\ f[0] = 0 /\ Number(a) = f[Len(a)]
          /\ \A k \in Nat : k + 1 <= Len(a) =>
                 /\ f[k + 1] = 10 * f[k] + a[k + 1]
                 /\ f[k] \in Nat /\ f[k + 1] \in Nat /\ a[k + 1] \in 0..9
  BY Counting
<1>2. PICK g \in [0..Len(b) -> Nat] :
          /\ g[0] = 0 /\ Number(b) = g[Len(b)]
          /\ \A k \in Nat : k + 1 <= Len(b) =>
                 /\ g[k + 1] = 10 * g[k] + b[k + 1]
                 /\ g[k] \in Nat /\ g[k + 1] \in Nat /\ b[k + 1] \in 0..9
  BY Counting
<1>3. Len(a) \in Nat /\ Len(b) \in Nat
  OBVIOUS
<1>4. \A k \in Nat : k + 1 <= Len(a) => f[k + 1] > 0
  <2> DEFINE T == {k \in Nat : k + 1 <= Len(a) => f[k + 1] > 0}
  <2>1. 0 \in T
    <3>1. f[0 + 1] = 10 * f[0] + a[0 + 1] /\ a[0 + 1] \in 0..9
      BY <1>1, <1>3
    <3> QED
      BY <1>1, <3>1
  <2>2. ASSUME NEW k \in Nat, k \in T PROVE k + 1 \in T
    <3> SUFFICES ASSUME k + 1 + 1 <= Len(a) PROVE f[k + 1 + 1] > 0
      OBVIOUS
    <3>1. k + 1 \in Nat /\ k + 1 <= Len(a)
      BY <1>3
    <3>2. f[k + 1 + 1] = 10 * f[k + 1] + a[k + 1 + 1] /\ a[k + 1 + 1] \in 0..9 /\ f[k + 1] \in Nat
      BY <1>1, <3>1
    <3>3. f[k + 1] > 0
      BY <2>2, <3>1
    <3> QED
      BY <3>2, <3>3
  <2>3. Nat \subseteq T
    <3> HIDE DEF T
    <3> QED
      BY <2>1, <2>2, AllOf
  <2> QED
    BY <2>3
<1>5. PICK e \in Nat : Len(a) = Len(b) + e + 1
  <2> DEFINE e0 == Len(a) - Len(b) - 1
  <2>1. e0 \in Nat /\ Len(a) = Len(b) + e0 + 1
    BY <1>3
  <2> HIDE DEF e0
  <2> QED
    BY <2>1
<1> DEFINE T == {k \in Nat : k <= Len(b) => g[k] < f[k + e + 1]}
<1>6. 0 \in T
  <2>1. f[e + 1] > 0
    BY <1>3, <1>4, <1>5
  <2> QED
    BY <1>2, <2>1
<1>7. ASSUME NEW k \in Nat, k \in T PROVE k + 1 \in T
  <2> SUFFICES ASSUME k + 1 <= Len(b) PROVE g[k + 1] < f[k + 1 + e + 1]
    OBVIOUS
  <2>1. /\ g[k + 1] = 10 * g[k] + b[k + 1]
        /\ g[k] \in Nat /\ b[k + 1] \in 0..9
    BY <1>2
  <2>2. k + e + 1 \in Nat /\ k + e + 1 + 1 <= Len(a) /\ k <= Len(b)
    BY <1>3, <1>5
  <2>3. /\ f[k + e + 1 + 1] = 10 * f[k + e + 1] + a[k + e + 1 + 1]
        /\ f[k + e + 1] \in Nat /\ a[k + e + 1 + 1] \in 0..9
    BY <1>1, <2>2
  <2>4. g[k] < f[k + e + 1]
    BY <1>7, <2>2
  <2>5. k + 1 + e + 1 = k + e + 1 + 1
    OBVIOUS
  <2> HIDE DEF T
  <2>6. 10 * f[k + e + 1] + a[k + e + 1 + 1] > 10 * g[k] + b[k + 1]
    BY <2>1, <2>3, <2>4, Shifted
  <2>7. f[k + e + 1 + 1] > g[k + 1]
    BY <2>1, <2>3, <2>6
  <2>8. f[k + e + 1 + 1] \in Nat /\ g[k + 1] \in Nat
    BY <1>1, <1>2, <2>2
  <2> QED
    BY <2>5, <2>7, <2>8
<1>8. Nat \subseteq T
  <2> HIDE DEF T
  <2> QED
    BY <1>6, <1>7, AllOf
<1>9. g[Len(b)] < f[Len(b) + e + 1]
  BY <1>3, <1>8
<1> QED
  BY <1>1, <1>2, <1>5, <1>9

\* Of two texts of one length, the one that is above is the greater number.
LEMMA AboveIsMore ==
    ASSUME NEW a \in Seq(Digits), NEW b \in Seq(Digits), Len(a) = Len(b), Above(a, b)
    PROVE  Number(a) > Number(b)
<1>1. PICK f \in [0..Len(a) -> Nat] :
          /\ f[0] = 0 /\ Number(a) = f[Len(a)]
          /\ \A k \in Nat : k + 1 <= Len(a) =>
                 /\ f[k + 1] = 10 * f[k] + a[k + 1]
                 /\ f[k] \in Nat /\ f[k + 1] \in Nat /\ a[k + 1] \in 0..9
  BY Counting
<1>2. PICK g \in [0..Len(b) -> Nat] :
          /\ g[0] = 0 /\ Number(b) = g[Len(b)]
          /\ \A k \in Nat : k + 1 <= Len(b) =>
                 /\ g[k + 1] = 10 * g[k] + b[k + 1]
                 /\ g[k] \in Nat /\ g[k + 1] \in Nat /\ b[k + 1] \in 0..9
  BY Counting
<1>3. Len(a) \in Nat
  OBVIOUS
<1>4. PICK i \in 1..Len(a) : a[i] > b[i] /\ \A j \in 1..i - 1 : a[j] = b[j]
  BY DEF Above
<1> DEFINE T == {k \in Nat : k <= Len(a) => IF k < i THEN f[k] = g[k] ELSE f[k] > g[k]}
<1>5. 0 \in T
  BY <1>1, <1>2
<1>6. ASSUME NEW k \in Nat, k \in T PROVE k + 1 \in T
  <2> SUFFICES ASSUME k + 1 <= Len(a)
               PROVE  IF k + 1 < i THEN f[k + 1] = g[k + 1] ELSE f[k + 1] > g[k + 1]
    OBVIOUS
  <2>1. /\ f[k + 1] = 10 * f[k] + a[k + 1] /\ f[k] \in Nat /\ a[k + 1] \in 0..9
        /\ g[k + 1] = 10 * g[k] + b[k + 1] /\ g[k] \in Nat /\ b[k + 1] \in 0..9
    BY <1>1, <1>2
  <2>2. IF k < i THEN f[k] = g[k] ELSE f[k] > g[k]
    BY <1>3, <1>6
  <2> HIDE DEF T
  <2>3. CASE k + 1 < i
    <3>1. k + 1 \in 1..i - 1 /\ k < i
      BY <2>3
    <3>2. a[k + 1] = b[k + 1]
      BY <1>4, <3>1
    <3> QED
      BY <2>1, <2>2, <2>3, <3>1, <3>2
  <2>4. CASE k + 1 = i
    <3>1. k < i /\ f[k] = g[k] /\ a[k + 1] > b[k + 1]
      BY <1>4, <2>2, <2>4
    <3>2. 10 * f[k] + a[k + 1] > 10 * g[k] + b[k + 1]
      BY <2>1, <3>1, Shifted
    <3> QED
      BY <2>1, <2>4, <3>2
  <2>5. CASE k + 1 > i
    <3>1. f[k] > g[k]
      BY <2>2, <2>5
    <3>2. 10 * f[k] + a[k + 1] > 10 * g[k] + b[k + 1]
      BY <2>1, <3>1, Shifted
    <3> QED
      BY <2>1, <2>5, <3>2
  <2> QED
    BY <2>3, <2>4, <2>5
<1>7. Nat \subseteq T
  <2> HIDE DEF T
  <2> QED
    BY <1>5, <1>6, AllOf
<1>8. f[Len(a)] > g[Len(a)]
  BY <1>3, <1>7
<1> QED
  BY <1>1, <1>2, <1>8

\* Of two different texts of one length, one is above the other.
LEMMA AboveIsTotal ==
    ASSUME NEW a \in Seq(Digits), NEW b \in Seq(Digits), Len(a) = Len(b), a # b
    PROVE  Above(a, b) \/ Above(b, a)
<1> DEFINE T == {i \in 1..Len(a) : a[i] # b[i]}
<1>1. PICK i \in T : \A j \in T : i <= j
  <2>1. T # {}
    BY SeqEqual
  <2>2. T \subseteq Nat
    OBVIOUS
  <2> HIDE DEF T
  <2> QED
    BY <2>1, <2>2, LeastOf
<1>2. \A j \in 1..i - 1 : a[j] = b[j]
  BY <1>1
<1>3. a[i] \in Nat /\ b[i] \in Nat /\ a[i] # b[i]
  BY DigitsAre
<1>4. i \in DOMAIN a /\ i \in DOMAIN b
  OBVIOUS
<1> HIDE DEF T
<1> QED
  BY <1>2, <1>3, <1>4 DEF Above

\* The number of a text with one more digit.
LEMMA NumberOfAppend ==
    ASSUME NEW v \in Seq(Digits), NEW x \in Digits
    PROVE  Number(Append(v, x)) = 10 * Number(v) + x
<1> DEFINE w == Append(v, x)
<1>1. /\ v \in Seq(Nat) /\ w \in Seq(Nat) /\ Len(v) \in Nat /\ Len(w) = Len(v) + 1
      /\ w[Len(v) + 1] = x /\ \A i \in 1..Len(v) : w[i] = v[i]
  BY DEF Digits
<1>2. PICK f \in [0..Len(v) -> Nat] : IsCount(f, v)
  BY <1>1, CountExists
<1> DEFINE g == [i \in 0..(Len(v) + 1) |-> IF i <= Len(v) THEN f[i] ELSE 10 * f[Len(v)] + x]
<1>3. ASSUME NEW i \in 0..(Len(v) + 1)
      PROVE  g[i] = IF i = 0 THEN 0 ELSE 10 * g[i - 1] + w[i]
  <2>1. CASE i = 0
    <3>1. f[0] = 0 /\ g[0] = f[0]
      BY <1>1, <1>2 DEF IsCount
    <3> QED
      BY <2>1, <3>1
  <2>2. CASE i \in 1..Len(v)
    <3>1. f[i] = 10 * f[i - 1] + v[i] /\ w[i] = v[i]
      <4>1. i \in 0..Len(v) /\ i # 0
        BY <1>1, <2>2
      <4>2. w[i] = v[i]
        BY <1>1, <2>2
      <4> HIDE DEF w
      <4> QED
        BY <1>2, <4>1, <4>2 DEF IsCount
    <3>2. g[i] = f[i] /\ g[i - 1] = f[i - 1]
      BY <1>1, <2>2
    <3> QED
      BY <2>2, <3>1, <3>2
  <2>3. CASE i = Len(v) + 1
    <3>1. g[i] = 10 * f[Len(v)] + x /\ g[i - 1] = f[Len(v)] /\ w[i] = x /\ i # 0
      BY <1>1, <2>3
    <3> QED
      BY <3>1
  <2> QED
    BY <1>1, <2>1, <2>2, <2>3
<1>4. g[Len(v) + 1] = 10 * f[Len(v)] + x
  BY <1>1
<1>5. g = [i \in 0..Len(w) |-> g[i]]
  BY <1>1
<1> HIDE DEF g, w
<1>6. IsCount(g, w)
  BY <1>1, <1>3, <1>5 DEF IsCount
<1>7. Number(w) = g[Len(w)] /\ Number(v) = f[Len(v)]
  BY <1>1, <1>2, <1>6, NumberIsCount
<1> QED
  BY <1>1, <1>4, <1>7 DEF w
-----------------------------------------------------------------------------
(* The text of a number *)

IsText(f, n) == f = [k \in 0..n |-> IF k < 10 THEN <<k>> ELSE Append(f[k \div 10], k % 10)]

\* Dividing by ten.
LEMMA Tenth ==
    ASSUME NEW k \in Nat
    PROVE  /\ k \div 10 \in Nat /\ k % 10 \in 0..9 /\ k = 10 * (k \div 10) + (k % 10)
           /\ k >= 10 => k \div 10 < k /\ k \div 10 > 0
  OBVIOUS

\* Every number has a text.
LEMMA TextExists == \A n \in Nat : \E f : IsText(f, n)
<1> DEFINE T == {n \in Nat : \E f : IsText(f, n)}
<1>1. \E f : IsText(f, 0)
  <2> DEFINE f == [k \in 0..0 |-> <<k>>]
  <2>1. f = [k \in 0..0 |-> IF k < 10 THEN <<k>> ELSE Append(f[k \div 10], k % 10)]
    OBVIOUS
  <2> HIDE DEF f
  <2> QED
    BY <2>1 DEF IsText
<1>2. ASSUME NEW n \in Nat, NEW f, IsText(f, n) PROVE \E g : IsText(g, n + 1)
  <2> DEFINE Next1(h, k) == IF k < 10 THEN <<k>> ELSE Append(h[k \div 10], k % 10)
             g == [k \in 0..(n + 1) |-> IF k <= n THEN f[k] ELSE Next1(f, n + 1)]
  <2>1. \A k \in 0..n : f[k] = Next1(f, k)
    BY <1>2 DEF IsText
  <2>2. \A k \in 0..n : g[k] = f[k]
    OBVIOUS
  <2>3. \A k \in 0..(n + 1) : k >= 10 => k \div 10 \in 0..n /\ g[k \div 10] = f[k \div 10]
    BY <2>2, Tenth
  <2>4. g[n + 1] = Next1(f, n + 1)
    OBVIOUS
  <2>5. g = [k \in 0..(n + 1) |-> g[k]]
    OBVIOUS
  <2> HIDE DEF g
  <2>6. \A k \in 0..(n + 1) : g[k] = Next1(g, k)
    <3> SUFFICES ASSUME NEW k \in 0..(n + 1) PROVE g[k] = Next1(g, k)
      OBVIOUS
    <3>1. g[k] = Next1(f, k)
      <4>1. CASE k \in 0..n
        BY <2>1, <2>2, <4>1
      <4>2. CASE k = n + 1
        BY <2>4, <4>2
      <4> QED
        BY <4>1, <4>2
    <3>2. k >= 10 => g[k \div 10] = f[k \div 10]
      BY <2>3
    <3> QED
      BY <3>1, <3>2
  <2>7. g = [k \in 0..(n + 1) |-> Next1(g, k)]
    BY <2>5, <2>6
  <2> QED
    BY <2>7 DEF IsText
<1>3. 0 \in T
  BY <1>1
<1>4. \A n \in T : n \in Nat => n + 1 \in T
  BY <1>2
<1>5. Nat \subseteq T
  <2> HIDE DEF T
  <2> QED
    BY <1>3, <1>4, AllOf
<1> QED
  BY <1>5

\* The text of a number is one of digits, does not begin with a zero, and its
\* number is the number.
LEMMA TextOfNumber ==
    ASSUME NEW n \in Nat \ {0}
    PROVE  /\ Decimal(n) \in Seq(Digits) /\ Decimal(n) # <<>> /\ Decimal(n)[1] # 0
           /\ Number(Decimal(n)) = n
<1> DEFINE text == CHOOSE f : IsText(f, n)
           Good(k) == /\ text[k] \in Seq(Digits) /\ text[k] # <<>> /\ text[k][1] # 0
                      /\ Number(text[k]) = k
           T == {k \in 1..n : ~Good(k)}
<1>1. IsText(text, n)
  BY TextExists
<1>2. Decimal(n) = text[n]
  BY DEF Decimal, IsText
<1> HIDE DEF text
<1>3. ASSUME NEW k \in 1..n, \A j \in 1..n : j < k => Good(j) PROVE Good(k)
  <2>1. CASE k < 10
    <3>1. text[k] = <<k>>
      BY <1>1, <2>1 DEF IsText
    <3>2. k \in Digits /\ <<>> \in Seq(Digits) /\ <<k>> = Append(<<>>, k)
      BY <2>1 DEF Digits
    <3>3. <<k>> \in Seq(Digits) /\ <<k>> # <<>> /\ <<k>>[1] # 0
      BY <3>2
    <3>4. Number(<<k>>) = 10 * Number(<<>>) + k
      BY <3>2, NumberOfAppend
    <3>5. Number(<<>>) = 0
      <4>1. PICK f : f[0] = 0 /\ Number(<<>>) = f[Len(<<>>)]
        BY <3>2, Counting
      <4> QED
        BY <4>1
    <3> QED
      BY <3>1, <3>3, <3>4, <3>5
  <2>2. CASE k >= 10
    <3> DEFINE j == k \div 10
               x == k % 10
    <3>1. j \in Nat /\ x \in 0..9 /\ k = 10 * j + x /\ j < k /\ j > 0
      BY <2>2, Tenth
    <3>2. text[k] = Append(text[j], x)
      <4>1. k \in 0..n /\ ~(k < 10)
        BY <2>2
      <4> HIDE DEF j, x
      <4>2. text[k] = IF k < 10 THEN <<k>> ELSE Append(text[k \div 10], k % 10)
        BY <1>1, <4>1 DEF IsText
      <4> QED
        BY <4>1, <4>2 DEF j, x
    <3> HIDE DEF j, x
    <3>3. j \in 1..n /\ x \in Digits
      BY <3>1 DEF Digits
    <3>4. Good(j)
      BY <1>3, <3>1, <3>3
    <3>5. Number(text[k]) = 10 * j + x
      BY <3>2, <3>3, <3>4, NumberOfAppend
    <3>6. text[k] \in Seq(Digits) /\ text[k] # <<>> /\ text[k][1] # 0
      BY <3>2, <3>3, <3>4
    <3> QED
      BY <3>1, <3>5, <3>6
  <2> QED
    BY <2>1, <2>2
<1> HIDE DEF Good
<1>4. T = {}
  <2> SUFFICES ASSUME T # {} PROVE FALSE
    OBVIOUS
  <2>1. T \subseteq Nat
    OBVIOUS
  <2>2. PICK k \in T : \A j \in T : k <= j
    <3> HIDE DEF T
    <3> QED
      BY <2>1, LeastOf
  <2>3. \A j \in 1..n : j < k => Good(j)
    BY <2>2
  <2> QED
    BY <1>3, <2>3
<1>5. Good(n)
  BY <1>4
<1> QED
  BY <1>2, <1>5 DEF Good
-----------------------------------------------------------------------------
(* Comparing texts *)

\* The text of nothing is zero.
LEMMA NumberOfEmpty == <<>> \in Seq(Digits) /\ Number(<<>>) = 0
<1>1. <<>> \in Seq(Digits)
  OBVIOUS
<1>2. PICK f : f[0] = 0 /\ Number(<<>>) = f[Len(<<>>)]
  BY <1>1, Counting
<1> QED
  BY <1>1, <1>2

\* What is left when the leading zeros are dropped is the same number, and does
\* not begin with a zero.
LEMMA SignificantPart ==
    ASSUME NEW v \in Seq(Digits)
    PROVE  /\ Significant(v) \in Seq(Digits) /\ Number(Significant(v)) = Number(v)
           /\ Significant(v) # <<>> => Significant(v)[1] # 0
<1>1. PICK f \in [0..Len(v) -> Nat] :
          /\ f[0] = 0 /\ Number(v) = f[Len(v)]
          /\ \A k \in Nat : k + 1 <= Len(v) =>
                 /\ f[k + 1] = 10 * f[k] + v[k + 1]
                 /\ f[k] \in Nat /\ f[k + 1] \in Nat /\ v[k + 1] \in 0..9
  BY Counting
<1>2. Len(v) \in Nat /\ \A i \in 1..Len(v) : v[i] \in 0..9
  BY DigitsAre
<1>3. ASSUME NEW m \in 0..Len(v), \A i \in 1..m : v[i] = 0 PROVE f[m] = 0
  <2> DEFINE T == {k \in Nat : k <= m => f[k] = 0}
  <2>1. 0 \in T
    BY <1>1
  <2>2. ASSUME NEW k \in Nat, k \in T PROVE k + 1 \in T
    <3> SUFFICES ASSUME k + 1 <= m PROVE f[k + 1] = 0
      OBVIOUS
    <3>1. k + 1 <= Len(v) /\ k + 1 \in 1..m /\ k <= m
      BY <1>2
    <3>2. f[k + 1] = 10 * f[k] + v[k + 1] /\ v[k + 1] = 0 /\ f[k] = 0
      BY <1>1, <1>3, <2>2, <3>1
    <3> QED
      BY <3>2
  <2>3. Nat \subseteq T
    <3> HIDE DEF T
    <3> QED
      BY <2>1, <2>2, AllOf
  <2> QED
    BY <1>2, <2>3
<1>4. CASE \A i \in DOMAIN v : v[i] = 0
  <2>1. Significant(v) = <<>>
    BY <1>4 DEF Significant
  <2>2. f[Len(v)] = 0
    BY <1>2, <1>3, <1>4
  <2> QED
    BY <1>1, <2>1, <2>2, NumberOfEmpty
<1>5. CASE \E i \in DOMAIN v : v[i] # 0
  <2> DEFINE First(i) == v[i] # 0 /\ \A j \in 1..i - 1 : v[j] = 0
             p == CHOOSE i \in DOMAIN v : First(i)
             s == SubSeq(v, p, Len(v))
  <2>1. p \in DOMAIN v /\ First(p)
    <3> DEFINE T == {i \in DOMAIN v : v[i] # 0}
    <3>1. T \subseteq Nat /\ T # {}
      BY <1>5
    <3>2. PICK i \in T : \A j \in T : i <= j
      <4> HIDE DEF T
      <4> QED
        BY <3>1, LeastOf
    <3>3. First(i)
      BY <1>2, <3>2
    <3> HIDE DEF First
    <3> QED
      BY <3>3
  <2>2. Significant(v) = s
    BY <1>5 DEF Significant
  <2> HIDE DEF p
  <2>3. p \in 1..Len(v)
    BY <2>1
  <2>4. /\ s \in Seq(Digits) /\ Len(s) = Len(v) - p + 1
        /\ \A i \in 1..Len(s) : s[i] = v[p + i - 1]
    BY <1>2, <2>3, SubSeqProperties
  <2> HIDE DEF s
  <2>5. PICK g \in [0..Len(s) -> Nat] :
            /\ g[0] = 0 /\ Number(s) = g[Len(s)]
            /\ \A k \in Nat : k + 1 <= Len(s) =>
                   /\ g[k + 1] = 10 * g[k] + s[k + 1]
                   /\ g[k] \in Nat /\ g[k + 1] \in Nat /\ s[k + 1] \in 0..9
    BY <2>4, Counting
  <2>6. PICK q \in Nat : p = q + 1
    <3>1. p - 1 \in Nat /\ p = (p - 1) + 1
      BY <2>3
    <3> QED
      BY <3>1
  <2>7. f[q] = 0
    <3>1. q \in 0..Len(v) /\ \A i \in 1..q : i \in 1..p - 1
      BY <1>2, <2>3, <2>6
    <3> QED
      BY <1>3, <2>1, <3>1
  <2> DEFINE T == {k \in Nat : k <= Len(s) => g[k] = f[q + k]}
  <2>8. 0 \in T
    BY <2>5, <2>7
  <2>9. ASSUME NEW k \in Nat, k \in T PROVE k + 1 \in T
    <3> SUFFICES ASSUME k + 1 <= Len(s) PROVE g[k + 1] = f[q + (k + 1)]
      OBVIOUS
    <3>1. /\ k + 1 \in 1..Len(s) /\ k <= Len(s) /\ q + k \in Nat /\ q + k + 1 <= Len(v)
          /\ p + (k + 1) - 1 = q + k + 1 /\ q + (k + 1) = q + k + 1
      BY <1>2, <2>3, <2>4, <2>6
    <3>2. g[k] = f[q + k]
      BY <2>9, <3>1
    <3>3. g[k + 1] = 10 * g[k] + s[k + 1] /\ s[k + 1] = v[q + k + 1]
      BY <2>4, <2>5, <3>1
    <3>4. f[q + k + 1] = 10 * f[q + k] + v[q + k + 1]
      BY <1>1, <3>1
    <3> QED
      BY <3>1, <3>2, <3>3, <3>4
  <2>10. Nat \subseteq T
    <3> HIDE DEF T
    <3> QED
      BY <2>8, <2>9, AllOf
  <2>11. Len(s) \in Nat /\ q + Len(s) = Len(v)
    BY <1>2, <2>3, <2>4, <2>6
  <2>12. g[Len(s)] = f[Len(v)]
    <3>1. g[Len(s)] = f[q + Len(s)]
      BY <2>10, <2>11
    <3> QED
      BY <2>11, <3>1
  <2>13. s[1] # 0
    <3>1. 1 \in 1..Len(s) /\ p + 1 - 1 = p
      BY <1>2, <2>3, <2>4
    <3> QED
      BY <2>1, <2>4, <3>1
  <2> QED
    BY <1>1, <2>2, <2>4, <2>5, <2>12, <2>13
<1> QED
  BY <1>4, <1>5

\* A declared length of any number of digits, leading zeros included, is found
\* to exceed a budget by comparing it as text exactly if the number exceeds it:
\* nothing is let through for its spelling, nor anything refused for it.
THEOREM ComparedAsNumbers ==
    ASSUME NEW value \in Seq(Digits), NEW budget \in Nat \ {0}
    PROVE  ExceedsAsText(value, budget) <=> Number(value) > budget
<1> DEFINE v == Significant(value)
           w == Decimal(budget)
<1>1. /\ v \in Seq(Digits) /\ Number(v) = Number(value)
      /\ v # <<>> => v[1] # 0
  BY SignificantPart
<1>2. w \in Seq(Digits) /\ w # <<>> /\ w[1] # 0 /\ Number(w) = budget
  BY TextOfNumber
<1>3. ExceedsAsText(value, budget) <=> Len(v) > Len(w) \/ (Len(v) = Len(w) /\ Above(v, w))
  BY DEF ExceedsAsText
<1> HIDE DEF v, w
<1>4. Len(v) \in Nat /\ Len(w) \in Nat /\ Number(v) \in Nat
  <2>1. PICK f \in [0..Len(v) -> Nat] : Number(v) = f[Len(v)]
    BY <1>1, Counting
  <2>2. Len(v) \in Nat /\ Len(w) \in Nat
    BY <1>1, <1>2
  <2> QED
    BY <2>1, <2>2
<1>5. CASE Len(v) > Len(w)
  <2>1. v # <<>>
    BY <1>4, <1>5
  <2>2. Number(v) > Number(w)
    BY <1>1, <1>2, <1>5, <2>1, LongerIsMore
  <2> QED
    BY <1>1, <1>2, <1>3, <1>5, <2>2
<1>6. CASE Len(v) < Len(w)
  <2>1. Number(w) > Number(v)
    <3>1. Len(w) > Len(v)
      BY <1>4, <1>6
    <3> QED
      BY <1>1, <1>2, <3>1, LongerIsMore
  <2>2. ~(Number(v) > budget) /\ ~(Len(v) > Len(w)) /\ Len(v) # Len(w)
    BY <1>2, <1>4, <1>6, <2>1
  <2> QED
    BY <1>1, <1>3, <2>2
<1>7. CASE Len(v) = Len(w)
  <2>1. Above(v, w) => Number(v) > budget
    BY <1>1, <1>2, <1>7, AboveIsMore
  <2>2. Above(w, v) => budget > Number(v)
    BY <1>1, <1>2, <1>7, AboveIsMore
  <2>3. v = w => ~(Number(v) > budget)
    BY <1>2, <1>4
  <2>4. v = w \/ Above(v, w) \/ Above(w, v)
    BY <1>1, <1>2, <1>7, AboveIsTotal
  <2>5. ~Above(v, w) => ~(Number(v) > budget)
    BY <1>4, <2>2, <2>3, <2>4
  <2>6. ~(Len(v) > Len(w))
    BY <1>4, <1>7
  <2> QED
    BY <1>1, <1>3, <1>7, <2>1, <2>5, <2>6
<1> QED
  BY <1>4, <1>5, <1>6, <1>7
-----------------------------------------------------------------------------
(* The fields of some names *)

\* The fields among the beginnings of a sequence of headers.
IsPick(f, h, names) ==
    f = [i \in 0..Len(h) |-> IF i = 0 THEN <<>>
                             ELSE IF h[i].name \in names THEN Append(f[i - 1], h[i])
                             ELSE f[i - 1]]

\* There is only one way to pick.
LEMMA PickUnique ==
    ASSUME NEW S, NEW h \in Seq(S), NEW names, NEW f, NEW g,
           IsPick(f, h, names), IsPick(g, h, names)
    PROVE  f = g
<1> DEFINE T == {k \in Nat : k <= Len(h) => f[k] = g[k]}
<1>1. 0 \in T
  BY DEF IsPick
<1>2. \A k \in T : k \in Nat => k + 1 \in T
  <2> SUFFICES ASSUME NEW k \in Nat, k \in T, k + 1 <= Len(h) PROVE f[k + 1] = g[k + 1]
    OBVIOUS
  <2>1. k + 1 \in 0..Len(h) /\ k + 1 # 0 /\ k + 1 - 1 = k /\ f[k] = g[k]
    OBVIOUS
  <2>2. ASSUME NEW p, IsPick(p, h, names)
        PROVE  p[k + 1] = IF h[k + 1].name \in names THEN Append(p[k], h[k + 1]) ELSE p[k]
    <3>1. \A i \in 0..Len(h) : p[i] = IF i = 0 THEN <<>>
                                     ELSE IF h[i].name \in names THEN Append(p[i - 1], h[i])
                                     ELSE p[i - 1]
      BY <2>2, Zenon DEF IsPick
    <3> QED
      BY <2>1, <3>1
  <2> HIDE DEF T
  <2>3. f[k + 1] = IF h[k + 1].name \in names THEN Append(f[k], h[k + 1]) ELSE f[k]
    BY <2>2
  <2>4. g[k + 1] = IF h[k + 1].name \in names THEN Append(g[k], h[k + 1]) ELSE g[k]
    BY <2>2
  <2> QED
    BY <2>1, <2>3, <2>4
<1>3. Nat \subseteq T
  <2> HIDE DEF T
  <2> QED
    BY <1>1, <1>2, AllOf
<1>4. \A k \in 0..Len(h) : f[k] = g[k]
  BY <1>3
<1>5. f = [i \in 0..Len(h) |-> f[i]] /\ g = [i \in 0..Len(h) |-> g[i]]
  BY DEF IsPick
<1> HIDE DEF T
<1> QED
  BY <1>4, <1>5

\* The next step of picking.
LEMMA PickMore ==
    ASSUME NEW S, NEW h \in Seq(S), NEW x \in S, NEW names,
           NEW f \in [0..Len(h) -> Seq(S)], IsPick(f, h, names)
    PROVE  \E g \in [0..(Len(h) + 1) -> Seq(S)] :
               /\ IsPick(g, Append(h, x), names)
               /\ g[Len(h) + 1] = IF x.name \in names THEN Append(f[Len(h)], x) ELSE f[Len(h)]
<1> DEFINE w == Append(h, x)
           last == IF x.name \in names THEN Append(f[Len(h)], x) ELSE f[Len(h)]
           g == [i \in 0..(Len(h) + 1) |-> IF i <= Len(h) THEN f[i] ELSE last]
<1>1. /\ Len(h) \in Nat /\ Len(w) = Len(h) + 1 /\ w[Len(h) + 1] = x
      /\ \A i \in 1..Len(h) : w[i] = h[i]
  OBVIOUS
<1>2. last \in Seq(S)
  BY <1>1
<1>3. /\ \A i \in 0..Len(h) : g[i] = f[i]
      /\ g[Len(h) + 1] = last
  BY <1>1
<1>4. g \in [0..(Len(h) + 1) -> Seq(S)]
  <2> HIDE DEF last
  <2> QED
    BY <1>1, <1>2
<1>5. g = [i \in 0..(Len(h) + 1) |-> g[i]]
  OBVIOUS
<1> HIDE DEF g, w
<1>6. ASSUME NEW i \in 0..(Len(h) + 1)
      PROVE  g[i] = IF i = 0 THEN <<>>
                    ELSE IF w[i].name \in names THEN Append(g[i - 1], w[i]) ELSE g[i - 1]
  <2>1. CASE i \in 0..Len(h)
    <3>1. f[i] = IF i = 0 THEN <<>>
                 ELSE IF h[i].name \in names THEN Append(f[i - 1], h[i]) ELSE f[i - 1]
      BY <2>1 DEF IsPick
    <3>2. g[i] = f[i] /\ (i # 0 => g[i - 1] = f[i - 1] /\ w[i] = h[i])
      BY <1>1, <1>3, <2>1
    <3> QED
      BY <3>1, <3>2
  <2>2. CASE i = Len(h) + 1
    <3>1. i # 0 /\ g[i - 1] = f[Len(h)] /\ w[i] = x /\ g[i] = last
      BY <1>1, <1>3, <2>2
    <3> QED
      BY <3>1
  <2> QED
    BY <1>1, <2>1, <2>2
<1>7. IsPick(g, w, names)
  BY <1>1, <1>5, <1>6 DEF IsPick
<1> QED
  BY <1>3, <1>4, <1>7 DEF w

\* Nothing is picked of nothing.
LEMMA NamedOfEmpty ==
    ASSUME NEW names
    PROVE  /\ Named(<<>>, names) = <<>>
           /\ \E f \in [0..Len(<<>>) -> {<<>>}] : IsPick(f, <<>>, names)
<1> DEFINE g == [i \in 0..0 |-> <<>>]
           picks == CHOOSE f : IsPick(f, <<>>, names)
<1>0. <<>> \in Seq({}) /\ Len(<<>>) = 0
  OBVIOUS
<1>1. IsPick(g, <<>>, names)
  BY <1>0 DEF IsPick
<1>2. IsPick(picks, <<>>, names)
  BY <1>1
<1>3. Named(<<>>, names) = picks[Len(<<>>)]
  BY DEF Named, IsPick
<1>4. picks = g
  BY <1>0, <1>1, <1>2, PickUnique
<1>5. g \in [0..Len(<<>>) -> {<<>>}] /\ g[Len(<<>>)] = <<>>
  BY <1>0
<1> HIDE DEF g, picks
<1> QED
  BY <1>1, <1>3, <1>4, <1>5

\* The sequences over a set are those that begin with the empty one and grow by
\* one element: what holds of it, and is kept, holds of all.
LEMMA GrownSequences ==
    ASSUME NEW S, NEW P, <<>> \in P, \A h \in P \cap Seq(S) : \A x \in S : Append(h, x) \in P
    PROVE  Seq(S) \subseteq P
<1> DEFINE T == {n \in Nat : \A h \in Seq(S) : Len(h) = n => h \in P}
<1>1. 0 \in T
  BY EmptySeq
<1>2. ASSUME NEW n \in Nat, n \in T PROVE n + 1 \in T
  <2> SUFFICES ASSUME NEW h \in Seq(S), Len(h) = n + 1 PROVE h \in P
    OBVIOUS
  <2>1. h # <<>>
    OBVIOUS
  <2>2. PICK s \in Seq(S), x \in S : h = Append(s, x)
    BY <2>1, SequenceEmptyOrAppend
  <2>3. Len(s) = n
    BY <2>2
  <2> QED
    BY <1>2, <2>2, <2>3
<1>3. Nat \subseteq T
  <2> HIDE DEF T
  <2> QED
    BY <1>1, <1>2, AllOf
<1> QED
  BY <1>3

\* Fields can be picked from every sequence of headers.
LEMMA PickExists ==
    ASSUME NEW S, NEW names, NEW h \in Seq(S)
    PROVE  \E f \in [0..Len(h) -> Seq(S)] : IsPick(f, h, names)
<1> DEFINE P == {s \in Seq(S) : \E f \in [0..Len(s) -> Seq(S)] : IsPick(f, s, names)}
<1>1. <<>> \in P
  <2>1. PICK f \in [0..Len(<<>>) -> {<<>>}] : IsPick(f, <<>>, names)
    BY NamedOfEmpty
  <2>2. <<>> \in Seq(S)
    OBVIOUS
  <2>3. f \in [0..Len(<<>>) -> Seq(S)]
    BY <2>2
  <2> QED
    BY <2>1, <2>2, <2>3
<1>2. ASSUME NEW s \in P, NEW x \in S PROVE Append(s, x) \in P
  <2>1. PICK f \in [0..Len(s) -> Seq(S)] : IsPick(f, s, names)
    OBVIOUS
  <2>2. PICK g \in [0..(Len(s) + 1) -> Seq(S)] : IsPick(g, Append(s, x), names)
    BY <2>1, PickMore
  <2>3. Append(s, x) \in Seq(S) /\ Len(Append(s, x)) = Len(s) + 1
    OBVIOUS
  <2> QED
    BY <2>2, <2>3
<1>3. Seq(S) \subseteq P
  <2> HIDE DEF P
  <2> QED
    BY <1>1, <1>2, GrownSequences
<1> QED
  BY <1>3

\* The fields of some names are those that are picked in any way.
LEMMA NamedIsPick ==
    ASSUME NEW S, NEW names, NEW h \in Seq(S), NEW f, IsPick(f, h, names)
    PROVE  Named(h, names) = f[Len(h)]
<1> DEFINE picks == CHOOSE g : IsPick(g, h, names)
<1>1. IsPick(picks, h, names)
  OBVIOUS
<1>2. Named(h, names) = picks[Len(h)]
  BY DEF Named, IsPick
<1>3. picks = f
  BY <1>1, PickUnique
<1> QED
  BY <1>2, <1>3

\* One more field.
LEMMA NamedOfAppend ==
    ASSUME NEW S, NEW names, NEW h \in Seq(S), NEW x \in S
    PROVE  /\ Named(h, names) \in Seq(S)
           /\ Named(Append(h, x), names) =
                  IF x.name \in names THEN Append(Named(h, names), x) ELSE Named(h, names)
<1>1. PICK f \in [0..Len(h) -> Seq(S)] : IsPick(f, h, names)
  BY PickExists
<1>2. PICK g \in [0..(Len(h) + 1) -> Seq(S)] :
          /\ IsPick(g, Append(h, x), names)
          /\ g[Len(h) + 1] = IF x.name \in names THEN Append(f[Len(h)], x) ELSE f[Len(h)]
  BY <1>1, PickMore
<1>3. Append(h, x) \in Seq(S) /\ Len(Append(h, x)) = Len(h) + 1 /\ Len(h) \in Nat
  OBVIOUS
<1>4. Named(h, names) = f[Len(h)]
  BY <1>1, NamedIsPick
<1>5. Named(Append(h, x), names) = g[Len(h) + 1]
  BY <1>2, <1>3, NamedIsPick
<1> QED
  BY <1>1, <1>2, <1>3, <1>4, <1>5

\* The fields picked bear the names, and are fields of the request.
LEMMA NamedFields ==
    ASSUME NEW S, NEW names, NEW h \in Seq(S)
    PROVE  Named(h, names) \in Seq({x \in S : x.name \in names})
<1> DEFINE F == {x \in S : x.name \in names}
           P == {s \in Seq(S) : Named(s, names) \in Seq(F)}
<1>1. <<>> \in P
  <2>1. Named(<<>>, names) = <<>>
    BY NamedOfEmpty
  <2>2. <<>> \in Seq(S) /\ <<>> \in Seq(F)
    BY EmptySeq
  <2> QED
    BY <2>1, <2>2
<1>2. ASSUME NEW s \in P \cap Seq(S), NEW x \in S PROVE Append(s, x) \in P
  <2>1. Named(Append(s, x), names) =
            IF x.name \in names THEN Append(Named(s, names), x) ELSE Named(s, names)
    BY NamedOfAppend
  <2>2. x.name \in names => x \in F
    OBVIOUS
  <2>3. Append(s, x) \in Seq(S) /\ Named(s, names) \in Seq(F)
    OBVIOUS
  <2> HIDE DEF F
  <2> QED
    BY <2>1, <2>2, <2>3
<1>3. Seq(S) \subseteq P
  <2> HIDE DEF P
  <2> QED
    BY <1>1, <1>2, GrownSequences
<1> QED
  BY <1>3

\* What is picked of the fields picked before bears both names.
LEMMA NamedTwice ==
    ASSUME NEW S, NEW A, NEW B, NEW h \in Seq(S)
    PROVE  Named(Named(h, A), B) = Named(h, A \cap B)
<1> DEFINE P == {s \in Seq(S) : Named(Named(s, A), B) = Named(s, A \cap B)}
<1>1. <<>> \in P
  BY NamedOfEmpty
<1>2. ASSUME NEW s \in P \cap Seq(S), NEW x \in S PROVE Append(s, x) \in P
  <2>1. /\ Named(s, A) \in Seq(S)
        /\ Named(Append(s, x), A) =
               IF x.name \in A THEN Append(Named(s, A), x) ELSE Named(s, A)
    BY NamedOfAppend
  <2>2. Named(Append(s, x), A \cap B) =
            IF x.name \in A \cap B THEN Append(Named(s, A \cap B), x) ELSE Named(s, A \cap B)
    BY NamedOfAppend
  <2>3. ASSUME NEW t \in Seq(S)
        PROVE  Named(Append(t, x), B) =
                   IF x.name \in B THEN Append(Named(t, B), x) ELSE Named(t, B)
    BY NamedOfAppend
  <2>4. Append(s, x) \in Seq(S) /\ Named(Named(s, A), B) = Named(s, A \cap B)
    OBVIOUS
  <2>5. Named(Named(Append(s, x), A), B) = Named(Append(s, x), A \cap B)
    <3>1. CASE x.name \notin A
      BY <2>1, <2>2, <2>4, <3>1
    <3>2. CASE x.name \in A
      <4>1. Named(Append(s, x), A) = Append(Named(s, A), x)
        BY <2>1, <3>2
      <4>2. Named(Append(Named(s, A), x), B) =
                IF x.name \in B THEN Append(Named(Named(s, A), B), x) ELSE Named(Named(s, A), B)
        BY <2>1, <2>3
      <4> QED
        BY <2>2, <2>4, <3>2, <4>1, <4>2
    <3> QED
      BY <3>1, <3>2
  <2> QED
    BY <2>4, <2>5
<1>3. Seq(S) \subseteq P
  <2> HIDE DEF P
  <2> QED
    BY <1>1, <1>2, GrownSequences
<1> QED
  BY <1>3

\* Only the names that occur matter.
LEMMA NamedAlike ==
    ASSUME NEW S, NEW A, NEW B, NEW h \in Seq(S), \A x \in S : x.name \in A <=> x.name \in B
    PROVE  Named(h, A) = Named(h, B)
<1> DEFINE P == {s \in Seq(S) : Named(s, A) = Named(s, B)}
<1>1. <<>> \in P
  BY NamedOfEmpty
<1>2. ASSUME NEW s \in P \cap Seq(S), NEW x \in S PROVE Append(s, x) \in P
  <2>1. Named(Append(s, x), A) =
            IF x.name \in A THEN Append(Named(s, A), x) ELSE Named(s, A)
    BY NamedOfAppend
  <2>2. Named(Append(s, x), B) =
            IF x.name \in B THEN Append(Named(s, B), x) ELSE Named(s, B)
    BY NamedOfAppend
  <2>3. Append(s, x) \in Seq(S) /\ Named(s, A) = Named(s, B)
    OBVIOUS
  <2>4. Named(Append(s, x), A) = Named(Append(s, x), B)
    BY <2>1, <2>2, <2>3
  <2> QED
    BY <2>3, <2>4
<1>3. Seq(S) \subseteq P
  <2> HIDE DEF P
  <2> QED
    BY <1>1, <1>2, GrownSequences
<1> QED
  BY <1>3

\* Of a name that does not occur there is no field.
LEMMA NamedNone ==
    ASSUME NEW S, NEW A, NEW h \in Seq(S), \A x \in S : x.name \notin A
    PROVE  Named(h, A) = <<>>
<1>1. {x \in S : x.name \in A} = {}
  OBVIOUS
<1>2. Named(h, A) \in Seq({})
  BY <1>1, NamedFields
<1> QED
  BY <1>2
-----------------------------------------------------------------------------
(* The fields of a request on the wire *)

\* The caller's fields that stay, then the two of the transport.
LEMMA SafeHeadersAre ==
    ASSUME NEW r, NEW policy, NEW S, r.headers \in Seq(S),
           ToSet(r.headers) \subseteq S, Identity \in S, TrustedHost(policy) \in S
    PROVE  \E kept \in Seq(S) :
               /\ kept = Named(r.headers, NamesOf(r.headers) \ {"host", "accept-encoding"})
               /\ SafeHeaders(r, policy) = Append(Append(kept, Identity), TrustedHost(policy))
               /\ SafeHeaders(r, policy) \in Seq(S)
<1> DEFINE kept == Named(r.headers, NamesOf(r.headers) \ {"host", "accept-encoding"})
<1>1. kept \in Seq(S)
  <2>1. CASE S = {}
    BY <2>1
  <2>2. CASE S # {}
    BY <2>2, NamedOfAppend
  <2> QED
    BY <2>1, <2>2
<1>2. SafeHeaders(r, policy) = kept \o <<Identity, TrustedHost(policy)>>
  BY DEF SafeHeaders
<1> HIDE DEF kept
<1>3. kept \o <<Identity, TrustedHost(policy)>> = Append(Append(kept, Identity), TrustedHost(policy))
  BY <1>1
<1>4. Append(Append(kept, Identity), TrustedHost(policy)) \in Seq(S)
  BY <1>1
<1> QED
  BY <1>1, <1>2, <1>3, <1>4, Zenon DEF kept

\* The values of fields that were picked.
LEMMA ValuesAre ==
    ASSUME NEW S, NEW h \in Seq(S), NEW name
    PROVE  /\ Values(h, name) \in Seq({x.value : x \in S})
           /\ Len(Values(h, name)) = Len(Named(h, {name}))
           /\ Values(h, name) = <<>> <=> Named(h, {name}) = <<>>
           /\ \A x \in S : Named(h, {name}) = <<x>> => Values(h, name) = <<x.value>>
<1> DEFINE fields == Named(h, {name})
<1>1. Values(h, name) = [i \in DOMAIN fields |-> fields[i].value]
  BY DEF Values
<1>2. fields \in Seq(S)
  <2>1. fields \in Seq({x \in S : x.name \in {name}})
    BY NamedFields
  <2> HIDE DEF fields
  <2> QED
    BY <2>1
<1> HIDE DEF fields
<1>3. DOMAIN fields = 1..Len(fields) /\ Len(fields) \in Nat
  BY <1>2
<1>4. Values(h, name) \in Seq({x.value : x \in S}) /\ Len(Values(h, name)) = Len(fields)
  BY <1>1, <1>2, <1>3
<1>5. Values(h, name) = <<>> <=> fields = <<>>
  BY <1>2, <1>4
<1>6. ASSUME NEW x \in S, fields = <<x>> PROVE Values(h, name) = <<x.value>>
  BY <1>1, <1>3, <1>6
<1> QED
  BY <1>4, <1>5, <1>6 DEF fields

\* Beside the transport's own fields the caller's are as they were: there is one
\* Host and one coding preference, and the framing is the caller's.
LEMMA FieldsOnTheWire ==
    ASSUME NEW r, NEW policy, r.headers \in Seq(ToSet(r.headers))
    PROVE  /\ Values(SafeHeaders(r, policy), "host") = << <<"pinned">> >>
           /\ SafeHeaders(r, policy)[Len(SafeHeaders(r, policy))].name = "host"
           /\ Values(SafeHeaders(r, policy), "accept-encoding") = << <<"identity">> >>
           /\ \A name \in {"content-length", "transfer-encoding"} :
                  Values(SafeHeaders(r, policy), name) = Values(r.headers, name)
<1> DEFINE h == r.headers
           S == ToSet(h) \cup {Identity, TrustedHost(policy)}
           stay == NamesOf(h) \ {"host", "accept-encoding"}
           out == SafeHeaders(r, policy)
<1>1. /\ Identity \in S /\ Identity.name = "accept-encoding" /\ Identity.value = <<"identity">>
      /\ TrustedHost(policy) \in S /\ TrustedHost(policy).name = "host"
      /\ TrustedHost(policy).value = <<"pinned">>
  BY DEF Identity, TrustedHost
<1>2. ToSet(h) \subseteq S
  OBVIOUS
<1>3. h \in Seq(S)
  <2> HIDE DEF S
  <2> QED
    BY <1>2
<1>4. \A x \in ToSet(h) : x.name \in NamesOf(h)
  BY DEF ToSet, NamesOf
<1> HIDE DEF S
<1>5. PICK kept \in Seq(S) : /\ kept = Named(h, stay) /\ out \in Seq(S)
                             /\ out = Append(Append(kept, Identity), TrustedHost(policy))
  BY <1>1, <1>2, <1>3, SafeHeadersAre
<1>6. ASSUME NEW name
      PROVE  /\ Named(kept, {name}) = Named(h, stay \cap {name})
             /\ Named(out, {name}) =
                    IF name = "host" THEN Append(Named(kept, {name}), TrustedHost(policy))
                    ELSE IF name = "accept-encoding" THEN Append(Named(kept, {name}), Identity)
                    ELSE Named(kept, {name})
  <2>1. Named(kept, {name}) = Named(h, stay \cap {name})
    BY <1>3, <1>5, NamedTwice
  <2>2. Append(kept, Identity) \in Seq(S)
    BY <1>1
  <2>3. Named(Append(kept, Identity), {name}) =
            IF Identity.name \in {name} THEN Append(Named(kept, {name}), Identity)
            ELSE Named(kept, {name})
    BY <1>1, NamedOfAppend
  <2>4. Named(out, {name}) =
            IF TrustedHost(policy).name \in {name}
            THEN Append(Named(Append(kept, Identity), {name}), TrustedHost(policy))
            ELSE Named(Append(kept, Identity), {name})
    <3>1. \A t \in Seq(S), x \in S :
              Named(Append(t, x), {name}) =
                  IF x.name \in {name} THEN Append(Named(t, {name}), x) ELSE Named(t, {name})
      BY NamedOfAppend
    <3> QED
      BY <1>1, <1>5, <2>2, <3>1
  <2> QED
    BY <1>1, <2>1, <2>3, <2>4
<1>7. \A name \in {"host", "accept-encoding"} : Named(kept, {name}) = <<>>
  <2> SUFFICES ASSUME NEW name \in {"host", "accept-encoding"} PROVE Named(kept, {name}) = <<>>
    OBVIOUS
  <2>1. \A x \in S : x.name \notin stay \cap {name}
    OBVIOUS
  <2>2. Named(h, stay \cap {name}) = <<>>
    BY <1>3, <2>1, NamedNone
  <2> QED
    BY <1>6, <2>2
<1>8. Named(out, {"host"}) = <<TrustedHost(policy)>> /\ Named(out, {"accept-encoding"}) = <<Identity>>
  <2>1. Append(<<>>, TrustedHost(policy)) = <<TrustedHost(policy)>>
        /\ Append(<<>>, Identity) = <<Identity>>
    OBVIOUS
  <2> QED
    BY <1>6, <1>7, <2>1
<1>9. ASSUME NEW name \in {"content-length", "transfer-encoding"}
      PROVE  Values(out, name) = Values(h, name)
  <2>1. \A x \in ToSet(h) : x.name \in stay \cap {name} <=> x.name \in {name}
    BY <1>4
  <2>2. Named(h, stay \cap {name}) = Named(h, {name})
    BY <2>1, NamedAlike
  <2>3. Named(out, {name}) = Named(h, {name})
    BY <1>6, <2>2
  <2> QED
    BY <2>3 DEF Values
<1>10. Values(out, "host") = << <<"pinned">> >> /\ Values(out, "accept-encoding") = << <<"identity">> >>
  <2> HIDE DEF out
  <2>1. \A name : \A x \in S : Named(out, {name}) = <<x>> => Values(out, name) = <<x.value>>
    BY <1>5, ValuesAre
  <2> QED
    BY <1>1, <1>8, <2>1
<1>11. out[Len(out)].name = "host"
  <2>1. Append(kept, Identity) \in Seq(S)
    BY <1>1
  <2>2. out[Len(out)] = TrustedHost(policy)
    BY <1>1, <1>5, <2>1
  <2> QED
    BY <1>1, <2>2
<1> QED
  BY <1>9, <1>10, <1>11

\* A length that was let through is, as a number, within the budget.
LEMMA DeclaredWithinBudget ==
    ASSUME NEW headers, NEW policy, policy.maxRequest \in Nat \ {0},
           DeclaredAllowed(headers, policy),
           \A i \in DOMAIN Values(headers, "content-length") :
               LET value == Values(headers, "content-length")[i] IN value \in Seq(ToSet(value))
    PROVE  DeclaredBytes(headers) \in 0..policy.maxRequest \cup {Undeclared}
<1> DEFINE lengths == Values(headers, "content-length")
           value == lengths[1]
<1>1. CASE lengths = <<>>
  BY <1>1 DEF DeclaredBytes
<1>2. CASE lengths # <<>>
  <2>1. Len(lengths) = 1 /\ IsDecimal(value) /\ ~ExceedsAsText(value, policy.maxRequest)
    BY <1>2 DEF DeclaredAllowed
  <2>2. DOMAIN lengths = 1..Len(lengths)
    <3>1. lengths = [i \in DOMAIN Named(headers, {"content-length"}) |-> Named(headers, {"content-length"})[i].value]
      BY DEF Values
    <3> QED
      BY <2>1, <3>1
  <2>3. value \in Seq(ToSet(value))
    BY <2>1, <2>2
  <2>4. value \in Seq(Digits)
    <3>1. \A x \in ToSet(value) : x \in Digits
      BY <2>1 DEF IsDecimal, ToSet
    <3> QED
      BY <2>3, <3>1
  <2>5. ~(Number(value) > policy.maxRequest)
    BY <2>1, <2>4, ComparedAsNumbers
  <2>6. DeclaredBytes(headers) = Number(value)
    BY <1>2, <2>4, SignificantPart DEF DeclaredBytes
  <2>7. Number(value) \in Nat
    <3> HIDE DEF value
    <3>1. PICK f \in [0..Len(value) -> Nat] : Number(value) = f[Len(value)]
      BY <2>4, Counting
    <3> QED
      BY <2>4, <3>1, DigitsAre
  <2> QED
    BY <2>5, <2>6, <2>7
<1> QED
  BY <1>1, <1>2
-----------------------------------------------------------------------------
(* The invariant of HttpExchange *)

\* Before the peer has answered.
Unanswered == {"new", "pooled", "connecting", "sending", "writing", "awaiting"}

\* With a connection of the pool.
Occupying == {"connecting", "sending", "writing", "awaiting", "reading"}

\* What the pool may be given, and what the caller may.
Wires == {Outbound(r, Policy) : r \in {q \in Requests : Admissible(q, Policy)}}

Replies == {[status     |-> resp.status,
             headers    |-> resp.headers,
             extensions |-> PublicExtensions(resp)] : resp \in Responses}

\* What each variable ranges over: only an admissible request reaches the pool.
Ranges == /\ phase \in [Exchanges -> PhaseNames]
          /\ wire \in [Exchanges -> Wires \cup {Nothing}]
          /\ source \in [Exchanges -> {"open", "closed"}]
          /\ sent \in [Exchanges -> 0..Policy.maxRequest]
          /\ held \subseteq Exchanges
          /\ reply \in [Exchanges -> Replies \cup {Nothing}]
          /\ read \in [Exchanges -> 0..Policy.maxResponse]

\* Past the preflight an exchange has a request on the wire, unless the
\* preflight denied it: then its body is closed.
Dispatch == \A e \in Exchanges :
                /\ phase[e] \notin {"new", "denied"} => wire[e] # Nothing
                /\ phase[e] = "denied" /\ wire[e] = Nothing => source[e] = "closed"

\* A connection belongs to an exchange that is going on.
Lent == \A e \in held : phase[e] \in Occupying

\* A body that has been sent is as long as the request declares.
Complete == \A e \in Exchanges : phase[e] \in {"awaiting", "reading", "finished"}
                                     => wire[e].declared \in {Undeclared, sent[e]}

\* A reply whose body may be read is coded as identity.
Presented == \A e \in Exchanges :
    /\ phase[e] \in Unanswered => reply[e] = Nothing /\ read[e] = 0
    /\ reply[e] # Nothing =>
           IF Bodyless(wire[e].method, reply[e]) THEN read[e] = 0
           ELSE Values(reply[e].headers, "content-encoding") \in {<<>>, << <<"identity">> >>}

IInv == Ranges /\ Dispatch /\ Lent /\ Complete /\ Presented
-----------------------------------------------------------------------------
(* The requests and the replies *)

\* A request or a reply is not the lack of one.
LEMMA NothingIsNeither == Nothing \notin Wires /\ Nothing \notin Replies
<1>1. DOMAIN Nothing = {"none"}
  BY DEF Nothing
<1>2. ASSUME NEW w \in Wires PROVE w # Nothing
  BY <1>1 DEF Wires, Outbound
<1>3. ASSUME NEW w \in Replies PROVE w # Nothing
  BY <1>1 DEF Replies
<1> QED
  BY <1>2, <1>3

\* A request on the wire has one reading, and declares no more than it may.
LEMMA OnTheWire ==
    ASSUME NEW w \in Wires
    PROVE  /\ Values(w.headers, "host") = << <<"pinned">> >>
           /\ w.headers[Len(w.headers)].name = "host"
           /\ Values(w.headers, "accept-encoding") = << <<"identity">> >>
           /\ Len(Values(w.headers, "content-length"))
                  + Len(Values(w.headers, "transfer-encoding")) <= 1
           /\ Len(w.headers) <= Policy.maxFields
           /\ FieldBytes(w.headers) <= Policy.maxFieldBytes
           /\ w.declared \in 0..Policy.maxRequest \cup {Undeclared}
<1>1. PICK r \in Requests : Admissible(r, Policy) /\ w = Outbound(r, Policy)
  BY DEF Wires
<1> DEFINE out == SafeHeaders(r, Policy)
           lengths == Values(r.headers, "content-length")
<1>2. w.headers = out /\ w.declared = DeclaredBytes(out)
  BY <1>1 DEF Outbound
<1>3. FramingAllowed(r.headers) /\ HeaderLimits(r, Policy) /\ DeclaredAllowed(out, Policy)
  BY <1>1 DEF Admissible
<1>4. r.headers \in Seq(ToSet(r.headers))
  BY RequestsAssumption
<1>5. /\ Values(out, "host") = << <<"pinned">> >>
      /\ out[Len(out)].name = "host"
      /\ Values(out, "accept-encoding") = << <<"identity">> >>
      /\ Values(out, "content-length") = lengths
      /\ Values(out, "transfer-encoding") = Values(r.headers, "transfer-encoding")
  BY <1>4, FieldsOnTheWire
<1>6. Len(lengths) + Len(Values(out, "transfer-encoding")) <= 1
  BY <1>3, <1>5 DEF FramingAllowed
<1>7. Len(out) <= Policy.maxFields /\ FieldBytes(out) <= Policy.maxFieldBytes
  BY <1>3 DEF HeaderLimits
<1>8. \A i \in DOMAIN lengths : lengths[i] \in Seq(ToSet(lengths[i]))
  <2>1. lengths \in Seq({h.value : h \in ToSet(r.headers)})
    BY <1>4, ValuesAre
  <2> HIDE DEF lengths
  <2>2. ASSUME NEW i \in DOMAIN lengths PROVE lengths[i] \in Seq(ToSet(lengths[i]))
    <3>1. PICK h \in ToSet(r.headers) : lengths[i] = h.value
      BY <2>1
    <3>2. h.value \in Seq(ToSet(h.value))
      BY RequestsAssumption
    <3> QED
      BY <3>1, <3>2
  <2> QED
    BY <2>2
<1>9. DeclaredBytes(out) \in 0..Policy.maxRequest \cup {Undeclared}
  <2>1. Policy.maxRequest \in Nat \ {0}
    BY PolicyAssumption
  <2>2. \A i \in DOMAIN Values(out, "content-length") :
            LET value == Values(out, "content-length")[i] IN value \in Seq(ToSet(value))
    BY <1>5, <1>8
  <2> HIDE DEF out, lengths
  <2> QED
    BY <1>3, <2>1, <2>2, DeclaredWithinBudget
<1> HIDE DEF out, lengths
<1> QED
  BY <1>2, <1>5, <1>6, <1>7, <1>9

\* A reply that may be presented has no body, or one coded as identity.
LEMMA ReplyIsReadable ==
    ASSUME NEW e, NEW resp \in Responses, Presentable(wire[e].method, resp, Policy)
    PROVE  /\ Public(e, resp) \in Replies
           /\ ~Bodyless(wire[e].method, Public(e, resp)) =>
                  Values(Public(e, resp).headers, "content-encoding") \in {<<>>, << <<"identity">> >>}
<1>1. /\ Public(e, resp).headers = resp.headers
      /\ Bodyless(wire[e].method, Public(e, resp)) = Bodyless(wire[e].method, resp)
  BY DEF Public, Bodyless
<1>2. ~Bodyless(wire[e].method, resp) =>
          Values(resp.headers, "content-encoding") \in {<<>>, << <<"identity">> >>}
  BY DEF Presentable, DeclaredResponse
<1>3. Public(e, resp) \in Replies
  BY DEF Public, Replies
<1> QED
  BY <1>1, <1>2, <1>3
-----------------------------------------------------------------------------
(* The inductive invariant *)

\* No exchange has begun, and the pool is free.
LEMMA InitialHolds == Init => IInv
<1> SUFFICES ASSUME Init PROVE IInv
  OBVIOUS
<1>1. 0 \in 0..Policy.maxRequest /\ 0 \in 0..Policy.maxResponse
  BY PolicyAssumption
<1>2. Ranges
  BY <1>1 DEF Init, Ranges, None, PhaseNames
<1>3. Dispatch /\ Lent /\ Complete /\ Presented
  BY DEF Init, Dispatch, Lent, Complete, Presented, None, Unanswered
<1> QED
  BY <1>2, <1>3 DEF IInv

\* A request is refused, or put on the wire.
LEMMA PreflightKeeps ==
    ASSUME IInv, NEW e \in Exchanges, NEW r \in Requests, Preflight(e, r)
    PROVE  IInv'
<1> USE DEF IInv, Preflight, To, CloseSource
<1>1. Admissible(r, Policy) => Outbound(r, Policy) \in Wires /\ Outbound(r, Policy) # Nothing
  BY NothingIsNeither DEF Wires
<1>2. Ranges'
  BY <1>1 DEF Ranges, PhaseNames, TimeoutOf
<1>3. Dispatch'
  BY <1>1 DEF Ranges, Dispatch
<1>4. Lent'
  BY DEF Ranges, Lent, Occupying
<1>5. Complete'
  BY DEF Ranges, Complete
<1>6. Presented'
  BY DEF Ranges, Presented, Unanswered
<1> QED
  BY <1>2, <1>3, <1>4, <1>5, <1>6

\* A connection is lent and made.
LEMMA ConnectionKeeps ==
    ASSUME IInv, NEW e \in Exchanges, Acquire(e) \/ Connected(e) \/ Written(e)
    PROVE  IInv'
<1> USE DEF IInv, Acquire, Connected, Written, To
<1>1. Ranges'
  BY DEF Ranges, PhaseNames, TimeoutOf
<1>2. Dispatch'
  BY DEF Ranges, Dispatch
<1>3. Lent'
  BY DEF Ranges, Lent, Occupying
<1>4. Complete'
  BY DEF Ranges, Complete
<1>5. Presented'
  BY DEF Ranges, Presented, Unanswered
<1> QED
  BY <1>1, <1>2, <1>3, <1>4, <1>5

\* An exchange fails or ends: whatever it had is as it was, but its connection.
LEMMA FinishKeeps ==
    ASSUME IInv, NEW e \in Exchanges, NEW p \in {"denied", "failed", "finished"}, Finish(e, p),
           phase[e] \notin {"new", "denied"},
           p = "finished" => phase[e] = "reading",
           source' = source \/ CloseSource(e),
           UNCHANGED <<wire, sent, reply, read>>
    PROVE  IInv'
<1> USE DEF IInv, Finish, To, CloseSource
<1>1. Ranges'
  BY DEF Ranges, PhaseNames
<1>2. Dispatch'
  BY DEF Ranges, Dispatch
<1>3. Lent'
  BY DEF Ranges, Lent
<1>4. Complete'
  BY DEF Ranges, Complete
<1>5. Presented'
  BY DEF Ranges, Presented, Unanswered
<1> QED
  BY <1>1, <1>2, <1>3, <1>4, <1>5

\* A chunk of the body is sent, or denied.
LEMMA UploadKeeps ==
    ASSUME IInv, NEW e \in Exchanges, NEW n \in Chunks, Upload(e, n)
    PROVE  IInv'
<1>1. phase[e] = "sending"
  BY DEF Upload
<1>2. CASE TooMuch(e, sent[e] + n)
  <2>1. BodyDenied(e)
    BY <1>2 DEF Upload
  <2> QED
    BY <1>1, <2>1, FinishKeeps DEF BodyDenied
<1>3. CASE ~TooMuch(e, sent[e] + n)
  <2>1. sent' = [sent EXCEPT ![e] = @ + n] /\ To(e, "writing")
        /\ UNCHANGED <<wire, source, held, reply, read>>
    BY <1>3 DEF Upload
  <2>2. sent[e] + n \in 0..Policy.maxRequest
    BY <1>3, ChunksAssumption, PolicyAssumption DEF TooMuch, IInv, Ranges
  <2> USE DEF IInv, To
  <2>3. Ranges'
    BY <2>1, <2>2 DEF Ranges, PhaseNames, TimeoutOf
  <2>4. Dispatch' /\ Lent' /\ Complete' /\ Presented'
    BY <1>1, <2>1 DEF Ranges, Dispatch, Lent, Complete, Presented, Occupying, Unanswered
  <2> QED
    BY <2>3, <2>4
<1> QED
  BY <1>2, <1>3

\* The body ends, as long as it was declared, or it is denied.
LEMMA UploadEndsKeeps ==
    ASSUME IInv, NEW e \in Exchanges, UploadEnds(e)
    PROVE  IInv'
<1>1. phase[e] = "sending"
  BY DEF UploadEnds
<1>2. CASE wire[e].declared \notin {Undeclared, sent[e]}
  <2>1. BodyDenied(e)
    BY <1>2 DEF UploadEnds
  <2> QED
    BY <1>1, <2>1, FinishKeeps DEF BodyDenied
<1>3. CASE wire[e].declared \in {Undeclared, sent[e]}
  <2>1. To(e, "awaiting") /\ UNCHANGED <<wire, source, sent, held, reply, read>>
    BY <1>3 DEF UploadEnds
  <2> USE DEF IInv, To
  <2>2. Ranges'
    BY <2>1 DEF Ranges, PhaseNames, TimeoutOf
  <2>3. Dispatch' /\ Lent' /\ Presented'
    BY <1>1, <2>1 DEF Ranges, Dispatch, Lent, Presented, Occupying, Unanswered
  <2>4. Complete'
    BY <1>3, <2>1 DEF Ranges, Complete
  <2> QED
    BY <2>2, <2>3, <2>4
<1> QED
  BY <1>2, <1>3

\* The response is presented, or refused.
LEMMA RespondKeeps ==
    ASSUME IInv, NEW e \in Exchanges, NEW resp \in Responses, Respond(e, resp)
    PROVE  IInv'
<1>1. phase[e] = "awaiting"
  BY DEF Respond
<1>2. CASE Presentable(wire[e].method, resp, Policy)
  <2> DEFINE shown == Public(e, resp)
  <2>1. /\ To(e, "reading") /\ reply' = [reply EXCEPT ![e] = shown]
        /\ UNCHANGED <<wire, source, sent, held, read>>
    BY <1>2 DEF Respond
  <2>2. /\ shown \in Replies
        /\ ~Bodyless(wire[e].method, shown) =>
               Values(shown.headers, "content-encoding") \in {<<>>, << <<"identity">> >>}
    BY <1>2, ReplyIsReadable
  <2> HIDE DEF shown
  <2> USE DEF IInv, To
  <2>3. Ranges'
    BY <2>1, <2>2 DEF Ranges, PhaseNames
  <2>4. Dispatch' /\ Lent' /\ Complete'
    BY <1>1, <2>1 DEF Ranges, Dispatch, Lent, Complete, Occupying
  <2>5. read[e] = 0
    BY <1>1 DEF Presented, Unanswered
  <2>6. Presented'
    BY <1>1, <2>1, <2>2, <2>5 DEF Ranges, Presented, Unanswered
  <2> QED
    BY <2>3, <2>4, <2>6
<1>3. CASE ~Presentable(wire[e].method, resp, Policy)
  BY <1>1, <1>3, FinishKeeps DEF Respond
<1> QED
  BY <1>2, <1>3

\* A chunk of the response is given to the caller, or withheld.
LEMMA ReadKeeps ==
    ASSUME IInv, NEW e \in Exchanges, NEW n \in Chunks, Read(e, n)
    PROVE  IInv'
<1>1. phase[e] = "reading" /\ ~Bodyless(wire[e].method, reply[e])
  BY DEF Read, InFraming
<1>2. CASE read[e] + n > Policy.maxResponse
  BY <1>1, <1>2, FinishKeeps DEF Read
<1>3. CASE ~(read[e] + n > Policy.maxResponse)
  <2>1. read' = [read EXCEPT ![e] = @ + n] /\ UNCHANGED <<phase, held, wire, source, sent, reply>>
    BY <1>3 DEF Read
  <2>2. read[e] + n \in 0..Policy.maxResponse
    BY <1>3, ChunksAssumption, PolicyAssumption DEF IInv, Ranges
  <2> USE DEF IInv
  <2>3. Ranges'
    BY <2>1, <2>2 DEF Ranges
  <2>4. Dispatch' /\ Lent' /\ Complete'
    BY <2>1 DEF Dispatch, Lent, Complete
  <2>5. Presented'
    BY <1>1, <2>1 DEF Ranges, Presented, Unanswered
  <2> QED
    BY <2>3, <2>4, <2>5
<1> QED
  BY <1>2, <1>3

\* The invariant is inductive: every exchange, whichever way the pool, the peer
\* and the callers interleave, keeps the parts it needs for its properties.
THEOREM Inductive == Spec => []IInv
<1>1. ASSUME IInv, Next PROVE IInv'
  <2>1. PICK e \in Exchanges :
            \/ \E r \in Requests : Preflight(e, r)
            \/ Acquire(e) \/ Connected(e) \/ Written(e)
            \/ \E n \in Chunks : Upload(e, n) \/ Read(e, n)
            \/ UploadEnds(e) \/ TimesOut(e) \/ Fails(e)
            \/ \E resp \in Responses : Respond(e, resp)
            \/ Interrupted(e) \/ Done(e)
    BY <1>1 DEF Next
  <2>2. CASE \E r \in Requests : Preflight(e, r)
    BY <1>1, <2>2, PreflightKeeps
  <2>3. CASE Acquire(e) \/ Connected(e) \/ Written(e)
    BY <1>1, <2>3, ConnectionKeeps
  <2>4. CASE \E n \in Chunks : Upload(e, n) \/ Read(e, n)
    BY <1>1, <2>4, UploadKeeps, ReadKeeps
  <2>5. CASE UploadEnds(e)
    BY <1>1, <2>5, UploadEndsKeeps
  <2>6. CASE TimesOut(e) \/ Fails(e) \/ Interrupted(e)
    <3>1. phase[e] \notin {"new", "denied"} /\ Finish(e, "failed")
          /\ UNCHANGED <<wire, source, sent, reply, read>>
      BY <2>6 DEF TimesOut, Fails, Interrupted, TimeoutOf
    <3> QED
      BY <1>1, <3>1, FinishKeeps
  <2>7. CASE \E resp \in Responses : Respond(e, resp)
    BY <1>1, <2>7, RespondKeeps
  <2>8. CASE Done(e)
    <3>1. phase[e] = "reading" /\ UNCHANGED <<wire, source, sent, reply, read>>
      BY <2>8 DEF Done
    <3>2. PICK p \in {"finished", "failed"} : Finish(e, p)
      BY <2>8 DEF Done
    <3> QED
      BY <1>1, <3>1, <3>2, FinishKeeps
  <2> QED
    BY <2>1, <2>2, <2>3, <2>4, <2>5, <2>6, <2>7, <2>8
<1>2. ASSUME IInv, UNCHANGED vars PROVE IInv'
  BY <1>2 DEF vars, IInv, Ranges, Dispatch, Lent, Complete, Presented
<1>3. IInv /\ [Next]_vars => IInv'
  BY <1>1, <1>2
<1> QED
  BY <1>3, InitialHolds, PTL DEF Spec
-----------------------------------------------------------------------------
(* The theorems *)

\* Every variable ranges over what it should, and only requests that were
\* checked and rewritten reach the pool (handle_request).
THEOREM TypeCorrect == Spec => []TypeOK
<1>1. Wires \subseteq {Outbound(r, Policy) : r \in Requests}
  BY DEF Wires
<1>2. IInv => TypeOK
  <2> HIDE DEF PhaseNames
  <2> QED
    BY <1>1 DEF IInv, Ranges, TypeOK
<1> QED
  BY <1>2, Inductive, PTL

\* Whatever headers the caller gives, a request on the wire has one Host, the
\* validated one, one coding preference and at most one framing signal, and fits
\* the limits (build_safe_request_headers).
THEOREM OneReading == Spec => []OneReadingOfTheRequest
<1>1. ASSUME IInv PROVE OneReadingOfTheRequest
  <2> SUFFICES ASSUME NEW e \in Dispatched
               PROVE  LET headers == wire[e].headers
                      IN  /\ Values(headers, "host") = << <<"pinned">> >>
                          /\ headers[Len(headers)].name = "host"
                          /\ Values(headers, "accept-encoding") = << <<"identity">> >>
                          /\ Len(Values(headers, "content-length"))
                                 + Len(Values(headers, "transfer-encoding")) <= 1
                          /\ Len(headers) <= Policy.maxFields
                          /\ FieldBytes(headers) <= Policy.maxFieldBytes
    BY DEF OneReadingOfTheRequest
  <2>1. wire[e] \in Wires
    BY <1>1 DEF IInv, Ranges, Dispatched
  <2> QED
    BY <2>1, OnTheWire
<1> QED
  BY <1>1, Inductive, PTL

\* No request declares more than the budget, and one that the peer has to the
\* end is as long as it declared (bounded_request_stream).
THEOREM DeclaredBodies == Spec => []BodyAsDeclared
<1>1. ASSUME IInv PROVE BodyAsDeclared
  <2> SUFFICES ASSUME NEW e \in Dispatched
               PROVE  /\ wire[e].declared = Undeclared \/ wire[e].declared <= Policy.maxRequest
                      /\ phase[e] \in {"awaiting", "reading", "finished"}
                             => wire[e].declared \in {Undeclared, sent[e]}
    BY DEF BodyAsDeclared
  <2>1. e \in Exchanges /\ wire[e] \in Wires
    BY <1>1 DEF IInv, Ranges, Dispatched
  <2>2. wire[e].declared \in 0..Policy.maxRequest \cup {Undeclared}
    BY <2>1, OnTheWire
  <2>3. wire[e].declared = Undeclared \/ wire[e].declared <= Policy.maxRequest
    BY <2>2, PolicyAssumption
  <2> QED
    BY <1>1, <2>1, <2>3 DEF IInv, Complete
<1> QED
  BY <1>1, Inductive, PTL

\* However much a decoder expands a body, the caller is not given more than the
\* budget (bounded_response_stream).
THEOREM DecodedBudget == Spec => []DecodedWithinBudget
<1>1. ASSUME IInv PROVE DecodedWithinBudget
  <2> SUFFICES ASSUME NEW e \in Exchanges, reply[e] # Nothing
               PROVE  LET codings == Values(reply[e].headers, "content-encoding")
                          factor == IF codings \in {<<>>, << <<"identity">> >>} THEN 1
                                    ELSE Expansion
                      IN  read[e] * factor <= Policy.maxResponse
    BY DEF DecodedWithinBudget
  <2>1. read[e] \in 0..Policy.maxResponse /\ Policy.maxResponse \in Nat
    BY <1>1, PolicyAssumption DEF IInv, Ranges
  <2>2. CASE Values(reply[e].headers, "content-encoding") \in {<<>>, << <<"identity">> >>}
    BY <2>1, <2>2
  <2>3. CASE Values(reply[e].headers, "content-encoding") \notin {<<>>, << <<"identity">> >>}
    <3>1. read[e] = 0
      BY <1>1, <2>3 DEF IInv, Presented
    <3> QED
      BY <2>1, <2>3, <3>1, ExpansionAssumption
  <2> QED
    BY <2>2, <2>3
<1> QED
  BY <1>1, Inductive, PTL

\* Whichever way an exchange ends, its connection is back in the pool, and a
\* body that was not sent is closed (handle_request and its except clauses).
THEOREM NothingHeld == Spec => []NothingHeldWhenOver
<1>1. ASSUME IInv PROVE NothingHeldWhenOver
  BY <1>1 DEF IInv, Lent, Dispatch, Occupying, Dispatched, NothingHeldWhenOver
<1> QED
  BY <1>1, Inductive, PTL
=============================================================================
