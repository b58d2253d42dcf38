-------------------------- MODULE EgressUrlProofs --------------------------
(***************************************************************************)
(* Proofs about EgressUrl, for any names, addresses, policies, URLs and    *)
(* answers: whatever is configured, overwritten or pinned in between, a    *)
(* connection goes to a listed authority, at an address its host may have  *)
(* and that the resolver gave.                                             *)
(***************************************************************************)
EXTENDS EgressUrl, FiniteSetTheorems, SequenceTheorems, WellFoundedInduction, TLAPS

\* Where a result comes from: a URL and an answer that the policy of then let pass.
Sound(o) ==
    /\ o.config \in Configs /\ ConfigAllowed(o.config)
    /\ o.url \in Urls /\ UrlAllowed(o.url, PolicyOf(o.config))
    /\ o.answer \in Answers /\ o.answer # <<>>
    /\ AddressesAllowed(Ips(o.answer), NormalizeHost(o.url.host), PolicyOf(o.config))

\* The result of a URL and an answer, with addresses that may have been overwritten.
Stamped(o, ips) == [url       |-> Normalized(o.url),
                    hostname  |-> NormalizeHost(o.url.host),
                    port      |-> EffectivePort(o.url),
                    addresses |-> ips,
                    signature |-> Result(o.url, Ips(o.answer)).signature]

Configured == config \in Configs /\ ConfigAllowed(config)

\* A result bears the signature it was issued with.
Issued == result # Nothing => Sound(origin) /\ result = Stamped(origin, result.addresses)

\* The result of a client passed the policy the client was built under.
Pinned == client # Nothing =>
              /\ client.config \in Configs /\ ConfigAllowed(client.config)
              /\ Sound(client.origin)
              /\ client.result = Stamped(client.origin, client.result.addresses)
              /\ Revalidates(client.result, PolicyOf(client.config))

\* A request went where the client points.
Reached == contacted # Nothing =>
               /\ client # Nothing
               /\ contacted.host = client.result.hostname
               /\ contacted.port = client.result.port
               /\ contacted.scheme = client.result.url.scheme
               /\ \E i \in DOMAIN client.result.addresses :
                      contacted.ip = client.result.addresses[i]

\* A record is of the result at hand, which passes the policy in force.
Recorded == record # Nothing =>
    LET six == {i \in DOMAIN result.addresses : result.addresses[i] \in Version6}
    IN  /\ result # Nothing /\ Revalidates(result, PolicyOf(config))
        /\ record.authority = <<result.hostname, result.port>>
        /\ record.count = Len(result.addresses)
        /\ record.ipv4 = Cardinality(DOMAIN result.addresses \ six)
        /\ record.ipv6 = Cardinality(six)
        /\ record.policy = PolicyFingerprint(PolicyOf(config))

IInv == Configured /\ Issued /\ Pinned /\ Reached /\ Recorded
-----------------------------------------------------------------------------
(* Induction *)

\* Every set of natural numbers that is not empty has a least one.
LEMMA LeastOf ==
    ASSUME NEW T, T \subseteq Nat, T # {}
    PROVE  \E n \in T : \A m \in T : n <= m
<1> DEFINE R == OpToRel(<, Nat)
<1>1. IsWellFoundedOn(R, Nat)
  BY NatLessThanWellFounded
<1>2. R = {p \in Nat \X Nat : p[1] < p[2]}
  BY DEF OpToRel
<1>3. \E x \in T : \A y \in T : ~(<<y, x>> \in R)
  <2> HIDE DEF R
  <2> QED
    BY <1>1, WFMin, Zenon
<1> HIDE DEF R
<1>4. PICK x \in T : \A y \in T : ~(<<y, x>> \in R)
  BY <1>3
<1>5. ASSUME NEW y \in T PROVE x <= y
  <2>1. x \in Nat /\ y \in Nat /\ <<y, x>> \notin R
    BY <1>4
  <2>2. ~(y < x)
    BY <1>2, <2>1
  <2> QED
    BY <2>1, <2>2
<1> QED
  BY <1>5

\* A set that has 0, and with a natural number the next, has them all.
LEMMA AllOf ==
    ASSUME NEW T, 0 \in T, \A n \in T : n \in Nat => n + 1 \in T
    PROVE  Nat \subseteq T
<1> DEFINE X == Nat \ T
<1> SUFFICES ASSUME X # {} PROVE FALSE
  OBVIOUS
<1>1. PICK n \in X : \A m \in X : n <= m
  <2>1. X \subseteq Nat
    OBVIOUS
  <2> HIDE DEF X
  <2> QED
    BY <2>1, LeastOf
<1>2. n # 0
  OBVIOUS
<1>3. n - 1 \in Nat /\ ~(n <= n - 1)
  BY <1>2
<1>4. n - 1 \in T
  BY <1>1, <1>3
<1>5. n - 1 + 1 = n
  OBVIOUS
<1>6. n \in T
  BY <1>3, <1>4, <1>5
<1> QED
  BY <1>6

\* The sequences over a set are those that begin with the empty one and grow by
\* one element: what holds of it, and is kept, holds of all.
LEMMA GrownSequences ==
    ASSUME NEW S, NEW P, <<>> \in P, \A h \in P \cap Seq(S) : \A x \in S : Append(h, x) \in P
    PROVE  Seq(S) \subseteq P
<1> DEFINE T == {n \in Nat : \A h \in Seq(S) : Len(h) = n => h \in P}
<1>1. 0 \in T
  BY EmptySeq
<1>2. ASSUME NEW n \in Nat, n \in T PROVE n + 1 \in T
  <2> SUFFICES ASSUME NEW h \in Seq(S), Len(h) = n + 1 PROVE h \in P
    OBVIOUS
  <2>1. h # <<>>
    OBVIOUS
  <2>2. PICK s \in Seq(S), x \in S : h = Append(s, x)
    BY <2>1, SequenceEmptyOrAppend
  <2>3. Len(s) = n
    BY <2>2
  <2> QED
    BY <1>2, <2>2, <2>3
<1>3. Nat \subseteq T
  <2> HIDE DEF T
  <2> QED
    BY <1>1, <1>2, AllOf
<1> QED
  BY <1>3
-----------------------------------------------------------------------------
(* Each address once *)

\* What is kept of the beginnings of a sequence of addresses.
IsKept(f, s) == f = [i \in 0..Len(s) |-> IF i = 0 THEN <<>>
                                         ELSE IF s[i] \in ToSet(f[i - 1]) THEN f[i - 1]
                                         ELSE Append(f[i - 1], s[i])]

\* There is only one way to keep.
LEMMA KeptUnique ==
    ASSUME NEW S, NEW s \in Seq(S), NEW f, NEW g, IsKept(f, s), IsKept(g, s)
    PROVE  f = g
<1> DEFINE T == {k \in Nat : k <= Len(s) => f[k] = g[k]}
<1>1. 0 \in T
  BY DEF IsKept
<1>2. \A k \in T : k \in Nat => k + 1 \in T
  <2> SUFFICES ASSUME NEW k \in Nat, k \in T, k + 1 <= Len(s) PROVE f[k + 1] = g[k + 1]
    OBVIOUS
  <2>1. k + 1 \in 0..Len(s) /\ k + 1 # 0 /\ k + 1 - 1 = k /\ f[k] = g[k]
    OBVIOUS
  <2>2. ASSUME NEW p, IsKept(p, s)
        PROVE  p[k + 1] = IF s[k + 1] \in ToSet(p[k]) THEN p[k] ELSE Append(p[k], s[k + 1])
    <3>1. \A i \in 0..Len(s) : p[i] = IF i = 0 THEN <<>>
                                     ELSE IF s[i] \in ToSet(p[i - 1]) THEN p[i - 1]
                                     ELSE Append(p[i - 1], s[i])
      BY <2>2, Zenon DEF IsKept
    <3> QED
      BY <2>1, <3>1
  <2> HIDE DEF T
  <2>3. f[k + 1] = IF s[k + 1] \in ToSet(f[k]) THEN f[k] ELSE Append(f[k], s[k + 1])
    BY <2>2
  <2>4. g[k + 1] = IF s[k + 1] \in ToSet(g[k]) THEN g[k] ELSE Append(g[k], s[k + 1])
    BY <2>2
  <2> QED
    BY <2>1, <2>3, <2>4
<1>3. Nat \subseteq T
  <2> HIDE DEF T
  <2> QED
    BY <1>1, <1>2, AllOf
<1>4. \A k \in 0..Len(s) : f[k] = g[k]
  BY <1>3
<1>5. f = [i \in 0..Len(s) |-> f[i]] /\ g = [i \in 0..Len(s) |-> g[i]]
  BY DEF IsKept
<1> HIDE DEF T
<1> QED
  BY <1>4, <1>5

\* The next step of keeping.
LEMMA KeepMore ==
    ASSUME NEW S, NEW s \in Seq(S), NEW x \in S,
           NEW f \in [0..Len(s) -> Seq(S)], IsKept(f, s)
    PROVE  \E g \in [0..(Len(s) + 1) -> Seq(S)] :
               /\ IsKept(g, Append(s, x))
               /\ g[Len(s) + 1] = IF x \in ToSet(f[Len(s)]) THEN f[Len(s)]
                                  ELSE Append(f[Len(s)], x)
<1> DEFINE w == Append(s, x)
           last == IF x \in ToSet(f[Len(s)]) THEN f[Len(s)] ELSE Append(f[Len(s)], x)
           g == [i \in 0..(Len(s) + 1) |-> IF i <= Len(s) THEN f[i] ELSE last]
<1>1. /\ Len(s) \in Nat /\ Len(w) = Len(s) + 1 /\ w[Len(s) + 1] = x
      /\ \A i \in 1..Len(s) : w[i] = s[i]
  OBVIOUS
<1>2. last \in Seq(S)
  BY <1>1
<1>3. /\ \A i \in 0..Len(s) : g[i] = f[i]
      /\ g[Len(s) + 1] = last
  BY <1>1
<1>4. g \in [0..(Len(s) + 1) -> Seq(S)]
  <2> HIDE DEF last
  <2> QED
    BY <1>1, <1>2
<1>5. g = [i \in 0..(Len(s) + 1) |-> g[i]]
  OBVIOUS
<1> HIDE DEF g, w
<1>6. ASSUME NEW i \in 0..(Len(s) + 1)
      PROVE  g[i] = IF i = 0 THEN <<>>
                    ELSE IF w[i] \in ToSet(g[i - 1]) THEN g[i - 1] ELSE Append(g[i - 1], w[i])
  <2>1. CASE i \in 0..Len(s)
    <3>1. f[i] = IF i = 0 THEN <<>>
                 ELSE IF s[i] \in ToSet(f[i - 1]) THEN f[i - 1] ELSE Append(f[i - 1], s[i])
      BY <2>1 DEF IsKept
    <3>2. g[i] = f[i] /\ (i # 0 => g[i - 1] = f[i - 1] /\ w[i] = s[i])
      BY <1>1, <1>3, <2>1
    <3> QED
      BY <3>1, <3>2
  <2>2. CASE i = Len(s) + 1
    <3>1. i # 0 /\ g[i - 1] = f[Len(s)] /\ w[i] = x /\ g[i] = last
      BY <1>1, <1>3, <2>2
    <3> QED
      BY <3>1
  <2> QED
    BY <1>1, <2>1, <2>2
<1>7. IsKept(g, w)
  BY <1>1, <1>5, <1>6 DEF IsKept
<1> QED
  BY <1>3, <1>4, <1>7 DEF w

\* Nothing is kept of nothing.
LEMMA UniqueOfEmpty ==
    /\ Unique(<<>>) = <<>>
    /\ \E f \in [0..Len(<<>>) -> {<<>>}] : IsKept(f, <<>>)
<1> DEFINE g == [i \in 0..0 |-> <<>>]
           kept == CHOOSE f : IsKept(f, <<>>)
<1>0. <<>> \in Seq({}) /\ Len(<<>>) = 0
  OBVIOUS
<1>1. IsKept(g, <<>>)
  BY <1>0 DEF IsKept
<1>2. IsKept(kept, <<>>)
  BY <1>1
<1>3. Unique(<<>>) = kept[Len(<<>>)]
  BY DEF Unique, IsKept
<1>4. kept = g
  BY <1>0, <1>1, <1>2, KeptUnique
<1>5. g \in [0..Len(<<>>) -> {<<>>}] /\ g[Len(<<>>)] = <<>>
  BY <1>0
<1> HIDE DEF g, kept
<1> QED
  BY <1>1, <1>3, <1>4, <1>5

\* Something can be kept of every sequence of addresses.
LEMMA KeptExists ==
    ASSUME NEW S, NEW s \in Seq(S)
    PROVE  \E f \in [0..Len(s) -> Seq(S)] : IsKept(f, s)
<1> DEFINE P == {t \in Seq(S) : \E f \in [0..Len(t) -> Seq(S)] : IsKept(f, t)}
<1>1. <<>> \in P
  <2>1. PICK f \in [0..Len(<<>>) -> {<<>>}] : IsKept(f, <<>>)
    BY UniqueOfEmpty
  <2>2. <<>> \in Seq(S)
    OBVIOUS
  <2>3. f \in [0..Len(<<>>) -> Seq(S)]
    BY <2>2
  <2> QED
    BY <2>1, <2>2, <2>3
<1>2. ASSUME NEW t \in P, NEW x \in S PROVE Append(t, x) \in P
  <2>1. PICK f \in [0..Len(t) -> Seq(S)] : IsKept(f, t)
    OBVIOUS
  <2>2. PICK g \in [0..(Len(t) + 1) -> Seq(S)] : IsKept(g, Append(t, x))
    BY <2>1, KeepMore
  <2>3. Append(t, x) \in Seq(S) /\ Len(Append(t, x)) = Len(t) + 1
    OBVIOUS
  <2> QED
    BY <2>2, <2>3
<1>3. Seq(S) \subseteq P
  <2> HIDE DEF P
  <2> QED
    BY <1>1, <1>2, GrownSequences
<1> QED
  BY <1>3

\* One more address.
LEMMA UniqueOfAppend ==
    ASSUME NEW S, NEW s \in Seq(S), NEW x \in S
    PROVE  /\ Unique(s) \in Seq(S)
           /\ Unique(Append(s, x)) = IF x \in ToSet(Unique(s)) THEN Unique(s)
                                     ELSE Append(Unique(s), x)
<1>1. ASSUME NEW t \in Seq(S), NEW f, IsKept(f, t) PROVE Unique(t) = f[Len(t)]
  <2> DEFINE kept == CHOOSE g : IsKept(g, t)
  <2>1. IsKept(kept, t)
    BY <1>1
  <2>2. Unique(t) = kept[Len(t)]
    BY DEF Unique, IsKept
  <2>3. kept = f
    BY <1>1, <2>1, KeptUnique
  <2> QED
    BY <2>2, <2>3
<1>2. PICK f \in [0..Len(s) -> Seq(S)] : IsKept(f, s)
  BY KeptExists
<1>3. PICK g \in [0..(Len(s) + 1) -> Seq(S)] :
          /\ IsKept(g, Append(s, x))
          /\ g[Len(s) + 1] = IF x \in ToSet(f[Len(s)]) THEN f[Len(s)] ELSE Append(f[Len(s)], x)
  BY <1>2, KeepMore
<1>4. Append(s, x) \in Seq(S) /\ Len(Append(s, x)) = Len(s) + 1 /\ Len(s) \in Nat
  OBVIOUS
<1>5. Unique(s) = f[Len(s)]
  BY <1>1, <1>2
<1>6. Unique(Append(s, x)) = g[Len(s) + 1]
  BY <1>1, <1>3, <1>4
<1> QED
  BY <1>2, <1>3, <1>4, <1>5, <1>6

\* The elements of a longer sequence.
LEMMA SetOfAppend ==
    ASSUME NEW S, NEW s \in Seq(S), NEW x \in S
    PROVE  ToSet(Append(s, x)) = ToSet(s) \cup {x}
<1>1. /\ Len(s) \in Nat /\ DOMAIN s = 1..Len(s) /\ DOMAIN Append(s, x) = 1..(Len(s) + 1)
      /\ Append(s, x)[Len(s) + 1] = x
      /\ \A i \in 1..Len(s) : Append(s, x)[i] = s[i]
  OBVIOUS
<1> DEFINE w == Append(s, x)
<1> HIDE DEF w
<1>2. ASSUME NEW y \in ToSet(w) PROVE y \in ToSet(s) \cup {x}
  <2>1. PICK i \in 1..(Len(s) + 1) : y = w[i]
    BY <1>1 DEF ToSet, w
  <2>2. i = Len(s) + 1 \/ i \in 1..Len(s)
    BY <1>1
  <2> QED
    BY <1>1, <2>1, <2>2 DEF ToSet, w
<1>3. ASSUME NEW y \in ToSet(s) PROVE y \in ToSet(w)
  <2>1. PICK i \in 1..Len(s) : y = s[i]
    BY <1>1 DEF ToSet
  <2>2. i \in 1..(Len(s) + 1) /\ w[i] = y
    BY <1>1, <2>1 DEF w
  <2> QED
    BY <1>1, <2>2 DEF ToSet, w
<1>4. x \in ToSet(w)
  <2>1. Len(s) + 1 \in 1..(Len(s) + 1)
    BY <1>1
  <2> QED
    BY <1>1, <2>1 DEF ToSet, w
<1> QED
  BY <1>2, <1>3, <1>4 DEF w

\* Each address comes once, in the place where it came first.
LEMMA UniqueKeeps ==
    ASSUME NEW S, NEW ips \in Seq(S)
    PROVE  /\ Unique(ips) \in Seq(S)
           /\ ToSet(Unique(ips)) = ToSet(ips)
           /\ IsInjective(Unique(ips))
           /\ \A i, j \in DOMAIN Unique(ips) : i < j =>
                  \E k \in DOMAIN ips : /\ ips[k] = Unique(ips)[i]
                                        /\ \A m \in 1..k : ips[m] # Unique(ips)[j]
<1> DEFINE InOrder(s, u) == \A i, j \in DOMAIN u : i < j =>
                                \E k \in DOMAIN s : /\ s[k] = u[i]
                                                    /\ \A m \in 1..k : s[m] # u[j]
           P == {s \in Seq(S) : /\ ToSet(Unique(s)) = ToSet(s)
                                /\ IsInjective(Unique(s))
                                /\ InOrder(s, Unique(s))}
<1>1. <<>> \in P
  <2>1. Unique(<<>>) = <<>> /\ DOMAIN <<>> = {} /\ <<>> \in Seq(S)
    BY UniqueOfEmpty
  <2> QED
    BY <2>1 DEF IsInjective
<1>2. ASSUME NEW s \in P \cap Seq(S), NEW x \in S PROVE Append(s, x) \in P
  <2> DEFINE u == Unique(s)
             w == Append(s, x)
  <2>1. /\ ToSet(u) = ToSet(s) /\ IsInjective(u) /\ InOrder(s, u) /\ s \in Seq(S)
    OBVIOUS
  <2>2. u \in Seq(S) /\ Unique(w) = IF x \in ToSet(u) THEN u ELSE Append(u, x)
    BY UniqueOfAppend
  <2> HIDE DEF u, P
  <2>3. /\ w \in Seq(S) /\ DOMAIN s = 1..Len(s) /\ Len(s) \in Nat
        /\ DOMAIN w = 1..(Len(s) + 1)
        /\ \A i \in 1..Len(s) : w[i] = s[i]
        /\ w[Len(s) + 1] = x
    BY <2>1
  <2>4. ToSet(w) = ToSet(s) \cup {x}
    BY <2>1, SetOfAppend
  <2> HIDE DEF w
  <2>5. InOrder(w, u)
    <3> SUFFICES ASSUME NEW i \in DOMAIN u, NEW j \in DOMAIN u, i < j
                 PROVE  \E k \in DOMAIN w : w[k] = u[i] /\ \A m \in 1..k : w[m] # u[j]
      OBVIOUS
    <3>1. PICK k \in DOMAIN s : s[k] = u[i] /\ \A m \in 1..k : s[m] # u[j]
      BY <2>1
    <3>2. k \in DOMAIN w /\ \A m \in 1..k : m \in 1..Len(s)
      BY <2>3
    <3> QED
      BY <2>3, <3>1, <3>2
  <2>6. CASE x \in ToSet(u)
    <3>1. Unique(w) = u /\ ToSet(w) = ToSet(s)
      BY <2>1, <2>2, <2>4, <2>6
    <3>2. w \in P
      <4> HIDE DEF InOrder
      <4> QED
        BY <2>1, <2>3, <2>5, <3>1 DEF P
    <3> QED
      BY <3>2 DEF w
  <2>7. CASE x \notin ToSet(u)
    <3> DEFINE v == Append(u, x)
    <3>1. Unique(w) = v
      BY <2>2, <2>7
    <3>2. /\ DOMAIN u = 1..Len(u) /\ Len(u) \in Nat /\ DOMAIN v = 1..(Len(u) + 1)
          /\ \A i \in 1..Len(u) : v[i] = u[i]
          /\ v[Len(u) + 1] = x
      BY <2>2
    <3>3. ToSet(v) = ToSet(u) \cup {x}
      BY <2>2, SetOfAppend
    <3>4. \A i \in 1..Len(u) : u[i] \in ToSet(u)
      BY <3>2 DEF ToSet
    <3> HIDE DEF v
    <3>5. IsInjective(v)
      <4> SUFFICES ASSUME NEW a \in DOMAIN v, NEW b \in DOMAIN v, v[a] = v[b] PROVE a = b
        BY DEF IsInjective
      <4>1. a \in 1..Len(u) \/ a = Len(u) + 1
        BY <3>2
      <4>2. b \in 1..Len(u) \/ b = Len(u) + 1
        BY <3>2
      <4>3. \A c, d \in 1..Len(u) : u[c] = u[d] => c = d
        BY <2>1, <3>2 DEF IsInjective
      <4> QED
        BY <2>7, <3>2, <3>4, <4>1, <4>2, <4>3
    <3>6. InOrder(w, v)
      <4> SUFFICES ASSUME NEW i \in DOMAIN v, NEW j \in DOMAIN v, i < j
                   PROVE  \E k \in DOMAIN w : w[k] = v[i] /\ \A m \in 1..k : w[m] # v[j]
        OBVIOUS
      <4>1. i \in 1..Len(u) /\ v[i] = u[i]
        BY <3>2
      <4>2. CASE j \in 1..Len(u)
        BY <2>5, <3>2, <4>1, <4>2
      <4>3. CASE j = Len(u) + 1
        <5>1. u[i] \in ToSet(s)
          BY <2>1, <3>4, <4>1
        <5>2. PICK k \in DOMAIN s : s[k] = u[i]
          BY <5>1 DEF ToSet
        <5>3. \A m \in 1..k : m \in 1..Len(s) /\ w[m] = s[m] /\ s[m] \in ToSet(s)
          BY <2>3 DEF ToSet
        <5>4. \A m \in 1..k : w[m] # v[j]
          BY <2>1, <2>7, <3>2, <4>3, <5>3
        <5>5. k \in DOMAIN w /\ w[k] = v[i]
          BY <2>3, <4>1, <5>2
        <5> QED
          BY <5>4, <5>5
      <4> QED
        BY <3>2, <4>2, <4>3
    <3>7. ToSet(v) = ToSet(w)
      BY <2>1, <2>4, <3>3
    <3>8. w \in P
      <4> HIDE DEF InOrder
      <4> QED
        BY <2>3, <3>1, <3>5, <3>6, <3>7 DEF P
    <3> QED
      BY <3>8 DEF w
  <2> QED
    BY <2>6, <2>7 DEF w
<1>3. Seq(S) \subseteq P
  <2> HIDE DEF P
  <2> QED
    BY <1>1, <1>2, GrownSequences
<1>4. Unique(ips) \in Seq(S)
  <2>1. CASE S = {}
    BY <2>1, UniqueOfEmpty
  <2>2. CASE S # {}
    BY <2>2, UniqueOfAppend
  <2> QED
    BY <2>1, <2>2
<1> QED
  BY <1>3, <1>4

\* What has each address once stays as it is.
LEMMA UniqueOfDistinct ==
    ASSUME NEW S, NEW ips \in Seq(S), IsInjective(ips)
    PROVE  Unique(ips) = ips
<1> DEFINE P == {s \in Seq(S) : IsInjective(s) => Unique(s) = s}
<1>1. <<>> \in P
  BY UniqueOfEmpty
<1>2. ASSUME NEW s \in P \cap Seq(S), NEW x \in S PROVE Append(s, x) \in P
  <2> SUFFICES ASSUME IsInjective(Append(s, x)) PROVE Unique(Append(s, x)) = Append(s, x)
    OBVIOUS
  <2>1. /\ Len(s) \in Nat /\ DOMAIN s = 1..Len(s) /\ DOMAIN Append(s, x) = 1..(Len(s) + 1)
        /\ Append(s, x)[Len(s) + 1] = x
        /\ \A i \in 1..Len(s) : Append(s, x)[i] = s[i]
    OBVIOUS
  <2>2. IsInjective(s)
    BY <2>1 DEF IsInjective
  <2>3. x \notin ToSet(s)
    <3> SUFFICES ASSUME NEW i \in 1..Len(s), s[i] = x PROVE FALSE
      BY <2>1 DEF ToSet
    <3>1. i \in DOMAIN Append(s, x) /\ Len(s) + 1 \in DOMAIN Append(s, x)
      BY <2>1
    <3>2. i = Len(s) + 1
      BY <2>1, <3>1 DEF IsInjective
    <3> QED
      BY <2>1, <3>2
  <2>4. Unique(s) = s
    BY <2>2
  <2> QED
    BY <2>3, <2>4, UniqueOfAppend
<1>3. Seq(S) \subseteq P
  <2> HIDE DEF P
  <2> QED
    BY <1>1, <1>2, GrownSequences
<1> QED
  BY <1>3
-----------------------------------------------------------------------------
(* URLs, addresses and policies *)

\* A normalised URL is normal, and is the URL it was for every check.
LEMMA NormalizedIsNormal ==
    ASSUME NEW u \in Urls
    PROVE  /\ Normalized(Normalized(u)) = Normalized(u)
           /\ Normalized(u).scheme = Scheme(u)
           /\ NormalizeHost(Normalized(u).host) = NormalizeHost(u.host)
           /\ EffectivePort(Normalized(u)) = EffectivePort(u)
           /\ \A policy : UrlAllowed(Normalized(u), policy) <=> UrlAllowed(u, policy)
<1> DEFINE n == Normalized(u)
           host == [name |-> u.host.name, dots |-> 0]
<1>1. u \in [text   : {"plain", "blank", "garbled"},
             scheme : STRING,
             host   : [name : DOMAIN Kind, dots : Nat],
             port   : Nat \cup {NoPort},
             extra  : {"userinfo", "query", "none"}]
  BY UrlsAssumption
<1>2. n = [text |-> u.text, scheme |-> Scheme(u), host |-> host, port |-> u.port, extra |-> u.extra]
  <2>1. n = [u EXCEPT !.scheme = Scheme(u), !.host = host]
    BY DEF Normalized, NormalizeHost
  <2>2. n = [[u EXCEPT !.scheme = Scheme(u)] EXCEPT !.host = host]
    <3> HIDE DEF n, host
    <3> QED
      BY <2>1
  <2>3. u = [text |-> u.text, scheme |-> u.scheme, host |-> u.host, port |-> u.port,
             extra |-> u.extra]
    BY <1>1
  <2> HIDE DEF host
  <2>4. [u EXCEPT !.scheme = Scheme(u)] =
            [text |-> u.text, scheme |-> Scheme(u), host |-> u.host, port |-> u.port,
             extra |-> u.extra]
    BY <2>3
  <2> QED
    BY <2>2, <2>4
<1> HIDE DEF n
<1>3. /\ n.text = u.text /\ n.scheme = Scheme(u) /\ n.host = host /\ n.port = u.port
      /\ n.extra = u.extra
  BY <1>2
<1>4. Scheme(n) = Scheme(u)
  BY <1>3 DEF Scheme
<1>5. NormalizeHost(n.host) = NormalizeHost(u.host) /\ host.name = u.host.name
  BY <1>3 DEF NormalizeHost
<1>6. EffectivePort(n) = EffectivePort(u)
  BY <1>3, <1>4 DEF EffectivePort
<1>7. Normalized(n) = n
  <2>1. Normalized(n) = [n EXCEPT !.scheme = Scheme(u), !.host = host]
    BY <1>4, <1>5 DEF Normalized, NormalizeHost
  <2> QED
    BY <1>2, <2>1
<1>8. \A policy : UrlAllowed(n, policy) <=> UrlAllowed(u, policy)
  BY <1>3, <1>4, <1>5, <1>6 DEF UrlAllowed
<1> QED
  BY <1>3, <1>5, <1>6, <1>7, <1>8 DEF n

\* The addresses of an answer.
LEMMA IpsAre ==
    ASSUME NEW answer \in Answers
    PROVE  /\ Ips(answer) \in Seq({a.ip : a \in ToSet(answer)})
           /\ ToSet(Ips(answer)) = {a.ip : a \in ToSet(answer)}
           /\ DOMAIN Ips(answer) = 1..Len(answer) /\ Len(answer) \in Nat
           /\ Ips(answer) = <<>> => answer = <<>>
           /\ \A i \in 1..Len(answer) : Ips(answer)[i] = answer[i].ip
<1> DEFINE ips == Ips(answer)
           S == {a.ip : a \in ToSet(answer)}
<1>1. answer \in Seq(ToSet(answer))
  BY AnswersAssumption
<1>2. DOMAIN answer = 1..Len(answer) /\ Len(answer) \in Nat
  BY <1>1
<1>3. ips = [i \in 1..Len(answer) |-> answer[i].ip]
  BY <1>2 DEF Ips
<1>4. \A i \in 1..Len(answer) : answer[i] \in ToSet(answer) /\ answer[i].ip \in S
  BY <1>2 DEF ToSet
<1> HIDE DEF S
<1>5. ips \in Seq(S)
  BY <1>2, <1>3, <1>4
<1>6. ToSet(ips) = S
  <2>1. ToSet(ips) = {answer[i].ip : i \in 1..Len(answer)}
    BY <1>3 DEF ToSet
  <2>2. ToSet(answer) = {answer[i] : i \in 1..Len(answer)}
    BY <1>2 DEF ToSet
  <2> QED
    BY <2>1, <2>2 DEF S
<1>7. ips = <<>> => answer = <<>>
  BY <1>1, <1>2, <1>3
<1> QED
  BY <1>2, <1>3, <1>5, <1>6, <1>7 DEF S

\* Addresses pass as they come, or each once.
LEMMA UniqueIsAllowed ==
    ASSUME NEW S, NEW ips \in Seq(S), NEW name, NEW policy
    PROVE  AddressesAllowed(Unique(ips), name, policy) <=> AddressesAllowed(ips, name, policy)
<1>1. /\ Unique(ips) \in Seq(S) /\ ToSet(Unique(ips)) = ToSet(ips)
      /\ IsInjective(Unique(ips))
  BY UniqueKeeps
<1>2. Unique(Unique(ips)) = Unique(ips)
  BY <1>1, UniqueOfDistinct
<1>3. ASSUME NEW s
      PROVE  (\A i \in DOMAIN s : AddressAllowed(s[i], name, policy))
                 <=> \A ip \in ToSet(s) : AddressAllowed(ip, name, policy)
  BY DEF ToSet
<1>4. (\A i \in DOMAIN Unique(ips) : AddressAllowed(Unique(ips)[i], name, policy))
          <=> \A i \in DOMAIN ips : AddressAllowed(ips[i], name, policy)
  BY <1>1, <1>3
<1> QED
  BY <1>2, <1>4 DEF AddressesAllowed

\* A result with its signature intact has the addresses it was issued with.
LEMMA GenuineAddresses ==
    ASSUME NEW o, NEW ips, Genuine(Stamped(o, ips))
    PROVE  ips = Unique(Ips(o.answer))
<1>1. Stamped(o, ips).addresses = ips
  BY DEF Stamped
<1>2. Stamped(o, ips).signature =
          <<Normalized(o.url), NormalizeHost(o.url.host), EffectivePort(o.url),
            Unique(Ips(o.answer))>>
  BY DEF Stamped, Result
<1>3. Stamped(o, ips).signature[4] = ips
  BY <1>1 DEF Genuine
<1> QED
  BY <1>2, <1>3

\* What was issued under a policy passes it again, unless it was overwritten.
LEMMA IssuedPasses ==
    ASSUME NEW o, Sound(o), NEW ips, Genuine(Stamped(o, ips))
    PROVE  Revalidates(Stamped(o, ips), PolicyOf(o.config))
<1> DEFINE res == Stamped(o, ips)
<1>1. ips = Unique(Ips(o.answer))
  BY GenuineAddresses
<1>2. /\ res.url = Normalized(o.url) /\ res.hostname = NormalizeHost(o.url.host)
      /\ res.port = EffectivePort(o.url) /\ res.addresses = ips
  BY DEF Stamped
<1>3. o.url \in Urls /\ UrlAllowed(o.url, PolicyOf(o.config))
  BY DEF Sound
<1>4. AddressesAllowed(ips, NormalizeHost(o.url.host), PolicyOf(o.config))
  <2>1. Ips(o.answer) \in Seq({a.ip : a \in ToSet(o.answer)})
    BY IpsAre DEF Sound
  <2>2. AddressesAllowed(Ips(o.answer), NormalizeHost(o.url.host), PolicyOf(o.config))
    BY DEF Sound
  <2> QED
    BY <1>1, <2>1, <2>2, UniqueIsAllowed
<1> HIDE DEF res
<1>5. Revalidates(res, PolicyOf(o.config))
  BY <1>2, <1>3, <1>4, NormalizedIsNormal DEF Revalidates, res
<1> QED
  BY <1>5 DEF res

\* A pair that a policy allows is one that its configuration lists.
LEMMA AllowedIsListed ==
    ASSUME NEW c, ConfigAllowed(c), NEW host, NEW port,
           <<host, port>> \in PolicyOf(c).authorities
    PROVE  Listed(c, host, port)
<1>1. CASE c.pairs # {}
  BY <1>1 DEF PolicyOf, Listed
<1>2. CASE c.pairs = {}
  <2>1. <<host, port>> \in Product(c) /\ \A a, b \in Product(c) : a[1] = b[1] \/ a[2] = b[2]
    BY <1>2 DEF PolicyOf, ConfigAllowed
  <2>2. \A h, p : <<h, p>> \in Product(c) <=> h \in {g.name : g \in c.hosts} /\ p \in c.ports
    BY DEF Product, NormalizeHost
  <2>3. host \in {g.name : g \in c.hosts} /\ port \in c.ports
    BY <2>1, <2>2
  <2>4. ASSUME NEW h \in {g.name : g \in c.hosts}, h # host, NEW p \in c.ports, p # port
        PROVE  FALSE
    <3>1. <<h, port>> \in Product(c) /\ <<host, p>> \in Product(c)
      BY <2>2, <2>3
    <3>2. <<h, port>>[1] = <<host, p>>[1] \/ <<h, port>>[2] = <<host, p>>[2]
      BY <2>1, <3>1
    <3> QED
      BY <2>4, <3>2
  <2> QED
    BY <1>2, <2>3, <2>4 DEF Listed
<1> QED
  BY <1>1, <1>2
-----------------------------------------------------------------------------
(* The inductive invariant *)

\* Before a policy is configured there is nothing to vouch for.
LEMMA InitialHolds == Init => IInv
<1> SUFFICES ASSUME Init PROVE IInv
  OBVIOUS
<1>1. Configured
  BY DEF Init, Configured
<1>2. Issued /\ Pinned /\ Reached /\ Recorded
  BY DEF Init, Issued, Pinned, Reached, Recorded
<1> QED
  BY <1>1, <1>2 DEF IInv

\* A result that has just been issued is sound.
LEMMA ValidateIssues ==
    ASSUME Configured, NEW u \in Urls, NEW answer \in Answers, Validate(u, answer)
    PROVE  Issued'
<1>1. CASE ~(/\ UrlAllowed(u, PolicyOf(config))
             /\ answer # <<>>
             /\ AddressesAllowed(Ips(answer), NormalizeHost(u.host), PolicyOf(config)))
  <2>1. result' = Nothing
    BY <1>1 DEF Validate
  <2> QED
    BY <2>1 DEF Issued
<1>2. CASE /\ UrlAllowed(u, PolicyOf(config))
           /\ answer # <<>>
           /\ AddressesAllowed(Ips(answer), NormalizeHost(u.host), PolicyOf(config))
  <2> DEFINE o == [config |-> config, url |-> u, answer |-> answer]
  <2>1. result' = Result(u, Ips(answer)) /\ origin' = o
    BY <1>2 DEF Validate
  <2>2. o.config = config /\ o.url = u /\ o.answer = answer
    OBVIOUS
  <2> HIDE DEF o
  <2>3. Sound(o)
    BY <1>2, <2>2 DEF Sound, Configured
  <2>4. Result(u, Ips(answer)) = Stamped(o, Result(u, Ips(answer)).addresses)
    BY <2>2 DEF Result, Stamped
  <2> QED
    BY <2>1, <2>3, <2>4 DEF Issued
<1> QED
  BY <1>1, <1>2

\* A result that is overwritten keeps its signature.
LEMMA OverwriteIssues ==
    ASSUME Issued, NEW ips, Overwrite(ips)
    PROVE  Issued'
<1>1. /\ result # Nothing /\ result' = [result EXCEPT !.addresses = ips] /\ origin' = origin
  BY DEF Overwrite
<1>2. Sound(origin) /\ result = Stamped(origin, result.addresses)
  BY <1>1 DEF Issued
<1>3. result' = Stamped(origin, ips)
  BY <1>1, <1>2 DEF Stamped
<1>4. result'.addresses = ips
  BY <1>3 DEF Stamped
<1> QED
  BY <1>1, <1>2, <1>3, <1>4 DEF Issued

\* The invariant is inductive: whatever the program configures, validates,
\* overwrites, pins and requests, in any order, a result's signature and a
\* client's policy vouch for what they vouched for when they were given.
THEOREM Inductive == Spec => []IInv
<1>1. ASSUME IInv, Next PROVE IInv'
  <2>1. ASSUME NEW c \in Configs, Configure(c) PROVE IInv'
    <3>1. /\ ConfigAllowed(c) /\ config' = c /\ contacted' = Nothing /\ record' = Nothing
          /\ result' = result /\ origin' = origin /\ client' = client
      BY <2>1 DEF Configure, NothingDone
    <3>2. Configured' /\ Reached' /\ Recorded'
      BY <3>1 DEF Configured, Reached, Recorded
    <3>3. Issued' /\ Pinned'
      BY <1>1, <3>1 DEF IInv, Issued, Pinned
    <3> QED
      BY <3>2, <3>3 DEF IInv
  <2>2. ASSUME NEW u \in Urls, NEW answer \in Answers, Validate(u, answer) PROVE IInv'
    <3>1. /\ contacted' = Nothing /\ record' = Nothing /\ config' = config /\ client' = client
      BY <2>2 DEF Validate, NothingDone
    <3>2. Issued'
      BY <1>1, <2>2, ValidateIssues DEF IInv
    <3>3. Configured' /\ Pinned' /\ Reached' /\ Recorded'
      BY <1>1, <3>1 DEF IInv, Configured, Pinned, Reached, Recorded
    <3> QED
      BY <3>2, <3>3 DEF IInv
  <2>3. ASSUME NEW ips \in Forgeries, Overwrite(ips) PROVE IInv'
    <3>1. /\ contacted' = Nothing /\ record' = Nothing /\ config' = config /\ client' = client
      BY <2>3 DEF Overwrite, NothingDone
    <3>2. Issued'
      BY <1>1, <2>3, OverwriteIssues DEF IInv
    <3>3. Configured' /\ Pinned' /\ Reached' /\ Recorded'
      BY <1>1, <3>1 DEF IInv, Configured, Pinned, Reached, Recorded
    <3> QED
      BY <3>2, <3>3 DEF IInv
  <2>4. ASSUME Pin PROVE IInv'
    <3>1. /\ result # Nothing /\ Revalidates(result, PolicyOf(config))
          /\ client' = [result |-> result, config |-> config, origin |-> origin]
          /\ contacted' = Nothing /\ record' = Nothing
          /\ config' = config /\ result' = result /\ origin' = origin
      BY <2>4 DEF Pin, NothingDone
    <3>2. client'.result = result /\ client'.config = config /\ client'.origin = origin
      BY <3>1
    <3>3. Configured /\ Sound(origin) /\ result = Stamped(origin, result.addresses)
      BY <1>1, <3>1 DEF IInv, Issued
    <3>4. Pinned'
      BY <3>1, <3>2, <3>3 DEF Pinned, Configured
    <3>5. Configured' /\ Issued' /\ Reached' /\ Recorded'
      BY <1>1, <3>1 DEF IInv, Configured, Issued, Reached, Recorded
    <3> QED
      BY <3>4, <3>5 DEF IInv
  <2>5. ASSUME NEW u \in Urls, Request(u) PROVE IInv'
    <3>1. /\ client # Nothing /\ record' = Nothing
          /\ Scheme(u) = client.result.url.scheme
          /\ NormalizeHost(u.host) = client.result.hostname
          /\ EffectivePort(u) = client.result.port
          /\ config' = config /\ result' = result /\ origin' = origin /\ client' = client
      BY <2>5 DEF Request
    <3>2. PICK i \in DOMAIN client.result.addresses :
              contacted' = [host |-> NormalizeHost(u.host), port |-> EffectivePort(u),
                            scheme |-> Scheme(u), ip |-> client.result.addresses[i]]
      BY <2>5 DEF Request
    <3>3. /\ contacted'.host = NormalizeHost(u.host) /\ contacted'.port = EffectivePort(u)
          /\ contacted'.scheme = Scheme(u) /\ contacted'.ip = client.result.addresses[i]
      BY <3>2
    <3>4. Reached'
      BY <3>1, <3>3 DEF Reached
    <3>5. Configured' /\ Issued' /\ Pinned' /\ Recorded'
      BY <1>1, <3>1 DEF IInv, Configured, Issued, Pinned, Recorded
    <3> QED
      BY <3>4, <3>5 DEF IInv
  <2>6. ASSUME BuildEvidence PROVE IInv'
    <3> DEFINE six == {i \in DOMAIN result.addresses : result.addresses[i] \in Version6}
    <3>1. /\ result # Nothing /\ Revalidates(result, PolicyOf(config))
          /\ record' = [authority |-> <<result.hostname, result.port>>,
                        count  |-> Len(result.addresses),
                        ipv4   |-> Cardinality(DOMAIN result.addresses \ six),
                        ipv6   |-> Cardinality(six),
                        policy |-> PolicyFingerprint(PolicyOf(config))]
          /\ contacted' = Nothing
          /\ config' = config /\ result' = result /\ origin' = origin /\ client' = client
      BY <2>6 DEF BuildEvidence
    <3>2. Recorded'
      BY <3>1 DEF Recorded
    <3>3. Configured' /\ Issued' /\ Pinned' /\ Reached'
      BY <1>1, <3>1 DEF IInv, Configured, Issued, Pinned, Reached
    <3> QED
      BY <3>2, <3>3 DEF IInv
  <2> QED
    BY <1>1, <2>1, <2>2, <2>3, <2>4, <2>5, <2>6 DEF Next
<1>2. ASSUME IInv, UNCHANGED vars PROVE IInv'
  BY <1>2 DEF vars, IInv, Configured, Issued, Pinned, Reached, Recorded
<1>3. IInv /\ [Next]_vars => IInv'
  BY <1>1, <1>2
<1> QED
  BY <1>3, InitialHolds, PTL DEF Spec
-----------------------------------------------------------------------------
(* The theorems *)

\* What a client's revalidation has established of the request of the last step.
LEMMA WhereItWent ==
    ASSUME IInv, contacted # Nothing
    PROVE  /\ ConfigAllowed(client.config)
           /\ <<contacted.host, contacted.port>> \in PolicyOf(client.config).authorities
           /\ contacted.scheme = "http" =>
                  Kind[contacted.host] = "dev" \/ LocalLabel(contacted.host, PolicyOf(client.config))
           /\ AddressAllowed(contacted.ip, contacted.host, PolicyOf(client.config))
<1> DEFINE policy == PolicyOf(client.config)
           res == client.result
<1>1. /\ ConfigAllowed(client.config) /\ Sound(client.origin) /\ Revalidates(res, policy)
      /\ res = Stamped(client.origin, res.addresses)
      /\ contacted.host = res.hostname /\ contacted.port = res.port
      /\ contacted.scheme = res.url.scheme
      /\ \E i \in DOMAIN res.addresses : contacted.ip = res.addresses[i]
  BY DEF IInv, Reached, Pinned
<1> HIDE DEF policy, res
<1>2. /\ UrlAllowed(res.url, policy) /\ NormalizeHost(res.url.host) = res.hostname
      /\ EffectivePort(res.url) = res.port /\ Normalized(res.url) = res.url
      /\ AddressesAllowed(res.addresses, res.hostname, policy)
  BY <1>1 DEF Revalidates
<1>3. res.url.scheme = Scheme(res.url)
  <2>1. client.origin.url \in Urls /\ res.url = Normalized(client.origin.url)
    BY <1>1 DEF Sound, Stamped
  <2>2. Normalized(client.origin.url).scheme = Scheme(client.origin.url)
    BY <2>1, NormalizedIsNormal
  <2> QED
    BY <2>1, <2>2 DEF Scheme
<1>4. /\ <<contacted.host, contacted.port>> \in policy.authorities
      /\ contacted.scheme = "http" =>
             Kind[contacted.host] = "dev" \/ LocalLabel(contacted.host, policy)
  BY <1>1, <1>2, <1>3 DEF UrlAllowed
<1>5. AddressAllowed(contacted.ip, contacted.host, policy)
  BY <1>1, <1>2 DEF AddressesAllowed
<1> QED
  BY <1>1, <1>4, <1>5 DEF policy

\* Whatever configurations there are, every connection goes to a host and a port
\* that the client's policy lists together (_revalidate_pinned_egress_url and
\* _verify_request_target).
THEOREM ListedOnly == Spec => []OnlyListedAuthorities
<1>1. ASSUME IInv PROVE OnlyListedAuthorities
  <2> SUFFICES ASSUME contacted # Nothing
               PROVE  /\ Listed(client.config, contacted.host, contacted.port)
                      /\ contacted.scheme = "http" => Kind[contacted.host] \in {"dev", "label"}
    BY DEF OnlyListedAuthorities
  <2>1. Listed(client.config, contacted.host, contacted.port)
    BY <1>1, WhereItWent, AllowedIsListed
  <2>2. contacted.scheme = "http" => Kind[contacted.host] \in {"dev", "label"}
    BY <1>1, WhereItWent DEF LocalLabel
  <2> QED
    BY <2>1, <2>2
<1> QED
  BY <1>1, Inductive, PTL

\* Under whatever policy a result was issued, a connection leaves the global
\* network only for a local name and by leave of the client's own policy
\* (_validate_global_address, once more when the client is built).
THEOREM FittingAddress == Spec => []AddressFitsHost
<1>1. ASSUME IInv PROVE AddressFitsHost
  <2> SUFFICES ASSUME contacted # Nothing
               PROVE  LET class == Class[contacted.ip]
                          kind == Kind[contacted.host]
                      IN  /\ class # "other"
                          /\ class = "global" => kind # "dev"
                          /\ class = "loopback" => /\ client.config.allowLocal
                                                   /\ kind \in {"dev", "label"}
                          /\ class = "private" => client.config.allowLocal /\ kind = "label"
    BY DEF AddressFitsHost
  <2>1. AddressAllowed(contacted.ip, contacted.host, PolicyOf(client.config))
    BY <1>1, WhereItWent
  <2>2. PolicyOf(client.config).allowLocal = client.config.allowLocal
    BY DEF PolicyOf
  <2> QED
    BY <2>1, <2>2 DEF AddressAllowed, LocalLabel
<1> QED
  BY <1>1, Inductive, PTL

\* A result nobody touched passes again under the policy that issued it
\* (validate_egress_url_details and _revalidate_pinned_egress_url).
THEOREM PassesAgain == Spec => []GenuineResultsPass
<1>1. ASSUME IInv PROVE GenuineResultsPass
  <2> SUFFICES ASSUME result # Nothing, config = origin.config, Genuine(result)
               PROVE  Revalidates(result, PolicyOf(config))
    BY DEF GenuineResultsPass
  <2>1. Sound(origin) /\ result = Stamped(origin, result.addresses)
    BY <1>1 DEF IInv, Issued
  <2> QED
    BY <2>1, IssuedPasses
<1> QED
  BY <1>1, Inductive, PTL

\* The least of some places.
LEMMA LeastPlace ==
    ASSUME NEW n \in Nat, NEW I \in SUBSET (1..n), I # {}
    PROVE  Min(I) \in I /\ \A k \in I : Min(I) <= k
<1>1. I \subseteq Nat
  OBVIOUS
<1>2. \E m \in I : \A k \in I : m <= k
  BY <1>1, LeastOf
<1> QED
  BY <1>2 DEF Min

\* However a result is passed on, a client has the addresses of its answer, all
\* of them, each once and in their order (_validate_bounded_unique_addresses and
\* the signature).
THEOREM PinsTheAnswer == Spec => []PinnedAsResolved
<1>1. ASSUME IInv PROVE PinnedAsResolved
  <2> SUFFICES ASSUME client # Nothing
               PROVE  LET addresses == client.result.addresses
                          answer == client.origin.answer
                      IN  /\ addresses # <<>> /\ Len(addresses) <= client.config.maxAddresses
                          /\ IsInjective(addresses)
                          /\ ToSet(addresses) = {a.ip : a \in ToSet(answer)}
                          /\ \A i, j \in DOMAIN addresses : i < j =>
                                 SelectInSeq(answer, LAMBDA a : a.ip = addresses[i])
                                     < SelectInSeq(answer, LAMBDA a : a.ip = addresses[j])
    BY DEF PinnedAsResolved
  <2> DEFINE answer == client.origin.answer
             ips == Ips(answer)
             addresses == client.result.addresses
             S == {a.ip : a \in ToSet(answer)}
  <2>1. /\ Sound(client.origin) /\ Revalidates(client.result, PolicyOf(client.config))
        /\ client.result = Stamped(client.origin, addresses)
    BY <1>1 DEF IInv, Pinned
  <2>2. answer \in Answers /\ answer # <<>>
    BY <2>1 DEF Sound
  <2>3. /\ ips \in Seq(S) /\ ToSet(ips) = S /\ DOMAIN ips = 1..Len(answer) /\ Len(answer) \in Nat
        /\ ips # <<>> /\ \A i \in 1..Len(answer) : ips[i] = answer[i].ip
    BY <2>2, IpsAre
  <2>4. addresses = Unique(ips)
    <3>1. Genuine(Stamped(client.origin, addresses))
      BY <2>1 DEF Revalidates
    <3> QED
      BY <3>1, GenuineAddresses
  <2>5. /\ AddressesAllowed(addresses, client.result.hostname, PolicyOf(client.config))
        /\ PolicyOf(client.config).maxAddresses = client.config.maxAddresses
    BY <2>1 DEF Revalidates, PolicyOf
  <2> HIDE DEF answer, ips, addresses, S
  <2>6. /\ addresses \in Seq(S) /\ ToSet(addresses) = S /\ IsInjective(addresses)
        /\ \A i, j \in DOMAIN addresses : i < j =>
               \E k \in DOMAIN ips : /\ ips[k] = addresses[i]
                                     /\ \A m \in 1..k : ips[m] # addresses[j]
    BY <2>3, <2>4, UniqueKeeps
  <2>7. Len(addresses) <= client.config.maxAddresses
    BY <2>5, <2>6, UniqueOfDistinct DEF AddressesAllowed
  <2>8. addresses # <<>>
    <3>1. 1 \in DOMAIN ips
      BY <2>3
    <3>2. ToSet(addresses) # {}
      BY <2>3, <2>6, <3>1 DEF ToSet
    <3> QED
      BY <3>2 DEF ToSet
  <2>9. ASSUME NEW i \in DOMAIN addresses, NEW j \in DOMAIN addresses, i < j
        PROVE  SelectInSeq(answer, LAMBDA a : a.ip = addresses[i])
                   < SelectInSeq(answer, LAMBDA a : a.ip = addresses[j])
    <3> DEFINE p == SelectInSeq(answer, LAMBDA a : a.ip = addresses[i])
               q == SelectInSeq(answer, LAMBDA a : a.ip = addresses[j])
    <3>1. PICK k \in 1..Len(answer) : /\ ips[k] = addresses[i]
                                      /\ \A m \in 1..k : ips[m] # addresses[j]
      BY <2>3, <2>6, <2>9
    <3>2. p \in 1..Len(answer) /\ p <= k
      <4> DEFINE I == {m \in 1..Len(answer) : answer[m].ip = addresses[i]}
      <4>1. k \in I /\ I \subseteq 1..Len(answer)
        BY <2>3, <3>1
      <4>2. p = Min(I)
        <5>1. I # {}
          BY <4>1
        <5> QED
          BY <5>1 DEF SelectInSeq
      <4> HIDE DEF I, p
      <4> QED
        BY <2>3, <4>1, <4>2, LeastPlace
    <3>3. q \in 1..Len(answer) /\ ips[q] = addresses[j]
      <4> DEFINE I == {m \in 1..Len(answer) : answer[m].ip = addresses[j]}
      <4>1. addresses[j] \in ToSet(ips)
        BY <2>3, <2>6 DEF ToSet
      <4>2. \E n \in 1..Len(answer) : ips[n] = addresses[j]
        BY <2>3, <4>1 DEF ToSet
      <4>3. I # {}
        BY <2>3, <4>2
      <4>4. q = Min(I)
        BY <4>3 DEF SelectInSeq
      <4>5. q \in I
        <5>1. I \subseteq 1..Len(answer)
          OBVIOUS
        <5> HIDE DEF I, q
        <5> QED
          BY <2>3, <4>3, <4>4, <5>1, LeastPlace
      <4> HIDE DEF q
      <4> QED
        BY <2>3, <4>5
    <3> HIDE DEF p, q
    <3>4. p < q
      BY <2>3, <3>1, <3>2, <3>3
    <3> QED
      BY <3>4 DEF p, q
  <2> QED
    BY <2>6, <2>7, <2>8, <2>9 DEF addresses, answer, S
<1> QED
  BY <1>1, Inductive, PTL

\* As many as there are places, if each element comes once.
LEMMA CountOfDistinct ==
    ASSUME NEW S, NEW s \in Seq(S), IsInjective(s), NEW V
    PROVE  /\ Cardinality(ToSet(s)) = Len(s)
           /\ Cardinality({i \in DOMAIN s : s[i] \in V}) = Cardinality(ToSet(s) \cap V)
           /\ Cardinality(DOMAIN s \ {i \in DOMAIN s : s[i] \in V})
                  + Cardinality({i \in DOMAIN s : s[i] \in V}) = Len(s)
<1> DEFINE six == {i \in DOMAIN s : s[i] \in V}
           f == [i \in six |-> s[i]]
<1>1. DOMAIN s = 1..Len(s) /\ Len(s) \in Nat
  OBVIOUS
<1>2. IsFiniteSet(DOMAIN s) /\ Cardinality(DOMAIN s) = Len(s)
  BY <1>1, FS_Interval
<1>3. ToSet(s) = {s[i] : i \in DOMAIN s}
  BY DEF ToSet
<1>4. s \in Surjection(DOMAIN s, ToSet(s)) /\ s \in Injection(DOMAIN s, ToSet(s))
  <2>1. s \in [DOMAIN s -> ToSet(s)]
    BY <1>3
  <2> QED
    BY <1>3, <2>1 DEF Surjection, Injection
<1>5. Cardinality(ToSet(s)) = Len(s)
  BY <1>2, <1>4, FS_Surjection
<1>6. six \in SUBSET DOMAIN s
  OBVIOUS
<1>7. IsFiniteSet(six)
  BY <1>2, <1>6, FS_Subset
<1>8. f \in Surjection(six, ToSet(s) \cap V) /\ f \in Injection(six, ToSet(s) \cap V)
  <2>1. f \in [six -> ToSet(s) \cap V]
    BY <1>3
  <2>2. \A t \in ToSet(s) \cap V : \E i \in six : f[i] = t
    BY <1>3
  <2>3. IsInjective(f)
    BY DEF IsInjective
  <2> QED
    BY <2>1, <2>2, <2>3 DEF Surjection, Injection
<1> HIDE DEF f, six
<1>9. Cardinality(six) = Cardinality(ToSet(s) \cap V)
  BY <1>7, <1>8, FS_Surjection
<1>10. Cardinality(DOMAIN s \ six) + Cardinality(six) = Len(s)
  <2>1. Cardinality(DOMAIN s \ six) = Cardinality(DOMAIN s) - Cardinality(DOMAIN s \cap six)
    BY <1>2, FS_Difference
  <2>2. DOMAIN s \cap six = six
    BY <1>6
  <2>3. Cardinality(six) \in Nat
    BY <1>7, FS_CardinalityType
  <2>4. Cardinality(DOMAIN s \ six) = Len(s) - Cardinality(six)
    BY <1>2, <2>1, <2>2
  <2> QED
    BY <1>1, <2>3, <2>4
<1> QED
  BY <1>5, <1>9, <1>10 DEF six

\* A decision record counts what the resolver gave, and every configuration with
\* the recorded fingerprint would decide likewise (build_egress_decision_evidence).
THEOREM RecordsVouch == Spec => []RecordsStandUp
<1>1. ASSUME IInv PROVE RecordsStandUp
  <2> SUFFICES ASSUME record # Nothing
               PROVE  LET answer == origin.answer
                          host == record.authority[1]
                          port == record.authority[2]
                      IN  /\ record.count = Cardinality({a.ip : a \in ToSet(answer)})
                          /\ record.ipv6 = Cardinality({a.ip : a \in ToSet(answer)} \cap Version6)
                          /\ record.ipv4 + record.ipv6 = record.count
                          /\ \A c \in Configs :
                                 ConfigAllowed(c)
                                     /\ PolicyFingerprint(PolicyOf(c)) = record.policy =>
                                     /\ Listed(c, host, port)
                                     /\ UrlAllowed(origin.url, PolicyOf(c))
                                     /\ AddressesAllowed(Ips(answer), host, PolicyOf(c))
    BY DEF RecordsStandUp
  <2> DEFINE six == {i \in DOMAIN result.addresses : result.addresses[i] \in Version6}
             ips == Ips(origin.answer)
             S == {a.ip : a \in ToSet(origin.answer)}
             policy == PolicyOf(config)
  <2>1. /\ result # Nothing /\ Revalidates(result, policy)
        /\ record.authority = <<result.hostname, result.port>>
        /\ record.count = Len(result.addresses)
        /\ record.ipv4 = Cardinality(DOMAIN result.addresses \ six)
        /\ record.ipv6 = Cardinality(six)
        /\ record.policy = PolicyFingerprint(policy)
    BY <1>1 DEF IInv, Recorded
  <2>2. Sound(origin) /\ result = Stamped(origin, result.addresses)
    BY <1>1, <2>1 DEF IInv, Issued
  <2>3. origin.answer \in Answers /\ origin.url \in Urls
    BY <2>2 DEF Sound
  <2>4. ips \in Seq(S) /\ ToSet(ips) = S
    BY <2>3, IpsAre
  <2>5. result.addresses = Unique(ips)
    <3>1. Genuine(Stamped(origin, result.addresses))
      BY <2>1, <2>2 DEF Revalidates
    <3> QED
      BY <3>1, GenuineAddresses
  <2>6. /\ result.url = Normalized(origin.url) /\ result.hostname = NormalizeHost(origin.url.host)
        /\ result.port = EffectivePort(origin.url)
    BY <2>2 DEF Stamped
  <2>7. /\ UrlAllowed(result.url, policy)
        /\ AddressesAllowed(result.addresses, result.hostname, policy)
    BY <2>1 DEF Revalidates
  <2>8. UrlAllowed(origin.url, policy)
    BY <2>3, <2>6, <2>7, NormalizedIsNormal
  <2> HIDE DEF ips, S
  <2>9. AddressesAllowed(ips, result.hostname, policy)
    <3> HIDE DEF policy
    <3> QED
      BY <2>4, <2>5, <2>7, UniqueIsAllowed
  <2>10. /\ record.count = Cardinality(S) /\ record.ipv6 = Cardinality(S \cap Version6)
         /\ record.ipv4 + record.ipv6 = record.count
    <3>1. result.addresses \in Seq(S) /\ IsInjective(result.addresses) /\ ToSet(result.addresses) = S
      BY <2>4, <2>5, UniqueKeeps
    <3>2. /\ Cardinality(S) = Len(result.addresses)
          /\ Cardinality(six) = Cardinality(S \cap Version6)
          /\ Cardinality(DOMAIN result.addresses \ six) + Cardinality(six) = Len(result.addresses)
      BY <3>1, CountOfDistinct
    <3> HIDE DEF six
    <3> QED
      BY <2>1, <3>2
  <2>11. ASSUME NEW c \in Configs, ConfigAllowed(c), PolicyFingerprint(PolicyOf(c)) = record.policy
         PROVE  /\ Listed(c, result.hostname, result.port)
                /\ UrlAllowed(origin.url, PolicyOf(c))
                /\ AddressesAllowed(ips, result.hostname, PolicyOf(c))
    <3>1. PolicyOf(c) = policy
      <4>1. PolicyFingerprint(PolicyOf(c)) = PolicyFingerprint(policy)
        BY <2>1, <2>11
      <4>2. /\ PolicyOf(c).authorities = policy.authorities
            /\ PolicyOf(c).allowLocal = policy.allowLocal
            /\ PolicyOf(c).maxAddresses = policy.maxAddresses
        BY <4>1 DEF PolicyFingerprint
      <4> QED
        BY <4>2 DEF PolicyOf
    <3>2. <<result.hostname, result.port>> \in policy.authorities
      BY <2>6, <2>8 DEF UrlAllowed
    <3>3. Listed(c, result.hostname, result.port)
      BY <2>11, <3>1, <3>2, AllowedIsListed
    <3> QED
      BY <2>8, <2>9, <3>1, <3>3
  <2>12. record.authority[1] = result.hostname /\ record.authority[2] = result.port
    BY <2>1
  <2> QED
    BY <2>10, <2>11, <2>12 DEF ips, S
<1> QED
  BY <1>1, Inductive, PTL
=============================================================================
